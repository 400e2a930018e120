-------------------------- MODULE WireFormatProofs --------------------------
(***************************************************************************)
(* What the operators of WireFormat compute, for every sequence of bytes:  *)
(* sums of lengths, what stands where in bytes that were joined, and what  *)
(* a peer reads where a number, an extension or a frame was written.       *)
(* Induction is over sets of natural numbers, which are well-founded.      *)
(***************************************************************************)
EXTENDS WireFormat, FiniteSetTheorems, SequenceTheorems, TLAPS

-----------------------------------------------------------------------------
(* Recursive functions.                                                    *)

\* A set of numbers has a least one.
LEMMA Least ==
  ASSUME NEW T \in SUBSET Nat, T # {}
  PROVE  \E n \in T : \A m \in T : n <= m
<1>1. IsWellFoundedOn(OpToRel(<, Nat), Nat)
  BY NatLessThanWellFounded
<1>2. PICK x \in T : \A y \in T : ~(<<y, x>> \in OpToRel(<, Nat))
  BY <1>1, WFMin
<1>3. \A y \in T : y \in Nat /\ x \in Nat /\ ~(y < x)
  BY <1>2 DEF OpToRel
<1> QED
  BY <1>3

\* Induction, with a set for the predicate.
LEMMA Induct ==
  ASSUME NEW S, 0 \in S, \A n \in Nat : n \in S => n + 1 \in S
  PROVE  \A n \in Nat : n \in S
<1> SUFFICES ASSUME Nat \ S # {} PROVE FALSE
  OBVIOUS
<1>1. PICK n \in Nat \ S : \A m \in Nat \ S : n <= m
  BY Least
<1>2. n # 0 /\ n \in Nat
  OBVIOUS
<1>3. n - 1 \in Nat /\ n - 1 < n
  BY <1>2
<1>4. n - 1 \in S
  BY <1>1, <1>3
<1>5. (n - 1) + 1 \in S
  BY <1>3, <1>4
<1> QED
  BY <1>2, <1>5

\* f begins with b and goes on by g, N times.
Iterates(f, V, b, N, g) ==
  /\ f \in [0..N -> V]
  /\ f[0] = b /\ \A n \in 1..N : f[n] = g[<<n, f[n - 1]>>]

\* There is such a function.
LEMMA Recursion ==
  ASSUME NEW V, NEW b \in V, NEW N \in Nat, NEW g \in [(1..N) \X V -> V]
  PROVE  \E f : Iterates(f, V, b, N, g)
<1> DEFINE Goes(f, m) == f[0] = b /\ \A n \in 1..m : f[n] = g[<<n, f[n - 1]>>]
           S == {m \in Nat : m <= N => \E f \in [0..m -> V] : Goes(f, m)}
<1>1. 0 \in S
  <2>1. [n \in 0..0 |-> b] \in [0..0 -> V] /\ Goes([n \in 0..0 |-> b], 0)
    OBVIOUS
  <2> QED
    BY <2>1
<1>2. ASSUME NEW m \in Nat, m \in S, m + 1 <= N
      PROVE  \E f \in [0..(m + 1) -> V] : Goes(f, m + 1)
  <2>1. PICK f \in [0..m -> V] : Goes(f, m)
    BY <1>2
  <2>2. PICK v \in V : v = g[<<m + 1, f[m]>>]
    <3>1. m + 1 \in 1..N /\ f[m] \in V
      BY <1>2
    <3>2. <<m + 1, f[m]>> \in (1..N) \X V
      BY <3>1
    <3> QED
      BY <3>2
  <2> DEFINE h == [n \in 0..(m + 1) |-> IF n = m + 1 THEN v ELSE f[n]]
  <2>3. h \in [0..(m + 1) -> V]
    OBVIOUS
  <2>4. h[m + 1] = v /\ \A n \in 0..m : h[n] = f[n]
    OBVIOUS
  <2> HIDE DEF h
  <2>5. h[0] = b
    BY <2>1, <2>4
  <2>6. ASSUME NEW n \in 1..(m + 1)
        PROVE  h[n] = g[<<n, h[n - 1]>>]
    <3>1. CASE n = m + 1
      BY <2>2, <2>4, <3>1
    <3>2. CASE n \in 1..m
      <4>1. n - 1 \in 0..m /\ n \in 0..m
        BY <3>2
      <4> QED
        BY <2>1, <2>4, <3>2, <4>1
    <3> QED
      BY <3>1, <3>2
  <2> QED
    BY <2>3, <2>5, <2>6
<1>3. \A m \in Nat : m \in S => m + 1 \in S
  BY <1>2
<1> HIDE DEF S
<1>4. N \in S
  BY <1>1, <1>3, Induct
<1> QED
  BY <1>4 DEF S, Iterates

\* The sums of a sequence of numbers.
LEMMA SumsFacts ==
  ASSUME NEW s \in Seq(Nat)
  PROVE  /\ Sums(s)[0] = 0
         /\ \A n \in 1..Len(s) : Sums(s)[n] = Sums(s)[n - 1] + s[n]
         /\ \A n \in 0..Len(s) : Sums(s)[n] \in Nat
<1> DEFINE N == Len(s)
           Sum(f) == [n \in 0..N |-> IF n = 0 THEN 0 ELSE f[n - 1] + s[n]]
           g == [p \in (1..N) \X Nat |-> p[2] + s[p[1]]]
<1>1. N \in Nat /\ \A n \in 1..N : s[n] \in Nat
  OBVIOUS
<1>2. g \in [(1..N) \X Nat -> Nat]
  BY <1>1
<1>3. PICK f \in [0..N -> Nat] : f[0] = 0 /\ \A n \in 1..N : f[n] = g[<<n, f[n - 1]>>]
  <2> HIDE DEF g, N
  <2>1. \E f : Iterates(f, Nat, 0, N, g)
    <3>1. 0 \in Nat /\ N \in Nat
      BY <1>1
    <3> QED
      BY <1>2, <3>1, Recursion, Zenon
  <2> QED
    BY <2>1 DEF Iterates
<1>4. f = Sum(f)
  <2>1. ASSUME NEW n \in 1..N PROVE f[n] = f[n - 1] + s[n]
    <3>1. n - 1 \in 0..N
      BY <1>1
    <3>2. f[n - 1] \in Nat
      BY <1>3, <3>1
    <3> QED
      BY <1>3, <3>2
  <2>2. \A n \in 0..N : f[n] = IF n = 0 THEN 0 ELSE f[n - 1] + s[n]
    BY <1>3, <2>1
  <2> QED
    BY <1>3, <2>2
<1>5. Sums(s) = CHOOSE h : h = Sum(h)
  BY DEF Sums
<1>6. Sums(s) = Sum(Sums(s))
  <2> HIDE DEF Sum
  <2> QED
    BY <1>4, <1>5, Zenon
<1>7. \A n \in 1..N : Sums(s)[n] = Sums(s)[n - 1] + s[n]
  BY <1>1, <1>6
<1>8. Sums(s)[0] = 0
  BY <1>1, <1>6
<1>9. \A n \in 0..N : Sums(s)[n] \in Nat
  <2> DEFINE T == {n \in Nat : n <= N => Sums(s)[n] \in Nat}
  <2>1. 0 \in T
    BY <1>8
  <2>2. ASSUME NEW n \in Nat, n \in T, n + 1 <= N PROVE Sums(s)[n + 1] \in Nat
    <3>1. n + 1 \in 1..N /\ (n + 1) - 1 = n /\ Sums(s)[n] \in Nat
      BY <1>1, <2>2
    <3> QED
      BY <1>1, <1>7, <3>1
  <2>3. \A n \in Nat : n \in T => n + 1 \in T
    BY <2>2
  <2> HIDE DEF T
  <2>4. \A n \in Nat : n \in T
    BY <2>1, <2>3, Induct
  <2> QED
    BY <1>1, <2>4 DEF T
<1> QED
  BY <1>7, <1>8, <1>9

-----------------------------------------------------------------------------
(* Bytes in places.                                                        *)

\* What stands behind a, and a itself.
LEMMA Concat ==
  ASSUME NEW S, NEW a \in Seq(S), NEW b \in Seq(S)
  PROVE  /\ a \o b \in Seq(S)
         /\ Len(a \o b) = Len(a) + Len(b)
         /\ \A i \in 1..Len(a) : (a \o b)[i] = a[i]
         /\ \A i \in 1..Len(b) : (a \o b)[Len(a) + i] = b[i]
OBVIOUS

\* Sequences of numbers; below, what is said of them is all that is used of them.
Numbers == Seq(Nat)

\* The bytes q stand in m behind its first p bytes.
Stands(m, p, q) ==
  p \in Nat /\ p + Len(q) <= Len(m) /\ \A k \in 1..Len(q) : m[p + k] = q[k]

\* c is made of a and b.
Joins(c, a, b) == c = a \o b

LEMMA LengthType == \A s \in Numbers : Len(s) \in Nat
BY DEF Numbers

\* The two parts of a concatenation, and what stands in them.
LEMMA StandsInConcat ==
  ASSUME NEW a \in Numbers, NEW b \in Numbers, NEW c, Joins(c, a, b)
  PROVE  /\ c \in Numbers /\ Len(c) = Len(a) + Len(b)
         /\ Len(a) \in Nat /\ Len(b) \in Nat
         /\ Stands(c, 0, a) /\ Stands(c, Len(a), b)
<1>1. /\ c \in Seq(Nat) /\ Len(c) = Len(a) + Len(b) /\ Len(a) \in Nat /\ Len(b) \in Nat
      /\ \A i \in 1..Len(a) : c[i] = a[i]
      /\ \A i \in 1..Len(b) : c[Len(a) + i] = b[i]
  BY Concat DEF Joins, Numbers
<1> QED
  BY <1>1, SMTT(60) DEF Stands, Numbers

\* What stands in what stands in m.
LEMMA StandsInside ==
  ASSUME NEW m \in Numbers, NEW p \in Nat, NEW q \in Numbers, Stands(m, p, q),
         NEW r \in Nat, NEW t \in Numbers, Stands(q, r, t)
  PROVE  Stands(m, p + r, t)
<1>1. /\ Len(m) \in Nat /\ Len(q) \in Nat /\ Len(t) \in Nat
      /\ p + Len(q) <= Len(m) /\ r + Len(t) <= Len(q)
      /\ \A k \in 1..Len(q) : m[p + k] = q[k]
      /\ \A k \in 1..Len(t) : q[r + k] = t[k]
  BY LengthType DEF Stands
<1>2. ASSUME NEW k \in 1..Len(t) PROVE m[(p + r) + k] = t[k]
  <2>1. r + k \in 1..Len(q) /\ (p + r) + k = p + (r + k)
    BY <1>1
  <2> QED
    BY <1>1, <2>1
<1>3. (p + r) \in Nat /\ (p + r) + Len(t) <= Len(m)
  BY <1>1
<1> QED
  BY <1>2, <1>3 DEF Stands

\* All that is used of a concatenation.
LEMMA Joined ==
  ASSUME NEW a \in Numbers, NEW b \in Numbers, NEW c, Joins(c, a, b)
  PROVE  /\ c \in Numbers /\ Len(c) = Len(a) + Len(b)
         /\ Stands(c, 0, a) /\ Stands(c, Len(a), b)
         /\ \A p \in Nat, q \in Numbers : Stands(a, p, q) => Stands(c, p, q)
         /\ \A p \in Nat, q \in Numbers : Stands(b, p, q) => Stands(c, Len(a) + p, q)
<1>1. /\ c \in Numbers /\ Len(c) = Len(a) + Len(b) /\ Len(a) \in Nat
      /\ Stands(c, 0, a) /\ Stands(c, Len(a), b)
  BY StandsInConcat
<1>2. ASSUME NEW p \in Nat, NEW q \in Numbers, Stands(a, p, q) PROVE Stands(c, p, q)
  <2>1. Stands(c, 0 + p, q)
    BY <1>1, <1>2, StandsInside
  <2> QED
    BY <2>1
<1>3. ASSUME NEW p \in Nat, NEW q \in Numbers, Stands(b, p, q)
      PROVE  Stands(c, Len(a) + p, q)
  BY <1>1, <1>3, StandsInside
<1> QED
  BY <1>1, <1>2, <1>3

\* Sequences with the same elements.
LEMMA SameElements ==
  ASSUME NEW S, NEW s \in Seq(S), NEW t \in Seq(S), Len(s) = Len(t),
         \A k \in 1..Len(s) : s[k] = t[k]
  PROVE  s = t
  OBVIOUS

\* The part of m that is read at a place is what stands there.
LEMMA PartIn ==
  ASSUME NEW S, NEW m \in Seq(S), NEW p \in Nat, NEW n \in Nat, p + n <= Len(m)
  PROVE  /\ Part(m, p, n) \in Seq(S) /\ Len(Part(m, p, n)) = n
         /\ \A k \in 1..n : Part(m, p, n)[k] = m[p + k]
<1>1. Len(m) \in Nat /\ \A i \in 1..Len(m) : m[i] \in S
  OBVIOUS
<1>2. \A i \in (p + 1)..(p + n) : m[i] \in S
  BY <1>1
<1>3. PICK u : u = SubSeq(m, p + 1, p + n)
  OBVIOUS
<1>4. /\ u \in Seq(S)
      /\ Len(u) = IF p + 1 <= p + n THEN p + n - (p + 1) + 1 ELSE 0
      /\ \A i \in 1..(p + n - (p + 1) + 1) : u[i] = m[p + 1 + i - 1]
  BY <1>2, <1>3, SubSeqProperties
<1>5. Len(u) = n /\ \A k \in 1..n : u[k] = m[p + k]
  BY <1>4
<1> QED
  BY <1>3, <1>4, <1>5 DEF Part

LEMMA PartOf ==
  ASSUME NEW m \in Numbers, NEW p \in Nat, NEW n \in Nat, p + n <= Len(m)
  PROVE  /\ Part(m, p, n) \in Numbers /\ Len(Part(m, p, n)) = n
         /\ \A k \in 1..n : Part(m, p, n)[k] = m[p + k]
BY PartIn DEF Numbers

LEMMA StandsPart ==
  ASSUME NEW m \in Numbers, NEW p \in Nat, NEW q \in Numbers, Stands(m, p, q)
  PROVE  Part(m, p, Len(q)) = q
<1>1. Len(q) \in Nat /\ p + Len(q) <= Len(m) /\ \A k \in 1..Len(q) : m[p + k] = q[k]
  BY LengthType DEF Stands
<1>2. /\ Part(m, p, Len(q)) \in Numbers /\ Len(Part(m, p, Len(q))) = Len(q)
      /\ \A k \in 1..Len(q) : Part(m, p, Len(q))[k] = q[k]
  BY <1>1, PartOf
<1>3. PICK u \in Numbers : u = Part(m, p, Len(q))
  BY <1>2
<1>4. Len(u) = Len(q) /\ \A k \in 1..Len(q) : u[k] = q[k]
  BY <1>2, <1>3
<1>5. u = q
  BY <1>4, SameElements DEF Numbers
<1> QED
  BY <1>3, <1>5

\* Each of the sequences stands in their concatenation, behind those before it.
LEMMA FlattenFacts ==
  ASSUME NEW ss \in Seq(Numbers), NEW lens, lens = [i \in DOMAIN ss |-> Len(ss[i])]
  PROVE  /\ FlattenSeq(ss) \in Numbers
         /\ Len(FlattenSeq(ss)) = Total(lens)
         /\ \A i \in DOMAIN ss : Stands(FlattenSeq(ss), Sums(lens)[i - 1], ss[i])
<1> DEFINE N == Len(ss)
           Flat(f) == [i \in 1..N |-> IF i = 1 THEN ss[i] ELSE f[i - 1] \o ss[i]]
           g == [p \in (1..N) \X Numbers |-> p[2] \o ss[p[1]]]
           sum == Sums(lens)
<1>1. N \in Nat /\ DOMAIN ss = 1..N /\ \A n \in 1..N : ss[n] \in Numbers
  OBVIOUS
<1>2. lens \in Seq(Nat) /\ Len(lens) = N /\ \A n \in 1..N : lens[n] = Len(ss[n])
  BY <1>1, LengthType
<1>3. /\ sum[0] = 0
      /\ \A n \in 1..N : sum[n] = sum[n - 1] + Len(ss[n])
      /\ \A n \in 0..N : sum[n] \in Nat
      /\ Total(lens) = sum[N]
  BY <1>2, SumsFacts DEF Total
<1>4. CASE N = 0
  <2>1. FlattenSeq(ss) = ss /\ ss = << >>
    BY <1>4 DEF FlattenSeq
  <2> QED
    BY <1>1, <1>3, <1>4, <2>1 DEF Numbers
<1>5. CASE N # 0
  <2>1. g \in [(1..N) \X Numbers -> Numbers]
    BY <1>1, Concat DEF Numbers
  <2>2. PICK f \in [0..N -> Numbers] : f[0] = << >> /\ \A n \in 1..N : f[n] = g[<<n, f[n - 1]>>]
    <3> HIDE DEF g, N
    <3>1. \E f : Iterates(f, Numbers, << >>, N, g)
      <4>1. << >> \in Numbers /\ N \in Nat
        BY <1>1 DEF Numbers
      <4> QED
        BY <2>1, <4>1, Recursion, Zenon
    <3> QED
      BY <3>1 DEF Iterates
  <2>3. ASSUME NEW n \in 1..N PROVE f[n] = f[n - 1] \o ss[n]
    <3>1. n - 1 \in 0..N
      BY <1>1
    <3>2. f[n - 1] \in Numbers
      BY <2>2, <3>1
    <3> QED
      BY <2>2, <3>2
  <2>4. f[1] = ss[1]
    <3>1. 1 \in 1..N /\ 1 - 1 = 0
      BY <1>1, <1>5
    <3>2. f[1] = f[0] \o ss[1]
      BY <2>3, <3>1
    <3>3. f[1] = << >> \o ss[1] /\ ss[1] \in Numbers
      BY <1>1, <2>2, <3>1, <3>2
    <3> QED
      BY <3>3, ConcatEmptySeq DEF Numbers
  <2> DEFINE h == [i \in 1..N |-> f[i]]
  <2>5. h = Flat(h)
    <3>1. \A i \in 1..N : i # 1 => i - 1 \in 1..N
      BY <1>1
    <3> QED
      BY <2>3, <2>4, <3>1
  <2>6. \E x : x = CHOOSE y : y = Flat(y)
    OBVIOUS
  <2>7. PICK flat : flat = Flat(flat) /\ FlattenSeq(ss) = flat[N]
    <3>1. PICK x : x = CHOOSE y : y = Flat(y)
      BY <2>6
    <3>2. FlattenSeq(ss) = x[N]
      BY <1>5, <3>1 DEF FlattenSeq
    <3>3. x = Flat(x)
      <4> HIDE DEF Flat, h
      <4> QED
        BY <2>5, <3>1, Zenon
    <3> QED
      BY <3>2, <3>3
  <2>8. flat[1] = ss[1] /\ \A n \in 1..N : n # 1 => flat[n] = flat[n - 1] \o ss[n]
    <3>1. 1 \in 1..N
      BY <1>1, <1>5
    <3>2. \A n \in 1..N : flat[n] = IF n = 1 THEN ss[n] ELSE flat[n - 1] \o ss[n]
      BY <2>7, Zenon
    <3> QED
      BY <3>1, <3>2
  <2> DEFINE Good(n) == /\ flat[n] \in Numbers /\ Len(flat[n]) = sum[n]
                        /\ \A i \in 1..n : Stands(flat[n], sum[i - 1], ss[i])
             T == {n \in Nat : n + 1 <= N => Good(n + 1)}
  <2> HIDE DEF sum
  <2>9. 0 \in T
    <3>1. 1 \in 1..N /\ sum[1] = Len(ss[1]) /\ ss[1] \in Numbers
      BY <1>1, <1>3, <1>5
    <3>2. Stands(ss[1], 0, ss[1])
      BY <3>1, LengthType DEF Stands
    <3>3. Good(1)
      BY <1>3, <2>8, <3>1, <3>2
    <3> QED
      BY <3>3
  <2>10. ASSUME NEW m \in Nat, m \in T, (m + 1) + 1 <= N PROVE Good((m + 1) + 1)
    <3>1. PICK n \in 1..N : n = m + 1 /\ n + 1 \in 1..N
      BY <1>1, <2>10
    <3>2. /\ flat[n] \in Numbers /\ Len(flat[n]) = sum[n]
          /\ \A i \in 1..n : Stands(flat[n], sum[i - 1], ss[i])
      BY <2>10, <3>1
    <3>3. flat[n + 1] = flat[n] \o ss[n + 1] /\ ss[n + 1] \in Numbers
      <4>1. n + 1 \in 1..N /\ n + 1 # 1 /\ (n + 1) - 1 = n
        BY <1>1, <3>1
      <4> QED
        BY <1>1, <2>8, <4>1
    <3>4. /\ flat[n + 1] \in Numbers
          /\ Len(flat[n + 1]) = Len(flat[n]) + Len(ss[n + 1])
          /\ Stands(flat[n + 1], Len(flat[n]), ss[n + 1])
          /\ \A p \in Nat, q \in Numbers : Stands(flat[n], p, q) => Stands(flat[n + 1], p, q)
      <4>1. PICK a \in Numbers, b \in Numbers : a = flat[n] /\ b = ss[n + 1]
        BY <3>2, <3>3
      <4>2. PICK c : c = flat[n + 1]
        OBVIOUS
      <4>3. Joins(c, a, b) /\ a \in Numbers /\ b \in Numbers
        BY <3>3, <4>1, <4>2 DEF Joins
      <4>4. /\ c \in Numbers
            /\ Len(c) = Len(a) + Len(b)
            /\ Stands(c, Len(a), b)
            /\ \A p \in Nat, q \in Numbers : Stands(a, p, q) => Stands(c, p, q)
        BY <4>3, Joined, Zenon
      <4> QED
        BY <4>1, <4>2, <4>4
    <3>5. Len(flat[n + 1]) = sum[n + 1]
      BY <1>3, <3>1, <3>2, <3>4
    <3>6. ASSUME NEW i \in 1..(n + 1) PROVE Stands(flat[n + 1], sum[i - 1], ss[i])
      <4>1. CASE i = n + 1
        BY <3>2, <3>4, <4>1
      <4>2. CASE i \in 1..n
        <5>1. sum[i - 1] \in Nat /\ ss[i] \in Numbers
          BY <1>1, <1>3, <4>2
        <5> QED
          BY <3>2, <3>4, <4>2, <5>1
      <4> QED
        BY <4>1, <4>2
    <3> QED
      BY <3>1, <3>4, <3>5, <3>6
  <2>11. \A m \in Nat : m \in T => m + 1 \in T
    BY <2>10
  <2> HIDE DEF T
  <2>12. \A m \in Nat : m \in T
    BY <2>9, <2>11, Induct
  <2>13. Good(N)
    <3>1. N - 1 \in Nat /\ (N - 1) + 1 = N
      BY <1>1, <1>5
    <3>2. N - 1 \in T
      BY <2>12, <3>1
    <3> QED
      BY <1>1, <3>1, <3>2 DEF T
  <2> QED
    BY <1>1, <1>3, <2>7, <2>13 DEF sum
<1> QED
  BY <1>4, <1>5

-----------------------------------------------------------------------------
(* Numbers on the wire.                                                    *)

\* Bytes are numbers.
LEMMA BytesAreNumbers ==
  ASSUME NEW s \in Seq(Byte)
  PROVE  s \in Numbers
<1>1. \A b \in Byte : b \in Nat
  BY DEF Byte
<1>2. Len(s) \in Nat /\ \A i \in 1..Len(s) : s[i] \in Byte
  OBVIOUS
<1>3. s \in [1..Len(s) -> Nat]
  BY <1>1, <1>2
<1> QED
  BY <1>2, <1>3, SeqDef DEF Numbers

\* The number that one, two or three bytes stand for.
LEMMA NumberOfBytes ==
  ASSUME NEW s \in Numbers, Len(s) \in 1..3
  PROVE  /\ Len(s) = 1 => PeerNumber(s) = s[1]
         /\ Len(s) = 2 => PeerNumber(s) = s[1] * 256 + s[2]
         /\ Len(s) = 3 => PeerNumber(s) = (s[1] * 256 + s[2]) * 256 + s[3]
<1> DEFINE N == Len(s)
           Number(f) == [n \in 0..N |-> IF n = 0 THEN 0 ELSE f[n - 1] * 256 + s[n]]
           g == [p \in (1..N) \X Nat |-> p[2] * 256 + s[p[1]]]
<1>1. N \in Nat /\ \A n \in 1..N : s[n] \in Nat
  BY DEF Numbers
<1>2. g \in [(1..N) \X Nat -> Nat]
  BY <1>1
<1>3. PICK f \in [0..N -> Nat] : f[0] = 0 /\ \A n \in 1..N : f[n] = g[<<n, f[n - 1]>>]
  <2> HIDE DEF g, N
  <2>1. \E f : Iterates(f, Nat, 0, N, g)
    <3>1. 0 \in Nat /\ N \in Nat
      BY <1>1
    <3> QED
      BY <1>2, <3>1, Recursion, Zenon
  <2> QED
    BY <2>1 DEF Iterates
<1>4. f = Number(f)
  <2>1. ASSUME NEW n \in 1..N PROVE f[n] = f[n - 1] * 256 + s[n]
    <3>1. n - 1 \in 0..N
      BY <1>1
    <3>2. f[n - 1] \in Nat
      BY <1>3, <3>1
    <3> QED
      BY <1>3, <3>2
  <2>2. \A n \in 0..N : f[n] = IF n = 0 THEN 0 ELSE f[n - 1] * 256 + s[n]
    BY <1>3, <2>1
  <2> QED
    BY <1>3, <2>2
<1>5. PICK x : x = Number(x) /\ PeerNumber(s) = x[N]
  <2>1. PICK x : x = CHOOSE y : y = Number(y)
    OBVIOUS
  <2>2. PeerNumber(s) = x[N]
    BY <2>1 DEF PeerNumber
  <2>3. x = Number(x)
    <3> HIDE DEF Number
    <3> QED
      BY <1>4, <2>1, Zenon
  <2> QED
    BY <2>2, <2>3
<1>6. x[0] = 0 /\ \A n \in 1..N : x[n] = x[n - 1] * 256 + s[n]
  <2>1. \A n \in 0..N : x[n] = IF n = 0 THEN 0 ELSE x[n - 1] * 256 + s[n]
    BY <1>5, Zenon
  <2>2. 0 \in 0..N /\ \A n \in 1..N : n \in 0..N /\ n # 0
    BY <1>1
  <2> QED
    BY <2>1, <2>2
<1>7. x[1] = s[1]
  <2>1. 1 \in 1..N /\ 1 - 1 = 0
    BY <1>1
  <2>2. x[1] = x[0] * 256 + s[1]
    BY <1>6, <2>1
  <2> QED
    BY <1>1, <1>6, <2>1, <2>2
<1>8. N > 1 => x[2] = s[1] * 256 + s[2]
  <2> SUFFICES ASSUME N > 1 PROVE x[2] = s[1] * 256 + s[2]
    OBVIOUS
  <2>1. 2 \in 1..N /\ 2 - 1 = 1
    BY <1>1
  <2>2. x[2] = x[1] * 256 + s[2]
    BY <1>6, <2>1
  <2> QED
    BY <1>7, <2>2
<1>9. N > 2 => x[3] = (s[1] * 256 + s[2]) * 256 + s[3]
  <2> SUFFICES ASSUME N > 2 PROVE x[3] = (s[1] * 256 + s[2]) * 256 + s[3]
    OBVIOUS
  <2>1. 3 \in 1..N /\ 3 - 1 = 2
    BY <1>1
  <2>2. x[3] = x[2] * 256 + s[3]
    BY <1>6, <2>1
  <2> QED
    BY <1>1, <1>8, <2>2
<1>10. PeerNumber(s) = x[Len(s)]
  BY <1>5
<1>11. N = 1 => x[N] = s[1]
  BY <1>7
<1>12. N = 2 => x[N] = s[1] * 256 + s[2]
  BY <1>8
<1>13. N = 3 => x[N] = (s[1] * 256 + s[2]) * 256 + s[3]
  BY <1>9
<1> QED
  BY <1>10, <1>11, <1>12, <1>13

\* write_uint16 puts the high byte first.
LEMMA HighByteFirst ==
  ASSUME NEW n \in Uint16
  PROVE  write_uint16(n) = <<n \div 256, n % 256>>
<1> DEFINE hi == n \div 256
           lo == n % 256
<1>1. hi \in 0..255 /\ lo \in 0..255
  <2>1. n \in Nat /\ n < 65536
    BY DEF Uint16
  <2> QED  BY <2>1
<1> HIDE DEF hi, lo
<1>2. htons(n) = lo * 256 + hi
  BY DEF htons, hi, lo
<1>3. (lo * 256 + hi) % 256 = hi /\ (lo * 256 + hi) \div 256 = lo
  BY <1>1
<1> QED
  BY <1>2, <1>3 DEF write_uint16, HostBytes, hi, lo

\* Two bytes and three, whatever the number.
LEMMA WidthsOfNumbers ==
  ASSUME NEW n \in Nat
  PROVE  /\ write_uint16(n) \in Numbers /\ Len(write_uint16(n)) = 2
         /\ HostBytes(n) \in Numbers /\ Len(HostBytes(n)) = 2
         /\ process_uint24(n) \in Numbers /\ Len(process_uint24(n)) = 3
<1>1. \A k \in Nat : k % 256 \in Nat /\ k \div 256 \in Nat
  OBVIOUS
<1>2. \A k \in Nat : HostBytes(k) \in Numbers /\ Len(HostBytes(k)) = 2
  BY <1>1 DEF HostBytes, Numbers
<1>3. htons(n) \in Nat
  <2>1. n % 256 \in Nat /\ n \div 256 \in Nat
    BY <1>1
  <2> QED
    BY <2>1 DEF htons
<1>4. (n \div 65536) % 256 \in Nat /\ (n \div 256) % 256 \in Nat /\ n % 256 \in Nat
  BY SMT
<1>5. process_uint24(n) = <<(n \div 65536) % 256, (n \div 256) % 256, n % 256>>
  BY SMT DEF process_uint24, htonl
<1> QED
  BY <1>2, <1>3, <1>4, <1>5 DEF write_uint16, Numbers

\* A byte by itself.
LEMMA OneNumber ==
  ASSUME NEW a \in Nat
  PROVE  <<a>> \in Numbers /\ Len(<<a>>) = 1 /\ <<a>>[1] = a
BY DEF Numbers

\* What a peer reads where a number was written.
LEMMA ByteRead ==
  ASSUME NEW m \in Numbers, NEW p \in Nat, NEW a \in Nat, Stands(m, p, <<a>>)
  PROVE  m[p + 1] = a /\ p + 1 <= Len(m) /\ PeerNumber(Part(m, p, 1)) = a
<1>1. PICK q : q = <<a>>
  OBVIOUS
<1>2. q \in Numbers /\ Len(q) = 1 /\ q[1] = a
  BY <1>1, OneNumber
<1>3. Part(m, p, 1) = q
  BY <1>1, <1>2, StandsPart
<1>4. PeerNumber(q) = a
  BY <1>2, NumberOfBytes
<1>5. m[p + 1] = a /\ p + 1 <= Len(m)
  BY <1>1, <1>2 DEF Stands
<1> QED
  BY <1>3, <1>4, <1>5

LEMMA Uint16Read ==
  ASSUME NEW m \in Numbers, NEW p \in Nat, NEW n \in Uint16, Stands(m, p, write_uint16(n))
  PROVE  PeerNumber(Part(m, p, 2)) = n /\ p + 2 <= Len(m)
<1>1. PICK q : q = write_uint16(n)
  OBVIOUS
<1>2. n \in Nat /\ n < 65536
  BY DEF Uint16
<1>3. q \in Numbers /\ Len(q) = 2
  BY <1>1, <1>2, WidthsOfNumbers
<1>4. q[1] = n \div 256 /\ q[2] = n % 256
  BY <1>1, HighByteFirst
<1>5. PeerNumber(q) = (n \div 256) * 256 + (n % 256)
  BY <1>3, <1>4, NumberOfBytes
<1>6. (n \div 256) * 256 + (n % 256) = n
  BY <1>2
<1>7. Part(m, p, 2) = q /\ p + 2 <= Len(m)
  BY <1>1, <1>3, StandsPart DEF Stands
<1> QED
  BY <1>5, <1>6, <1>7

LEMMA Uint24Read ==
  ASSUME NEW m \in Numbers, NEW p \in Nat, NEW n \in Uint24, Stands(m, p, process_uint24(n))
  PROVE  PeerNumber(Part(m, p, 3)) = n /\ p + 3 <= Len(m)
<1>1. PICK q : q = process_uint24(n)
  OBVIOUS
<1>2. n \in Nat /\ n < 16777216
  BY SMT DEF Uint24
<1>3. q \in Numbers /\ Len(q) = 3
  BY <1>1, <1>2, WidthsOfNumbers
<1>4. q[1] = (n \div 65536) % 256 /\ q[2] = (n \div 256) % 256 /\ q[3] = n % 256
  BY <1>1, SMT DEF process_uint24, htonl
<1>5. PeerNumber(q) = (((n \div 65536) % 256) * 256 + ((n \div 256) % 256)) * 256 + (n % 256)
  BY <1>3, <1>4, NumberOfBytes
<1>6. (((n \div 65536) % 256) * 256 + ((n \div 256) % 256)) * 256 + (n % 256) = n
  BY <1>2, SMT
<1>7. Part(m, p, 3) = q /\ p + 3 <= Len(m)
  BY <1>1, <1>3, StandsPart DEF Stands
<1> QED
  BY <1>5, <1>6, <1>7

-----------------------------------------------------------------------------
(* Extensions and frames.                                                  *)

\* Type and length of two bytes each, and the data.
LEMMA ExtensionLayout ==
  ASSUME NEW e \in [type : Uint16, data : Seq(Byte)]
  PROVE  /\ ExtensionBytes(e) \in Numbers /\ Len(e.data) \in Nat /\ e.data \in Numbers
         /\ Len(ExtensionBytes(e)) = 4 + Len(e.data)
         /\ Stands(ExtensionBytes(e), 0, write_uint16(e.type) \o write_uint16(Len(e.data)))
         /\ Stands(ExtensionBytes(e), 4, e.data)
<1>1. e.type \in Nat /\ e.data \in Seq(Byte) /\ Len(e.data) \in Nat
  BY DEF Uint16
<1>2. e.data \in Numbers
  BY <1>1, BytesAreNumbers
<1>3. PICK a \in Numbers, b \in Numbers, d \in Numbers :
        /\ a = write_uint16(e.type) /\ b = write_uint16(Len(e.data)) /\ d = e.data
        /\ Len(a) = 2 /\ Len(b) = 2
  BY <1>1, <1>2, WidthsOfNumbers
<1>4. PICK h : h = a \o b /\ Joins(h, a, b)
  BY DEF Joins
<1>5. /\ h \in Numbers /\ Len(h) = Len(a) + Len(b)
  BY <1>4, Joined, Zenon
<1>6. h \in Numbers /\ Len(h) = 4
  BY <1>3, <1>5
<1>7. Joins(ExtensionBytes(e), h, d)
  BY <1>3, <1>4 DEF ExtensionBytes, Joins
<1>8. /\ ExtensionBytes(e) \in Numbers /\ Len(ExtensionBytes(e)) = Len(h) + Len(d)
      /\ Stands(ExtensionBytes(e), 0, h) /\ Stands(ExtensionBytes(e), Len(h), d)
  BY <1>6, <1>7, Joined, Zenon
<1> QED
  BY <1>1, <1>3, <1>4, <1>6, <1>8

\* What is allocated for a list of extensions is what is written, and each stands
\* behind those before it.
LEMMA ExtensionsFilled ==
  ASSUME NEW ea \in ExtensionList
  PROVE  /\ process_extensions(ea).bytes \in Numbers
         /\ process_extensions(ea).length = extensions_length(ea)
         /\ Len(process_extensions(ea).bytes) = extensions_length(ea)
         /\ extensions_length(ea) \in Nat
         /\ \A i \in DOMAIN ea :
              Stands(process_extensions(ea).bytes,
                     Sums([j \in DOMAIN ea |-> 4 + Len(ea[j].data)])[i - 1],
                     ExtensionBytes(ea[i]))
<1> DEFINE ss == [i \in DOMAIN ea |-> ExtensionBytes(ea[i])]
           lens == [i \in DOMAIN ea |-> 4 + Len(ea[i].data)]
<1>1. DOMAIN ea = 1..Len(ea) /\ Len(ea) \in Nat
      /\ \A i \in DOMAIN ea : ea[i] \in [type : Uint16, data : Seq(Byte)]
  <2>1. PICK E : E = [type : Uint16, data : Seq(Byte)] /\ ea \in Seq(E)
    BY DEF ExtensionList
  <2>2. ea \in Seq(E)
    BY <2>1
  <2>3. DOMAIN ea = 1..Len(ea) /\ Len(ea) \in Nat /\ \A i \in DOMAIN ea : ea[i] \in E
    BY <2>2
  <2> QED
    BY <2>1, <2>3
<1>2. \A i \in DOMAIN ea : /\ ExtensionBytes(ea[i]) \in Numbers
                           /\ Len(ExtensionBytes(ea[i])) = 4 + Len(ea[i].data)
                           /\ Len(ea[i].data) \in Nat
  BY <1>1, ExtensionLayout
<1>3. ss \in Seq(Numbers) /\ lens \in Seq(Nat) /\ DOMAIN ss = DOMAIN ea
  BY <1>1, <1>2
<1>4. lens = [i \in DOMAIN ss |-> Len(ss[i])]
  BY <1>2
<1>5. \A i \in DOMAIN ea : ss[i] = ExtensionBytes(ea[i])
  OBVIOUS
<1>6. Len(lens) \in Nat /\ Total(lens) \in Nat
  BY <1>3, SumsFacts DEF Total
<1>7. extensions_length(ea) = Total(lens)
  BY DEF extensions_length
<1>8. process_extensions(ea) = Array(Total(lens), FlattenSeq(ss))
  BY DEF process_extensions, extensions_length
<1> HIDE DEF ss, lens
<1>9. /\ FlattenSeq(ss) \in Numbers /\ Len(FlattenSeq(ss)) = Total(lens)
      /\ \A i \in DOMAIN ss : Stands(FlattenSeq(ss), Sums(lens)[i - 1], ss[i])
  BY <1>3, <1>4, FlattenFacts
<1>10. process_extensions(ea).length = Total(lens)
       /\ process_extensions(ea).bytes = FlattenSeq(ss)
  BY <1>8 DEF Array
<1> QED
  BY <1>3, <1>5, <1>6, <1>7, <1>9, <1>10 DEF lens

\* A list without extensions takes no bytes.
LEMMA NoExtensions == extensions_length(<< >>) = 0
<1>1. [i \in DOMAIN << >> |-> 4 + Len(<< >>[i].data)] = << >>
  OBVIOUS
<1>2. << >> \in Seq(Nat) /\ Len(<< >>) = 0
  OBVIOUS
<1> QED
  BY <1>1, <1>2, SumsFacts DEF extensions_length, Total

\* A message stands in its frame behind its type and its length.
LEMMA HandshakeLayout ==
  ASSUME NEW t \in Nat, NEW b, b.bytes \in Numbers, Filled(b), NEW h, h = process_handshake(t, b)
  PROVE  /\ h.bytes \in Numbers /\ Filled(h) /\ h.length = 4 + b.length
         /\ Stands(h.bytes, 0, <<t>>) /\ Stands(h.bytes, 1, process_uint24(b.length))
         /\ Stands(h.bytes, 4, b.bytes)
<1>1. PICK q \in Numbers : q = b.bytes /\ b.length = Len(q) /\ Len(q) \in Nat
  BY LengthType DEF Filled
<1>2. PICK u, v : u = <<t>> /\ v = process_uint24(Len(q))
  OBVIOUS
<1>3. u \in Numbers /\ Len(u) = 1 /\ v \in Numbers /\ Len(v) = 3
  BY <1>1, <1>2, OneNumber, WidthsOfNumbers
<1>4. PICK w : w = u \o v /\ Joins(w, u, v)
  BY DEF Joins
<1>5. w \in Numbers /\ Len(w) = 4 /\ Stands(w, 0, u) /\ Stands(w, 1, v)
  <2>1. w \in Numbers /\ Len(w) = Len(u) + Len(v) /\ Stands(w, 0, u) /\ Stands(w, Len(u), v)
    BY <1>3, <1>4, Joined, Zenon
  <2> QED
    BY <1>3, <2>1
<1>6. PICK x : x = w \o q /\ Joins(x, w, q)
  BY DEF Joins
<1>7. /\ x \in Numbers /\ Len(x) = 4 + Len(q)
      /\ Stands(x, 0, u) /\ Stands(x, 1, v) /\ Stands(x, 4, q)
  <2>1. /\ x \in Numbers /\ Len(x) = Len(w) + Len(q) /\ Stands(x, Len(w), q)
        /\ \A p \in Nat, r \in Numbers : Stands(w, p, r) => Stands(x, p, r)
    BY <1>5, <1>6, Joined, Zenon
  <2> QED
    BY <1>3, <1>5, <2>1
<1>8. h.bytes = x /\ h.length = 1 + 3 + Len(q)
  BY <1>1, <1>2, <1>4, <1>6 DEF process_handshake, Array
<1>9. h.length = 4 + Len(q)
  BY <1>1, <1>8
<1> QED
  BY <1>1, <1>2, <1>7, <1>8, <1>9 DEF Filled

\* And the message in the record behind five bytes.
LEMMA RecordLayout ==
  ASSUME NEW t \in Nat, NEW v \in Numbers, Len(v) = 2,
         NEW f, f.bytes \in Numbers, Filled(f), NEW r, r = process_record(t, v, f)
  PROVE  /\ r.bytes \in Numbers /\ Filled(r) /\ r.length = 5 + f.length
         /\ Stands(r.bytes, 0, <<t>> \o v) /\ Stands(r.bytes, 3, write_uint16(f.length))
         /\ Stands(r.bytes, 5, f.bytes)
<1>1. PICK q \in Numbers : q = f.bytes /\ f.length = Len(q) /\ Len(q) \in Nat
  BY LengthType DEF Filled
<1>2. PICK u, z : u = <<t>> /\ z = write_uint16(Len(q))
  OBVIOUS
<1>3. u \in Numbers /\ Len(u) = 1 /\ z \in Numbers /\ Len(z) = 2
  BY <1>1, <1>2, OneNumber, WidthsOfNumbers
<1>4. PICK a : a = u \o v /\ Joins(a, u, v)
  BY DEF Joins
<1>5. a \in Numbers /\ Len(a) = 3
  <2>1. a \in Numbers /\ Len(a) = Len(u) + Len(v)
    BY <1>3, <1>4, Joined, Zenon
  <2> QED
    BY <1>3, <2>1
<1>6. PICK w : w = a \o z /\ Joins(w, a, z)
  BY DEF Joins
<1>7. w \in Numbers /\ Len(w) = 5 /\ Stands(w, 0, a) /\ Stands(w, 3, z)
  <2>1. w \in Numbers /\ Len(w) = Len(a) + Len(z) /\ Stands(w, 0, a) /\ Stands(w, Len(a), z)
    BY <1>3, <1>5, <1>6, Joined, Zenon
  <2> QED
    BY <1>3, <1>5, <2>1
<1>8. PICK x : x = w \o q /\ Joins(x, w, q)
  BY DEF Joins
<1>9. /\ x \in Numbers /\ Len(x) = 5 + Len(q)
      /\ Stands(x, 0, a) /\ Stands(x, 3, z) /\ Stands(x, 5, q)
  <2>1. /\ x \in Numbers /\ Len(x) = Len(w) + Len(q) /\ Stands(x, Len(w), q)
        /\ \A p \in Nat, o \in Numbers : Stands(w, p, o) => Stands(x, p, o)
    BY <1>7, <1>8, Joined, Zenon
  <2> QED
    BY <1>3, <1>5, <1>7, <2>1
<1>10. r.bytes = x /\ r.length = 1 + 2 + 2 + Len(q)
  BY <1>1, <1>2, <1>4, <1>6, <1>8 DEF process_record, Array
<1>11. r.length = 5 + Len(q)
  BY <1>1, <1>10
<1> QED
  BY <1>1, <1>2, <1>4, <1>9, <1>10, <1>11 DEF Filled
=============================================================================
