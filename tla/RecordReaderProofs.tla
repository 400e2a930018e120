------------------------- MODULE RecordReaderProofs -------------------------
(***************************************************************************)
(* Proofs about RecordReader, for every set of records a peer may send,    *)
(* every way the stream is cut up and every number of records.             *)
(***************************************************************************)
EXTENDS RecordReader, SequenceTheorems, TLAPS

-----------------------------------------------------------------------------
(* The inductive invariant.                                                *)

\* The records lie in the stream one behind the other.
Framed ==
  /\ Start[1] = 0
  /\ \A n \in 1..Len(sent) : Start[n + 1] = Start[n] + Len(Encode(sent[n].rec))
  /\ \A m, n \in 1..(Len(sent) + 1) : m < n => Start[m] < Start[n]

\* Each as its encoding.
Encoded ==
  \A n \in 1..Len(sent) : \A k \in 1..Len(Encode(sent[n].rec)) :
    stream[Start[n] + k] = Encode(sent[n].rec)[k]

\* What has been delivered is what has been sent, as far as it goes.
DeliveredInOrder ==
  /\ Len(delivered) <= Len(sent)
  /\ \A n \in 1..Len(delivered) : delivered[n] = sent[n].rec

\* Return codes: 0 until the end; -1 is a read of nothing at the start of a record.
CodesTell ==
  /\ rpc # "ended" => rc = 0
  /\ rc = -1 => /\ ~open
                /\ consumed = arrived
                /\ consumed = Start[Len(delivered) + 1]

IInv == TypeOK /\ Framed /\ Encoded /\ DeliveredInOrder /\ InStep /\ CodesTell

-----------------------------------------------------------------------------
(* Bytes.                                                                  *)

\* Where the elements of a concatenation come from.
LEMMA ConcatFacts ==
  ASSUME NEW S, NEW s \in Seq(S), NEW t \in Seq(S), NEW u, u = s \o t
  PROVE  /\ u \in Seq(S)
         /\ Len(s) \in Nat /\ Len(t) \in Nat
         /\ Len(u) = Len(s) + Len(t)
         /\ \A k \in 1..Len(s) : u[k] = s[k]
         /\ \A k \in 1..Len(t) : u[Len(s) + k] = t[k]
<1>1. \A k \in 1..Len(t) : u[Len(s) + k] = t[k]
  <2> TAKE k \in 1..Len(t)
  <2>1. Len(s) + k \in 1..(Len(s) + Len(t)) /\ ~(Len(s) + k <= Len(s))
        /\ Len(s) + k - Len(s) = k
    OBVIOUS
  <2> QED
    BY <2>1
<1> QED
  BY <1>1

\* A length is the two bytes that encode it.
LEMMA TwoBytes ==
  ASSUME NEW L \in Nat, L < ByteSize * ByteSize
  PROVE  /\ L \div ByteSize \in Byte /\ L % ByteSize \in Byte
         /\ (L \div ByteSize) * ByteSize + (L % ByteSize) = L
  BY ByteAssumption DEF Byte

\* The value of two bytes fits the length field.
LEMMA NtohsInRange ==
  ASSUME NEW a \in Byte, NEW b \in Byte
  PROVE  ntohs(<<a, b>>) \in 0..(ByteSize * ByteSize - 1)
<1>1. a * ByteSize <= (ByteSize - 1) * ByteSize
  BY ByteAssumption DEF Byte
<1>2. (ByteSize - 1) * ByteSize = ByteSize * ByteSize - ByteSize
  BY ByteAssumption
<1> QED
  BY <1>1, <1>2, ByteAssumption DEF Byte, ntohs

\* The encoding of a record: a header of five bytes, then the fragment.
LEMMA EncodeFacts ==
  ASSUME NEW r \in PeerRecord
  PROVE  /\ Encode(r) \in Seq(Byte)
         /\ Len(r.fragment) \in Nat
         /\ Len(Encode(r)) = HeaderLength + Len(r.fragment)
         /\ Encode(r)[1] = r.type
         /\ <<Encode(r)[2], Encode(r)[3]>> = r.version
         /\ ntohs(<<Encode(r)[4], Encode(r)[5]>>) = Len(r.fragment)
         /\ \A k \in 1..Len(r.fragment) : Encode(r)[HeaderLength + k] = r.fragment[k]
<1> DEFINE L == Len(r.fragment)
           H == <<r.type, r.version[1], r.version[2], L \div ByteSize, L % ByteSize>>
<1>1. /\ r.type \in Byte /\ r.version \in Byte \X Byte
      /\ r.fragment \in Seq(Byte) /\ L \in Nat /\ L < ByteSize * ByteSize
  BY RecordAssumption
<1>2. L \div ByteSize \in Byte /\ L % ByteSize \in Byte
      /\ (L \div ByteSize) * ByteSize + (L % ByteSize) = L
  BY <1>1, TwoBytes
<1>3. H \in Seq(Byte) /\ Len(H) = 5
  BY <1>1, <1>2
<1>4. /\ H[1] = r.type /\ H[2] = r.version[1] /\ H[3] = r.version[2]
      /\ H[4] = L \div ByteSize /\ H[5] = L % ByteSize
  OBVIOUS
<1> HIDE DEF H
<1>5. Encode(r) = H \o r.fragment
  BY DEF Encode, H
<1>6. /\ Encode(r) \in Seq(Byte) /\ Len(Encode(r)) = 5 + L
      /\ \A k \in 1..5 : Encode(r)[k] = H[k]
      /\ \A k \in 1..L : Encode(r)[5 + k] = r.fragment[k]
  <2>1. /\ Encode(r) \in Seq(Byte) /\ Len(Encode(r)) = Len(H) + L
        /\ \A k \in 1..Len(H) : Encode(r)[k] = H[k]
        /\ \A k \in 1..L : Encode(r)[Len(H) + k] = r.fragment[k]
    <3>1. H \in Seq(Byte) /\ r.fragment \in Seq(Byte)
      BY <1>1, <1>3
    <3> QED
      BY <3>1, <1>5, ConcatFacts
  <2> QED
    BY <2>1, <1>3
<1>7. ntohs(<<Encode(r)[4], Encode(r)[5]>>) = Len(r.fragment)
  BY <1>2, <1>4, <1>6 DEF ntohs
<1>8. <<Encode(r)[2], Encode(r)[3]>> = r.version
  BY <1>1, <1>4, <1>6
<1> QED
  BY <1>1, <1>4, <1>6, <1>7, <1>8 DEF HeaderLength

\* A stretch of a sequence.
LEMMA SubSeqFacts ==
  ASSUME NEW S, NEW s \in Seq(S), NEW a \in Nat, NEW m \in Nat, a + m <= Len(s),
         NEW u, u = SubSeq(s, a + 1, a + m)
  PROVE  /\ u \in Seq(S)
         /\ Len(u) = m
         /\ \A k \in 1..m : u[k] = s[a + k]
<1>1. Len(s) \in Nat /\ \A i \in 1..Len(s) : s[i] \in S
  OBVIOUS
<1>2. \A i \in (a + 1)..(a + m) : s[i] \in S
  BY <1>1
<1>3. /\ u \in Seq(S)
      /\ Len(u) = IF a + 1 <= a + m THEN a + m - (a + 1) + 1 ELSE 0
      /\ \A i \in 1..(a + m - (a + 1) + 1) : u[i] = s[a + 1 + i - 1]
  BY <1>2, SubSeqProperties
<1> QED
  BY <1>3

\* Sequences with the same elements.
LEMMA SameElements ==
  ASSUME NEW S, NEW s \in Seq(S), NEW t \in Seq(S), Len(s) = Len(t),
         \A k \in 1..Len(s) : s[k] = t[k]
  PROVE  s = t
  OBVIOUS

\* Two bytes of it.
LEMMA TwoOfSubSeq ==
  ASSUME NEW S, NEW s \in Seq(S), NEW a \in Nat, a + 2 <= Len(s)
  PROVE  /\ SubSeq(s, a + 1, a + 2) = <<s[a + 1], s[a + 2]>>
         /\ s[a + 1] \in S /\ s[a + 2] \in S
<1>1. PICK m \in Nat : m = 2
  OBVIOUS
<1>2. a + m <= Len(s)
  BY <1>1
<1>3. PICK u : u = SubSeq(s, a + 1, a + m)
  OBVIOUS
<1>4. u \in Seq(S) /\ Len(u) = m /\ \A k \in 1..m : u[k] = s[a + k]
  BY <1>2, <1>3, SubSeqFacts
<1>5. 1 \in 1..m /\ 2 \in 1..m
  BY <1>1
<1>6. u[1] = s[a + 1] /\ u[2] = s[a + 2]
  BY <1>4, <1>5
<1>7. s[a + 1] \in S /\ s[a + 2] \in S
  OBVIOUS
<1>8. u = <<s[a + 1], s[a + 2]>>
  <2>1. PICK t : t = <<s[a + 1], s[a + 2]>>
    OBVIOUS
  <2>2. t \in Seq(S) /\ Len(t) = 2 /\ t[1] = s[a + 1] /\ t[2] = s[a + 2]
    BY <1>7, <2>1
  <2>3. Len(u) = Len(t)
    BY <1>1, <1>4, <2>2
  <2>4. \A k \in 1..Len(u) : u[k] = t[k]
    <3> TAKE k \in 1..Len(u)
    <3>1. k = 1 \/ k = 2
      BY <1>1, <1>4
    <3> QED
      BY <3>1, <1>6, <2>2
  <2>5. u = t
    BY <1>4, <2>2, <2>3, <2>4, SameElements
  <2> QED
    BY <2>1, <2>5
<1> QED
  BY <1>1, <1>3, <1>7, <1>8

-----------------------------------------------------------------------------
(* Where the reader is in the stream.                                      *)

\* The places of the records are numbers, the last one the end of the stream.
LEMMA StartFacts ==
  ASSUME TypeOK
  PROVE  /\ Len(sent) \in Nat /\ Len(stream) \in Nat
         /\ Start[Len(sent) + 1] = Len(stream)
         /\ \A n \in 1..(Len(sent) + 1) : Start[n] \in Nat
<1>1. Len(sent) \in Nat /\ Len(stream) \in Nat
  BY DEF TypeOK
<1>2. Start[Len(sent) + 1] = Len(stream)
  BY <1>1 DEF Start
<1>3. ASSUME NEW n \in 1..Len(sent)  PROVE Start[n] \in Nat
  <2>1. sent[n] \in PlacedRecord
    BY DEF TypeOK
  <2>2. Start[n] = sent[n].at
    BY <1>1 DEF Start
  <2> QED
    BY <2>1, <2>2 DEF PlacedRecord
<1> QED
  BY <1>1, <1>2, <1>3

\* The record that is next, while one is due.
LEMMA NextRecord ==
  ASSUME IInv, NEW n, n = Len(delivered) + 1
  PROVE  /\ Len(sent) \in Nat /\ n \in 1..(Len(sent) + 1)
         /\ Len(stream) \in Nat
         /\ consumed \in Nat /\ arrived \in Nat
         /\ consumed <= arrived /\ arrived <= Len(stream)
         /\ Start[Len(sent) + 1] = Len(stream)
         /\ n <= Len(sent) =>
              /\ sent[n].rec \in PeerRecord
              /\ Start[n] \in Nat
              /\ Start[n + 1] = Start[n] + HeaderLength + Len(sent[n].rec.fragment)
              /\ Start[n + 1] <= Len(stream)
              /\ \A k \in 1..(HeaderLength + Len(sent[n].rec.fragment)) :
                   stream[Start[n] + k] = Encode(sent[n].rec)[k]
<1>1. /\ Len(sent) \in Nat /\ n \in 1..(Len(sent) + 1) /\ Len(stream) \in Nat
      /\ consumed \in Nat /\ arrived \in Nat
      /\ consumed <= arrived /\ arrived <= Len(stream)
  BY DEF IInv, TypeOK, DeliveredInOrder
<1>2. Start[Len(sent) + 1] = Len(stream)
  BY <1>1 DEF Start
<1>3. ASSUME n <= Len(sent)
      PROVE  /\ sent[n].rec \in PeerRecord
             /\ Start[n] \in Nat
             /\ Start[n + 1] = Start[n] + HeaderLength + Len(sent[n].rec.fragment)
             /\ Start[n + 1] <= Len(stream)
             /\ \A k \in 1..(HeaderLength + Len(sent[n].rec.fragment)) :
                  stream[Start[n] + k] = Encode(sent[n].rec)[k]
  <2>1. n \in 1..Len(sent) /\ sent[n] \in PlacedRecord
    <3>1. n \in 1..Len(sent)
      BY <1>1, <1>3
    <3> QED
      BY <3>1 DEF IInv, TypeOK
  <2>2. Start[n] \in Nat
    BY <1>1, StartFacts DEF IInv
  <2>3. Len(Encode(sent[n].rec)) = HeaderLength + Len(sent[n].rec.fragment)
        /\ Len(sent[n].rec.fragment) \in Nat /\ sent[n].rec \in PeerRecord
    <3>1. sent[n].rec \in PeerRecord
      BY <2>1 DEF PlacedRecord
    <3> QED
      BY <3>1, EncodeFacts
  <2>4. Start[n + 1] = Start[n] + HeaderLength + Len(sent[n].rec.fragment)
    <3> DEFINE e == Len(Encode(sent[n].rec))
               f == Len(sent[n].rec.fragment)
    <3>1. Start[n + 1] = Start[n] + e
      BY <2>1 DEF IInv, Framed
    <3>2. e = HeaderLength + f /\ f \in Nat
      BY <2>3
    <3> HIDE DEF e, f
    <3>3. Start[n + 1] = Start[n] + HeaderLength + f
      BY <3>1, <3>2, <2>2 DEF HeaderLength
    <3> QED
      BY <3>3 DEF f
  <2>5. Start[n + 1] <= Len(stream)
    <3>1. CASE n = Len(sent)
      BY <3>1, <1>1, <1>2
    <3>2. CASE n < Len(sent)
      <4>1. n + 1 \in 1..(Len(sent) + 1) /\ Len(sent) + 1 \in 1..(Len(sent) + 1)
            /\ n + 1 < Len(sent) + 1
        BY <3>2, <1>1, <2>1
      <4>2. Start[n + 1] < Start[Len(sent) + 1]
        BY <4>1 DEF IInv, Framed
      <4>3. Start[n + 1] \in Nat
        BY <4>1, StartFacts DEF IInv
      <4> QED
        BY <4>2, <4>3, <1>1, <1>2
    <3> QED
      BY <3>1, <3>2, <1>1, <1>3
  <2> QED
    BY <2>1, <2>2, <2>3, <2>4, <2>5 DEF IInv, Encoded
<1> QED
  BY <1>1, <1>2, <1>3

-----------------------------------------------------------------------------
(* The inductive invariant.                                                *)

\* It holds initially.
LEMMA InitIInv == Init => IInv
<1> SUFFICES ASSUME Init PROVE IInv
  OBVIOUS
<1>1. TypeOK
  BY ByteAssumption DEF Init, TypeOK, EmptyRecord, Byte
<1>2. Framed /\ Encoded
  BY DEF Init, Framed, Encoded, Start
<1>3. DeliveredInOrder /\ InStep /\ CodesTell
  BY DEF Init, DeliveredInOrder, InStep, CodesTell, Start, Offset
<1> QED
  BY <1>1, <1>2, <1>3 DEF IInv

\* The peer writes a record: it lies behind the others.
LEMMA PeerWritesIInv ==
  ASSUME IInv, PeerWrites
  PROVE  IInv'
<1>1. PICK r \in PeerRecord :
        /\ stream' = stream \o Encode(r)
        /\ sent' = Append(sent, [at |-> Len(stream), rec |-> r])
        /\ UNCHANGED <<arrived, open, consumed, rpc, rec, rc, delivered>>
        /\ open
  BY DEF PeerWrites
<1> DEFINE L == Len(sent)
           E == Encode(r)
           N == Len(stream)
<1>2. /\ stream \in Seq(Byte) /\ N \in Nat
      /\ sent \in Seq(PlacedRecord) /\ L \in Nat
      /\ delivered \in Seq(PeerRecord) /\ Len(delivered) \in Nat
  BY DEF IInv, TypeOK
<1>3. E \in Seq(Byte) /\ Len(E) \in Nat /\ Len(E) > 0
  <2>1. E \in Seq(Byte) /\ Len(E) = HeaderLength + Len(r.fragment)
        /\ Len(r.fragment) \in Nat
    BY EncodeFacts
  <2> HIDE DEF E
  <2> QED
    BY <2>1 DEF HeaderLength
<1>4. /\ stream' \in Seq(Byte) /\ Len(stream') = N + Len(E)
      /\ \A k \in 1..N : stream'[k] = stream[k]
      /\ \A k \in 1..Len(E) : stream'[N + k] = E[k]
  BY <1>1, <1>2, <1>3, ConcatFacts
<1>5. /\ sent' \in Seq(PlacedRecord) /\ Len(sent') = L + 1
      /\ \A n \in 1..L : sent'[n] = sent[n]
      /\ sent'[L + 1].at = N /\ sent'[L + 1].rec = r
  <2> DEFINE p == [at |-> N, rec |-> r]
  <2>1. p \in PlacedRecord /\ p.at = N /\ p.rec = r
    BY <1>2 DEF PlacedRecord
  <2> HIDE DEF p
  <2> QED
    BY <1>1, <1>2, <2>1 DEF p
<1> HIDE DEF E
<1>6. /\ \A n \in 1..(L + 1) : Start'[n] = Start[n]
      /\ Start[L + 1] = N
      /\ (\A n : n = L + 2 => Start'[n] = N + Len(E))
  BY <1>2, <1>3, <1>4, <1>5 DEF Start
<1>7. TypeOK'
  BY <1>1, <1>2, <1>3, <1>4, <1>5 DEF IInv, TypeOK
<1>8. Framed'
  <2>1. \A n \in 1..(L + 1) : Start'[n + 1] = Start'[n] + Len(Encode(sent'[n].rec))
    <3> TAKE n \in 1..(L + 1)
    <3>1. CASE n \in 1..L
      <4>1. n + 1 \in 1..(L + 1)
        BY <3>1, <1>2
      <4>2. Start'[n + 1] = Start[n + 1] /\ Start'[n] = Start[n] /\ sent'[n] = sent[n]
        BY <3>1, <4>1, <1>5, <1>6
      <4>3. Start[n + 1] = Start[n] + Len(Encode(sent[n].rec))
        BY <3>1 DEF IInv, Framed
      <4> QED
        BY <4>2, <4>3
    <3>2. CASE n = L + 1
      <4>1. n + 1 = L + 2
        BY <3>2, <1>2
      <4>2. Start'[n + 1] = N + Len(E) /\ Start'[n] = N /\ sent'[n].rec = r
        BY <3>2, <4>1, <1>5, <1>6
      <4> QED
        BY <4>2 DEF E
    <3> QED
      BY <3>1, <3>2, <1>2
  <2>2. \A m, n \in 1..(L + 2) : m < n => Start'[m] < Start'[n]
    <3>1. \A m, n \in 1..(L + 1) : m < n => Start[m] < Start[n]
      BY DEF IInv, Framed
    <3>2. \A m \in 1..(L + 1) : Start[m] \in Nat
      BY StartFacts DEF IInv
    <3>3. \A m \in 1..(L + 1) : Start[m] <= N
      BY <3>1, <3>2, <1>2, <1>6
    <3> TAKE m, n \in 1..(L + 2)
    <3>4. CASE n = L + 2
      BY <3>2, <3>3, <3>4, <1>2, <1>3, <1>6
    <3>5. CASE n # L + 2 /\ m # L + 2
      BY <3>1, <3>5, <1>2, <1>6
    <3> QED
      BY <3>4, <3>5, <1>2
  <2>3. Start'[1] = 0
    <3>1. 1 \in 1..(L + 1)
      BY <1>2
    <3> QED
      BY <3>1, <1>6 DEF IInv, Framed
  <2>4. L + 2 = Len(sent') + 1 /\ L + 1 = Len(sent')
    BY <1>2, <1>5
  <2> QED
    BY <2>1, <2>2, <2>3, <2>4 DEF Framed
<1>9. Encoded'
  <2>1. ASSUME NEW n \in 1..(L + 1), NEW k \in 1..Len(Encode(sent'[n].rec))
        PROVE  stream'[Start'[n] + k] = Encode(sent'[n].rec)[k]
    <3>1. CASE n \in 1..L
      <4>1. /\ sent'[n] = sent[n] /\ Start'[n] = Start[n]
            /\ stream[Start[n] + k] = Encode(sent[n].rec)[k]
        BY <3>1, <2>1, <1>2, <1>5, <1>6 DEF IInv, Encoded
      <4>2. Start[n + 1] = Start[n] + Len(Encode(sent[n].rec)) /\ Start[n + 1] <= N
            /\ Start[n] \in Nat
        <5>1. n \in 1..(L + 1) /\ n + 1 \in 1..(L + 1) /\ L + 1 \in 1..(L + 1)
          BY <3>1, <1>2
        <5>2. Start[n] \in Nat /\ Start[n + 1] \in Nat
          BY <5>1, StartFacts DEF IInv
        <5>3. Start[n + 1] = Start[n] + Len(Encode(sent[n].rec))
          BY <3>1 DEF IInv, Framed
        <5>4. n + 1 < L + 1 => Start[n + 1] < Start[L + 1]
          BY <5>1 DEF IInv, Framed
        <5>5. n + 1 = L + 1 \/ n + 1 < L + 1
          BY <3>1, <1>2
        <5> QED
          BY <5>2, <5>3, <5>4, <5>5, <1>2, <1>6
      <4>3. Start[n] + k \in 1..N
        <5> HIDE DEF N, L
        <5>1. k \in Nat /\ k >= 1
          OBVIOUS
        <5>2. k <= Len(Encode(sent[n].rec))
          BY <2>1, <4>1
        <5>3. Len(Encode(sent[n].rec)) \in Nat
          BY <3>1, <1>2, EncodeFacts DEF L, PlacedRecord
        <5> QED
          BY <4>2, <5>1, <5>2, <5>3, <1>2
      <4> QED
        BY <4>1, <4>3, <1>4
    <3>2. CASE n = L + 1
      <4>1. sent'[n].rec = r /\ Start'[n] = N
        BY <3>2, <1>2, <1>5, <1>6
      <4>2. k \in 1..Len(E) /\ Encode(sent'[n].rec) = E
        BY <4>1, <2>1 DEF E
      <4> QED
        BY <4>1, <4>2, <1>4
    <3> QED
      BY <3>1, <3>2, <1>2
  <2>2. L + 1 = Len(sent')
    BY <1>2, <1>5
  <2> QED
    BY <2>1, <2>2 DEF Encoded
<1>10. DeliveredInOrder'
  BY <1>1, <1>2, <1>5 DEF IInv, DeliveredInOrder
<1>11. InStep'
  <2> DEFINE n == Len(delivered) + 1
  <2>1. /\ n \in 1..(L + 1) /\ Start'[n] = Start[n]
        /\ n <= L => sent'[n] = sent[n] /\ n <= L + 1
    BY <1>2, <1>5, <1>6 DEF IInv, DeliveredInOrder
  <2>2. L + 1 = Len(sent')
    BY <1>2, <1>5
  <2> QED
    BY <2>1, <2>2, <1>1 DEF IInv, InStep
<1>12. CodesTell'
  BY <1>1, <1>2, <1>5, <1>6 DEF IInv, DeliveredInOrder, CodesTell
<1> QED
  BY <1>7, <1>8, <1>9, <1>10, <1>11, <1>12 DEF IInv

\* Nothing else touches the stream.
LEMMA FramesStay ==
  ASSUME IInv, UNCHANGED <<stream, sent>>
  PROVE  Framed' /\ Encoded' /\ Start' = Start
<1>1. Start' = Start
  BY DEF Start
<1> QED
  BY <1>1 DEF IInv, Framed, Encoded

\* What the network does besides.
LEMMA NetworkIInv ==
  ASSUME IInv, BytesArrive \/ PeerGoes
  PROVE  IInv'
<1>1. /\ UNCHANGED <<stream, sent, consumed, rpc, rec, rc, delivered>>
      /\ open /\ open' \in BOOLEAN
      /\ arrived' \in (arrived + 1)..Len(stream) \cup {arrived, consumed}
  BY DEF BytesArrive, PeerGoes, IInv, TypeOK
<1>2. Framed' /\ Encoded' /\ Start' = Start
  BY <1>1, FramesStay
<1>3. TypeOK'
  BY <1>1 DEF IInv, TypeOK
<1>4. DeliveredInOrder' /\ InStep' /\ CodesTell'
  BY <1>1, <1>2 DEF IInv, DeliveredInOrder, InStep, CodesTell
<1> QED
  BY <1>2, <1>3, <1>4 DEF IInv

\* A step that reads nothing.
LEMMA NoReadIInv ==
  ASSUME IInv, OutOfMemory \/ HandlerReturns \/ UNCHANGED vars
  PROVE  IInv'
<1>1. /\ UNCHANGED <<stream, sent, arrived, open, consumed, delivered>>
      /\ rpc' \in {rpc, "ended"} \/ (rpc = "handling" /\ rpc' = "type")
      /\ rec' = rec \/ (rec' = EmptyRecord /\ rpc' = "type")
      /\ rc' = rc \/ (rc' \in {-2, -5} /\ rpc' = "ended")
  BY DEF OutOfMemory, HandlerReturns, Return, vars, network
<1>2. Framed' /\ Encoded' /\ Start' = Start
  BY <1>1, FramesStay
<1>3. TypeOK'
  <2> DEFINE R == [type : Byte, version : Byte \X Byte, length : 0..(ByteSize * ByteSize - 1)]
  <2>1. EmptyRecord \in R
    BY ByteAssumption DEF EmptyRecord, Byte
  <2>2. rec' \in R
    BY <1>1, <2>1 DEF IInv, TypeOK
  <2> HIDE DEF R
  <2>3. /\ rpc' \in {"type", "version", "length", "fragment", "handling", "ended"}
        /\ rc' \in -6..0
    BY <1>1 DEF IInv, TypeOK
  <2> QED
    BY <1>1, <2>2, <2>3 DEF IInv, TypeOK, R
<1>4. DeliveredInOrder' /\ CodesTell'
  BY <1>1, <1>2 DEF IInv, DeliveredInOrder, CodesTell, TypeOK
<1>5. InStep'
  <2> DEFINE n == Len(delivered) + 1
  <2>1. DOMAIN Offset = {"type", "version", "length", "fragment"} /\ Offset["type"] = 0
    BY DEF Offset
  <2>2. CASE rpc' = "ended"
    BY <2>1, <2>2 DEF InStep
  <2>3. CASE rpc' = "type" /\ rpc \in {"type", "handling"}
    <3>1. Start[n] \in Nat
      <4>1. n \in 1..(Len(sent) + 1)
        BY NextRecord
      <4> QED
        BY <4>1, StartFacts DEF IInv
    <3>2. consumed = Start[n]
      BY <2>1, <2>3, <3>1 DEF IInv, InStep
    <3>3. consumed' = Start'[Len(delivered') + 1] + Offset["type"]
      BY <1>1, <1>2, <2>1, <3>1, <3>2
    <3> QED
      BY <2>3, <3>3 DEF InStep
  <2>4. CASE rpc' = rpc /\ rec' = rec
    BY <2>4, <1>1, <1>2 DEF IInv, InStep
  <2> QED
    BY <2>2, <2>3, <2>4, <1>1
<1> QED
  BY <1>2, <1>3, <1>4, <1>5 DEF IInv

\* A read that comes back short ends the reader; with -1 only at the end of the
\* stream.
LEMMA ShortReadIInv ==
  ASSUME IInv, NEW m \in Nat, Readable(m), ReadCount(m) # m,
         consumed' = consumed + ReadCount(m),
         rpc' = "ended", rc' \in -6..-1, rc' = -1 => rpc = "type" /\ m = 1,
         UNCHANGED <<network, rec, delivered>>
  PROVE  IInv'
<1>1. Framed' /\ Encoded' /\ Start' = Start
  BY FramesStay DEF network
<1>2. consumed' \in 0..arrived /\ consumed' = arrived
  BY DEF IInv, TypeOK, ReadCount
<1>3. TypeOK'
  BY <1>2 DEF IInv, TypeOK, network
<1>4. DeliveredInOrder' /\ InStep'
  BY <1>1 DEF IInv, DeliveredInOrder, InStep, Offset, network
<1>5. CodesTell'
  <2> SUFFICES ASSUME rc' = -1
               PROVE  ~open' /\ consumed' = arrived' /\ consumed' = Start'[Len(delivered') + 1]
    BY DEF CodesTell
  <2>1. rpc = "type" /\ m = 1
    OBVIOUS
  <2>2. arrived = consumed /\ ~open
    BY <2>1 DEF IInv, TypeOK, Readable, ReadCount
  <2>3. consumed = Start[Len(delivered) + 1]
    BY <2>1, StartFacts DEF IInv, InStep, Offset, DeliveredInOrder, TypeOK
  <2> QED
    BY <1>1, <1>2, <2>2, <2>3 DEF network
<1> QED
  BY <1>1, <1>3, <1>4, <1>5 DEF IInv

\* One byte: the type.
LEMMA ReadTypeIInv ==
  ASSUME IInv, ReadType
  PROVE  IInv'
<1> DEFINE n == Len(delivered) + 1
<1>1. CASE ReadCount(1) # 1
  BY <1>1, ShortReadIInv DEF ReadType, Return
<1>2. CASE ReadCount(1) = 1
  <2>1. /\ rpc = "type" /\ rpc' = "version" /\ rc' = rc
        /\ consumed' = consumed + 1
        /\ rec' = [rec EXCEPT !.type = stream[consumed + 1]]
        /\ UNCHANGED <<stream, sent, arrived, open, delivered>>
    BY <1>2 DEF ReadType, GoOn, network
  <2>2. Framed' /\ Encoded' /\ Start' = Start
    BY <2>1, FramesStay
  <2>3. consumed + 1 <= arrived
    BY <1>2 DEF ReadCount, IInv, TypeOK
  <2>4. consumed = Start[n] /\ n \in 1..(Len(sent) + 1)
    <3>1. n \in 1..(Len(sent) + 1) /\ Start[n] \in Nat
      BY NextRecord, StartFacts DEF IInv
    <3> QED
      BY <2>1, <3>1 DEF IInv, InStep, Offset
  <2>5. n <= Len(sent)
    BY <2>3, <2>4, NextRecord
  <2>6. stream[consumed + 1] = sent[n].rec.type /\ sent[n].rec \in PeerRecord
    <3>1. sent[n].rec \in PeerRecord /\ Len(sent[n].rec.fragment) \in Nat
      BY <2>5, NextRecord, EncodeFacts
    <3>2. 1 \in 1..(HeaderLength + Len(sent[n].rec.fragment))
      BY <3>1 DEF HeaderLength
    <3>3. stream[Start[n] + 1] = Encode(sent[n].rec)[1]
      BY <2>5, <3>2, NextRecord
    <3> QED
      BY <2>4, <3>1, <3>3, EncodeFacts
  <2>7. stream[consumed + 1] \in Byte
    BY <2>6, RecordAssumption
  <2>8. TypeOK'
    BY <2>1, <2>3, <2>7 DEF IInv, TypeOK
  <2>9. rec'.type = sent[n].rec.type
    BY <2>1, <2>6 DEF IInv, TypeOK
  <2>10. DeliveredInOrder' /\ CodesTell'
    BY <2>1, <2>2 DEF IInv, DeliveredInOrder, CodesTell
  <2>11. InStep'
    BY <2>1, <2>2, <2>4, <2>5, <2>9 DEF InStep, Offset
  <2> QED
    BY <2>2, <2>8, <2>10, <2>11 DEF IInv
<1> QED
  BY <1>1, <1>2

\* Inside a record the socket stands at the field that is due.
LEMMA InsideRecord ==
  ASSUME IInv, rpc \in {"version", "length", "fragment"}, NEW n, n = Len(delivered) + 1
  PROVE  /\ n \in 1..Len(sent)
         /\ sent[n].rec \in PeerRecord
         /\ Start[n] \in Nat
         /\ Len(sent[n].rec.fragment) \in Nat
         /\ consumed = Start[n] + Offset[rpc]
         /\ \A k \in 1..(HeaderLength + Len(sent[n].rec.fragment)) :
              stream[Start[n] + k] = Encode(sent[n].rec)[k]
<1>1. n \in 1..Len(sent)
  BY NextRecord DEF IInv, InStep
<1>2. /\ sent[n].rec \in PeerRecord /\ Start[n] \in Nat
      /\ \A k \in 1..(HeaderLength + Len(sent[n].rec.fragment)) :
           stream[Start[n] + k] = Encode(sent[n].rec)[k]
  BY <1>1, NextRecord
<1>3. consumed = Start[n] + Offset[rpc]
  BY DEF IInv, InStep, Offset
<1> QED
  BY <1>1, <1>2, <1>3, EncodeFacts

\* A read of two bytes that succeeds returns the next two of the stream.
LEMMA TwoBytesRead ==
  ASSUME IInv, ReadCount(2) = 2
  PROVE  /\ consumed + 2 <= arrived
         /\ Taken(2) = <<stream[consumed + 1], stream[consumed + 2]>>
         /\ stream[consumed + 1] \in Byte /\ stream[consumed + 2] \in Byte
<1>1. /\ stream \in Seq(Byte) /\ consumed \in Nat /\ arrived \in Nat
      /\ arrived <= Len(stream)
  BY DEF IInv, TypeOK
<1>2. consumed + 2 <= arrived
  BY <1>1 DEF ReadCount
<1>3. consumed + 2 <= Len(stream)
  BY <1>1, <1>2
<1> QED
  BY <1>1, <1>2, <1>3, TwoOfSubSeq DEF Taken

\* Two bytes: the version.
LEMMA ReadVersionIInv ==
  ASSUME IInv, ReadVersion
  PROVE  IInv'
<1> DEFINE n == Len(delivered) + 1
<1>1. CASE ReadCount(2) # 2
  BY <1>1, ShortReadIInv DEF ReadVersion, Return
<1>2. CASE ReadCount(2) = 2
  <2>1. /\ rpc = "version" /\ rpc' = "length" /\ rc' = rc
        /\ consumed' = consumed + 2
        /\ rec' = [rec EXCEPT !.version = Taken(2)]
        /\ UNCHANGED <<stream, sent, arrived, open, delivered>>
    BY <1>2 DEF ReadVersion, GoOn, network
  <2>2. Framed' /\ Encoded' /\ Start' = Start
    BY <2>1, FramesStay
  <2>3. /\ consumed + 2 <= arrived
        /\ Taken(2) = <<stream[consumed + 1], stream[consumed + 2]>>
        /\ Taken(2) \in Byte \X Byte
    BY <1>2, TwoBytesRead
  <2>4. /\ n \in 1..Len(sent) /\ sent[n].rec \in PeerRecord
        /\ Start[n] \in Nat /\ consumed = Start[n] + 1
    BY <2>1, InsideRecord DEF Offset
  <2>5. Taken(2) = sent[n].rec.version
    <3>1. Len(sent[n].rec.fragment) \in Nat
      BY <2>4, EncodeFacts
    <3>2. /\ 2 \in 1..(HeaderLength + Len(sent[n].rec.fragment))
          /\ 3 \in 1..(HeaderLength + Len(sent[n].rec.fragment))
      BY <3>1 DEF HeaderLength
    <3>3. /\ stream[Start[n] + 2] = Encode(sent[n].rec)[2]
          /\ stream[Start[n] + 3] = Encode(sent[n].rec)[3]
      BY <2>1, <3>2, InsideRecord
    <3>4. consumed + 1 = Start[n] + 2 /\ consumed + 2 = Start[n] + 3
      BY <2>4
    <3>5. Taken(2) = <<Encode(sent[n].rec)[2], Encode(sent[n].rec)[3]>>
      BY <2>3, <3>3, <3>4
    <3> QED
      BY <2>4, <3>5, EncodeFacts
  <2>6. rec'.version = sent[n].rec.version /\ rec'.type = rec.type
    BY <2>1, <2>5 DEF IInv, TypeOK
  <2>7. TypeOK'
    <3>1. \A v \in Byte \X Byte : [rec EXCEPT !.version = v]
            \in [type : Byte, version : Byte \X Byte, length : 0..(ByteSize * ByteSize - 1)]
      BY DEF IInv, TypeOK
    <3> QED
      BY <2>1, <2>3, <3>1 DEF IInv, TypeOK
  <2>8. DeliveredInOrder' /\ CodesTell'
    BY <2>1, <2>2 DEF IInv, DeliveredInOrder, CodesTell
  <2>9. InStep'
    BY <2>1, <2>2, <2>4, <2>6 DEF IInv, InStep, Offset
  <2> QED
    BY <2>2, <2>7, <2>8, <2>9 DEF IInv
<1> QED
  BY <1>1, <1>2

\* Two bytes: the length, in network order.
LEMMA ReadLengthIInv ==
  ASSUME IInv, ReadLength
  PROVE  IInv'
<1> DEFINE n == Len(delivered) + 1
<1>1. CASE ReadCount(2) # 2
  BY <1>1, ShortReadIInv DEF ReadLength, Return
<1>2. CASE ReadCount(2) = 2
  <2>1. /\ rpc = "length" /\ rpc' = "fragment" /\ rc' = rc
        /\ consumed' = consumed + 2
        /\ rec' = [rec EXCEPT !.length = ntohs(Taken(2))]
        /\ UNCHANGED <<stream, sent, arrived, open, delivered>>
    BY <1>2 DEF ReadLength, GoOn, network
  <2>2. Framed' /\ Encoded' /\ Start' = Start
    BY <2>1, FramesStay
  <2>3. /\ consumed + 2 <= arrived
        /\ Taken(2) = <<stream[consumed + 1], stream[consumed + 2]>>
        /\ stream[consumed + 1] \in Byte /\ stream[consumed + 2] \in Byte
    BY <1>2, TwoBytesRead
  <2>4. /\ n \in 1..Len(sent) /\ sent[n].rec \in PeerRecord
        /\ Start[n] \in Nat /\ consumed = Start[n] + 3
    BY <2>1, InsideRecord DEF Offset
  <2>5. ntohs(Taken(2)) = Len(sent[n].rec.fragment)
    <3>1. Len(sent[n].rec.fragment) \in Nat
      BY <2>4, EncodeFacts
    <3>2. /\ 4 \in 1..(HeaderLength + Len(sent[n].rec.fragment))
          /\ 5 \in 1..(HeaderLength + Len(sent[n].rec.fragment))
      BY <3>1 DEF HeaderLength
    <3>3. /\ stream[Start[n] + 4] = Encode(sent[n].rec)[4]
          /\ stream[Start[n] + 5] = Encode(sent[n].rec)[5]
      BY <2>1, <3>2, InsideRecord
    <3>4. consumed + 1 = Start[n] + 4 /\ consumed + 2 = Start[n] + 5
      BY <2>4
    <3>5. Taken(2) = <<Encode(sent[n].rec)[4], Encode(sent[n].rec)[5]>>
      BY <2>3, <3>3, <3>4
    <3> QED
      BY <2>4, <3>5, EncodeFacts
  <2>6. ntohs(Taken(2)) \in 0..(ByteSize * ByteSize - 1)
    BY <2>3, NtohsInRange
  <2>7. /\ rec'.length = Len(sent[n].rec.fragment)
        /\ rec'.type = rec.type /\ rec'.version = rec.version
    BY <2>1, <2>5 DEF IInv, TypeOK
  <2>8. TypeOK'
    <3>1. \A l \in 0..(ByteSize * ByteSize - 1) : [rec EXCEPT !.length = l]
            \in [type : Byte, version : Byte \X Byte, length : 0..(ByteSize * ByteSize - 1)]
      BY DEF IInv, TypeOK
    <3>2. rec' \in [type : Byte, version : Byte \X Byte, length : 0..(ByteSize * ByteSize - 1)]
      BY <2>1, <2>6, <3>1
    <3> QED
      BY <2>1, <2>3, <3>2 DEF IInv, TypeOK
  <2>9. DeliveredInOrder' /\ CodesTell'
    BY <2>1, <2>2 DEF IInv, DeliveredInOrder, CodesTell
  <2>10. rec.type = sent[n].rec.type /\ rec.version = sent[n].rec.version
    BY <2>1 DEF IInv, InStep
  <2>11. consumed' = Start[n] + 5
    BY <2>1, <2>4
  <2>12. InStep'
    BY <2>1, <2>2, <2>4, <2>7, <2>10, <2>11 DEF InStep, Offset, HeaderLength
  <2> QED
    BY <2>2, <2>8, <2>9, <2>12 DEF IInv
<1> QED
  BY <1>1, <1>2

\* The fragment that is read is the one that was sent.
LEMMA FragmentRead ==
  ASSUME IInv, rpc = "fragment", ReadCount(rec.length) = rec.length,
         NEW n, n = Len(delivered) + 1
  PROVE  /\ rec.length \in Nat /\ consumed + rec.length <= arrived
         /\ [type |-> rec.type, version |-> rec.version, fragment |-> Taken(rec.length)]
              = sent[n].rec
<1>1. /\ n \in 1..Len(sent) /\ sent[n].rec \in PeerRecord
      /\ Start[n] \in Nat /\ consumed = Start[n] + 5
      /\ \A k \in 1..(HeaderLength + Len(sent[n].rec.fragment)) :
           stream[Start[n] + k] = Encode(sent[n].rec)[k]
  BY InsideRecord DEF Offset, HeaderLength
<1>2. /\ rec.type = sent[n].rec.type /\ rec.version = sent[n].rec.version
      /\ rec.length = Len(sent[n].rec.fragment)
  BY DEF IInv, InStep
<1>3. rec.length \in Nat /\ sent[n].rec.fragment \in Seq(Byte)
  BY <1>1, <1>2, EncodeFacts, RecordAssumption
<1>4. /\ stream \in Seq(Byte) /\ consumed \in Nat /\ arrived \in Nat
      /\ arrived <= Len(stream) /\ consumed <= arrived
  BY DEF IInv, TypeOK
<1>5. consumed + rec.length <= arrived /\ consumed + rec.length <= Len(stream)
  BY <1>3, <1>4 DEF ReadCount
<1> DEFINE u == Taken(rec.length)
<1>6. /\ u \in Seq(Byte) /\ Len(u) = rec.length
      /\ \A k \in 1..rec.length : u[k] = stream[consumed + k]
  <2> DEFINE m == rec.length
  <2>1. /\ stream \in Seq(Byte) /\ consumed \in Nat /\ m \in Nat
        /\ consumed + m <= Len(stream)
        /\ u = SubSeq(stream, consumed + 1, consumed + m)
    BY <1>3, <1>4, <1>5 DEF Taken
  <2> HIDE DEF m, u
  <2>2. u \in Seq(Byte) /\ Len(u) = m /\ \A k \in 1..m : u[k] = stream[consumed + k]
    BY <2>1, SubSeqFacts
  <2> QED
    BY <2>2 DEF m
<1> HIDE DEF u
<1>7. ASSUME NEW k \in 1..rec.length
      PROVE  u[k] = sent[n].rec.fragment[k]
  <2> DEFINE m == Len(sent[n].rec.fragment)  at == Start[n]
  <2>1. m \in Nat /\ k \in 1..m /\ at \in Nat /\ consumed = at + 5
    BY <1>1, <1>2, <1>3
  <2> HIDE DEF m, at
  <2>2. 5 + k \in 1..(5 + m) /\ consumed + k = at + (5 + k)
    BY <2>1
  <2>3. HeaderLength + k \in 1..(HeaderLength + Len(sent[n].rec.fragment))
        /\ consumed + k = Start[n] + (HeaderLength + k)
    BY <2>2 DEF HeaderLength, m, at
  <2>4. stream[consumed + k] = Encode(sent[n].rec)[HeaderLength + k]
    BY <1>1, <2>3
  <2>5. Encode(sent[n].rec)[HeaderLength + k] = sent[n].rec.fragment[k]
    BY <1>1, <1>2, EncodeFacts
  <2> QED
    BY <1>6, <2>4, <2>5
<1>8. u = sent[n].rec.fragment
  <2>1. Len(u) = Len(sent[n].rec.fragment)
    BY <1>2, <1>6
  <2> QED
    BY <1>3, <1>6, <1>7, <2>1, SameElements
<1> QED
  BY <1>1, <1>2, <1>3, <1>5, <1>8, RecordAssumption DEF u

\* The fragment, and with it the record.
LEMMA ReadFragmentIInv ==
  ASSUME IInv, ReadFragment
  PROVE  IInv'
<1> DEFINE n == Len(delivered) + 1
<1>1. CASE ReadCount(rec.length) # rec.length
  <2>1. rec.length \in Nat
    BY DEF IInv, TypeOK
  <2> QED
    BY <1>1, <2>1, ShortReadIInv DEF ReadFragment, Return
<1>2. CASE ReadCount(rec.length) = rec.length
  <2>1. rpc = "fragment"
    BY DEF ReadFragment
  <2>2. /\ n \in 1..Len(sent) /\ sent[n].rec \in PeerRecord
        /\ Start[n] \in Nat /\ consumed = Start[n] + 5
    BY <2>1, InsideRecord DEF Offset, HeaderLength
  <2>3. /\ rpc' = "handling" /\ rc' = 0
        /\ consumed' = consumed + rec.length
        /\ delivered' = Append(delivered, sent[n].rec)
        /\ UNCHANGED <<stream, sent, arrived, open, rec>>
        /\ rec.length \in Nat /\ consumed + rec.length <= arrived
    BY <1>2, <2>1, FragmentRead DEF ReadFragment, network
  <2>4. Framed' /\ Encoded' /\ Start' = Start
    BY <2>3, FramesStay
  <2>5. /\ delivered' \in Seq(PeerRecord) /\ Len(delivered) \in Nat
        /\ Len(delivered') = Len(delivered) + 1
        /\ \A k \in 1..Len(delivered) : delivered'[k] = delivered[k]
        /\ delivered'[n] = sent[n].rec
    <3>1. delivered \in Seq(PeerRecord)
      BY DEF IInv, TypeOK
    <3> QED
      BY <2>2, <2>3, <3>1
  <2>6. TypeOK'
    BY <2>3, <2>5 DEF IInv, TypeOK
  <2>7. DeliveredInOrder'
    BY <2>2, <2>3, <2>5 DEF IInv, DeliveredInOrder
  <2>8. CodesTell'
    BY <2>3 DEF CodesTell
  <2>9. consumed' = Start[n + 1]
    <3>1. Start[n + 1] = Start[n] + HeaderLength + Len(sent[n].rec.fragment)
      BY <2>2, NextRecord
    <3>2. rec.length = Len(sent[n].rec.fragment)
      BY <2>1 DEF IInv, InStep
    <3> QED
      BY <2>2, <2>3, <3>1, <3>2 DEF HeaderLength
  <2>10. InStep'
    BY <2>3, <2>4, <2>5, <2>9 DEF InStep, Offset
  <2> QED
    BY <2>4, <2>6, <2>7, <2>8, <2>10 DEF IInv
<1> QED
  BY <1>1, <1>2

\* Every step keeps the invariant.
LEMMA NextIInv == IInv /\ [Next]_vars => IInv'
  BY PeerWritesIInv, NetworkIInv, NoReadIInv, ReadTypeIInv, ReadVersionIInv,
     ReadLengthIInv, ReadFragmentIInv
  DEF Next, ReaderStep, Terminated

\* The invariant holds of every behaviour.
THEOREM Inductive == Spec => []IInv
  BY InitIInv, NextIInv, PTL DEF Spec

-----------------------------------------------------------------------------
(* What follows from it.                                                   *)

\* The reader stays well typed; in particular what it delivers is records the
\* peer may send.
THEOREM TypeCorrect == Spec => []TypeOK
<1>1. IInv => TypeOK
  BY DEF IInv
<1> QED
  BY <1>1, Inductive, PTL

\* read_record never loses its place in the stream.
THEOREM NeverLosesItsPlace == Spec => []InStep
<1>1. IInv => InStep
  BY DEF IInv
<1> QED
  BY <1>1, Inductive, PTL

\* When read_record says end of file, every record that arrived has been handled.
THEOREM EndOfFileLosesNothing == Spec => []EndOfFileIsClean
<1>1. ASSUME IInv PROVE EndOfFileIsClean
  <2> SUFFICES ASSUME rc = -1, NEW n \in DOMAIN sent, Start[n + 1] <= arrived,
                      n > Len(delivered)
               PROVE  FALSE
    BY <1>1 DEF EndOfFileIsClean, IInv, CodesTell, TypeOK
  <2>1. arrived = Start[Len(delivered) + 1]
    BY <1>1 DEF IInv, CodesTell
  <2>2. /\ Len(delivered) + 1 \in 1..(Len(sent) + 1) /\ n + 1 \in 1..(Len(sent) + 1)
        /\ Len(delivered) + 1 < n + 1
    BY <1>1 DEF IInv, TypeOK
  <2>3. Start[Len(delivered) + 1] < Start[n + 1]
    BY <1>1, <2>2 DEF IInv, Framed
  <2>4. Start[Len(delivered) + 1] \in Nat /\ Start[n + 1] \in Nat
    BY <1>1, <2>2, StartFacts DEF IInv
  <2> QED
    BY <2>1, <2>3, <2>4
<1> QED
  BY <1>1, Inductive, PTL

\* Steps that neither the sender nor the receiver of records notices, but for the
\* break of the channel.
LEMMA SilentStep ==
  ASSUME UNCHANGED <<sent, delivered>>, (rpc' = "ended") \/ (rpc # "ended" /\ rpc' # "ended")
  PROVE  [Channel!Next]_(Channel!vars)
  BY DEF Channel!Next, Channel!Break, Channel!vars

\* Every step of the reader is one of the channel, or none.
LEMMA StepChannel ==
  ASSUME IInv, [Next]_vars
  PROVE  [Channel!Next]_(Channel!vars)
<1>1. CASE PeerWrites
  <2>1. PICK r \in PeerRecord :
          /\ sent' = Append(sent, [at |-> Len(stream), rec |-> r])
          /\ UNCHANGED <<delivered, rpc>>
    BY <1>1 DEF PeerWrites
  <2>2. [k \in DOMAIN sent' |-> sent'[k].rec]
          = Append([k \in DOMAIN sent |-> sent[k].rec], r)
    BY <2>1 DEF IInv, TypeOK
  <2> QED
    BY <2>1, <2>2 DEF Channel!Next, Channel!Send
<1>2. CASE ReadFragment /\ ReadCount(rec.length) = rec.length
  <2> DEFINE n == Len(delivered) + 1
  <2>1. rpc = "fragment"
    BY <1>2 DEF ReadFragment
  <2>2. /\ delivered' = Append(delivered, sent[n].rec)
        /\ rpc' = "handling"
        /\ UNCHANGED sent
    BY <1>2, <2>1, FragmentRead DEF ReadFragment, network
  <2>3. n \in 1..Len(sent)
    BY <2>1, InsideRecord
  <2>4. /\ DOMAIN sent = 1..Len(sent) /\ Len(sent) \in Nat /\ Len(delivered) \in Nat
        /\ Len([k \in DOMAIN sent |-> sent[k].rec]) = Len(sent)
        /\ [k \in DOMAIN sent |-> sent[k].rec][n] = sent[n].rec
    BY <2>3 DEF IInv, TypeOK
  <2> QED
    BY <2>1, <2>2, <2>3, <2>4 DEF Channel!Next, Channel!Deliver
<1>3. CASE \/ BytesArrive \/ PeerGoes \/ OutOfMemory \/ HandlerReturns
          \/ ReadType \/ ReadVersion \/ ReadLength
          \/ (ReadFragment /\ ReadCount(rec.length) # rec.length)
  <2>1. UNCHANGED <<sent, delivered>>
    BY <1>3 DEF BytesArrive, PeerGoes, OutOfMemory, HandlerReturns, ReadType,
                ReadVersion, ReadLength, ReadFragment, network
  <2>2. CASE BytesArrive \/ PeerGoes
    BY <2>1, <2>2 DEF BytesArrive, PeerGoes, Channel!vars
  <2>3. CASE OutOfMemory \/ HandlerReturns
    BY <2>1, <2>3, SilentStep DEF OutOfMemory, HandlerReturns, Return
  <2>4. CASE ReadType \/ ReadVersion \/ ReadLength
    BY <2>1, <2>4, SilentStep DEF ReadType, ReadVersion, ReadLength, Return, GoOn
  <2>5. CASE ReadFragment /\ ReadCount(rec.length) # rec.length
    BY <2>1, <2>5, SilentStep DEF ReadFragment, Return
  <2> QED
    BY <1>3, <2>2, <2>3, <2>4, <2>5
<1>4. CASE UNCHANGED vars
  BY <1>4 DEF vars, network, Channel!vars
<1> QED
  BY <1>1, <1>2, <1>3, <1>4 DEF Next, ReaderStep, Terminated

\* The reader implements the channel of whole records: whole, once, in order.
THEOREM ReaderIsAChannel == Spec => ReadsChannel
<1>1. Init => Channel!Init
  BY DEF Init, Channel!Init
<1>2. IInv /\ [Next]_vars => [Channel!Next]_(Channel!vars)
  BY StepChannel
<1> QED
  BY <1>1, <1>2, Inductive, PTL DEF Spec, ReadsChannel, Channel!Spec
=============================================================================
