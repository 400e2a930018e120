----------------------- MODULE RecordProtectionProofs -----------------------
(***************************************************************************)
(* Proofs about RecordProtection: for every fragment, every padding and    *)
(* every width of the length field.                                        *)
(***************************************************************************)
EXTENDS RecordProtection, TLAPS

-----------------------------------------------------------------------------
(* The inductive invariant.                                                *)

\* The buffer has the size the sum came to, and is filled as far as that goes.
BufferFilled ==
  /\ pc \in {"fill", "seal"} => inner_length = InnerLength(padding_length)
  /\ pc = "seal" => inner = Inner

\* What encrypt_record sealed is that buffer; nothing changes it any more.
SealedBuffer ==
  /\ pc = "given" => inner_length = 0
  /\ pc \in {"given", "fill", "seal"} => wire = << >>
  /\ pc \in {"open", "strip", "fillOut"} =>
       wire # << >> /\ wire \in [key : Key, length : Nat, plain : Seq(Byte)]
  /\ pc \in {"open", "strip", "fillOut"} /\ ByServer =>
       /\ inner_length = InnerLength(padding_length)
       /\ wire.plain = Inner
       /\ wire.length = LengthField(inner_length)

\* Behind the mark there are only zeros, and where the loop has stopped there is none.
ZerosStripped ==
  /\ pc \in {"given", "fill", "seal", "open"} => padding_offset = 0
  /\ pc \in {"strip", "fillOut"} =>
       \A i \in (Mark + 1)..Len(wire.plain) : wire.plain[i] = 0
  /\ pc = "fillOut" => Mark > 0 /\ wire.plain[Mark] # 0

IInv == TypeOK /\ BufferFilled /\ SealedBuffer /\ ZerosStripped

-----------------------------------------------------------------------------
(* Lengths.                                                                *)

\* What is less than the modulus is not changed by it.
LEMMA SmallMod ==
  ASSUME NEW n \in Nat, n < WordSize
  PROVE  n % WordSize = n
  BY SizeAssumption

LEMMA ModInRange ==
  ASSUME NEW n \in Nat
  PROVE  n % WordSize \in 0..(WordSize - 1)
  BY SizeAssumption

\* The types a record of the server has, and the fragment's length.
LEMMA RecordFacts ==
  ASSUME TypeOK
  PROVE  /\ record.type \in Byte /\ record.type # 0
         /\ record.fragment \in Seq(Byte) /\ Len(record.fragment) \in Nat
         /\ padding_length \in Nat /\ padding_length <= PADDING_MAX
         /\ PADDING_MAX \in Nat /\ AEAD_TAG_LENGTH \in Nat
<1>1. record \in [type : ContentType, fragment : Fragment]
  BY DEF TypeOK
<1>2. record.type \in ContentType /\ record.fragment \in Fragment
  BY <1>1
<1>3. record.fragment \in Seq(Byte) /\ record.type \in Byte \ {0}
  BY <1>2, RecordAssumption
<1> QED
  BY <1>3, SizeAssumption DEF TypeOK

\* Within the limit neither sum is cut.
LEMMA SumsFit ==
  ASSUME TypeOK, WithinLimit
  PROVE  /\ InnerLength(padding_length) = Written
         /\ LengthField(Written) = Written + AEAD_TAG_LENGTH
<1> DEFINE n == Len(record.fragment)
<1> HIDE DEF n
<1>1. /\ n \in Nat /\ padding_length \in Nat /\ padding_length <= PADDING_MAX
      /\ PADDING_MAX \in Nat /\ AEAD_TAG_LENGTH \in Nat
  BY RecordFacts DEF n
<1>2. n + 1 + PADDING_MAX + AEAD_TAG_LENGTH < WordSize
  BY DEF WithinLimit, n
<1>3. (n + 1 + padding_length) % WordSize = n + 1 + padding_length
  BY <1>1, <1>2, SmallMod, SizeAssumption
<1>4. (n + 1 + padding_length + AEAD_TAG_LENGTH) % WordSize
        = n + 1 + padding_length + AEAD_TAG_LENGTH
  BY <1>1, <1>2, SmallMod, SizeAssumption
<1> QED
  BY <1>3, <1>4 DEF InnerLength, LengthField, Written, n

\* The buffer holds bytes, whatever its length.
LEMMA InnerType ==
  ASSUME TypeOK
  PROVE  /\ Inner \in Seq(Byte) /\ Len(Inner) = inner_length
         /\ \A i \in 1..inner_length :
              Inner[i] = IF i <= Len(record.fragment) THEN record.fragment[i]
                         ELSE IF i = Len(record.fragment) + 1 THEN record.type ELSE 0
<1> DEFINE B(i) == IF i <= Len(record.fragment) THEN record.fragment[i]
                   ELSE IF i = Len(record.fragment) + 1 THEN record.type ELSE 0
<1>1. inner_length \in Nat /\ 0 \in Byte
  BY SizeAssumption DEF TypeOK, Byte
<1>2. \A i \in 1..inner_length : B(i) \in Byte
  BY <1>1, RecordFacts
<1>3. Inner = [i \in 1..inner_length |-> B(i)]
  BY DEF Inner
<1> QED
  BY <1>1, <1>2, <1>3

-----------------------------------------------------------------------------
(* The invariant is inductive.                                             *)

LEMMA InitIInv == Init => IInv
  BY SizeAssumption, RecordAssumption
  DEF Init, IInv, TypeOK, BufferFilled, SealedBuffer, ZerosStripped, Nothing, Byte

LEMMA StepIInv == IInv /\ [Next]_vars => IInv'
<1> SUFFICES ASSUME IInv, [Next]_vars PROVE IInv'
  OBVIOUS
<1> USE DEF IInv
<1>1. CASE AllocateInner
  <2>1. PICK padding \in PADDING_MIN..PADDING_MAX :
          /\ padding_length' = padding /\ inner_length' = InnerLength(padding)
    BY <1>1 DEF AllocateInner
  <2>2. /\ pc = "given" /\ pc' = "fill"
        /\ UNCHANGED <<record, inner, wire, key, padding_offset, out, rc>>
    BY <1>1 DEF AllocateInner, opening
  <2>3. padding \in 0..PADDING_MAX /\ InnerLength(padding) \in 0..(WordSize - 1)
    <3>1. padding \in Nat /\ padding \in 0..PADDING_MAX
      BY SizeAssumption
    <3>2. Len(record.fragment) + 1 + padding \in Nat
      BY <3>1, RecordFacts
    <3> QED
      BY <3>1, <3>2, ModInRange DEF InnerLength
  <2>4. TypeOK'
    BY <2>1, <2>2, <2>3 DEF TypeOK
  <2>5. BufferFilled'
    BY <2>1, <2>2 DEF BufferFilled, InnerLength
  <2> QED
    BY <2>2, <2>4, <2>5 DEF SealedBuffer, ZerosStripped
<1>2. CASE FillInner
  <2>1. /\ pc = "fill" /\ pc' \in {"seal", "dead"} /\ inner' = Inner
        /\ UNCHANGED <<record, padding_length, inner_length, wire, key, padding_offset, out, rc>>
    BY <1>2 DEF FillInner, opening
  <2>2. TypeOK'
    BY <2>1, InnerType DEF TypeOK
  <2>3. BufferFilled'
    BY <2>1 DEF BufferFilled, InnerLength, Inner
  <2> QED
    BY <2>1, <2>2, <2>3 DEF SealedBuffer, ZerosStripped
<1>3. CASE SealInner
  <2>1. /\ pc = "seal" /\ pc' = "open"
        /\ UNCHANGED <<record, padding_length, inner_length, inner, key, padding_offset, out, rc>>
    BY <1>3 DEF SealInner, opening, sealing
  <2>2. PICK k \in Key :
          wire' = [key |-> k, length |-> LengthField(inner_length), plain |-> inner]
    BY <1>3 DEF SealInner
  <2>3. LengthField(inner_length) \in Nat
    BY ModInRange, SizeAssumption DEF LengthField, TypeOK
  <2>4. wire' \in [key : Key, length : Nat, plain : Seq(Byte)] /\ Len(wire'.plain) \in Nat
    BY <2>2, <2>3 DEF TypeOK
  <2>5. padding_offset = 0
    BY <2>1 DEF ZerosStripped
  <2>6. TypeOK'
    BY <2>1, <2>4, <2>5 DEF TypeOK
  <2>7. wire' # << >> /\ wire'.plain = inner /\ wire'.length = LengthField(inner_length)
    BY <2>2
  <2> QED
    BY <2>1, <2>4, <2>5, <2>6, <2>7
    DEF BufferFilled, SealedBuffer, ZerosStripped, InnerLength, Inner, LengthField
<1>4. CASE PeerSeals
  <2>1. /\ pc = "given" /\ pc' = "open"
        /\ UNCHANGED <<record, padding_length, inner_length, inner, key, padding_offset, out, rc>>
    BY <1>4 DEF PeerSeals, opening, sealing
  <2>2. PICK k \in Key, p \in PeerPlaintext :
          wire' = [key |-> k, length |-> Len(p) + AEAD_TAG_LENGTH, plain |-> p]
    BY <1>4 DEF PeerSeals
  <2>3. p \in Seq(Byte) /\ Len(p) \in Nat
    BY RecordAssumption
  <2>4. wire' \in [key : Key, length : Nat, plain : Seq(Byte)] /\ Len(wire'.plain) \in Nat
    BY <2>2, <2>3, SizeAssumption
  <2>5. padding_offset = 0 /\ inner_length = 0
    BY <2>1 DEF ZerosStripped, SealedBuffer
  <2>6. TypeOK'
    BY <2>1, <2>4, <2>5 DEF TypeOK
  <2>7. wire' # << >>
    BY <2>2
  <2> QED
    BY <2>1, <2>4, <2>5, <2>6, <2>7 DEF BufferFilled, SealedBuffer, ZerosStripped, ByServer
<1>5. CASE OpenRecord
  <2>1. /\ pc = "open" /\ pc' \in {"strip", "done"} /\ rc' \in {rc, -2}
        /\ UNCHANGED <<record, padding_length, inner_length, inner, wire, key, padding_offset, out>>
    BY <1>5 DEF OpenRecord, Return, sealing
  <2>2. TypeOK'
    BY <2>1 DEF TypeOK
  <2>3. wire \in [key : Key, length : Nat, plain : Seq(Byte)] /\ padding_offset = 0
    BY <2>1 DEF SealedBuffer, ZerosStripped
  <2>4. ZerosStripped'
    BY <2>1, <2>3 DEF ZerosStripped, Mark
  <2> QED
    BY <2>1, <2>2, <2>4 DEF BufferFilled, SealedBuffer, ByServer, InnerLength, Inner, LengthField
<1>6. CASE StripPadding
  <2>1. /\ pc = "strip" /\ pc' \in {"strip", "fillOut", "dead"}
        /\ UNCHANGED <<record, padding_length, inner_length, inner, wire, key, out, rc>>
    BY <1>6 DEF StripPadding, sealing
  <2>2. wire # << >> /\ wire \in [key : Key, length : Nat, plain : Seq(Byte)]
    BY <2>1 DEF SealedBuffer
  <2>3. Len(wire.plain) \in Nat /\ padding_offset \in 0..Len(wire.plain)
    BY <2>2 DEF TypeOK
  <2>4. \/ pc' = "dead" /\ padding_offset' = padding_offset
        \/ /\ pc' = "strip" /\ padding_offset' = padding_offset + 1
           /\ Mark # 0 /\ wire.plain[Mark] = 0
        \/ /\ pc' = "fillOut" /\ padding_offset' = padding_offset
           /\ Mark # 0 /\ wire.plain[Mark] # 0
    BY <1>6 DEF StripPadding, IsPadding, Counted
  <2>5. padding_offset' \in 0..Len(wire.plain)
    BY <2>3, <2>4 DEF Mark
  <2>6. TypeOK'
    BY <2>1, <2>2, <2>5 DEF TypeOK
  <2>7. ZerosStripped'
    <3>1. \A i \in (Mark + 1)..Len(wire.plain) : wire.plain[i] = 0
      BY <2>1 DEF ZerosStripped
    <3>2. Mark \in Nat /\ (pc' = "strip" => Mark' = Mark - 1) /\ (pc' = "fillOut" => Mark' = Mark)
      BY <2>1, <2>3, <2>4 DEF Mark
    <3> QED
      BY <2>1, <2>3, <2>4, <3>1, <3>2 DEF ZerosStripped
  <2> QED
    BY <2>1, <2>6, <2>7 DEF BufferFilled, SealedBuffer, ByServer, InnerLength, Inner, LengthField
<1>7. CASE FillOut
  <2>1. /\ pc = "fillOut" /\ pc' \in {"done", "dead"} /\ rc' = 0
        /\ UNCHANGED <<record, padding_length, inner_length, inner, wire, key, padding_offset>>
    BY <1>7 DEF FillOut, sealing
  <2>2. /\ wire.plain \in Seq(Byte) /\ Len(wire.plain) \in Nat
        /\ padding_offset \in 0..Len(wire.plain) /\ Mark > 0
    BY <2>1 DEF SealedBuffer, ZerosStripped, TypeOK
  <2>3. out' \in [type : Byte, version : {"null", "copied", "overwritten"},
                  length : 0..(WordSize - 1), fragment : {"null", "uninitialised"}]
    <3>1. Mark \in 1..Len(wire.plain) /\ out_len \in Nat
          /\ (out_len # 0 => 1 \in 1..Len(wire.plain))
      BY <2>2 DEF Mark, out_len
    <3>2. wire.plain[Mark] \in Byte /\ (out_len # 0 => wire.plain[1] \in Byte)
          /\ out_len % WordSize \in 0..(WordSize - 1)
      BY <2>2, <3>1, ModInRange
    <3>3. PICK buf2 \in {"uninitialised", "null"} :
            out' = [type     |-> IF out_len = 0 THEN wire.plain[Mark] ELSE wire.plain[1],
                    version  |-> IF out_len > VersionOffset THEN "overwritten" ELSE "copied",
                    length   |-> out_len % WordSize,
                    fragment |-> buf2]
      BY <1>7 DEF FillOut
    <3> QED
      BY <3>2, <3>3
  <2>4. TypeOK'
    BY <2>1, <2>3 DEF TypeOK
  <2> QED
    BY <2>1, <2>4 DEF BufferFilled, SealedBuffer, ZerosStripped
<1>8. CASE OutOfMemory
  <2>1. /\ pc' \in {"dead", "done"}
        /\ UNCHANGED <<record, padding_length, inner_length, inner, wire, key, padding_offset>>
        /\ rc' \in {rc, -1, -4}
    BY <1>8 DEF OutOfMemory, Return, sealing
  <2>2. out' \in [type : Byte, version : {"null", "copied", "overwritten"},
                  length : 0..(WordSize - 1), fragment : {"null", "uninitialised"}]
    <3>1. CASE out' = out
      BY <3>1 DEF TypeOK
    <3>2. CASE pc = "fillOut" /\ out' = [out EXCEPT !.type = wire.plain[Mark], !.version = "null"]
      <4>1. wire.plain \in Seq(Byte) /\ Mark \in 1..Len(wire.plain)
        BY <3>2 DEF SealedBuffer, ZerosStripped, TypeOK, Mark
      <4>2. wire.plain[Mark] \in Byte
        BY <4>1
      <4> QED
        BY <3>2, <4>2 DEF TypeOK
    <3> QED
      BY <1>8, <3>1, <3>2 DEF OutOfMemory
  <2>3. TypeOK'
    BY <2>1, <2>2 DEF TypeOK
  <2> QED
    BY <2>1, <2>3 DEF BufferFilled, SealedBuffer, ZerosStripped
<1>9. CASE UNCHANGED vars
  BY <1>9 DEF vars, sealing, opening, TypeOK, BufferFilled, SealedBuffer, ZerosStripped,
              ByServer, InnerLength, Inner, LengthField, Mark
<1> QED
  BY <1>1, <1>2, <1>3, <1>4, <1>5, <1>6, <1>7, <1>8, <1>9
  DEF Next, encrypt_record, decrypt_record, Terminated

-----------------------------------------------------------------------------
(* What follows from it.                                                   *)

LEMMA InductiveInvariant == Spec => []IInv
<1>1. Init => IInv
  BY InitIInv
<1>2. IInv /\ [Next]_vars => IInv'
  BY StepIInv
<1> QED
  BY <1>1, <1>2, PTL DEF Spec

\* Every variable keeps its type: the loop never counts past the front of the
\* buffer before it ends the process.
THEOREM TypeCorrect == Spec => []TypeOK
<1>1. IInv => TypeOK
  BY DEF IInv
<1> QED
  BY <1>1, InductiveInvariant, PTL

\* A record whose sums fit 16 bits is written inside its buffer, and its header
\* announces what follows it.
THEOREM SealingFits == Spec => []SealFits
<1>1. IInv => SealFits
  <2> SUFFICES ASSUME IInv, WithinLimit
               PROVE  /\ pc = "fill" => Written = inner_length
                      /\ pc = "open" /\ ByServer => wire.length = Written + AEAD_TAG_LENGTH
    BY DEF SealFits
  <2>1. /\ InnerLength(padding_length) = Written
        /\ LengthField(Written) = Written + AEAD_TAG_LENGTH
    BY SumsFit DEF IInv
  <2> QED
    BY <2>1 DEF IInv, BufferFilled, SealedBuffer
<1> QED
  BY <1>1, InductiveInvariant, PTL

\* What a record of encrypt_record has in its buffer: the fragment, a type that is
\* not zero, and zeros.
LEMMA BufferOfServer ==
  ASSUME IInv, pc \in {"open", "strip", "fillOut"}, ByServer, WithinLimit
  PROVE  LET n == Len(record.fragment) IN
         /\ n \in Nat /\ padding_length \in Nat /\ n < WordSize
         /\ Len(wire.plain) = n + 1 + padding_length
         /\ wire.length = Len(wire.plain) + AEAD_TAG_LENGTH
         /\ record.type # 0
         /\ \A i \in 1..(n + 1 + padding_length) :
              wire.plain[i] = IF i <= n THEN record.fragment[i]
                              ELSE IF i = n + 1 THEN record.type ELSE 0
<1> DEFINE n == Len(record.fragment)
<1>1. /\ inner_length = n + 1 + padding_length /\ wire.plain = Inner
      /\ wire.length = inner_length + AEAD_TAG_LENGTH
      /\ n \in Nat /\ padding_length \in Nat /\ record.type # 0
  BY SumsFit, RecordFacts DEF IInv, SealedBuffer, Written
<1>2. n < WordSize
  BY <1>1, SizeAssumption DEF WithinLimit
<1> HIDE DEF n
<1>3. /\ Len(wire.plain) = n + 1 + padding_length
      /\ \A i \in 1..(n + 1 + padding_length) :
           wire.plain[i] = IF i <= n THEN record.fragment[i]
                           ELSE IF i = n + 1 THEN record.type ELSE 0
  BY <1>1, InnerType DEF IInv, n
<1> QED
  BY <1>1, <1>2, <1>3 DEF n

\* The loop never passes the type, and does not stop before it.
LEMMA MarkOfServer ==
  ASSUME IInv, pc \in {"strip", "fillOut"}, ByServer, WithinLimit
  PROVE  Mark >= Len(record.fragment) + 1
         /\ (pc = "fillOut" => Mark = Len(record.fragment) + 1)
<1> DEFINE n == Len(record.fragment)
<1>1. /\ n \in Nat /\ padding_length \in Nat /\ record.type # 0
      /\ Len(wire.plain) = n + 1 + padding_length
      /\ \A i \in 1..(n + 1 + padding_length) :
           wire.plain[i] = IF i <= n THEN record.fragment[i]
                           ELSE IF i = n + 1 THEN record.type ELSE 0
  BY BufferOfServer
<1> HIDE DEF n
<1>2. /\ Mark \in 0..Len(wire.plain)
      /\ \A i \in (Mark + 1)..Len(wire.plain) : wire.plain[i] = 0
  BY <1>1 DEF IInv, ZerosStripped, SealedBuffer, TypeOK, Mark
<1>3. Mark >= n + 1
  <2>1. n + 1 \in 1..(n + 1 + padding_length) /\ wire.plain[n + 1] # 0
    BY <1>1
  <2> QED
    BY <1>1, <1>2, <2>1
<1>4. ASSUME pc = "fillOut" PROVE Mark <= n + 1
  <2>1. Mark > 0 /\ wire.plain[Mark] # 0
    BY <1>4 DEF IInv, ZerosStripped
  <2> QED
    BY <1>1, <1>2, <2>1
<1> QED
  BY <1>1, <1>2, <1>3, <1>4 DEF n

\* What the loop finds is the type that encrypt_record wrote, and what lies before
\* it the fragment.
THEOREM StrippingFindsRecord == Spec => []StripFindsRecord
<1>1. IInv => StripFindsRecord
  <2> SUFFICES ASSUME IInv, pc = "fillOut", ByServer, WithinLimit
               PROVE  /\ out_len = Len(record.fragment)
                      /\ wire.plain[Mark] = record.type
                      /\ \A i \in 1..out_len : wire.plain[i] = record.fragment[i]
    BY DEF StripFindsRecord
  <2> DEFINE n == Len(record.fragment)
  <2>1. /\ n \in Nat /\ padding_length \in Nat
        /\ \A i \in 1..(n + 1 + padding_length) :
             wire.plain[i] = IF i <= n THEN record.fragment[i]
                             ELSE IF i = n + 1 THEN record.type ELSE 0
    BY BufferOfServer
  <2>2. Mark = n + 1
    BY MarkOfServer
  <2> HIDE DEF n
  <2>3. out_len = n
    BY <2>1, <2>2 DEF out_len
  <2> QED
    BY <2>1, <2>2, <2>3 DEF n
<1> QED
  BY <1>1, InductiveInvariant, PTL

-----------------------------------------------------------------------------
(* What decrypt_record returns for it.  The loop is entered with the key   *)
(* the record was sealed with, and left at its type, so that no way out of *)
(* it gives a wrong length.                                                *)

EnteredWithKey ==
  pc \in {"strip", "fillOut"} => key = wire.key

LEMMA OpensStep ==
  ASSUME IInv, EnteredWithKey, OpensAsSealed, [Next]_vars
  PROVE  (EnteredWithKey /\ OpensAsSealed)'
<1>1. CASE AllocateInner \/ FillInner \/ SealInner \/ PeerSeals
  <2>1. pc \in {"given", "fill", "seal"} /\ pc' \in {"fill", "seal", "open", "dead"}
        /\ (pc' = "dead" => wire' = wire)
    BY <1>1 DEF AllocateInner, FillInner, SealInner, PeerSeals
  <2>2. wire = << >>
    BY <2>1 DEF IInv, SealedBuffer
  <2> QED
    BY <2>1, <2>2 DEF EnteredWithKey, OpensAsSealed
<1>2. CASE OpenRecord
  <2>1. /\ pc = "open"
        /\ IF Authentic THEN pc' = "strip" /\ rc' = rc ELSE rc' = -2 /\ pc' = "done"
        /\ UNCHANGED <<record, padding_length, inner_length, inner, wire, key, out>>
    BY <1>2 DEF OpenRecord, Return, sealing
  <2>2. EnteredWithKey'
    BY <2>1 DEF EnteredWithKey, Authentic
  <2>3. OpensAsSealed'
    <3> SUFFICES ASSUME ByServer, WithinLimit, pc' = "done", rc' = -2 PROVE key # wire.key
      BY <2>1 DEF OpensAsSealed, ByServer, WithinLimit
    <3>1. wire.length = Len(wire.plain) + AEAD_TAG_LENGTH
      BY <2>1, BufferOfServer
    <3> QED
      BY <2>1, <3>1 DEF Authentic
  <2> QED
    BY <2>2, <2>3
<1>3. CASE StripPadding
  <2>1. /\ pc = "strip" /\ pc' \in {"strip", "fillOut", "dead"} /\ (pc' = "dead" => Mark = 0)
        /\ UNCHANGED <<record, padding_length, inner_length, inner, wire, key, out, rc>>
    BY <1>3 DEF StripPadding, sealing
  <2>2. EnteredWithKey'
    BY <2>1 DEF EnteredWithKey
  <2>3. OpensAsSealed'
    <3> SUFFICES ASSUME ByServer, WithinLimit, pc' = "dead" PROVE FALSE
      BY <2>1 DEF OpensAsSealed, ByServer, WithinLimit
    <3>1. Mark >= Len(record.fragment) + 1 /\ Len(record.fragment) \in Nat
      BY <2>1, MarkOfServer, RecordFacts DEF IInv
    <3> QED
      BY <2>1, <3>1
  <2> QED
    BY <2>2, <2>3
<1>4. CASE FillOut
  <2>1. /\ pc = "fillOut" /\ rc' = 0
        /\ pc' \in IF out_len > StructSize THEN {"done", "dead"} ELSE {"done"}
        /\ out'.length = out_len % WordSize
        /\ UNCHANGED <<record, padding_length, inner_length, inner, wire, key>>
    BY <1>4 DEF FillOut, sealing
  <2>2. EnteredWithKey' /\ key = wire.key
    BY <2>1 DEF EnteredWithKey
  <2>3. OpensAsSealed'
    <3> SUFFICES ASSUME ByServer, WithinLimit
                 PROVE  /\ out'.length = Len(record.fragment)
                        /\ pc' = "dead" => Len(record.fragment) > StructSize
      BY <2>1, <2>2 DEF OpensAsSealed, ByServer, WithinLimit
    <3>1. PICK n \in Nat : n = Len(record.fragment) /\ n < WordSize /\ Mark = n + 1
      BY <2>1, BufferOfServer, MarkOfServer
    <3>2. out_len = n
      BY <3>1 DEF out_len
    <3>3. out_len % WordSize = n
      BY <3>1, <3>2, SmallMod
    <3> QED
      BY <2>1, <3>1, <3>2, <3>3
  <2> QED
    BY <2>2, <2>3
<1>5. CASE OutOfMemory
  <2>1. /\ \/ pc \in {"fill", "seal"} /\ pc' = "dead"
           \/ pc' = "done" /\ rc' \in {-1, -4}
        /\ wire' = wire
    BY <1>5 DEF OutOfMemory, Return
  <2>2. pc \in {"fill", "seal"} => wire = << >>
    BY DEF IInv, SealedBuffer
  <2> QED
    BY <2>1, <2>2 DEF EnteredWithKey, OpensAsSealed
<1>6. CASE UNCHANGED vars
  BY <1>6 DEF vars, sealing, opening, EnteredWithKey, OpensAsSealed, ByServer, WithinLimit
<1> QED
  BY <1>1, <1>2, <1>3, <1>4, <1>5, <1>6 DEF Next, encrypt_record, decrypt_record, Terminated

\* Whatever padding it got, a record of encrypt_record is opened with its length, or
\* refused for another key or for want of memory; it never runs off the buffer.
THEOREM OpeningUndoesSealing == Spec => []OpensAsSealed
<1>1. Init => EnteredWithKey /\ OpensAsSealed
  BY DEF Init, EnteredWithKey, OpensAsSealed
<1>2. IInv /\ EnteredWithKey /\ OpensAsSealed /\ [Next]_vars => (EnteredWithKey /\ OpensAsSealed)'
  BY OpensStep
<1> QED
  BY <1>1, <1>2, InductiveInvariant, PTL DEF Spec
=============================================================================
