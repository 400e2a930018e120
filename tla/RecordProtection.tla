-------------------------- MODULE RecordProtection --------------------------
(***************************************************************************)
(* One protected record from encrypt_record to decrypt_record: the padding *)
(* it gets, the lengths that go into 16 bits, the header that is           *)
(* authenticated with it, the loop that finds its type again, and what is  *)
(* left in the struct the caller passed.  Besides the records that         *)
(* encrypt_record makes, those of a peer are opened, whose plaintext may   *)
(* be any bytes.                                                           *)
(***************************************************************************)
EXTENDS Integers, Sequences

CONSTANTS
  ByteSize,         \* how many values a byte has: 256
  WordSize,         \* how many a uint16_t has: 65536
  ContentType,      \* the types a record may have: no zero byte among them
  Fragment,         \* the fragments given to encrypt_record
  PeerPlaintext,    \* what a peer may seal
  Key,              \* a key together with a nonce
  PADDING_MIN, PADDING_MAX,
  AEAD_TAG_LENGTH,
  VersionOffset,    \* offsetof(TLSPlaintext, legacy_record_version): 8
  StructSize        \* sizeof(TLSPlaintext): 32

Byte == 0..(ByteSize - 1)

ASSUME SizeAssumption ==
  /\ ByteSize \in Nat /\ ByteSize > 1
  /\ WordSize \in Nat /\ WordSize > 1
  /\ PADDING_MIN \in Nat /\ PADDING_MAX \in Nat /\ PADDING_MIN <= PADDING_MAX
  /\ AEAD_TAG_LENGTH \in Nat
  /\ VersionOffset \in Nat /\ StructSize \in Nat
ASSUME RecordAssumption ==
  /\ ContentType \subseteq Byte \ {0}
  /\ Fragment \subseteq Seq(Byte) /\ PeerPlaintext \subseteq Seq(Byte)
  /\ \A f \in Fragment : Len(f) < WordSize

VARIABLES
  pc,               \* the statement that is due, or how it ended
  record,           \* what encrypt_record is given
  padding_length,
  inner_length,     \* TLSInnerPlainText_length
  inner,            \* the buffer TLSInnerPlainText
  wire,             \* the protected record: its key, its length field, its plaintext
  key,              \* the key decrypt_record is given
  padding_offset,
  out,              \* *out of decrypt_record
  rc                \* what decrypt_record returned

sealing == <<record, padding_length, inner_length, inner>>
opening == <<key, padding_offset, out, rc>>
vars == <<pc, sealing, wire, opening>>

Nothing == [type |-> 0, version |-> "null", length |-> 0, fragment |-> "null"]

Init ==
  /\ pc = "given"
  /\ record \in [type : ContentType, fragment : Fragment]
  /\ key \in Key
  /\ padding_length = 0 /\ inner_length = 0 /\ inner = << >>
  /\ wire = << >>
  /\ padding_offset = 0 /\ out = Nothing /\ rc = 0

-----------------------------------------------------------------------------
(* encrypt_record.                                                         *)

\* Mutant: the type has no place in the sum.
InnerLengthWithoutType(padding) == (Len(record.fragment) + padding) % WordSize

\* The sum of three lengths, cut to a uint16_t.
InnerLength(padding) == (Len(record.fragment) + 1 + padding) % WordSize

AllocateInner ==
  /\ pc = "given"
  /\ \E padding \in PADDING_MIN..PADDING_MAX :
       /\ padding_length' = padding
       /\ inner_length' = InnerLength(padding)
  /\ pc' = "fill"
  /\ UNCHANGED <<record, inner, wire, opening>>

Written == Len(record.fragment) + 1 + padding_length

\* Mutant: the padding comes before the type.
PaddingFirst ==
  [i \in 1..inner_length |->
     IF i <= Len(record.fragment) THEN record.fragment[i]
     ELSE IF i = Written THEN record.type ELSE 0]

\* Fragment, type and padding, as far as the buffer holds them.
Inner ==
  [i \in 1..inner_length |->
     IF i <= Len(record.fragment) THEN record.fragment[i]
     ELSE IF i = Len(record.fragment) + 1 THEN record.type ELSE 0]

\* What goes behind the buffer may kill the process, there or later.
FillInner ==
  /\ pc = "fill"
  /\ inner' = Inner
  /\ pc' \in IF Written > inner_length THEN {"seal", "dead"} ELSE {"seal"}
  /\ UNCHANGED <<record, padding_length, inner_length, wire, opening>>

\* Mutant: the tag is left out of the length.
LengthWithoutTag(n) == n % WordSize

\* uint16_buf: the length field of the header.
LengthField(n) == (n + AEAD_TAG_LENGTH) % WordSize

\* The header is authenticated with the text; the caller writes both.
SealInner ==
  /\ pc = "seal"
  /\ \E k \in Key :
       wire' = [key |-> k, length |-> LengthField(inner_length), plain |-> inner]
  /\ pc' = "open"
  /\ UNCHANGED <<sealing, opening>>

\* A peer seals what it likes, with a length field that fits.
PeerSeals ==
  /\ pc = "given"
  /\ \E k \in Key, p \in PeerPlaintext :
       wire' = [key |-> k, length |-> Len(p) + AEAD_TAG_LENGTH, plain |-> p]
  /\ pc' = "open"
  /\ UNCHANGED <<sealing, opening>>

-----------------------------------------------------------------------------
(* decrypt_record.                                                         *)

Return(code) == rc' = code /\ pc' = "done"

\* The header is rebuilt from the record as it was read, by its length field: if
\* that is not the length of what follows, the record comes apart.
Authentic == key = wire.key /\ wire.length = Len(wire.plain) + AEAD_TAG_LENGTH

OpenRecord ==
  /\ pc = "open"
  /\ IF Authentic THEN pc' = "strip" /\ rc' = rc ELSE Return(-2)
  /\ UNCHANGED <<sealing, wire, key, padding_offset, out>>

\* The place of the byte iter points to.
Mark == Len(wire.plain) - padding_offset

\* Mutant: the loop takes one step first.
StripsOneMore == wire.plain[Mark] = 0 \/ padding_offset = 0

IsPadding == wire.plain[Mark] = 0

\* Mutant: each byte of padding is counted twice.
CountedTwice == padding_offset + 2

Counted == padding_offset + 1

\* One turn of the loop over the padding.  Without a byte that is not zero it
\* leaves the buffer at its front; wherever it stops there, the length that
\* follows from it is negative, and memcpy with it ends the process.
StripPadding ==
  /\ pc = "strip"
  /\ IF Mark = 0 THEN pc' = "dead" /\ padding_offset' = padding_offset
     ELSE IF IsPadding THEN pc' = pc /\ padding_offset' = Counted
     ELSE pc' = "fillOut" /\ padding_offset' = padding_offset
  /\ UNCHANGED <<sealing, wire, key, out, rc>>

out_len == Mark - 1

\* The type and the version are set first, and overwritten: the text is copied
\* over the struct itself, while the buffer made for it stays as malloc gave it,
\* or NULL (the test behind that malloc looks at another pointer).
FillOut ==
  /\ pc = "fillOut"
  /\ \E buf2 \in {"uninitialised", "null"} :
       out' = [type     |-> IF out_len = 0 THEN wire.plain[Mark] ELSE wire.plain[1],
               version  |-> IF out_len > VersionOffset THEN "overwritten" ELSE "copied",
               length   |-> out_len % WordSize,
               fragment |-> buf2]
  /\ rc' = 0
  /\ pc' \in IF out_len > StructSize THEN {"done", "dead"} ELSE {"done"}
  /\ UNCHANGED <<sealing, wire, key, padding_offset>>

\* malloc returns NULL: an assertion of encrypt_record ends the process; in
\* decrypt_record it is the buffer for the text, or the version after the type is
\* set.
OutOfMemory ==
  /\ \/ pc \in {"fill", "seal"} /\ pc' = "dead" /\ UNCHANGED <<out, rc>>
     \/ pc = "open" /\ Return(-1) /\ out' = out
     \/ pc = "fillOut" /\ Return(-4)
        /\ out' = [out EXCEPT !.type = wire.plain[Mark], !.version = "null"]
  /\ UNCHANGED <<sealing, wire, key, padding_offset>>

-----------------------------------------------------------------------------

encrypt_record == AllocateInner \/ FillInner \/ SealInner
decrypt_record == OpenRecord \/ StripPadding \/ FillOut

Ended == pc \in {"done", "dead"}
Terminated == Ended /\ UNCHANGED vars

Next == encrypt_record \/ PeerSeals \/ decrypt_record \/ OutOfMemory \/ Terminated

Spec == Init /\ [][Next]_vars

\* One thread, and nothing in these functions waits.
FairSpec == Spec /\ WF_vars(decrypt_record)

-----------------------------------------------------------------------------
(* Properties.                                                             *)

TypeOK ==
  /\ pc \in {"given", "fill", "seal", "open", "strip", "fillOut", "done", "dead"}
  /\ record \in [type : ContentType, fragment : Fragment]
  /\ padding_length \in 0..PADDING_MAX /\ inner_length \in 0..(WordSize - 1)
  /\ inner \in Seq(Byte)
  /\ wire = << >> \/ wire \in [key : Key, length : Nat, plain : Seq(Byte)]
  /\ key \in Key
  /\ padding_offset \in 0..(IF wire = << >> THEN 0 ELSE Len(wire.plain))
  /\ out \in [type : Byte, version : {"null", "copied", "overwritten"},
              length : 0..(WordSize - 1), fragment : {"null", "uninitialised"}]
  /\ rc \in -4..0

\* The fragments whose protected length fits the length field whatever padding
\* they get.  That of EncryptedExtensions, six bytes, is one.
WithinLimit ==
  Len(record.fragment) + 1 + PADDING_MAX + AEAD_TAG_LENGTH < WordSize

ByServer == inner_length > 0 /\ pc # "given"

\* Within the limit nothing is written behind the buffer, and the length field is
\* the length of what follows it, the tag included: the peer finds the next record.
SealFits ==
  WithinLimit =>
    /\ pc = "fill" => Written = inner_length
    /\ pc = "open" /\ ByServer => wire.length = Written + AEAD_TAG_LENGTH

\* The loop stops at the type and nowhere else, also if the fragment ends in zeros
\* or is empty: what lies before it is the fragment.
StripFindsRecord ==
  pc = "fillOut" /\ ByServer /\ WithinLimit =>
    /\ out_len = Len(record.fragment)
    /\ wire.plain[Mark] = record.type
    /\ \A i \in 1..out_len : wire.plain[i] = record.fragment[i]

\* What decrypt_record says of a record of encrypt_record: a success means the key
\* it was sealed with and gives the length it had, code -2 means another key, and
\* the process dies of it only where the text does not fit the struct.
OpensAsSealed ==
  ByServer /\ WithinLimit =>
    /\ pc = "done" /\ rc = 0 => key = wire.key /\ out.length = Len(record.fragment)
    /\ pc = "done" /\ rc = -2 => key # wire.key
    /\ pc = "dead" /\ wire # << >> => Len(record.fragment) > StructSize

\* A record of encrypt_record comes back as a success with the length it had, if
\* it is within the limit, fits the struct, meets the key it was sealed with and
\* there is memory.
SealedOpens ==
  pc = "open" /\ ByServer /\ WithinLimit /\ key = wire.key
    /\ Len(record.fragment) <= StructSize
  ~> pc = "done" /\ (rc = 0 => out.length = Len(record.fragment))
       /\ rc \in {0, -1, -4}

\* What the comment at TLSPlaintext.type says, "ContentType": it holds of what is
\* put together and of what decrypt_record hands out for it.
TypeIsContentType ==
  pc = "done" /\ rc = 0 /\ ByServer => out.type \in ContentType
=============================================================================
