---------------------------- MODULE KeyEncodings ----------------------------
(***************************************************************************)
(* What the terms of KeySchedule are in bytes: the info that               *)
(* HKDF_Expand_Label gives to HKDF, and the nonce that generate_nonce      *)
(* makes of an iv and a counter.  KeySchedule takes different arguments to *)
(* give different terms, and here is why they may.  A byte of a nonce is   *)
(* the set of its bits.                                                    *)
(***************************************************************************)
EXTENDS WireFormat, FiniteSets

CONSTANTS
  Base,             \* BASE_LABEL: "tls13 "
  Label,            \* the labels: sequences of bytes
  Context,          \* the contexts: the empty sequence and hashes
  OutLength,        \* how many bytes are asked for
  Bits,             \* the bits of a byte of a nonce
  NonceLength,
  CounterLength,    \* sizeof(uint64_t)
  Iv,
  Counter,          \* counters as htobe64 lays them out, the highest byte first
  MaxCalls          \* bound on the calls that are looked at

ASSUME LabelAssumption ==
  /\ Base \in Seq(Byte) /\ Len(Base) = 6
  /\ Label \subseteq Seq(Byte) /\ \A l \in Label : Len(l) <= 249
  /\ Context \subseteq Seq(Byte) /\ \A c \in Context : Len(c) <= 255
  /\ OutLength \subseteq Uint16
ASSUME NonceAssumption ==
  /\ NonceLength \in Nat /\ CounterLength \in Nat /\ CounterLength <= NonceLength
  /\ Iv \subseteq [1..NonceLength -> SUBSET Bits]
  /\ Counter \subseteq [1..CounterLength -> SUBSET Bits]
ASSUME BoundAssumption == MaxCalls \in Nat

VARIABLES
  expanded,         \* for each call of HKDF_Expand_Label, its arguments and buf
  nonces            \* for each call of generate_nonce, its arguments and out

encodingVars == <<expanded, nonces>>

EncodingInit == expanded = {} /\ nonces = {}

Calls == Cardinality(expanded) + Cardinality(nonces)

-----------------------------------------------------------------------------

\* label_length is one byte wide, and so is Context_length.
LabelLength(l) == (6 + Len(l)) % 256

\* Mutant: the byte for the length of the label is left out.
InfoWithoutLabelLength(l, c, n) ==
  Array(2 + 6 + Len(l) + 1 + Len(c),
        write_uint16(n) \o Base \o l \o <<Len(c)>> \o c)

\* The buffer has room for the whole label, and combine_array fills it.
Info(l, c, n) ==
  Array(2 + 1 + 6 + Len(l) + 1 + Len(c),
        write_uint16(n) \o <<LabelLength(l)>> \o Base \o l \o <<Len(c)>> \o c)

ExpandLabel ==
  /\ Calls < MaxCalls
  /\ \E l \in Label, c \in Context, n \in OutLength :
       expanded' = expanded \cup
         {[label |-> l, context |-> c, length |-> n, buf |-> Info(l, c, n)]}
  /\ UNCHANGED nonces

-----------------------------------------------------------------------------

\* Exclusive or, bit by bit.
xor(a, b) == (a \ b) \cup (b \ a)

\* Mutant: the size of another integer: only the first half of it is copied.
HalfCounter(counter) ==
  [i \in 1..NonceLength |->
     IF i > NonceLength - (CounterLength \div 2)
       THEN counter[i - (NonceLength - (CounterLength \div 2))] ELSE {}]

\* Zeros, and the counter behind them.
Padded(counter) ==
  [i \in 1..NonceLength |->
     IF i > NonceLength - CounterLength
       THEN counter[i - (NonceLength - CounterLength)] ELSE {}]

Nonce(iv, counter) == [i \in 1..NonceLength |-> xor(Padded(counter)[i], iv[i])]

MakeNonce ==
  /\ Calls < MaxCalls
  /\ \E iv \in Iv, n \in Counter :
       nonces' = nonces \cup {[iv |-> iv, counter |-> n, out |-> Nonce(iv, n)]}
  /\ UNCHANGED expanded

EncodingTerminated == Calls = MaxCalls /\ UNCHANGED encodingVars

EncodingNext == ExpandLabel \/ MakeNonce \/ EncodingTerminated

EncodingSpec == EncodingInit /\ [][EncodingNext]_encodingVars

-----------------------------------------------------------------------------
(* Properties.                                                             *)

\* Two calls of HKDF_Expand_Label that give HKDF the same bytes were the same call,
\* also when a label is the beginning of another and a context could pass for the
\* rest of it; and the bytes fill the buffer that was allocated.
InfoTellsCallsApart ==
  /\ \A x \in expanded : Filled(x.buf)
  /\ \A x, y \in expanded : x.buf.bytes = y.buf.bytes => x = y

\* Under one iv, two counters give two nonces, whichever of their bytes differ.
NonceTellsCountersApart ==
  \A x, y \in nonces : x.iv = y.iv /\ x.out = y.out => x.counter = y.counter
=============================================================================
