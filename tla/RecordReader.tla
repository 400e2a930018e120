---------------------------- MODULE RecordReader ----------------------------
(***************************************************************************)
(* The inner loop of main.c over a TCP socket, one action per read(2):     *)
(* read_record takes a record apart into type, version, length and         *)
(* fragment, each with one call whose count it compares with what it asked *)
(* for.  The peer's bytes arrive in pieces of any size, so a call may find *)
(* only part of a record.                                                  *)
(***************************************************************************)
EXTENDS Integers, Sequences

CONSTANTS
  ByteSize,       \* how many values a byte has: 256
  PeerRecord,     \* the records a peer may send
  MaxRecords      \* bound on how many it sends

Byte == 0..(ByteSize - 1)

ASSUME ByteAssumption   == ByteSize \in Nat /\ ByteSize > 1
ASSUME RecordAssumption == \A r \in PeerRecord :
  /\ r = [type |-> r.type, version |-> r.version, fragment |-> r.fragment]
  /\ r.type \in Byte /\ r.version \in Byte \X Byte
  /\ r.fragment \in Seq(Byte) /\ Len(r.fragment) < ByteSize * ByteSize
ASSUME BoundAssumption  == MaxRecords \in Nat

VARIABLES
  stream,         \* all bytes the peer has written so far
  sent,           \* the records they make up, each with its place in the stream
  arrived,        \* how many bytes have reached the socket
  consumed,       \* how many read has handed out
  open,           \* the peer is there and more may arrive
  rpc,            \* the field read_record reads next, or where main is
  rec,            \* the TLSPlaintext being filled
  rc,             \* what read_record returned last
  delivered       \* the records handed to main_state_mech

network == <<stream, sent, arrived, open>>
vars    == <<network, consumed, rpc, rec, rc, delivered>>

HeaderLength == 5

Encode(r) ==
  <<r.type, r.version[1], r.version[2],
    Len(r.fragment) \div ByteSize, Len(r.fragment) % ByteSize>> \o r.fragment

EmptyRecord == [type |-> 0, version |-> <<0, 0>>, length |-> 0]

Init ==
  /\ stream = << >> /\ sent = << >> /\ arrived = 0 /\ open = TRUE
  /\ consumed = 0
  /\ rpc = "type" /\ rec = EmptyRecord /\ rc = 0
  /\ delivered = << >>

-----------------------------------------------------------------------------
(* The peer and TCP.                                                       *)

PeerWrites ==
  /\ open
  /\ Len(sent) < MaxRecords
  /\ \E r \in PeerRecord :
       /\ stream' = stream \o Encode(r)
       /\ sent' = Append(sent, [at |-> Len(stream), rec |-> r])
  /\ UNCHANGED <<arrived, open, consumed, rpc, rec, rc, delivered>>

BytesArrive ==
  /\ open
  /\ arrived' \in (arrived + 1)..Len(stream)
  /\ UNCHANGED <<stream, sent, open, consumed, rpc, rec, rc, delivered>>

\* It closes or dies before the rest of what it wrote has come through; a reset
\* takes what is unread with it.
PeerGoes ==
  /\ open
  /\ open' = FALSE
  /\ arrived' \in {arrived, consumed}
  /\ UNCHANGED <<stream, sent, consumed, rpc, rec, rc, delivered>>

\* Mutant: a read of nothing waits as well.
ReadableOnlyWithBytes(n) == arrived > consumed \/ ~open

\* read(socket, buf, n) returns what is there, up to n bytes.  It waits for the
\* first byte unless n is 0 or the stream has ended.
ReadCount(n) == IF arrived - consumed < n THEN arrived - consumed ELSE n
Readable(n) == n = 0 \/ arrived > consumed \/ ~open
Taken(n) == SubSeq(stream, consumed + 1, consumed + n)

-----------------------------------------------------------------------------
(* read_record.                                                            *)

Return(code) == rc' = code /\ rpc' = "ended"
GoOn(field)  == rc' = rc /\ rpc' = field

ReadType ==
  /\ rpc = "type"
  /\ Readable(1)
  /\ consumed' = consumed + ReadCount(1)
  /\ IF ReadCount(1) # 1
       THEN Return(-1) /\ rec' = rec
       ELSE GoOn("version") /\ rec' = [rec EXCEPT !.type = stream[consumed + 1]]
  /\ UNCHANGED <<network, delivered>>

ReadVersion ==
  /\ rpc = "version"
  /\ Readable(2)
  /\ consumed' = consumed + ReadCount(2)
  /\ IF ReadCount(2) # 2
       THEN Return(-3) /\ rec' = rec
       ELSE GoOn("length") /\ rec' = [rec EXCEPT !.version = Taken(2)]
  /\ UNCHANGED <<network, delivered>>

\* Mutant: the length keeps the order it has on the wire.
HostOrder(bytes) == bytes[2] * ByteSize + bytes[1]

\* Two bytes in network order.
ntohs(bytes) == bytes[1] * ByteSize + bytes[2]

ReadLength ==
  /\ rpc = "length"
  /\ Readable(2)
  /\ consumed' = consumed + ReadCount(2)
  /\ IF ReadCount(2) # 2
       THEN Return(-4) /\ rec' = rec
       ELSE GoOn("fragment") /\ rec' = [rec EXCEPT !.length = ntohs(Taken(2))]
  /\ UNCHANGED <<network, delivered>>

\* Mutant: the count of the last read is not looked at.
ReadFragmentUnchecked ==
  /\ rpc = "fragment"
  /\ Readable(rec.length)
  /\ consumed' = consumed + ReadCount(rec.length)
  /\ rc' = 0 /\ rpc' = "handling"
  /\ delivered' = Append(delivered,
       [type |-> rec.type, version |-> rec.version,
        fragment |-> Taken(ReadCount(rec.length))])
  /\ UNCHANGED <<network, rec>>

\* The record goes to main_state_mech.
ReadFragment ==
  /\ rpc = "fragment"
  /\ Readable(rec.length)
  /\ consumed' = consumed + ReadCount(rec.length)
  /\ IF ReadCount(rec.length) # rec.length
       THEN Return(-6) /\ UNCHANGED delivered
       ELSE /\ rc' = 0 /\ rpc' = "handling"
            /\ delivered' = Append(delivered,
                 [type |-> rec.type, version |-> rec.version,
                  fragment |-> Taken(rec.length)])
  /\ UNCHANGED <<network, rec>>

\* malloc returns NULL, for the version or for the fragment.
OutOfMemory ==
  /\ \/ rpc = "version" /\ Return(-2)
     \/ rpc = "fragment" /\ Return(-5)
  /\ UNCHANGED <<network, consumed, rec, delivered>>

\* main_state_mech returns: the loop goes round with a zeroed record, or breaks.
HandlerReturns ==
  /\ rpc = "handling"
  /\ \/ rpc' = "type" /\ rec' = EmptyRecord
     \/ rpc' = "ended" /\ rec' = rec
  /\ UNCHANGED <<network, consumed, rc, delivered>>

-----------------------------------------------------------------------------

ReaderStep == ReadType \/ ReadVersion \/ ReadLength \/ ReadFragment

Terminated == rpc = "ended" /\ UNCHANGED vars

Next ==
  \/ PeerWrites \/ BytesArrive \/ PeerGoes
  \/ ReaderStep \/ OutOfMemory \/ HandlerReturns
  \/ Terminated

Spec == Init /\ [][Next]_vars

\* TCP delivers while the peer is there; the server's thread runs.
FairSpec == Spec /\ WF_vars(BytesArrive) /\ WF_vars(ReaderStep) /\ WF_vars(HandlerReturns)

-----------------------------------------------------------------------------
(* Properties.                                                             *)

PlacedRecord == [at : Nat, rec : PeerRecord]

TypeOK ==
  /\ stream \in Seq(Byte)
  /\ sent \in Seq(PlacedRecord)
  /\ arrived \in 0..Len(stream) /\ consumed \in 0..arrived
  /\ open \in BOOLEAN
  /\ rpc \in {"type", "version", "length", "fragment", "handling", "ended"}
  /\ rec \in [type : Byte, version : Byte \X Byte, length : 0..(ByteSize * ByteSize - 1)]
  /\ rc \in -6..0
  /\ delivered \in Seq(PeerRecord)

\* Where each record starts in the stream; the one after the last starts at its end.
Start == [n \in 1..(Len(sent) + 1) |->
            IF n <= Len(sent) THEN sent[n].at ELSE Len(stream)]

\* The bytes read_record has consumed when it comes to a field.
Offset == [type |-> 0, version |-> 1, length |-> 3, fragment |-> HeaderLength]

\* read_record never loses its place, however the stream is cut up: between two
\* records the socket stands exactly at the start of the next one, inside one at
\* the field that is due, and the fields read are those of that record.
InStep ==
  LET n == Len(delivered) + 1 IN
  /\ rpc \in DOMAIN Offset => consumed = Start[n] + Offset[rpc]
  /\ rpc = "handling"      => consumed = Start[n]
  /\ rpc \in {"version", "length", "fragment"} =>
       n <= Len(sent) /\ rec.type = sent[n].rec.type
  /\ rpc \in {"length", "fragment"} => rec.version = sent[n].rec.version
  /\ rpc = "fragment" => rec.length = Len(sent[n].rec.fragment)

\* "End of file" on the first byte of a record (-1) is the only failure that can
\* be a clean close, and it is one: the peer is gone and every record that
\* arrived whole has been handled.
EndOfFileIsClean ==
  rc = -1 =>
    /\ ~open
    /\ \A n \in DOMAIN sent : Start[n + 1] <= arrived => n <= Len(delivered)

\* What main sees of the socket is a channel of whole records (RecordChannel).
Channel == INSTANCE RecordChannel WITH
  sent <- [n \in DOMAIN sent |-> sent[n].rec],
  up   <- rpc # "ended"

\* Records come out of the loop of main whole, once each and in the order in
\* which the peer sent them, and none after a failure.
ReadsChannel == Channel!Spec

\* While the peer stays and no read fails, every record it sends is handled, one
\* with an empty fragment and nothing behind it included.
EveryRecordHandled ==
  \A n \in 1..MaxRecords :
    Len(sent) >= n ~> Len(delivered) >= n \/ rpc = "ended" \/ ~open

\* What the text of error -6 says, "COULD NOT READ FULL FRAGMENT or END OF FILE ERROR
\* [probaly a buffer overflow attack]": a record given up for its fragment is one whose
\* bytes do not all arrive.  One that arrives whole is handled.
GivenUpIsIncomplete == rc = -6 => arrived < Start[Len(delivered) + 2]
=============================================================================
