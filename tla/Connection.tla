----------------------------- MODULE Connection -----------------------------
(***************************************************************************)
(* The whole program over one TCP connection: the loop of main.c with      *)
(* read_record as RecordReader has it, a read(2) at a time, and            *)
(* main_state_mech as TlsServer has it, one thread for both, and buffers   *)
(* of a finite size in either direction.  While a handler waits for room   *)
(* to write, nothing is read; while the peer waits for room to write,      *)
(* neither does it.                                                        *)
(***************************************************************************)
EXTENDS TlsServer, FiniteSets

CONSTANTS
  ByteSize, PeerRecord, MaxRecords,     \* as in RecordReader
  MessageOf,        \* the message that the bytes of a record make up
  Burst,            \* how many records the peer writes before it reads
  PipeBytes,        \* the bytes that fit between the peer's write and the server's read
  SendBuffer        \* the records that fit between the server's write and the peer's read

VARIABLES
  stream, sent, arrived, consumed, rpc, rec, rc, delivered,    \* as in RecordReader
  received          \* how many records of out the peer has read

Reader == INSTANCE RecordReader WITH open <- (peer = "open")

reader == <<stream, sent, arrived, consumed, rpc, rec, rc, delivered>>
connectionVars == <<vars, reader, received>>

Size(r) == Reader!HeaderLength + Len(r.fragment)

ASSUME ReaderAssumption  ==
  Reader!ByteAssumption /\ Reader!RecordAssumption /\ Reader!BoundAssumption
ASSUME MessageAssumption == MessageOf \in [PeerRecord -> Record]
ASSUME EnoughHandshakes  == MaxRecords <= MaxHandshakes
ASSUME BufferAssumption  ==
  /\ Burst \in Nat \ {0} /\ SendBuffer \in Nat \ {0} /\ PipeBytes \in Nat
  /\ \A r \in PeerRecord : Size(r) <= PipeBytes

-----------------------------------------------------------------------------
(* The peer and the network.                                               *)

\* Between two bursts.
PeerIdle == Len(sent) % Burst = 0 \/ Len(sent) = MaxRecords

Fits(r) == Len(stream) - consumed + Size(r) <= PipeBytes

ConnectionInit == Init /\ Reader!Init /\ received = 0

PeerWrites ==
  /\ UNCHANGED <<vars, received>>
  /\ Reader!PeerWrites
  /\ Fits(sent'[Len(sent')].rec)

BytesArrive == UNCHANGED <<vars, received>> /\ Reader!BytesArrive

PeerReads ==
  /\ peer = "open" /\ PeerIdle
  /\ received < Len(out)
  /\ received' = received + 1
  /\ UNCHANGED <<vars, reader>>

\* The peer closes; or it resets, before or after that.
PeerGoes ==
  /\ PeerCloses \/ PeerResets
  /\ IF peer = "open" THEN Reader!PeerGoes ELSE UNCHANGED reader
  /\ UNCHANGED received

-----------------------------------------------------------------------------
(* The loop of main.                                                       *)

\* Mutant: r is the record of the first round.
FirstRecordAgain == delivered'[1]

\* The record in r.
RecordRead == delivered'[Len(delivered')]

\* One read(2), or the malloc before it.  What a field is read for changes nothing
\* else; the last one makes up the record that is handled, a failure ends the loop.
ReadStep ==
  /\ pc = "read" /\ peer' = peer
  /\ Reader!ReaderStep \/ Reader!OutOfMemory
  /\ \/ rpc' = "handling"
        /\ record' = MessageOf[RecordRead]
        /\ ReadRecord
     \/ rpc' = "ended" /\ ReadFails
     \/ rpc' \notin {"handling", "ended"} /\ UNCHANGED vars
  /\ UNCHANGED received

\* Mutant: write waits until the peer has read what is there.
RoomOnlyInEmptyBuffer == peer # "open" \/ Len(out) = received

\* write(2) returns at once when the peer is gone.
Room == peer # "open" \/ Len(out) - received < SendBuffer

\* The steps that call write.
Writes ==
  \/ pc \in {"serverHello", "encryptedExtensions"}
  \/ Dispatch("application_data") /\ state = "UNENCRYPTED"

\* Mutant: the handler's result ends nothing.
LoopGoesOn ==
  /\ rpc' = "type"
  /\ rec' = Reader!EmptyRecord
  /\ UNCHANGED <<stream, sent, arrived, consumed, rc, delivered>>

\* The handler has returned: rc is 0 and the loop goes round, or it breaks.
HandlerReturns ==
  /\ Reader!HandlerReturns
  /\ rpc' = IF pc' = "read" THEN "type" ELSE "ended"

Handle ==
  /\ Writes => Room
  /\ main_state_mech
  /\ IF pc' = "read" \/ Ended' THEN HandlerReturns ELSE UNCHANGED reader
  /\ UNCHANGED received

ServerStep == ReadStep \/ Handle

-----------------------------------------------------------------------------

ConnectionTerminated == Ended /\ UNCHANGED connectionVars

ConnectionNext ==
  \/ PeerWrites \/ BytesArrive \/ PeerReads \/ PeerGoes
  \/ ServerStep
  \/ ConnectionTerminated

ConnectionSpec == ConnectionInit /\ [][ConnectionNext]_connectionVars

\* The server's thread runs and TCP delivers.  The peer finishes a burst it has
\* begun and then reads what has come, as one that uses blocking calls does.
ConnectionFairSpec ==
  /\ ConnectionSpec
  /\ WF_connectionVars(ServerStep)
  /\ WF_connectionVars(BytesArrive)
  /\ WF_connectionVars(PeerReads)
  /\ WF_connectionVars(~PeerIdle /\ PeerWrites)

-----------------------------------------------------------------------------
(* Properties.                                                             *)

\* The two halves of the program agree where its one thread is, and what is being
\* handled is what was read last.
Coupled ==
  /\ pc = "read" <=> rpc \in {"type", "version", "length", "fragment"}
  /\ Ended <=> rpc = "ended"
  /\ rpc = "handling" =>
       delivered # << >> /\ record = MessageOf[delivered[Len(delivered)]]
  /\ received \in 0..Len(out)

HelloIn(r) == MessageOf[r].hello

Answers == {i \in DOMAIN out : out[i].kind = "ServerHello"}

\* The ServerHellos answer the ClientHellos of the stream, each once and in the
\* order in which the peer wrote them, however TCP cut it up, and none is left out
\* between them.  So the transcript that the peer writes down as it sends is the
\* one KeyAgreement builds from the answers.
AnswersInOrder ==
  \E at \in [Answers -> 1..Len(sent)] :
    /\ \A i, j \in Answers : i < j => at[i] < at[j]
    /\ \A i \in Answers : out[i].hello = HelloIn(sent[at[i]].rec)
    /\ \A i \in Answers : \A n \in 1..at[i] :
         HelloIn(sent[n].rec) # NoHello => \E j \in Answers : at[j] = n

ServerWaits == Writes /\ ~Room

PeerWaits == peer = "open" /\ ~PeerIdle /\ \A r \in PeerRecord : ~Fits(r)

\* The burst goes into the pipe and the answers to it into the send buffer, but for
\* the record in hand: each record takes the pipe's bytes or leaves at most two
\* records behind.
BurstFits ==
  \E n \in 0..Burst :
    /\ \A r \in PeerRecord : n * Size(r) <= PipeBytes
    /\ Burst <= n + SendBuffer \div 2 + 1

HellosIn(n) ==
  Cardinality({k \in DOMAIN sent : k <= n /\ HelloIn(sent[k].rec) # NoHello})

\* The peer is amid a burst that it began before it had read the two records that
\* answer each ClientHello of its earlier bursts.
Hasty == ~PeerIdle /\ received < 2 * HellosIn(Len(sent) - (Len(sent) % Burst))

\* Server and peer never wait for each other to read, if the burst fits and the peer
\* reads its answers between bursts.
NeverBothWait == BurstFits /\ ~Hasty => ~(ServerWaits /\ PeerWaits)

\* A ClientHello in the stream is not left lying there: all are answered in full, or
\* the connection ends, or the peer goes on writing without reading the answers.
EveryHelloAnswered ==
  \A n \in 1..MaxRecords :
    Len(sent) = n ~>
      peer # "open" \/ Ended \/ Hasty \/ Len(out) >= 2 * HellosIn(n)

\* Seen by itself, each half behaves as its own module says.
ServerBehaves == Spec
ReaderBehaves == Reader!Spec
=============================================================================
