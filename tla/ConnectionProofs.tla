-------------------------- MODULE ConnectionProofs --------------------------
(***************************************************************************)
(* Proofs about Connection: the composed program is an implementation of   *)
(* both its halves, so what is proved of each holds of it, and the two     *)
(* together answer the peer's ClientHellos in order.  They hold for every  *)
(* size of bursts, pipes and buffers.                                      *)
(***************************************************************************)
EXTENDS Connection, TlsServerProofs, FiniteSetTheorems

RP == INSTANCE RecordReaderProofs WITH open <- (peer = "open")

-----------------------------------------------------------------------------
(* What answers what.                                                      *)

\* The records whose handling is over; the one in hand still has to be answered as
\* long as its ServerHello is due.
Due == IF pc \in {"dispatch", "serverHello"} THEN Len(delivered) - 1 ELSE Len(delivered)

\* at finds for each answer the record it answers, among those that were read.
Finds(at) ==
  /\ \A i, j \in Answers : i < j => at[i] < at[j]
  /\ \A i \in Answers : out[i].hello = HelloIn(delivered[at[i]])
  /\ \A i \in Answers : \A n \in 1..at[i] :
       HelloIn(delivered[n]) # NoHello => \E j \in Answers : at[j] = n

\* While the peer is there, all that are due have their answer.
NoneOwed(at) ==
  peer = "open" /\ ~Ended =>
    /\ \A i \in Answers : at[i] <= Due
    /\ \A n \in 1..Due : HelloIn(delivered[n]) # NoHello => \E j \in Answers : at[j] = n

Matched == \E at \in [Answers -> 1..Len(delivered)] : Finds(at) /\ NoneOwed(at)

-----------------------------------------------------------------------------
(* The halves.                                                             *)

\* The reader's assumptions, under the names they have among its proofs.
LEMMA ReaderConstants ==
  RP!ByteAssumption /\ RP!RecordAssumption /\ RP!BoundAssumption
  BY ReaderAssumption
  DEF Reader!ByteAssumption, Reader!RecordAssumption, Reader!BoundAssumption, Reader!Byte,
      RP!ByteAssumption, RP!RecordAssumption, RP!BoundAssumption, RP!Byte

\* A step of the program is one of main_state_mech or of its environment, or leaves
\* all that the handshake is about alone.
LEMMA StepIsServerStep == [ConnectionNext]_connectionVars => [Next]_vars
<1> SUFFICES ASSUME [ConnectionNext]_connectionVars PROVE [Next]_vars
  OBVIOUS
<1>1. CASE PeerWrites \/ BytesArrive \/ PeerReads \/ ConnectionTerminated
  BY <1>1 DEF PeerWrites, BytesArrive, PeerReads, ConnectionTerminated, connectionVars
<1>2. CASE PeerGoes
  BY <1>2 DEF PeerGoes, Next
<1>3. CASE ReadStep
  BY <1>3 DEF ReadStep, Next
<1>4. CASE Handle
  BY <1>4 DEF Handle, Next
<1>5. CASE UNCHANGED connectionVars
  BY <1>5 DEF connectionVars
<1> QED
  BY <1>1, <1>2, <1>3, <1>4, <1>5 DEF ConnectionNext, ServerStep

\* The program over a socket implements the server that is given whole records.
THEOREM BehavesAsServer == ConnectionSpec => ServerBehaves
<1>1. ConnectionInit => Init
  BY DEF ConnectionInit
<1> QED
  BY <1>1, StepIsServerStep, PTL DEF ConnectionSpec, ServerBehaves, Spec

\* A step is one of read_record or of its environment, or leaves the reader alone.
LEMMA StepIsReaderStep == [ConnectionNext]_connectionVars => [Reader!Next]_(Reader!vars)
<1> SUFFICES ASSUME [ConnectionNext]_connectionVars PROVE [Reader!Next]_(Reader!vars)
  OBVIOUS
<1> USE DEF Reader!vars, Reader!network
<1>1. CASE PeerWrites
  BY <1>1 DEF PeerWrites, Reader!Next
<1>2. CASE BytesArrive
  BY <1>2 DEF BytesArrive, Reader!Next
<1>3. CASE PeerReads
  BY <1>3 DEF PeerReads, vars, reader
<1>4. CASE PeerGoes
  <2>1. CASE peer = "open"
    BY <1>4, <2>1 DEF PeerGoes, Reader!Next
  <2>2. CASE peer # "open"
    BY <1>4, <2>2 DEF PeerGoes, PeerCloses, PeerResets, reader
  <2> QED
    BY <2>1, <2>2
<1>5. CASE ReadStep
  BY <1>5 DEF ReadStep, Reader!Next
<1>6. CASE Handle
  <2>1. peer' = peer
    BY <1>6 DEF Handle, main_state_mech, IgnoreRecord, RejectRecord, RefuseApplicationData,
                ScanKillsProcess, StartHandshake, SendServerHello, InstallKeys,
                send_null_EncryptedExtensions, OutOfMemory, Write
  <2> QED
    BY <1>6, <2>1 DEF Handle, HandlerReturns, Reader!Next, reader
<1>7. CASE ConnectionTerminated \/ UNCHANGED connectionVars
  BY <1>7 DEF ConnectionTerminated, connectionVars, vars, reader
<1> QED
  BY <1>1, <1>2, <1>3, <1>4, <1>5, <1>6, <1>7 DEF ConnectionNext, ServerStep

\* However long a handler waits to write, the stream is read as read_record reads it
\* when nothing keeps it waiting.
THEOREM BehavesAsReader == ConnectionSpec => ReaderBehaves
<1>1. ConnectionInit => Reader!Init
  BY DEF ConnectionInit
<1> QED
  BY <1>1, StepIsReaderStep, PTL DEF ConnectionSpec, ReaderBehaves, Reader!Spec

\* No nonce meets a key twice on a connection, whatever TCP and the buffers do.
THEOREM ConnectionNonces == ConnectionSpec => []NonceUnique
  BY BehavesAsServer, NoncesAreUnique, PTL DEF ServerBehaves

-----------------------------------------------------------------------------
(* What the reader's invariant says here.                                  *)

LEMMA ReaderIInvInit == ConnectionInit => RP!IInv
<1>1. Reader!Init => RP!Init
  BY DEF Reader!Init, RP!Init, Reader!EmptyRecord, RP!EmptyRecord
<1>2. RP!Init => RP!IInv
  BY RP!InitIInv, ReaderConstants
  DEF RP!ByteAssumption, RP!RecordAssumption, RP!BoundAssumption, RP!Byte
<1> QED
  BY <1>1, <1>2 DEF ConnectionInit

LEMMA ReaderIInvStep == RP!IInv /\ [Reader!Next]_(Reader!vars) => RP!IInv'
<1>1. [Reader!Next]_(Reader!vars) => [RP!Next]_(RP!vars)
  BY DEF Reader!Next, Reader!vars, Reader!network, RP!Next, RP!vars, RP!network,
         Reader!PeerWrites, RP!PeerWrites, Reader!BytesArrive, RP!BytesArrive,
         Reader!PeerGoes, RP!PeerGoes, Reader!OutOfMemory, RP!OutOfMemory,
         Reader!HandlerReturns, RP!HandlerReturns, Reader!Terminated, RP!Terminated,
         Reader!ReaderStep, RP!ReaderStep, Reader!ReadType, RP!ReadType,
         Reader!ReadVersion, RP!ReadVersion, Reader!ReadLength, RP!ReadLength,
         Reader!ReadFragment, RP!ReadFragment, Reader!Readable, RP!Readable,
         Reader!ReadCount, RP!ReadCount, Reader!Taken, RP!Taken, Reader!ntohs, RP!ntohs,
         Reader!Return, RP!Return, Reader!GoOn, RP!GoOn,
         Reader!EmptyRecord, RP!EmptyRecord, Reader!Encode, RP!Encode
<1>2. RP!IInv /\ [RP!Next]_(RP!vars) => RP!IInv'
  BY RP!NextIInv, ReaderConstants
  DEF RP!ByteAssumption, RP!RecordAssumption, RP!BoundAssumption, RP!Byte
<1> QED
  BY <1>1, <1>2

-----------------------------------------------------------------------------
(* The one thread.                                                         *)

\* A read puts the thread at the next field, hands the record over, or ends the loop.
LEMMA ReadStepFacts ==
  ASSUME ReadStep
  PROVE  /\ pc = "read" /\ UNCHANGED <<peer, out, received>>
         /\ \/ /\ rpc' = "handling" /\ pc' = "dispatch"
               /\ record' = MessageOf[delivered'[Len(delivered')]]
               /\ \E r : delivered' = Append(delivered, r)
            \/ /\ rpc' \in {"version", "length", "fragment"}
               /\ UNCHANGED <<pc, record, delivered>>
            \/ rpc' = "ended" /\ pc' = "stopped" /\ UNCHANGED delivered
<1>1. \/ rpc' = "handling" /\ \E r : delivered' = Append(delivered, r)
      \/ rpc' \in {"version", "length", "fragment", "ended"} /\ UNCHANGED delivered
  BY DEF ReadStep, Reader!ReaderStep, Reader!OutOfMemory, Reader!ReadType, Reader!ReadVersion,
         Reader!ReadLength, Reader!ReadFragment, Reader!Return, Reader!GoOn
<1> QED
  BY <1>1 DEF ReadStep, ReadRecord, ReadFails, RecordRead, vars

\* A step of the handler ends with the thread back at reading, or out of the loop.
LEMMA HandleFacts ==
  ASSUME Handle, TypeInv
  PROVE  /\ pc \in {"dispatch", "serverHello", "installKeys", "encryptedExtensions"}
         /\ UNCHANGED <<record, peer, delivered, received>>
         /\ \/ pc' = "read" /\ rpc' = "type"
            \/ Ended' /\ rpc' = "ended"
            \/ /\ pc' \in {"serverHello", "installKeys", "encryptedExtensions"}
               /\ UNCHANGED rpc
         /\ out' = out \/ \E m : out' = Append(out, m)
<1>1. /\ pc \in {"dispatch", "serverHello", "installKeys", "encryptedExtensions"}
      /\ pc' \in {"read", "serverHello", "installKeys", "encryptedExtensions",
                  "stopped", "killed"}
      /\ UNCHANGED <<record, peer>>
      /\ out' = out \/ \E m : out' = Append(out, m)
  BY DEF Handle, main_state_mech, IgnoreRecord, RejectRecord, RefuseApplicationData,
         ScanKillsProcess, StartHandshake, SendServerHello, InstallKeys,
         send_null_EncryptedExtensions, OutOfMemory, Write, Dispatch
<1> QED
  BY <1>1 DEF Handle, HandlerReturns, Reader!HandlerReturns, reader, Ended

LEMMA InitCoupled == ConnectionInit => Coupled
  BY DEF ConnectionInit, Init, Reader!Init, Coupled, Ended

LEMMA StepCoupled ==
  ASSUME TypeInv, OutIsSequence, RP!TypeOK, Coupled, [ConnectionNext]_connectionVars
  PROVE  Coupled'
<1>1. out \in Seq({out[i] : i \in DOMAIN out}) /\ delivered \in Seq(PeerRecord)
      /\ Len(out) \in Nat
  BY DEF OutIsSequence, RP!TypeOK
<1>2. CASE ReadStep
  <2>1. CASE rpc' = "handling"
    <3>1. PICK r : delivered' = Append(delivered, r)
      BY <1>2, <2>1, ReadStepFacts
    <3>2. delivered' # << >>
      BY <1>1, <3>1
    <3> QED
      BY <1>2, <2>1, <3>2, ReadStepFacts DEF Coupled, Ended
  <2>2. CASE rpc' # "handling"
    BY <1>2, <2>2, ReadStepFacts DEF Coupled, Ended
  <2> QED
    BY <2>1, <2>2
<1>3. CASE Handle
  <2>1. received' \in 0..Len(out')
    <3>1. received \in 0..Len(out) /\ received' = received
      BY <1>3, HandleFacts DEF Coupled
    <3>2. Len(out') \in {Len(out), Len(out) + 1}
      BY <1>1, <1>3, HandleFacts
    <3> QED
      BY <1>1, <3>1, <3>2
  <2> QED
    BY <1>3, <2>1, HandleFacts DEF Coupled, Ended
<1>4. CASE PeerReads
  BY <1>1, <1>4 DEF PeerReads, Coupled, Ended, vars, reader
<1>5. CASE PeerWrites \/ BytesArrive \/ PeerGoes \/ ConnectionTerminated
           \/ UNCHANGED connectionVars
  <2>1. UNCHANGED <<pc, record, out, rpc, delivered, received>>
    BY <1>5 DEF PeerWrites, BytesArrive, PeerGoes, PeerCloses, PeerResets,
                ConnectionTerminated, connectionVars, vars, reader,
                Reader!PeerWrites, Reader!BytesArrive, Reader!PeerGoes
  <2> QED
    BY <2>1 DEF Coupled, Ended
<1> QED
  BY <1>2, <1>3, <1>4, <1>5 DEF ConnectionNext, ServerStep

-----------------------------------------------------------------------------
(* Answers and ClientHellos.                                               *)

\* A step that sends no ServerHello keeps the match, if what it lets become due
\* asks for none.
LEMMA MatchedKept ==
  ASSUME Matched, delivered \in Seq(PeerRecord), delivered' = delivered,
         Answers' = Answers, \A i \in Answers : out'[i] = out[i],
         peer' = "open" /\ ~Ended' =>
           /\ peer = "open" /\ ~Ended
           /\ \/ Due' = Due
              \/ Due' = Due + 1 /\ HelloIn(delivered[Due + 1]) = NoHello
  PROVE  Matched'
<1>1. PICK at \in [Answers -> 1..Len(delivered)] : Finds(at) /\ NoneOwed(at)
  BY DEF Matched
<1>2. Due \in Int /\ Len(delivered) \in Nat
  BY DEF Due
<1>3. at \in [Answers' -> 1..Len(delivered')]
  OBVIOUS
<1>4. Finds(at)'
  BY <1>1 DEF Finds, HelloIn
<1>5. ASSUME peer' = "open", ~Ended' PROVE \A i \in Answers : at[i] <= Due'
  BY <1>1, <1>2, <1>5 DEF NoneOwed
<1>6. ASSUME peer' = "open", ~Ended', NEW n \in 1..Due', HelloIn(delivered[n]) # NoHello
      PROVE  \E j \in Answers : at[j] = n
  <2>1. n \in 1..Due
    BY <1>2, <1>6
  <2> QED
    BY <1>1, <1>6, <2>1 DEF NoneOwed
<1>7. NoneOwed(at)'
  BY <1>5, <1>6 DEF NoneOwed, HelloIn
<1> QED
  BY <1>3, <1>4, <1>7 DEF Matched

\* What an append does to the answers.
LEMMA AnswersGrow ==
  ASSUME NEW S, out \in Seq(S), NEW m, out' = Append(out, m)
  PROVE  /\ \A i \in Answers : out'[i] = out[i]
         /\ m.kind # "ServerHello" => Answers' = Answers
         /\ m.kind = "ServerHello" => Answers' = Answers \cup {Len(out) + 1}
         /\ Len(out) + 1 \notin Answers /\ out'[Len(out) + 1] = m
         /\ \A i \in Answers : i < Len(out) + 1
<1>1. /\ DOMAIN out' = 1..(Len(out) + 1) /\ DOMAIN out = 1..Len(out) /\ Len(out) \in Nat
      /\ \A i \in 1..Len(out) : out'[i] = out[i]
      /\ out'[Len(out) + 1] = m
  OBVIOUS
<1> QED
  BY <1>1 DEF Answers

\* A record that is read waits for its answer behind all others.
LEMMA MatchedRead ==
  ASSUME Matched, delivered \in Seq(PeerRecord), NEW r, delivered' = Append(delivered, r),
         out' = out, peer' = peer, pc = "read", pc' = "dispatch"
  PROVE  Matched'
<1>1. PICK at \in [Answers -> 1..Len(delivered)] : Finds(at) /\ NoneOwed(at)
  BY DEF Matched
<1>2. /\ Len(delivered) \in Nat /\ Len(delivered') = Len(delivered) + 1
      /\ \A n \in 1..Len(delivered) : delivered'[n] = delivered[n]
  OBVIOUS
<1>3. Due = Len(delivered) /\ Due' = Len(delivered) /\ Answers' = Answers
  BY <1>2 DEF Due, Answers
<1>4. at \in [Answers' -> 1..Len(delivered')]
  BY <1>2, <1>3
<1>5. Finds(at)'
  <2>1. \A i \in Answers : at[i] \in 1..Len(delivered)
    OBVIOUS
  <2>2. \A i \in Answers : out'[i].hello = HelloIn(delivered'[at[i]])
    BY <1>1, <1>2, <2>1 DEF Finds, HelloIn
  <2>3. \A i \in Answers : \A n \in 1..at[i] :
          HelloIn(delivered'[n]) # NoHello => \E j \in Answers : at[j] = n
    BY <1>1, <1>2, <2>1 DEF Finds, HelloIn
  <2> QED
    BY <1>1, <1>3, <2>2, <2>3 DEF Finds, HelloIn
<1>6. NoneOwed(at)'
  BY <1>1, <1>2, <1>3 DEF NoneOwed, HelloIn, Ended
<1> QED
  BY <1>4, <1>5, <1>6 DEF Matched

\* A ServerHello answers the record in hand, the only one that is owed an answer.
LEMMA MatchedAnswer ==
  ASSUME Matched, delivered \in Seq(PeerRecord), delivered # << >>, delivered' = delivered,
         NEW S, out \in Seq(S), NEW m, m.kind = "ServerHello", out' = Append(out, m),
         m.hello = HelloIn(delivered[Len(delivered)]),
         peer = "open", pc = "serverHello", pc' = "installKeys"
  PROVE  Matched'
<1> DEFINE L == Len(delivered)
           k == Len(out) + 1
<1>1. PICK at \in [Answers -> 1..L] : Finds(at) /\ NoneOwed(at)
  BY DEF Matched
<1>2. L \in Nat \ {0} /\ k \in Nat
  OBVIOUS
<1>3. Due = L - 1 /\ Due' = L /\ ~Ended
  BY <1>2 DEF Due, Ended
<1>4. /\ Answers' = Answers \cup {k} /\ k \notin Answers /\ out'[k] = m
      /\ \A i \in Answers : i < k /\ out'[i] = out[i]
  BY AnswersGrow
<1>5. \A i \in Answers : at[i] <= L - 1 /\ at[i] \in 1..L
  BY <1>1, <1>3 DEF NoneOwed
<1>6. \A n \in 1..(L - 1) : HelloIn(delivered[n]) # NoHello => \E j \in Answers : at[j] = n
  BY <1>1, <1>3 DEF NoneOwed
<1>7. PICK to \in [Answers \cup {k} -> 1..L] : to[k] = L /\ \A i \in Answers : to[i] = at[i]
  <2> DEFINE f == [i \in Answers \cup {k} |-> IF i = k THEN L ELSE at[i]]
  <2>1. f \in [Answers \cup {k} -> 1..L] /\ f[k] = L /\ \A i \in Answers : f[i] = at[i]
    BY <1>2, <1>4, <1>5
  <2> QED
    BY <2>1
<1>8. Answers \subseteq Nat /\ delivered' = delivered /\ Len(delivered') = L
  BY DEF Answers
<1> HIDE DEF L, k
<1>9. ASSUME NEW n \in 1..L, HelloIn(delivered[n]) # NoHello
      PROVE  \E j \in Answers \cup {k} : to[j] = n
  <2>1. CASE n = L
    BY <1>7, <2>1
  <2>2. CASE n # L
    <3>1. n \in 1..(L - 1)
      BY <1>2, <2>2
    <3>2. PICK j \in Answers : at[j] = n
      BY <1>6, <1>9, <3>1
    <3> QED
      BY <1>7, <3>2
  <2> QED
    BY <2>1, <2>2
<1>10. Finds(to)'
  <2>1. ASSUME NEW i \in Answers \cup {k}, NEW j \in Answers \cup {k}, i < j
        PROVE  to[i] < to[j]
    <3>1. i # k
      <4>1. j \in Nat /\ k \in Nat /\ j <= k
        BY <1>2, <1>4, <1>8
      <4> QED
        BY <2>1, <4>1
    <3>2. CASE j \in Answers
      BY <1>1, <1>7, <2>1, <3>1, <3>2 DEF Finds
    <3>3. CASE j = k
      BY <1>2, <1>5, <1>7, <3>1, <3>3
    <3> QED
      BY <3>2, <3>3
  <2>2. \A i \in Answers \cup {k} : out'[i].hello = HelloIn(delivered[to[i]])
    BY <1>1, <1>4, <1>7 DEF Finds, L
  <2>3. \A i \in Answers \cup {k} : \A n \in 1..to[i] :
          HelloIn(delivered[n]) # NoHello => \E j \in Answers \cup {k} : to[j] = n
    BY <1>2, <1>7, <1>9
  <2>4. Answers' = Answers \cup {k} /\ delivered' = delivered
    BY <1>4, <1>8
  <2>5. /\ \A i, j \in Answers' : i < j => to[i] < to[j]
        /\ \A i \in Answers' : out'[i].hello = MessageOf[delivered'[to[i]]].hello
        /\ \A i \in Answers' : \A n \in 1..to[i] :
             MessageOf[delivered'[n]].hello # NoHello => \E j \in Answers' : to[j] = n
    BY <2>1, <2>2, <2>3, <2>4, ZenonT(60) DEF HelloIn
  <2> QED
    BY <2>5 DEF Finds, HelloIn
<1>11. NoneOwed(to)'
  <2>1. \A i \in Answers \cup {k} : to[i] <= L
    BY <1>2, <1>7
  <2>2. \A n \in 1..Due' : HelloIn(delivered'[n]) # NoHello
                              => \E j \in Answers' : to[j] = n
    BY <1>3, <1>4, <1>8, <1>9
  <2> QED
    BY <1>3, <1>4, <2>1, <2>2 DEF NoneOwed, HelloIn
<1>12. to \in [Answers' -> 1..Len(delivered')]
  BY <1>4, <1>7, <1>8
<1> QED
  BY <1>10, <1>11, <1>12 DEF Matched

LEMMA InitMatched == ConnectionInit => Matched
<1> SUFFICES ASSUME ConnectionInit PROVE Matched
  OBVIOUS
<1>1. Answers = {} /\ Due = 0 /\ Len(delivered) = 0
  BY DEF ConnectionInit, Init, Reader!Init, Answers, Due
<1> DEFINE none == [i \in {} |-> 1]
<1>2. none \in [Answers -> 1..Len(delivered)] /\ Finds(none) /\ NoneOwed(none)
  BY <1>1 DEF Finds, NoneOwed
<1> QED
  BY <1>2 DEF Matched

\* The steps of a handler.
LEMMA HandleMatched ==
  ASSUME TypeInv, OutIsSequence, RP!TypeOK, Coupled, Matched, Handle
  PROVE  Matched'
<1>1. /\ UNCHANGED <<record, peer, delivered>> /\ Len(delivered) \in Nat
      /\ delivered \in Seq(PeerRecord)
      /\ delivered # << >> /\ record = MessageOf[delivered[Len(delivered)]]
  <2>1. rpc = "handling"
    BY HandleFacts DEF Coupled, Ended, RP!TypeOK
  <2> QED
    BY <2>1, HandleFacts DEF Coupled, RP!TypeOK
<1>2. out \in Seq({out[i] : i \in DOMAIN out})
  BY DEF OutIsSequence
<1>3. CASE IgnoreRecord
  <2>1. /\ pc = "dispatch" /\ pc' = "read" /\ out' = out
        /\ record.type # "handshake"
    BY <1>3 DEF IgnoreRecord, Dispatch
  <2>2. record.hello = NoHello
    BY <2>1 DEF TypeInv, TypeOK, Record
  <2>3. Due' = Due + 1 /\ HelloIn(delivered[Due + 1]) = NoHello
    BY <1>1, <2>1, <2>2 DEF Due, HelloIn
  <2> QED
    BY <1>1, <2>1, <2>3, MatchedKept DEF Answers, Ended
<1>4. CASE RejectRecord \/ ScanKillsProcess \/ OutOfMemory
  <2>1. Ended' /\ out' = out
    BY <1>4 DEF RejectRecord, ScanKillsProcess, OutOfMemory, Ended
  <2> QED
    BY <1>1, <2>1, MatchedKept DEF Answers
<1>5. CASE RefuseApplicationData
  <2>1. Ended' /\ (out' = out \/ out' = Append(out, UnexpectedMessageAlert))
    BY <1>5 DEF RefuseApplicationData, Write, Ended
  <2>2. Answers' = Answers /\ \A i \in Answers : out'[i] = out[i]
    BY <1>2, <2>1, AnswersGrow DEF Answers, UnexpectedMessageAlert
  <2> QED
    BY <1>1, <2>1, <2>2, MatchedKept
<1>6. CASE StartHandshake
  <2>1. pc = "dispatch" /\ (Ended' \/ pc' = "serverHello") /\ out' = out
    BY <1>6 DEF StartHandshake, Dispatch, Ended
  <2>2. pc' = "serverHello" => Due' = Due /\ ~Ended
    BY <1>1, <2>1 DEF Due, Ended
  <2> QED
    BY <1>1, <2>1, <2>2, MatchedKept DEF Answers
<1>7. CASE SendServerHello
  <2> DEFINE m == ServerHelloMsg(record.hello, ephemeral)
  <2>1. pc = "serverHello" /\ Write(m, "installKeys")
    BY <1>7 DEF SendServerHello
  <2>2. CASE peer = "open"
    <3>1. out' = Append(out, m) /\ pc' = "installKeys"
      BY <2>1, <2>2, WriteFacts
    <3>2. m.kind = "ServerHello" /\ m.hello = HelloIn(delivered[Len(delivered)])
      BY <1>1 DEF ServerHelloMsg, HelloIn
    <3> HIDE DEF m
    <3> QED
      BY <1>1, <1>2, <2>1, <2>2, <3>1, <3>2, MatchedAnswer
  <2>3. CASE peer # "open"
    <3>1. out' = out /\ peer' # "open"
      BY <2>1, <2>3, WriteFacts
    <3> QED
      BY <1>1, <3>1, MatchedKept DEF Answers
  <2> QED
    BY <2>2, <2>3
<1>8. CASE InstallKeys
  <2>1. Due' = Due /\ ~Ended /\ out' = out
    BY <1>1, <1>8 DEF InstallKeys, Due, Ended
  <2> QED
    BY <1>1, <2>1, MatchedKept DEF Answers
<1>9. CASE send_null_EncryptedExtensions
  <2>1. /\ pc = "encryptedExtensions" /\ (Ended' \/ pc' = "read")
        /\ out' = out \/ out' = Append(out, EncryptedExtensionsUnderKeys)
    BY <1>9 DEF send_null_EncryptedExtensions, Write, Ended
  <2>2. Answers' = Answers /\ \A i \in Answers : out'[i] = out[i]
    BY <1>2, <2>1, AnswersGrow DEF Answers, EncryptedExtensionsUnderKeys, EncryptedExtensionsRec
  <2>3. pc' = "read" => Due' = Due /\ ~Ended
    BY <1>1, <2>1 DEF Due, Ended
  <2> QED
    BY <1>1, <2>1, <2>2, <2>3, MatchedKept
<1> QED
  BY <1>3, <1>4, <1>5, <1>6, <1>7, <1>8, <1>9 DEF Handle, main_state_mech

LEMMA StepMatched ==
  ASSUME TypeInv, OutIsSequence, RP!TypeOK, Coupled, Matched,
         [ConnectionNext]_connectionVars
  PROVE  Matched'
<1>1. delivered \in Seq(PeerRecord)
  BY DEF RP!TypeOK
<1>2. CASE ReadStep
  <2>1. CASE rpc' = "handling"
    <3>1. PICK r : delivered' = Append(delivered, r)
      BY <1>2, <2>1, ReadStepFacts
    <3>2. out' = out /\ peer' = peer /\ pc = "read" /\ pc' = "dispatch"
      BY <1>2, <2>1, ReadStepFacts
    <3> QED
      BY <1>1, <3>1, <3>2, MatchedRead
  <2>2. CASE rpc' # "handling"
    <3>1. /\ delivered' = delivered /\ out' = out /\ peer' = peer /\ pc = "read"
          /\ pc' \in {"read", "stopped"}
      BY <1>2, <2>2, ReadStepFacts
    <3>2. Due' = Due /\ ~Ended
      BY <3>1 DEF Due, Ended
    <3> QED
      BY <1>1, <3>1, <3>2, MatchedKept DEF Answers
  <2> QED
    BY <2>1, <2>2
<1>3. CASE Handle
  BY <1>1, <1>3, HandleMatched
<1>4. CASE PeerWrites \/ BytesArrive \/ PeerReads \/ PeerGoes \/ ConnectionTerminated
           \/ UNCHANGED connectionVars
  <2>1. UNCHANGED <<pc, out, delivered>> /\ (peer' = "open" => peer = "open")
    BY <1>4 DEF PeerWrites, BytesArrive, PeerReads, PeerGoes, PeerCloses, PeerResets,
                ConnectionTerminated, connectionVars, vars, reader,
                Reader!PeerWrites, Reader!BytesArrive, Reader!PeerGoes
  <2>2. Due' = Due /\ Ended' = Ended
    BY <2>1 DEF Due, Ended
  <2> QED
    BY <1>1, <2>1, <2>2, MatchedKept DEF Answers
<1> QED
  BY <1>2, <1>3, <1>4 DEF ConnectionNext, ServerStep

-----------------------------------------------------------------------------
(* Nobody waits for the other.                                             *)

HelloPlaces(n) == {k \in DOMAIN sent : k <= n /\ HelloIn(sent[k].rec) # NoHello}

\* Of the records that answer the ClientHello in hand, those still to be written.
InFlight == IF pc \in {"installKeys", "encryptedExtensions"} THEN 1 ELSE 0

\* Two records answer each ClientHello.
AnswersCounted == peer = "open" /\ ~Ended => Len(out) = 2 * HellosIn(Due) - InFlight

LEMMA HelloPlacesFinite ==
  ASSUME NEW S, sent \in Seq(S), NEW n
  PROVE  IsFiniteSet(HelloPlaces(n)) /\ HellosIn(n) = Cardinality(HelloPlaces(n))
         /\ HellosIn(n) \in Nat
<1>1. HelloPlaces(n) \subseteq 1..Len(sent) /\ Len(sent) \in Nat
  BY DEF HelloPlaces
<1>2. IsFiniteSet(HelloPlaces(n))
  <2>1. IsFiniteSet(1..Len(sent))
    BY <1>1, FS_Interval
  <2>2. HelloPlaces(n) \in SUBSET (1..Len(sent))
    BY <1>1
  <2> QED
    BY <2>1, <2>2, FS_Subset
<1>3. HellosIn(n) = Cardinality(HelloPlaces(n))
  BY DEF HellosIn, HelloPlaces
<1> QED
  BY <1>2, <1>3, FS_CardinalityType

\* One record more.
LEMMA HellosNext ==
  ASSUME NEW S, sent \in Seq(S), NEW n \in Nat, n + 1 <= Len(sent)
  PROVE  HellosIn(n + 1) =
           IF HelloIn(sent[n + 1].rec) = NoHello THEN HellosIn(n) ELSE HellosIn(n) + 1
<1>1. DOMAIN sent = 1..Len(sent) /\ Len(sent) \in Nat
  OBVIOUS
<1>2. CASE HelloIn(sent[n + 1].rec) = NoHello
  <2>1. HelloPlaces(n + 1) = HelloPlaces(n)
    BY <1>1, <1>2 DEF HelloPlaces
  <2> QED
    BY <1>2, <2>1, HelloPlacesFinite
<1>3. CASE HelloIn(sent[n + 1].rec) # NoHello
  <2>1. HelloPlaces(n + 1) = HelloPlaces(n) \cup {n + 1} /\ n + 1 \notin HelloPlaces(n)
    BY <1>1, <1>3 DEF HelloPlaces
  <2>2. Cardinality(HelloPlaces(n) \cup {n + 1}) = Cardinality(HelloPlaces(n)) + 1
    BY <2>1, HelloPlacesFinite, FS_AddElement
  <2> QED
    BY <1>3, <2>1, <2>2, HelloPlacesFinite
<1> QED
  BY <1>2, <1>3

\* Between two places there are at most as many ClientHellos as records.
LEMMA HellosBetween ==
  ASSUME NEW S, sent \in Seq(S), NEW m \in Nat, NEW n \in Nat, m <= n
  PROVE  HellosIn(m) <= HellosIn(n) /\ HellosIn(n) <= HellosIn(m) + (n - m)
<1>1. DOMAIN sent = 1..Len(sent) /\ Len(sent) \in Nat
  OBVIOUS
<1>2. HelloPlaces(m) \subseteq HelloPlaces(n)
  BY <1>1 DEF HelloPlaces
<1>3. HellosIn(m) <= HellosIn(n)
  BY <1>2, HelloPlacesFinite, FS_Subset
<1> DEFINE T == HelloPlaces(m) \cup ((m + 1)..n)
<1>4. HelloPlaces(n) \subseteq T
  BY <1>1 DEF HelloPlaces
<1>5. IsFiniteSet((m + 1)..n) /\ Cardinality((m + 1)..n) = n - m
  <2>1. PICK a \in Int : a = m + 1
    OBVIOUS
  <2>2. n \in Int /\ a <= n + 1
    BY <2>1
  <2>3. IsFiniteSet(a..n) /\ Cardinality(a..n) = IF a > n THEN 0 ELSE n - a + 1
    BY <2>2, FS_Interval
  <2>4. Cardinality(a..n) = n - m
    BY <2>1, <2>2, <2>3
  <2> QED
    BY <2>1, <2>3, <2>4
<1>6. HelloPlaces(m) \cap ((m + 1)..n) = {}
  BY <1>1 DEF HelloPlaces
<1>7. IsFiniteSet(T) /\ Cardinality(T) = HellosIn(m) + (n - m)
  <2>1. IsFiniteSet(HelloPlaces(m)) /\ HellosIn(m) = Cardinality(HelloPlaces(m))
        /\ HellosIn(m) \in Nat
    BY HelloPlacesFinite
  <2>2. /\ IsFiniteSet(T)
        /\ Cardinality(T) = Cardinality(HelloPlaces(m)) + Cardinality((m + 1)..n)
                              - Cardinality(HelloPlaces(m) \cap ((m + 1)..n))
    BY <1>5, <2>1, FS_Union
  <2>3. Cardinality(HelloPlaces(m) \cap ((m + 1)..n)) = 0
    BY <1>6, FS_EmptySet
  <2> HIDE DEF T
  <2>4. Cardinality(T) = HellosIn(m) + (n - m) - 0
    BY <1>5, <2>1, <2>2, <2>3
  <2> QED
    BY <2>1, <2>2, <2>4
<1> HIDE DEF T
<1>8. HellosIn(n) <= Cardinality(T)
  BY <1>4, <1>7, HelloPlacesFinite, FS_Subset
<1> QED
  BY <1>3, <1>7, <1>8

\* What has been sent is not changed by what is sent after it.
LEMMA HellosStay ==
  ASSUME NEW S, sent \in Seq(S), NEW n \in Nat, n <= Len(sent),
         sent' = sent \/ \E m : sent' = Append(sent, m)
  PROVE  HellosIn(n)' = HellosIn(n)
<1>1. DOMAIN sent = 1..Len(sent) /\ Len(sent) \in Nat
  OBVIOUS
<1>2. /\ DOMAIN sent \subseteq DOMAIN sent'
      /\ \A k \in DOMAIN sent' : k <= n => k \in DOMAIN sent /\ sent'[k] = sent[k]
  BY <1>1
<1>3. HelloPlaces(n)' = HelloPlaces(n)
  BY <1>1, <1>2 DEF HelloPlaces, HelloIn
<1> QED
  BY <1>3 DEF HellosIn, HelloPlaces

\* A step keeps the count that lets nothing become due, or only what is no ClientHello.
LEMMA CountKept ==
  ASSUME AnswersCounted, sent \in Seq(Reader!PlacedRecord), Due \in Nat, Due <= Len(sent),
         sent' = sent \/ \E m : sent' = Append(sent, m),
         peer' = "open" /\ ~Ended' =>
           /\ peer = "open" /\ ~Ended
           /\ Len(out') + InFlight' = Len(out) + InFlight
           /\ \/ Due' = Due
              \/ /\ Due' = Due + 1 /\ Due + 1 <= Len(sent)
                 /\ HelloIn(sent[Due + 1].rec) = NoHello
                 /\ sent' = sent,
         OutIsSequence, OutIsSequence'
  PROVE  AnswersCounted'
<1> SUFFICES ASSUME peer' = "open", ~Ended' PROVE Len(out') = 2 * HellosIn(Due)' - InFlight'
  BY DEF AnswersCounted
<1>1. HellosIn(Due)' = HellosIn(Due)
  <2>1. CASE Due' = Due
    <3>1. PICK d \in Nat : d = Due
      OBVIOUS
    <3>2. HellosIn(d)' = HellosIn(d)
      BY <3>1, HellosStay
    <3> QED
      BY <2>1, <3>1, <3>2 DEF HellosIn
  <2>2. CASE Due' = Due + 1 /\ sent' = sent
    <3>1. PICK d \in Nat : d = Due
      OBVIOUS
    <3>2. HellosIn(d + 1) = HellosIn(d)
      BY <2>2, <3>1, HellosNext
    <3> QED
      BY <2>2, <3>1, <3>2 DEF HellosIn, HelloIn
  <2> QED
    BY <2>1, <2>2
<1>2. Len(out) \in Nat /\ Len(out') \in Nat /\ InFlight \in Nat /\ InFlight' \in Nat
  BY DEF OutIsSequence, InFlight
<1>3. HellosIn(Due) \in Nat
  BY HelloPlacesFinite
<1> QED
  BY <1>1, <1>2, <1>3, SMTT(60) DEF AnswersCounted

LEMMA InitCounted == ConnectionInit => AnswersCounted
<1> SUFFICES ASSUME ConnectionInit PROVE AnswersCounted
  OBVIOUS
<1>1. out = << >> /\ sent = << >> /\ InFlight = 0
  BY DEF ConnectionInit, Init, Reader!Init, InFlight
<1>2. HelloPlaces(Due) = {}
  BY <1>1 DEF HelloPlaces
<1>3. HellosIn(Due) = 0
  BY <1>2, FS_EmptySet DEF HellosIn, HelloPlaces
<1> QED
  BY <1>1, <1>3 DEF AnswersCounted

\* What has been read is part of what has been sent.
LEMMA ReadOfSent ==
  ASSUME RP!TypeOK, RP!DeliveredInOrder, Coupled
  PROVE  /\ sent \in Seq(Reader!PlacedRecord) /\ Len(sent) \in Nat
         /\ Len(delivered) \in Nat /\ Len(delivered) <= Len(sent)
         /\ rpc = "handling" => /\ Len(delivered) > 0
                               /\ record.hello = HelloIn(sent[Len(delivered)].rec)
         /\ pc \in {"dispatch", "serverHello"} => rpc = "handling"
         /\ Due \in Nat /\ Due <= Len(sent)
<1>1. sent \in Seq(Reader!PlacedRecord) /\ delivered \in Seq(PeerRecord)
  BY DEF RP!TypeOK, RP!PlacedRecord, Reader!PlacedRecord
<1>2. Len(sent) \in Nat /\ Len(delivered) \in Nat /\ Len(delivered) <= Len(sent)
  BY <1>1 DEF RP!DeliveredInOrder
<1>3. rpc = "handling" => /\ Len(delivered) > 0
                          /\ record.hello = HelloIn(sent[Len(delivered)].rec)
  <2> SUFFICES ASSUME rpc = "handling"
               PROVE  Len(delivered) > 0 /\ record.hello = HelloIn(sent[Len(delivered)].rec)
    OBVIOUS
  <2>1. delivered # << >> /\ record = MessageOf[delivered[Len(delivered)]]
    BY DEF Coupled
  <2>2. Len(delivered) \in 1..Len(delivered)
    BY <1>1, <2>1
  <2>3. delivered[Len(delivered)] = sent[Len(delivered)].rec
    BY <2>2 DEF RP!DeliveredInOrder
  <2> QED
    BY <1>2, <2>1, <2>2, <2>3 DEF HelloIn
<1>4. pc \in {"dispatch", "serverHello"} => rpc = "handling"
  BY DEF Coupled, Ended, RP!TypeOK
<1>5. Due \in Nat /\ Due <= Len(sent)
  BY <1>2, <1>3, <1>4 DEF Due
<1> QED
  BY <1>1, <1>2, <1>3, <1>4, <1>5

LEMMA HandleCounted ==
  ASSUME TypeInv, OutIsSequence, OutIsSequence', KeysInHand, RP!TypeOK, RP!DeliveredInOrder,
         Coupled, AnswersCounted, Handle
  PROVE  AnswersCounted'
<1>1. /\ UNCHANGED <<record, peer, delivered, sent>>
      /\ sent \in Seq(Reader!PlacedRecord) /\ Len(sent) \in Nat
      /\ Len(delivered) \in Nat /\ Len(delivered) > 0 /\ Len(delivered) <= Len(sent)
      /\ record.hello = HelloIn(sent[Len(delivered)].rec)
      /\ Due \in Nat /\ Due <= Len(sent)
  <2>1. rpc = "handling"
    BY HandleFacts DEF Coupled, Ended, RP!TypeOK
  <2>2. sent' = sent
    BY DEF Handle, HandlerReturns, Reader!HandlerReturns, reader, Reader!network
  <2> QED
    BY <2>1, <2>2, HandleFacts, ReadOfSent
<1>2. out \in Seq({out[i] : i \in DOMAIN out}) /\ Len(out) \in Nat
  BY DEF OutIsSequence
<1>3. CASE IgnoreRecord
  <2>1. pc = "dispatch" /\ pc' = "read" /\ out' = out /\ record.type # "handshake"
    BY <1>3 DEF IgnoreRecord, Dispatch
  <2>2. record.hello = NoHello
    BY <2>1 DEF TypeInv, TypeOK, Record
  <2>3. Due = Len(delivered) - 1 /\ Due' = Len(delivered)
    BY <1>1, <2>1 DEF Due
  <2>4. Due + 1 = Len(delivered)
    BY <1>1, <2>3
  <2>5. Due' = Due + 1 /\ Due + 1 <= Len(sent) /\ HelloIn(sent[Due + 1].rec) = NoHello
    BY <1>1, <2>2, <2>3, <2>4
  <2> QED
    BY <1>1, <2>1, <2>5, CountKept DEF InFlight, Ended
<1>4. CASE RejectRecord \/ ScanKillsProcess \/ OutOfMemory \/ RefuseApplicationData
  BY <1>4 DEF RejectRecord, ScanKillsProcess, OutOfMemory, RefuseApplicationData, Write,
              Ended, AnswersCounted
<1>5. CASE StartHandshake \/ InstallKeys
  <2>1. ~Ended' => ~Ended /\ Due' = Due /\ InFlight' = InFlight /\ out' = out
    BY <1>1, <1>5 DEF StartHandshake, InstallKeys, Dispatch, Due, InFlight, Ended
  <2> QED
    BY <1>1, <2>1, CountKept
<1>6. CASE SendServerHello
  <2> SUFFICES ASSUME peer = "open"
               PROVE  Len(out') = 2 * HellosIn(Due)' - InFlight'
    BY <1>1 DEF AnswersCounted
  <2>1. pc = "serverHello" /\ pc' = "installKeys" /\ Len(out') = Len(out) + 1
    BY <1>2, <1>6, WriteFacts DEF SendServerHello, Write
  <2>2. record.hello # NoHello
    BY <2>1 DEF TypeInv, HelloInHand
  <2>3. PICK d \in Nat : d = Len(delivered) - 1
    <3>1. Len(delivered) - 1 \in Nat
      BY <1>1
    <3> QED
      BY <3>1
  <2>4. /\ Due = d /\ Due' = d + 1 /\ InFlight = 0 /\ InFlight' = 1 /\ ~Ended
        /\ d + 1 = Len(delivered)
    BY <1>1, <2>1, <2>3 DEF Due, InFlight, Ended
  <2>5. HellosIn(d + 1) = HellosIn(d) + 1 /\ HellosIn(d) \in Nat
    BY <1>1, <2>2, <2>4, HellosNext, HelloPlacesFinite
  <2>6. HellosIn(Due)' = HellosIn(d + 1)
    BY <1>1, <2>4 DEF HellosIn, HelloIn
  <2>7. Len(out) = 2 * HellosIn(d) - 0
    BY <2>4 DEF AnswersCounted
  <2> QED
    BY <2>1, <2>4, <2>5, <2>6, <2>7
<1>7. CASE send_null_EncryptedExtensions
  <2> SUFFICES ASSUME peer = "open", ~Ended' PROVE AnswersCounted'
    BY <1>1 DEF AnswersCounted
  <2>1. /\ pc = "encryptedExtensions" /\ pc' = "read"
        /\ Len(out') = Len(out) + 1
    BY <1>1, <1>2, <1>7, WriteFacts DEF send_null_EncryptedExtensions, Write, KeysInHand, Ended
  <2>2. Due' = Due /\ InFlight = 1 /\ InFlight' = 0 /\ ~Ended
    BY <1>1, <2>1 DEF Due, InFlight, Ended
  <2>3. Len(out') + InFlight' = Len(out) + InFlight
    BY <1>2, <2>1, <2>2
  <2> QED
    BY <1>1, <2>2, <2>3, CountKept
<1> QED
  BY <1>3, <1>4, <1>5, <1>6, <1>7 DEF Handle, main_state_mech

LEMMA StepCounted ==
  ASSUME TypeInv, OutIsSequence, OutIsSequence', KeysInHand, RP!TypeOK, RP!DeliveredInOrder,
         Coupled, AnswersCounted, [ConnectionNext]_connectionVars
  PROVE  AnswersCounted'
<1>1. sent \in Seq(Reader!PlacedRecord) /\ Due \in Nat /\ Due <= Len(sent)
      /\ Len(delivered) \in Nat /\ delivered \in Seq(PeerRecord)
  BY ReadOfSent DEF RP!TypeOK
<1>2. CASE ReadStep
  <2>1. UNCHANGED <<sent, peer, out>> /\ pc = "read" /\ pc' \in {"read", "dispatch", "stopped"}
    BY <1>2, ReadStepFacts
    DEF ReadStep, Reader!ReaderStep, Reader!OutOfMemory, Reader!ReadType,
        Reader!ReadVersion, Reader!ReadLength, Reader!ReadFragment, Reader!network
  <2>2. \/ pc' = "dispatch" /\ Len(delivered') = Len(delivered) + 1
        \/ pc' # "dispatch" /\ delivered' = delivered
    BY <1>1, <1>2, <2>1, ReadStepFacts
  <2>3. Due' = Due /\ InFlight' = InFlight /\ ~Ended
    BY <1>1, <2>1, <2>2 DEF Due, InFlight, Ended
  <2> QED
    BY <1>1, <2>1, <2>3, CountKept
<1>3. CASE Handle
  BY <1>3, HandleCounted
<1>4. CASE PeerWrites \/ BytesArrive \/ PeerReads \/ PeerGoes \/ ConnectionTerminated
           \/ UNCHANGED connectionVars
  <2>1. UNCHANGED <<pc, out, delivered>> /\ (peer' = "open" => peer = "open")
        /\ (sent' = sent \/ \E m : sent' = Append(sent, m))
    BY <1>4 DEF PeerWrites, BytesArrive, PeerReads, PeerGoes, PeerCloses, PeerResets,
                ConnectionTerminated, connectionVars, vars, reader,
                Reader!PeerWrites, Reader!BytesArrive, Reader!PeerGoes
  <2>2. Due' = Due /\ Ended' = Ended /\ InFlight' = InFlight
    BY <2>1 DEF Due, Ended, InFlight
  <2> QED
    BY <1>1, <2>1, <2>2, CountKept
<1> QED
  BY <1>2, <1>3, <1>4 DEF ConnectionNext, ServerStep

-----------------------------------------------------------------------------
(* The inductive invariant.                                                *)

\* Each half's own, where the thread is, and what has been answered: one by one in the
\* order of the stream, and two records for each.
CInv == TypeInv /\ IInv /\ RP!IInv /\ Coupled /\ Matched /\ AnswersCounted

-----------------------------------------------------------------------------
(* The bytes in the pipe.                                                  *)

\* A set of numbers has a least one.
LEMMA Least ==
  ASSUME NEW T \in SUBSET Nat, T # {}
  PROVE  \E n \in T : \A m \in T : n <= m
<1>1. IsWellFoundedOn(OpToRel(<, Nat), Nat)
  BY NatLessThanWellFounded
<1>2. PICK x \in T : \A y \in T : ~(<<y, x>> \in OpToRel(<, Nat))
  BY <1>1, WFMin
<1>3. \A y \in T : y \in Nat /\ x \in Nat /\ ~(y < x)
  BY <1>2 DEF OpToRel
<1> QED
  BY <1>3

\* Induction, with a set for the predicate.
LEMMA Induct ==
  ASSUME NEW S, 0 \in S, \A n \in Nat : n \in S => n + 1 \in S
  PROVE  \A n \in Nat : n \in S
<1> SUFFICES ASSUME Nat \ S # {} PROVE FALSE
  OBVIOUS
<1>1. PICK n \in Nat \ S : \A m \in Nat \ S : n <= m
  BY Least
<1>2. n # 0 /\ n \in Nat
  OBVIOUS
<1>3. n - 1 \in Nat /\ n - 1 < n
  BY <1>2
<1>4. n - 1 \in S
  BY <1>1, <1>3
<1>5. (n - 1) + 1 \in S
  BY <1>3, <1>4
<1> QED
  BY <1>2, <1>5

\* n records of any kind fit into the pipe, so the last q that were sent take up no more
\* than q of its n shares.
LEMMA TailFits ==
  ASSUME RP!IInv, NEW n \in Nat, \A r \in PeerRecord : n * Size(r) <= PipeBytes,
         NEW q \in Nat, q <= Len(sent)
  PROVE  /\ RP!Start[Len(sent) + 1 - q] \in Nat /\ Len(stream) \in Nat
         /\ n * (Len(stream) - RP!Start[Len(sent) + 1 - q]) <= q * PipeBytes
<1> DEFINE N == Len(sent)
           S == RP!Start
           Tails == {k \in Nat : k <= N => n * (Len(stream) - S[N + 1 - k]) <= k * PipeBytes}
<1>1. /\ N \in Nat /\ Len(stream) \in Nat /\ S[N + 1] = Len(stream)
      /\ \A k \in 1..(N + 1) : S[k] \in Nat
  BY RP!StartFacts, ReaderConstants
  DEF RP!IInv, RP!ByteAssumption, RP!RecordAssumption, RP!BoundAssumption, RP!Byte
<1>2. \A k \in 1..N : S[k + 1] = S[k] + Len(RP!Encode(sent[k].rec))
  BY DEF RP!IInv, RP!Framed
<1>3. ASSUME NEW k \in 1..N
      PROVE  /\ Len(RP!Encode(sent[k].rec)) \in Nat
             /\ n * Len(RP!Encode(sent[k].rec)) <= PipeBytes
  <2>1. PICK r \in PeerRecord : r = sent[k].rec
    <3>1. sent \in Seq(RP!PlacedRecord)
      BY DEF RP!IInv, RP!TypeOK
    <3>2. sent[k] \in RP!PlacedRecord
      BY <3>1
    <3> QED
      BY <3>2 DEF RP!PlacedRecord
  <2>2. Len(RP!Encode(r)) = RP!HeaderLength + Len(r.fragment) /\ Len(r.fragment) \in Nat
    BY RP!EncodeFacts, ReaderConstants
    DEF RP!ByteAssumption, RP!RecordAssumption, RP!BoundAssumption, RP!Byte
  <2>3. Len(RP!Encode(r)) = Size(r) /\ Size(r) \in Nat
    BY <2>2 DEF Size, Reader!HeaderLength, RP!HeaderLength
  <2> QED
    BY <2>1, <2>3
<1>4. PipeBytes \in Nat
  BY BufferAssumption
<1> HIDE DEF N, S
<1>5. 0 \in Tails
  BY <1>1, <1>4
<1>6. ASSUME NEW k \in Nat, k \in Tails, k + 1 <= N
      PROVE  n * (Len(stream) - S[N + 1 - (k + 1)]) <= (k + 1) * PipeBytes
  <2>1. PICK j \in 1..N : j = N - k
    <3>1. N - k \in 1..N
      BY <1>1, <1>6
    <3> QED
      BY <3>1
  <2>2. N + 1 - (k + 1) = j /\ N + 1 - k = j + 1
    BY <1>1, <2>1
  <2>3. n * (Len(stream) - S[j + 1]) <= k * PipeBytes
    BY <1>1, <1>6, <2>2, SMTT(60)
  <2>4. PICK e \in Nat : e = Len(RP!Encode(sent[j].rec)) /\ n * e <= PipeBytes
    BY <1>3
  <2>5. S[j + 1] = S[j] + e /\ S[j] \in Nat /\ S[j + 1] \in Nat
    <3>1. S[j + 1] = S[j] + e
      BY <1>2, <2>4
    <3>2. j \in 1..(N + 1) /\ j + 1 \in 1..(N + 1)
      BY <1>1
    <3> QED
      BY <1>1, <3>1, <3>2
  <2>6. n * (Len(stream) - S[j]) = n * (Len(stream) - S[j + 1]) + n * e
    <3>1. Len(stream) - S[j] = (Len(stream) - S[j + 1]) + e
      BY <1>1, <2>5
    <3>2. PICK x \in Int : x = Len(stream) - S[j + 1]
      BY <1>1, <2>5
    <3>3. n * (x + e) = n * x + n * e
      OBVIOUS
    <3> QED
      BY <3>1, <3>2, <3>3
  <2>7. (k + 1) * PipeBytes = k * PipeBytes + PipeBytes
    BY <1>4
  <2>8. n * (Len(stream) - S[j + 1]) \in Int /\ n * e \in Int /\ k * PipeBytes \in Int
    BY <1>1, <1>4, <2>5
  <2> QED
    BY <1>4, <2>2, <2>3, <2>4, <2>6, <2>7, <2>8
<1>7. \A k \in Nat : k \in Tails => k + 1 \in Tails
  <2> SUFFICES ASSUME NEW k \in Nat, k \in Tails PROVE k + 1 \in Tails
    OBVIOUS
  <2>1. CASE k + 1 <= N
    BY <1>6, <2>1
  <2>2. CASE ~(k + 1 <= N)
    BY <2>2
  <2> QED
    BY <2>1, <2>2
<1> HIDE DEF Tails
<1>8. q \in Tails
  BY <1>5, <1>7, Induct
<1>9. N + 1 - q \in 1..(N + 1)
  BY <1>1 DEF N
<1> QED
  BY <1>1, <1>8, <1>9 DEF Tails, N, S

\* While the server waits, the ClientHellos it has answered or is answering reach into
\* the burst, as far as its answers fill the buffer.
LEMMA HandlerIsAhead ==
  ASSUME CInv, ServerWaits, ~PeerIdle, ~Hasty, NEW L, L = Len(delivered),
         NEW b, b = Len(sent) - (Len(sent) % Burst)
  PROVE  /\ rpc = "handling" /\ L \in Nat /\ L > 0 /\ L <= Len(sent) /\ Len(sent) \in Nat
         /\ b \in Nat /\ b <= Len(sent) /\ Len(sent) <= b + Burst - 1
         /\ b <= L - 1 /\ SendBuffer <= 2 * (L - 1 - b) + 1
<1>1. /\ pc \in {"dispatch", "serverHello", "encryptedExtensions"} /\ ~Ended
      /\ peer = "open" /\ ~(Len(out) - received < SendBuffer)
  BY DEF ServerWaits, Writes, Room, Dispatch, Ended
<1>2. rpc = "handling"
  BY <1>1 DEF CInv, Coupled, Ended, RP!IInv, RP!TypeOK
<1>3. /\ sent \in Seq(Reader!PlacedRecord) /\ Len(sent) \in Nat
      /\ L \in Nat /\ L > 0 /\ L <= Len(sent)
  BY <1>2, ReadOfSent DEF CInv, RP!IInv
<1>4. b \in Nat /\ b <= Len(sent) /\ Len(sent) <= b + Burst - 1
  <2>1. PICK m \in Nat : m = Len(sent) % Burst /\ m < Burst /\ m <= Len(sent)
    BY <1>3, BufferAssumption
  <2> QED
    BY <1>3, <2>1, BufferAssumption
<1>5. received >= 2 * HellosIn(b) /\ received \in Nat /\ Len(out) \in Nat
  <2>1. received \in 0..Len(out) /\ Len(out) \in Nat
    BY DEF CInv, Coupled, IInv, OutIsSequence
  <2>2. HellosIn(b) \in Nat
    BY <1>3, HelloPlacesFinite
  <2> QED
    BY <2>1, <2>2 DEF Hasty
<1>6. PICK d \in Nat : d = L - 1
  <2>1. L - 1 \in Nat
    BY <1>3
  <2> QED
    BY <2>1
<1>7. HellosIn(b) \in Nat /\ HellosIn(d) \in Nat /\ HellosIn(L) \in Nat
  BY <1>3, HelloPlacesFinite
<1>8. \/ Len(out) = 2 * HellosIn(d)
      \/ Len(out) = 2 * HellosIn(L) - 1 /\ HellosIn(L) <= HellosIn(d) + 1
  <2>1. Len(out) = 2 * HellosIn(Due) - InFlight
    BY <1>1 DEF CInv, AnswersCounted
  <2>2. CASE pc \in {"dispatch", "serverHello"}
    <3>1. Due = d /\ InFlight = 0
      BY <1>6, <2>2 DEF Due, InFlight
    <3> QED
      BY <1>7, <2>1, <3>1
  <2>3. CASE pc = "encryptedExtensions"
    <3>1. Due = L /\ InFlight = 1
      BY <2>3 DEF Due, InFlight
    <3>2. d <= L /\ L - d = 1
      BY <1>3, <1>6
    <3>3. HellosIn(L) <= HellosIn(d) + (L - d)
      BY <1>3, <3>2, HellosBetween
    <3> QED
      BY <1>7, <2>1, <3>1, <3>2, <3>3
  <2> QED
    BY <1>1, <2>2, <2>3
<1>9. SendBuffer \in Nat /\ SendBuffer > 0 /\ SendBuffer <= Len(out) - received
  BY <1>1, <1>5, BufferAssumption
<1>10. b <= d
  <2> SUFFICES ASSUME L <= b PROVE FALSE
    BY <1>3, <1>4, <1>6
  <2>1. d <= b
    BY <1>3, <1>4, <1>6
  <2>2. HellosIn(L) <= HellosIn(b) /\ HellosIn(d) <= HellosIn(b)
    BY <1>3, <1>4, <2>1, HellosBetween
  <2> QED
    BY <1>5, <1>7, <1>8, <1>9, <2>2, SMTT(60)
<1>11. HellosIn(d) <= HellosIn(b) + (d - b)
  BY <1>3, <1>4, <1>10, HellosBetween
<1>12. SendBuffer <= 2 * (d - b) + 1
  <2>1. PICK x \in Nat, y \in Nat, z \in Nat, o \in Nat :
          x = HellosIn(b) /\ y = HellosIn(d) /\ z = HellosIn(L) /\ o = Len(out)
    BY <1>5, <1>7
  <2>2. o = 2 * y \/ (o = 2 * z - 1 /\ z <= y + 1)
    BY <1>8, <2>1
  <2>3. o <= 2 * y + 1
    BY <2>2
  <2>4. SendBuffer <= o - received /\ received >= 2 * x /\ y <= x + (d - b)
    BY <1>5, <1>9, <1>11, <2>1
  <2> QED
    BY <1>4, <1>5, <1>9, <2>3, <2>4, SMTT(60)
<1> QED
  BY <1>2, <1>3, <1>4, <1>6, <1>10, <1>12

-----------------------------------------------------------------------------
(* The theorems.                                                           *)

LEMMA ConnectionInductive == ConnectionSpec => []CInv
<1>1. ConnectionInit => CInv
  BY InitTypeInv, InitIInv, ReaderIInvInit, InitCoupled, InitMatched, InitCounted
  DEF ConnectionInit, CInv
<1>2. CInv /\ [ConnectionNext]_connectionVars => CInv'
  <2> SUFFICES ASSUME CInv, [ConnectionNext]_connectionVars PROVE CInv'
    OBVIOUS
  <2>1. TypeInv' /\ IInv'
    BY StepIsServerStep, NextTypeInv, NextIInv DEF CInv
  <2>2. RP!IInv'
    BY StepIsReaderStep, ReaderIInvStep DEF CInv
  <2>3. OutIsSequence /\ RP!TypeOK
    BY DEF CInv, IInv, RP!IInv
  <2>4. Coupled' /\ Matched'
    BY <2>3, StepCoupled, StepMatched DEF CInv
  <2>5. AnswersCounted'
    BY <2>1, <2>3, StepCounted DEF CInv, IInv, RP!IInv
  <2> QED
    BY <2>1, <2>2, <2>4, <2>5 DEF CInv
<1> QED
  BY <1>1, <1>2, PTL DEF ConnectionSpec

\* The reader and the handler never disagree where the thread is, and what is handled
\* is the record that was read last.
THEOREM StaysCoupled == ConnectionSpec => []Coupled
<1>1. CInv => Coupled
  BY DEF CInv
<1> QED
  BY <1>1, ConnectionInductive, PTL

\* The ServerHellos answer the ClientHellos the peer wrote into the stream, each once
\* and in order.
THEOREM AnswersStayInOrder == ConnectionSpec => []AnswersInOrder
<1>1. CInv => AnswersInOrder
  <2> SUFFICES ASSUME CInv PROVE AnswersInOrder
    OBVIOUS
  <2>1. PICK at \in [Answers -> 1..Len(delivered)] : Finds(at)
    BY DEF CInv, Matched
  <2>2. /\ Len(delivered) \in Nat /\ Len(sent) \in Nat /\ Len(delivered) <= Len(sent)
        /\ \A n \in 1..Len(delivered) : delivered[n] = sent[n].rec
    <3>1. RP!TypeOK /\ RP!DeliveredInOrder
      BY Zenon DEF CInv, RP!IInv
    <3>2. delivered \in Seq(PeerRecord) /\ sent \in Seq(Reader!PlacedRecord)
      BY <3>1 DEF RP!TypeOK, RP!PlacedRecord, Reader!PlacedRecord
    <3>3. Len(delivered) \in Nat /\ Len(sent) \in Nat
      BY <3>2
    <3> QED
      BY <3>1, <3>3 DEF RP!DeliveredInOrder
  <2>3. \A i \in Answers : at[i] \in 1..Len(delivered) /\ at[i] \in 1..Len(sent)
    BY <2>2
  <2>4. at \in [Answers -> 1..Len(sent)]
    BY <2>3
  <2>5. \A i \in Answers : out[i].hello = HelloIn(sent[at[i]].rec)
    BY <2>1, <2>2, <2>3 DEF Finds, HelloIn
  <2>6. \A i \in Answers : \A n \in 1..at[i] :
          HelloIn(sent[n].rec) # NoHello => \E j \in Answers : at[j] = n
    BY <2>1, <2>2, <2>3 DEF Finds, HelloIn
  <2> QED
    BY <2>1, <2>4, <2>5, <2>6 DEF AnswersInOrder, Finds
<1> QED
  BY <1>1, ConnectionInductive, PTL

\* Server and peer never wait for each other: as long as a burst fits into the pipe but
\* for what the answers in the send buffer stand for, and the peer reads its answers
\* between bursts, one of the two can go on.
THEOREM NobodyWaitsForTheOther == ConnectionSpec => []NeverBothWait
<1>1. CInv => NeverBothWait
  <2> SUFFICES ASSUME CInv, BurstFits, ~Hasty, ServerWaits, PeerWaits PROVE FALSE
    BY DEF NeverBothWait
  <2>1. PICK n \in 0..Burst : /\ \A r \in PeerRecord : n * Size(r) <= PipeBytes
                              /\ Burst <= n + SendBuffer \div 2 + 1
    BY DEF BurstFits
  <2>2. n \in Nat /\ Burst \in Nat /\ SendBuffer \in Nat /\ PipeBytes \in Nat
    BY BufferAssumption
  <2> DEFINE L == Len(delivered)
             b == Len(sent) - (Len(sent) % Burst)
  <2>3. /\ rpc = "handling" /\ L \in Nat /\ L > 0 /\ L <= Len(sent) /\ Len(sent) \in Nat
        /\ b \in Nat /\ b <= Len(sent) /\ Len(sent) <= b + Burst - 1
        /\ b <= L - 1 /\ SendBuffer <= 2 * (L - 1 - b) + 1
    BY HandlerIsAhead DEF PeerWaits
  <2>4. PICK q \in Nat : q = Len(sent) - L
    <3>1. Len(sent) - L \in Nat
      BY <2>3
    <3> QED
      BY <3>1
  <2> HIDE DEF L, b
  <2>5. q + 1 <= n
    <3>1. SendBuffer \div 2 <= L - 1 - b
      BY <2>2, <2>3
    <3>2. SendBuffer \div 2 \in Nat
      BY <2>2
    <3> QED
      BY <2>1, <2>2, <2>3, <2>4, <3>1, <3>2
  <2>6. PICK r \in PeerRecord : TRUE
    <3>1. delivered \in Seq(PeerRecord)
      BY DEF CInv, RP!IInv, RP!TypeOK
    <3>2. delivered[L] \in PeerRecord
      BY <2>3, <3>1 DEF L
    <3> QED
      BY <3>2
  <2>7. Size(r) \in Nat
    <3>1. Len(r.fragment) \in Nat
      BY ReaderAssumption DEF Reader!RecordAssumption
    <3> QED
      BY <3>1 DEF Size, Reader!HeaderLength
  <2>8. consumed = RP!Start[Len(sent) + 1 - q]
    <3>1. consumed = RP!Start[L + 1]
      BY <2>3 DEF CInv, RP!IInv, RP!InStep, L
    <3>2. L + 1 = Len(sent) + 1 - q
      BY <2>3, <2>4
    <3> QED
      BY <3>1, <3>2
  <2>9. PICK x \in Int : x = Len(stream) - consumed /\ n * x <= q * PipeBytes
    <3>1. q <= Len(sent)
      BY <2>3, <2>4
    <3>2. /\ consumed \in Nat /\ Len(stream) \in Nat
          /\ n * (Len(stream) - consumed) <= q * PipeBytes
      BY <2>1, <2>2, <2>8, <3>1, TailFits DEF CInv
    <3> QED
      BY <3>2, SMTT(60)
  <2>10. x + Size(r) > PipeBytes
    BY <2>2, <2>7, <2>9 DEF PeerWaits, Fits
  <2>11. PICK s \in Nat : s = Size(r) /\ n * s <= PipeBytes
    BY <2>1, <2>7
  <2>12. n * (x + s) <= n * PipeBytes
    <3>1. n * (x + s) = n * x + n * s
      BY <2>2
    <3>2. (q + 1) * PipeBytes <= n * PipeBytes
      BY <2>2, <2>5
    <3>3. (q + 1) * PipeBytes = q * PipeBytes + PipeBytes
      BY <2>2
    <3>4. PICK nx \in Int, ns \in Int, qp \in Int, np \in Int :
            nx = n * x /\ ns = n * s /\ qp = q * PipeBytes /\ np = n * PipeBytes
      BY <2>2
    <3>5. nx <= qp /\ ns <= PipeBytes /\ qp + PipeBytes <= np
      BY <2>9, <2>11, <3>2, <3>3, <3>4
    <3>6. nx + ns <= np
      BY <2>2, <3>5
    <3> QED
      BY <3>1, <3>4, <3>6
  <2>13. n * (x + s) >= n * (PipeBytes + 1)
    BY <2>2, <2>10, <2>11
  <2>14. n * (PipeBytes + 1) = n * PipeBytes + n /\ n >= 1
    BY <2>2, <2>5
  <2>15. n * (x + s) \in Int /\ n * PipeBytes \in Int /\ n * (PipeBytes + 1) \in Int
    BY <2>2
  <2> QED
    BY <2>2, <2>12, <2>13, <2>14, <2>15
<1> QED
  BY <1>1, ConnectionInductive, PTL
=============================================================================
