------------------------ MODULE ServerProcessProofs ------------------------
(***************************************************************************)
(* Theorems about ServerProcess, for any number of processes and clients.  *)
(***************************************************************************)
EXTENDS ServerProcess, TLAPS

PCs == {"idle", "bind", "listen", "accept", "serve", "ended"}
Places == {"idle", "queued", "served", "refused", "reset", "closed", "left"}

Codes == {"none", "0", "2", "3", "4", "killed"}

Types ==
  /\ code \in [Process -> Codes]
  /\ pc \in [Process -> PCs]
  /\ listening \subseteq Process
  /\ queue \in [Process -> Seq(Client)]
  /\ serving \in [Process -> Client \cup {NoClient}]
  /\ client \in [Client -> Places]

\* The kernel lets one socket listen, and only past bind.
OneListener ==
  /\ \A p, q \in listening : p = q
  /\ \A p \in listening : pc[p] \in {"accept", "serve"}

\* A process has a connection exactly from accept to its end.
ServesWhileListening ==
  \A p \in Process : serving[p] # NoClient => p \in listening /\ pc[p] = "serve"

\* Whoever is served is served by someone.
ServedBySomeone ==
  \A c \in Client : client[c] = "served" => \E p \in Process : serving[p] = c

IInv == Types /\ OneListener /\ ServesWhileListening /\ ServedBySomeone

\* The end of a process keeps the invariant, whatever the code.
LEMMA ExitKeeps ==
  ASSUME IInv, NEW p \in Process, NEW c \in Codes, Exit(p, c)
  PROVE  IInv'
<1>1. Types'
  BY DEF IInv, Types, Exit, PCs, Places, Codes
<1>2. OneListener'
  BY DEF IInv, Types, OneListener, Exit
<1>3. ServesWhileListening'
  BY DEF IInv, Types, ServesWhileListening, Exit
<1>4. ServedBySomeone'
  <2>1. SUFFICES ASSUME NEW x \in Client, client'[x] = "served"
                 PROVE  \E q \in Process : serving'[q] = x
    BY DEF ServedBySomeone
  <2>2. client[x] = "served" /\ x # serving[p]
    BY <2>1 DEF Exit
  <2>3. PICK q \in Process : serving[q] = x
    BY <2>2 DEF IInv, ServedBySomeone
  <2>4. serving'[q] = x
    BY <2>2, <2>3 DEF IInv, Types, Exit
  <2> QED BY <2>4
<1> QED BY <1>1, <1>2, <1>3, <1>4 DEF IInv

\* A step that only moves the program counter among the places before accept, or
\* stays, keeps it.
LEMMA StartKeeps ==
  ASSUME IInv, NEW p \in Process, Start(p) \/ Bind(p)
  PROVE  IInv'
<1>1. CASE \E c \in Codes : Exit(p, c)
  BY <1>1, ExitKeeps
<1>2. CASE pc[p] \in {"idle", "bind"} /\ UNCHANGED kernel
           /\ \E next \in {"bind", "listen"} : GoOn(p, next)
  BY <1>2 DEF IInv, Types, OneListener, ServesWhileListening, ServedBySomeone,
              kernel, GoOn, PCs
<1> QED BY <1>1, <1>2 DEF Start, Bind, Codes

\* listen succeeds for one process only.
LEMMA ListenKeeps ==
  ASSUME IInv, NEW p \in Process, Listen(p)
  PROVE  IInv'
BY DEF IInv, Types, OneListener, ServesWhileListening, ServedBySomeone, Listen,
       GoOn, PCs, PortIsFree

\* accept hands out a connection to the one listener, which had none.
LEMMA AcceptKeeps ==
  ASSUME IInv, NEW p \in Process, Accept(p)
  PROVE  IInv'
<1>1. CASE p \notin listening
  BY <1>1, ExitKeeps DEF Accept, AcceptFails, Codes
<1>2. CASE p \in listening
  <2> DEFINE c == Head(queue[p])
  <2>1. /\ pc[p] = "accept" /\ queue[p] # << >> /\ GoOn(p, "serve")
        /\ serving' = [serving EXCEPT ![p] = c]
        /\ client' = [client EXCEPT ![c] = IF @ = "queued" THEN "served" ELSE @]
        /\ queue' = [queue EXCEPT ![p] = Tail(@)]
        /\ UNCHANGED <<listening, lingering>>
    BY <1>2 DEF Accept
  <2>2. c \in Client /\ Tail(queue[p]) \in Seq(Client)
    <3>1. queue[p] \in Seq(Client)
      BY DEF IInv, Types
    <3> QED BY <3>1, <2>1
  <2> HIDE DEF c
  <2>3. Types'
    BY <2>1, <2>2 DEF IInv, Types, GoOn, PCs, Places
  <2>4. OneListener'
    BY <2>1 DEF IInv, Types, OneListener, GoOn
  <2>5. ServesWhileListening'
    BY <1>2, <2>1 DEF IInv, Types, ServesWhileListening, GoOn
  <2>6. ServedBySomeone'
    <3>1. SUFFICES ASSUME NEW x \in Client, client'[x] = "served"
                   PROVE  \E q \in Process : serving'[q] = x
      BY DEF ServedBySomeone
    <3>2. CASE x = c
      BY <3>2, <2>1 DEF IInv, Types
    <3>3. CASE x # c
      <4>1. client[x] = "served"
        BY <3>1, <3>3, <2>1, <2>2 DEF IInv, Types
      <4>2. PICK q \in Process : serving[q] = x
        BY <4>1 DEF IInv, ServedBySomeone
      <4>3. q # p
        BY <2>1, <4>2, PortAssumption DEF IInv, ServesWhileListening
      <4> QED BY <4>2, <4>3, <2>1 DEF IInv, Types
    <3> QED BY <3>2, <3>3
  <2> QED BY <2>3, <2>4, <2>5, <2>6 DEF IInv
<1> QED BY <1>1, <1>2

\* What the clients do keeps it.
LEMMA ClientsKeep ==
  ASSUME IInv, NEW c \in Client, Connect(c) \/ Leave(c)
  PROVE  IInv'
<1>1. /\ UNCHANGED <<pc, code, listening, serving>>
      /\ \A x \in Client : client'[x] = "served" => client[x] = "served"
  BY DEF Connect, Leave, IInv, Types
<1>2. client' \in [Client -> Places]
  BY DEF Connect, Leave, IInv, Types, Places
<1>3. queue' \in [Process -> Seq(Client)]
  <2>1. ASSUME NEW p \in listening
        PROVE  [queue EXCEPT ![p] = Append(@, c)] \in [Process -> Seq(Client)]
    <3>1. queue[p] \in Seq(Client)
      BY DEF IInv, Types
    <3>2. Append(queue[p], c) \in Seq(Client)
      BY <3>1
    <3> QED BY <3>2 DEF IInv, Types
  <2> QED BY <2>1 DEF Connect, Leave, IInv, Types
<1> QED BY <1>1, <1>2, <1>3
        DEF IInv, Types, OneListener, ServesWhileListening, ServedBySomeone

\* IInv is an invariant.
LEMMA Invariance == Spec => []IInv
<1>1. Init => IInv
  <2>1. << >> \in Seq(Client)
    OBVIOUS
  <2> QED BY <2>1 DEF Init, IInv, Types, OneListener, ServesWhileListening,
                      ServedBySomeone, PCs, Places, Codes
<1>2. IInv /\ [Next]_vars => IInv'
  <2> SUFFICES ASSUME IInv, [Next]_vars PROVE IInv'
    OBVIOUS
  <2>1. ASSUME NEW p \in Process, Start(p) \/ Bind(p) PROVE IInv'
    BY <2>1, StartKeeps
  <2>2. ASSUME NEW p \in Process, Finish(p) \/ BreakOff(p) PROVE IInv'
    BY <2>2, ExitKeeps DEF Finish, BreakOff, Codes
  <2>3. ASSUME NEW p \in Process, Listen(p) PROVE IInv'
    BY <2>3, ListenKeeps
  <2>4. ASSUME NEW p \in Process, Accept(p) PROVE IInv'
    BY <2>4, AcceptKeeps
  <2>5. ASSUME NEW c \in Client, Connect(c) \/ Leave(c) PROVE IInv'
    BY <2>5, ClientsKeep
  <2>6. CASE TimeWaitEnds \/ UNCHANGED vars
    BY <2>6 DEF TimeWaitEnds, vars, kernel, IInv, Types, OneListener,
                ServesWhileListening, ServedBySomeone
  <2> QED BY <2>1, <2>2, <2>3, <2>4, <2>5, <2>6 DEF Next, Main
<1> QED BY <1>1, <1>2, PTL DEF Spec

\* However many servers are started at once or after each other, at most one
\* client is served, and by the server that listens: the accept that hands a
\* client out finds no other server that has one.
THEOREM OneAtATime == Spec => []OneClientAtATime
<1>1. IInv => OneClientAtATime
  <2> SUFFICES ASSUME IInv PROVE OneClientAtATime
    OBVIOUS
  <2>1. \A p \in Process : serving[p] # NoClient => p \in listening
    BY DEF IInv, ServesWhileListening
  <2>2. ASSUME NEW c \in Client, NEW d \in Client,
               client[c] = "served", client[d] = "served"
        PROVE  c = d
    <3>1. PICK p \in Process : serving[p] = c
      BY <2>2 DEF IInv, ServedBySomeone
    <3>2. PICK q \in Process : serving[q] = d
      BY <2>2 DEF IInv, ServedBySomeone
    <3>3. p \in listening /\ q \in listening
      BY <3>1, <3>2, <2>1, PortAssumption
    <3>4. p = q
      BY <3>3 DEF IInv, OneListener
    <3> QED BY <3>1, <3>2, <3>4
  <2> QED BY <2>1, <2>2 DEF OneClientAtATime
<1> QED BY <1>1, Invariance, PTL
=============================================================================
