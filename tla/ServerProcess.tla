--------------------------- MODULE ServerProcess ---------------------------
(***************************************************************************)
(* The server as a process: it starts, takes the port, accepts one client, *)
(* serves it (module Connection) and ends.  An operator may start it again *)
(* at any time, also while another one runs; clients come and go, and wait *)
(* in the queue that the kernel keeps for the listening socket.            *)
(***************************************************************************)
EXTENDS Naturals, Sequences

CONSTANTS
  Process,          \* the times main is run
  Client,
  NoClient,
  SOCKET_PORT,
  SOCKET_BACKLOG

ASSUME PortAssumption ==
  /\ SOCKET_PORT \in Nat /\ SOCKET_BACKLOG \in Nat
  /\ NoClient \notin Client

VARIABLES
  pc,               \* what main does next, for each process
  code,             \* what main returned
  listening,        \* the processes whose socket is in state LISTEN
  queue,            \* for each, the connections accept has not yet handed out
  serving,          \* and the client whose connection it has
  client,           \* where each client is
  lingering         \* a connection of this port is in TIME_WAIT

kernel == <<listening, queue, serving, client, lingering>>
vars == <<pc, code, kernel>>

Init ==
  /\ pc = [p \in Process |-> "idle"]
  /\ code = [p \in Process |-> "none"]
  /\ listening = {}
  /\ queue = [p \in Process |-> << >>]
  /\ serving = [p \in Process |-> NoClient]
  /\ client = [c \in Client |-> "idle"]
  /\ lingering = FALSE

GoOn(p, next) == pc' = [pc EXCEPT ![p] = next] /\ UNCHANGED code

Queued(p) == {queue[p][i] : i \in DOMAIN queue[p]}

\* The process ends and its sockets are closed: whoever waits in its queue is
\* reset, and a connection that it closes first lingers.
Exit(p, c) ==
  /\ pc' = [pc EXCEPT ![p] = "ended"]
  /\ code' = [code EXCEPT ![p] = c]
  /\ listening' = listening \ {p}
  /\ queue' = [queue EXCEPT ![p] = << >>]
  /\ serving' = [serving EXCEPT ![p] = NoClient]
  /\ client' = [x \in Client |->
                  CASE x \in Queued(p) /\ client[x] = "queued" -> "reset"
                    [] x = serving[p] /\ client[x] = "served"  -> "closed"
                    [] OTHER                                   -> client[x]]
  /\ lingering' = (lingering \/ "closed" \in {client'[x] : x \in Client \cap {serving[p]}})

-----------------------------------------------------------------------------
(* main, one action per call that others notice.                           *)

Start(p) ==
  /\ pc[p] = "idle"
  /\ \/ GoOn(p, "bind") /\ UNCHANGED kernel
     \/ Exit(p, "2")                                 \* sodium_init failed

\* Mutant: SO_REUSEADDR is not set.
PortIsUnused == listening = {} /\ ~ lingering

\* Mutant: SO_REUSEPORT is set instead.
PortIsShared == TRUE

\* SO_REUSEADDR: only a socket that listens keeps the port from others, not one
\* that is merely bound, nor one in TIME_WAIT.
PortIsFree == listening = {}

Bind(p) ==
  /\ pc[p] = "bind"
  /\ IF PortIsFree THEN GoOn(p, "listen") /\ UNCHANGED kernel
                   ELSE Exit(p, "3")

\* Two processes can be here at once, and listen fails for the second.  Its result
\* is not looked at.
Listen(p) ==
  /\ pc[p] = "listen"
  /\ listening' = IF PortIsFree THEN listening \cup {p} ELSE listening
  /\ GoOn(p, "accept")
  /\ UNCHANGED <<queue, serving, client, lingering>>

\* Mutant: main tries again.
AcceptsAgain(p) == GoOn(p, "accept") /\ UNCHANGED kernel

AcceptFails(p) == Exit(p, "4")

\* accept waits for a connection, whether or not its client is still there; on a
\* socket that does not listen it fails.
Accept(p) ==
  /\ pc[p] = "accept"
  /\ IF p \notin listening
       THEN AcceptFails(p)
       ELSE /\ queue[p] # << >>
            /\ LET c == Head(queue[p]) IN
               /\ serving' = [serving EXCEPT ![p] = c]
               /\ client' = [client EXCEPT ![c] = IF @ = "queued" THEN "served" ELSE @]
            /\ queue' = [queue EXCEPT ![p] = Tail(@)]
            /\ GoOn(p, "serve")
            /\ UNCHANGED <<listening, lingering>>

\* Mutant: a failing read_record does not end the loop.
ReadsOn(p) == FALSE

ReadFails(p) == client[serving[p]] = "left"

\* The loop of main is left when the client has gone.
Finish(p) == pc[p] = "serve" /\ ReadFails(p) /\ Exit(p, "0")

\* Or before, by a record the server refuses, an assertion or SIGPIPE.
BreakOff(p) == pc[p] = "serve" /\ (Exit(p, "0") \/ Exit(p, "killed"))

Main(p) == Bind(p) \/ Listen(p) \/ Accept(p) \/ Finish(p)

-----------------------------------------------------------------------------
(* The clients and the kernel.                                             *)

Room(p) == Len(queue[p]) <= SOCKET_PORT     \* listen(soc, backlog), as main calls it

\* No listener: refused.  No room: the kernel drops the SYN, and the client tries
\* again.
Connect(c) ==
  /\ client[c] = "idle"
  /\ IF listening = {}
       THEN client' = [client EXCEPT ![c] = "refused"] /\ UNCHANGED queue
       ELSE \E p \in listening :
              /\ Room(p)
              /\ client' = [client EXCEPT ![c] = "queued"]
              /\ queue' = [queue EXCEPT ![p] = Append(@, c)]
  /\ UNCHANGED <<pc, code, listening, serving, lingering>>

Leave(c) ==
  /\ client[c] \in {"queued", "served"}
  /\ client' = [client EXCEPT ![c] = "left"]
  /\ UNCHANGED <<pc, code, listening, queue, serving, lingering>>

TimeWaitEnds ==
  /\ lingering /\ lingering' = FALSE
  /\ UNCHANGED <<pc, code, listening, queue, serving, client>>

Next ==
  \/ \E p \in Process : Start(p) \/ Main(p) \/ BreakOff(p)
  \/ \E c \in Client : Connect(c) \/ Leave(c)
  \/ TimeWaitEnds

Spec == Init /\ [][Next]_vars

\* A process that has been started runs, and a client that is served is done some
\* time: the server has no timeout of its own.  Those who wait need not leave, and
\* nobody need start a server.
FairSpec ==
  /\ Spec
  /\ \A p \in Process : WF_vars(Main(p))
  /\ \A c \in Client : WF_vars(client[c] = "served" /\ Leave(c))

-----------------------------------------------------------------------------
(* Properties.                                                             *)

\* However many servers are started, one client is served at a time, by the
\* server that listens.
OneClientAtATime ==
  /\ \A p \in Process : serving[p] # NoClient => p \in listening
  /\ \A c, d \in Client : client[c] = "served" /\ client[d] = "served" => c = d

\* A server that is started when no other runs comes to listen, although connections
\* of the last one may linger, unless another is started meanwhile.
RestartListens ==
  \A p \in Process :
    LET alone == \A q \in Process \ {p} : pc[q] \in {"idle", "ended"} IN
    pc[p] = "bind" /\ alone ~> p \in listening \/ ~alone

\* Nobody waits in a queue for good, although a process accepts only once: the end
\* of the process that is served first resets the others.
WaitingEnds == \A c \in Client : client[c] = "queued" ~> client[c] # "queued"

\* A server that is started either listens or ends, also when two of them pass
\* bind together and listen fails for one.
ListensOrEnds ==
  \A p \in Process : pc[p] = "bind" ~> p \in listening \/ pc[p] = "ended"
=============================================================================
