-------------------------- MODULE MCServerProcess --------------------------
(***************************************************************************)
(* An instance of ServerProcess: the server is run three times and three   *)
(* clients come, one more than the kernel queues for a backlog of          *)
(* SOCKET_PORT, 1 here.  The port is larger than SOCKET_BACKLOG, 0 here,   *)
(* as 3000 is larger than 5.                                               *)
(***************************************************************************)
EXTENDS ServerProcess
=============================================================================
