--------------------------- MODULE KeyShareChoice ---------------------------
(***************************************************************************)
(* What the handshake relies on when it asks a ClientHello for its X25519  *)
(* share: the answer is the share that was offered.  Only when none was    *)
(* can the process die, or go on with whatever the memory behind the       *)
(* message holds.  Module TlsServer makes this very choice in its actions  *)
(* StartHandshake and ScanKillsProcess.                                    *)
(***************************************************************************)
CONSTANTS
  Key,            \* what the 32 bytes of a public value can be
  NoShare

VARIABLES offered, outcome, key

vars == <<offered, outcome, key>>

Init == offered \in Key \cup {NoShare} /\ outcome = "pending" /\ key = NoShare

Take ==
  /\ outcome = "pending" /\ outcome' = "found"
  /\ key' \in IF offered = NoShare THEN Key ELSE {offered}
  /\ UNCHANGED offered

Die ==
  /\ outcome = "pending" /\ outcome' = "dead"
  /\ offered = NoShare
  /\ UNCHANGED <<offered, key>>

Next == Take \/ Die

Spec == Init /\ [][Next]_vars
=============================================================================
