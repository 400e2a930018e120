--------------------------- MODULE KeySeparation ---------------------------
(***************************************************************************)
(* Two users of the key schedule.  Each calls functions of key_schedule.c, *)
(* in any order their arguments allow, to the end of the schedule: traffic *)
(* secrets, keys, ivs, and the verify data of a Finished message.          *)
(***************************************************************************)
EXTENDS KeySchedule, Naturals, Sequences

CONSTANTS
  SharedSecret,     \* what X25519 may have returned
  TranscriptHash    \* and get_hash

VARIABLES
  calls,            \* for each user, what it has called and with which input
  out               \* and what the last call has written to its out

scheduleVars == <<calls, out>>

User == {1, 2}

ScheduleInit == calls = [u \in User |-> << >>] /\ out = [u \in User |-> Uninitialised]

\* User u gives what it holds, and the input, to the function of this name.
Call(u, name, input, result) ==
  /\ calls' = [calls EXCEPT ![u] = Append(@, <<name, input>>)]
  /\ out' = [out EXCEPT ![u] = result]

\* The last call of u was one of these.
Holds(u, names) == calls[u] # << >> /\ calls[u][Len(calls[u])][1] \in names

HandshakeTraffic   == {"c hs", "s hs"}
ApplicationTraffic == {"c ap", "s ap"}

-----------------------------------------------------------------------------

HandshakeSecret(u) ==
  /\ calls[u] = << >>
  /\ \E s \in SharedSecret : Call(u, "handshake", s, process_handshake_secret(s))

\* These two begin with the shared secret themselves.
HandshakeTrafficSecret(u) ==
  /\ calls[u] = << >>
  /\ \E s \in SharedSecret, h \in TranscriptHash :
       \/ Call(u, "c hs", <<s, h>>, process_client_handshake_traffic_secret(s, h))
       \/ Call(u, "s hs", <<s, h>>, process_server_handshake_traffic_secret(s, h))

MasterSecret(u) ==
  /\ Holds(u, {"handshake"})
  /\ Call(u, "master", "none", process_master_secret(out[u]))

\* Mutant: the label of the server in the function for the client.
OneLabelForBoth(u) ==
  /\ Holds(u, {"master"})
  /\ \E h \in TranscriptHash :
       \/ Call(u, "c ap", h, process_server_application_traffic_secret_0(out[u], h))
       \/ Call(u, "s ap", h, process_server_application_traffic_secret_0(out[u], h))

ApplicationTrafficSecret(u) ==
  /\ Holds(u, {"master"})
  /\ \E h \in TranscriptHash :
       \/ Call(u, "c ap", h, process_client_application_traffic_secret_0(out[u], h))
       \/ Call(u, "s ap", h, process_server_application_traffic_secret_0(out[u], h))

FromTrafficSecret(u) ==
  /\ Holds(u, HandshakeTraffic \cup ApplicationTraffic)
  /\ \/ Call(u, "key", "none", generate_write_key(out[u]))
     \/ Call(u, "iv", "none", generate_write_iv(out[u]))
     \/ Call(u, "finished", "none", generate_finished_key(out[u]))

VerifyData(u) ==
  /\ Holds(u, {"finished"})
  /\ \E h \in TranscriptHash : Call(u, "verify", h, process_verify_data(out[u], h))

\* Both have what they wanted.
ScheduleTerminated ==
  (\A u \in User : Holds(u, {"key", "iv", "verify"})) /\ UNCHANGED scheduleVars

ScheduleNext ==
  \/ \E u \in User :
       \/ HandshakeSecret(u) \/ HandshakeTrafficSecret(u) \/ MasterSecret(u)
       \/ ApplicationTrafficSecret(u) \/ FromTrafficSecret(u) \/ VerifyData(u)
  \/ ScheduleTerminated

ScheduleSpec == ScheduleInit /\ [][ScheduleNext]_scheduleVars

-----------------------------------------------------------------------------
(* Properties.                                                             *)

\* Two users come to the same bytes only by the same calls on the same inputs: no
\* secret, key or iv serves two purposes, two sides, two handshakes or both
\* halves of the schedule, whatever the peer's share made of the shared secret.
KeysSeparate == calls[1] # calls[2] => out[1] # out[2]
=============================================================================
