-------------------------- MODULE HandshakeFlights --------------------------
(***************************************************************************)
(* What the server promises the peer about the records it receives, with   *)
(* no mention of the socket, of the struct TLS_SERVER_STATE or of how the  *)
(* keys are kept: the output is a series of flights, each a ServerHello    *)
(* that answers one ClientHello and then an EncryptedExtensions record     *)
(* under the key of the transcript so far.  It may stop anywhere, and only *)
(* a connection without a flight ends with an alert.                       *)
(***************************************************************************)
EXTENDS Naturals, Sequences, KeySchedule

CONSTANTS
  Hello,
  Extent,                \* how much of a ClientHello the server may be given
  Ephemeral,             \* the private keys the server may draw
  SharesOf(_)            \* the public values a ClientHello may be taken to offer

VARIABLES
  out,                   \* the records the peer receives
  transcript,
  phase                  \* "idle", "heard", "owed" (EncryptedExtensions), "over"

vars == <<out, transcript, phase>>

ClientHello(h, x) == [kind |-> "ClientHello", hello |-> h, extent |-> x]
ServerHello(h, e) == [kind |-> "ServerHello", hello |-> h, ephemeral |-> e]

\* An EncryptedExtensions record under the server key of a shared secret and
\* transcript, the only record under that key.
EncryptedExtensions(shared, ts) ==
  LET secret == process_server_handshake_traffic_secret(shared, get_hash(ts))
  IN  [kind  |-> "EncryptedExtensions",
       key   |-> generate_write_key(secret),
       nonce |-> generate_nonce(generate_write_iv(secret), 0)]

Alert == [kind |-> "Alert", description |-> "unexpected_message"]

\* No two ServerHellos come from the same private key.
Fresh(e) == \A i \in DOMAIN out : out[i].kind = "ServerHello" => out[i].ephemeral # e

Init == out = << >> /\ transcript = << >> /\ phase = "idle"

Hear ==
  /\ phase = "idle" /\ phase' = "heard"
  /\ \E h \in Hello, x \in Extent :
       transcript' = Append(transcript, ClientHello(h, x))
  /\ UNCHANGED out

Answer ==
  /\ phase = "heard" /\ phase' = "owed"
  /\ \E h \in Hello, e \in Ephemeral :
       /\ transcript[Len(transcript)].hello = h
       /\ Fresh(e)
       /\ transcript' = Append(transcript, ServerHello(h, e))
       /\ out' = Append(out, ServerHello(h, e))

Confirm ==
  /\ phase = "owed" /\ phase' = "idle"
  /\ \E s \in SharesOf(transcript[Len(transcript) - 1]) :
       out' = Append(out, EncryptedExtensions(X25519(out[Len(out)].ephemeral, s),
                                              transcript))
  /\ UNCHANGED transcript

Refuse ==
  /\ phase = "idle" /\ phase' = "over"
  /\ out = << >> /\ out' = <<Alert>>
  /\ UNCHANGED transcript

\* The server gives up or the peer goes; of the transcript nothing more is said.
Silence == phase' = "over" /\ UNCHANGED out

Next == Hear \/ Answer \/ Confirm \/ Refuse \/ Silence

Spec == Init /\ [][Next]_vars
=============================================================================
