----------------------------- MODULE TlsServer -----------------------------
(***************************************************************************)
(* One connection of the server, at the granularity of its system calls:   *)
(* the loop of main.c reads a record (read_record returns it whole or      *)
(* fails: module RecordReader) and hands it to main_state_mech, whose      *)
(* writes to the socket interleave with what the peer does.  Variables     *)
(* with the names of the fields of TLS_SERVER_STATE are those fields.      *)
(***************************************************************************)
EXTENDS Integers, Sequences, KeySchedule

CONSTANTS
  Hello,          \* the ClientHello messages a peer can send
  Share,          \* the X25519 public values a peer can offer
  LowOrder,       \* those for which crypto_scalarmult fails
  KeyShareOf,     \* the X25519 share each ClientHello carries, or NoShare
  NoShare,
  NoHello,        \* stands where a record holds no ClientHello
  MaxHandshakes   \* bound on the ClientHellos the server takes on

ASSUME ShareAssumption ==
  /\ LowOrder \subseteq Share
  /\ NoShare \notin Share
  /\ NoHello \notin Hello
  /\ KeyShareOf \in [Hello -> Share \cup {NoShare}]
ASSUME BoundAssumption == MaxHandshakes \in Nat

VARIABLES
  pc,             \* where the single thread of the server is
  record,         \* the record being handled
  peer,           \* the other end of the socket
  out,            \* the records that reached the peer, in order
  ephemeral,      \* how many private keys randombytes_buf has drawn
  state,
  hash_state,     \* the messages hashed so far
  shared_secret,
  handshake_secret,
  server_handshake_traffic_secret,
  client_handshake_traffic_secret,
  server_write_key,
  client_write_key,
  server_write_iv,
  client_write_iv,
  server_nonce_counter,
  client_nonce_counter

keys == <<handshake_secret, server_handshake_traffic_secret,
          client_handshake_traffic_secret, server_write_key, client_write_key,
          server_write_iv, client_write_iv,
          server_nonce_counter, client_nonce_counter>>

connection == <<state, hash_state, shared_secret, ephemeral, keys>>

vars == <<pc, record, peer, out, connection>>

-----------------------------------------------------------------------------
(* Records and messages.                                                   *)

ContentType ==
  {"handshake", "alert", "change_cipher_spec", "application_data", "unknown"}

\* What a record that begins with a ClientHello holds of it: all of it and nothing
\* else, its first part (the rest follows in another record), or more than it.
\* parse_handshake never compares the length of the message with the record's.
Extent == {"whole", "part", "more"}

Record ==
  [type : {"handshake"}, hello : Hello, extent : Extent]
    \cup [type : ContentType, hello : {NoHello}, extent : {"whole"}]

\* The bytes of such a record, which is what main_state_mech hashes.
RecordBytes(r) == [kind |-> "ClientHello", hello |-> r.hello, extent |-> r.extent]

\* The random and the key share are the ones drawn with private key number e,
\* the session id is the one of the ClientHello that is answered.
ServerHelloMsg(h, e) == [kind |-> "ServerHello", hello |-> h, ephemeral |-> e]

EncryptedExtensionsRec(key, nonce) ==
  [kind |-> "EncryptedExtensions", key |-> key, nonce |-> nonce]

UnexpectedMessageAlert == [kind |-> "Alert", description |-> "unexpected_message"]

\* What lies behind the record in memory, or behind the extension, stands in for
\* what is missing: the rest of the ClientHello, or its X25519 share.
ReadsBehind(r) == r.extent = "part" \/ KeyShareOf[r.hello] = NoShare

\* What get_X25519_key_share can leave in client_public_key.  A scan that reads
\* behind takes what it finds there, or the process dies (action ScanKillsProcess).
ParsedShares(r) == IF ReadsBehind(r) THEN Share ELSE {KeyShareOf[r.hello]}

\* The process has left the loop of main: it returned 0 or it was killed.
Ended == pc \in {"stopped", "killed"}

-----------------------------------------------------------------------------
(* The environment: the peer and write(2).                                 *)

Init ==
  /\ pc = "read"
  /\ record = [type |-> "unknown", hello |-> NoHello, extent |-> "whole"]
  /\ peer = "open"
  /\ out = << >>
  /\ ephemeral = 0
  /\ state = "UNENCRYPTED"
  /\ hash_state = << >>
  /\ shared_secret = Uninitialised
  /\ handshake_secret = Uninitialised
  /\ server_handshake_traffic_secret = Uninitialised
  /\ client_handshake_traffic_secret = Uninitialised
  /\ server_write_key = Uninitialised
  /\ client_write_key = Uninitialised
  /\ server_write_iv = Uninitialised
  /\ client_write_iv = Uninitialised
  /\ server_nonce_counter = 0
  /\ client_nonce_counter = 0

PeerCloses ==
  /\ peer = "open"
  /\ peer' = "closed"
  /\ UNCHANGED <<pc, record, out, connection>>

PeerResets ==
  /\ peer # "reset"
  /\ peer' = "reset"
  /\ UNCHANGED <<pc, record, out, connection>>

\* write(state->socket, m), whose result no caller looks at.  To an end that is
\* gone it reports success or an error, or SIGPIPE kills the process.
Write(m, next) ==
  /\ out' = IF peer = "open" THEN Append(out, m) ELSE out
  /\ pc' \in IF peer = "reset" THEN {next, "killed"} ELSE {next}
  /\ UNCHANGED <<record, peer>>

-----------------------------------------------------------------------------
(* The loop of main.                                                       *)

\* The peer sends what it likes; MaxHandshakes bounds its ClientHellos.
ReadRecord ==
  /\ pc = "read"
  /\ record' \in Record
  /\ record'.hello # NoHello => ephemeral < MaxHandshakes
  /\ pc' = "dispatch"
  /\ UNCHANGED <<peer, out, connection>>

\* read_record returned non-zero: end of the stream, or a record in pieces.
ReadFails ==
  /\ pc = "read"
  /\ pc' = "stopped"
  /\ UNCHANGED <<record, peer, out, connection>>

-----------------------------------------------------------------------------
(* main_state_mech, one action per outcome of its switch.                  *)

Dispatch(type) == pc = "dispatch" /\ record.type = type

\* Alerts and ChangeCipherSpec are logged; application data is dropped once
\* there are keys.
IgnoreRecord ==
  /\ \/ Dispatch("alert")
     \/ Dispatch("change_cipher_spec")
     \/ Dispatch("application_data") /\ state = "ENCRYPTED"
  /\ pc' = "read"
  /\ UNCHANGED <<record, peer, out, connection>>

\* Returns -50 for a record type, -2 for a handshake message it does not expect.
RejectRecord ==
  /\ \/ Dispatch("unknown")
     \/ Dispatch("handshake") /\ record.hello = NoHello
  /\ pc' = "stopped"
  /\ UNCHANGED <<record, peer, out, connection>>

\* Mutant: application data is refused in every state.
RefuseAnyApplicationData ==
  /\ Dispatch("application_data")
  /\ Write(UnexpectedMessageAlert, "stopped")
  /\ UNCHANGED connection

\* Returns -40 after a fatal alert.
RefuseApplicationData ==
  /\ Dispatch("application_data")
  /\ state = "UNENCRYPTED"
  /\ Write(UnexpectedMessageAlert, "stopped")
  /\ UNCHANGED connection

\* An assertion or a bad access inside get_X25519_key_share, after the
\* ClientHello has been hashed and a private key drawn.
ScanKillsProcess ==
  /\ Dispatch("handshake")
  /\ record.hello # NoHello
  /\ ReadsBehind(record)
  /\ hash_state' = Append(hash_state, RecordBytes(record))
  /\ ephemeral' = ephemeral + 1
  /\ pc' = "killed"
  /\ UNCHANGED <<record, peer, out, state, shared_secret, keys>>

\* The record is hashed, a private key drawn and the shared secret computed,
\* whatever state the connection is in.  A low-order share fails the handshake
\* (-3) and leaves the buffer as it was or cleared.
StartHandshake ==
  /\ Dispatch("handshake")
  /\ record.hello # NoHello
  /\ hash_state' = Append(hash_state, RecordBytes(record))
  /\ ephemeral' = ephemeral + 1
  /\ \E client_public_key \in ParsedShares(record) :
       IF client_public_key \in LowOrder
         THEN shared_secret' \in {shared_secret, Zero} /\ pc' = "stopped"
         ELSE /\ shared_secret' = X25519(ephemeral', client_public_key)
              /\ pc' = "serverHello"
  /\ UNCHANGED <<record, peer, out, state, keys>>

\* Mutant: the ServerHello is sent and not hashed.
SendServerHelloUnhashed ==
  /\ pc = "serverHello"
  /\ Write(ServerHelloMsg(record.hello, ephemeral), "installKeys")
  /\ UNCHANGED connection

\* The rest of ClientHello_ServerHello_handshake: send and hash the ServerHello.
SendServerHello ==
  /\ pc = "serverHello"
  /\ LET m == ServerHelloMsg(record.hello, ephemeral)
     IN  /\ Write(m, "installKeys")
         /\ hash_state' = Append(hash_state, m)
  /\ UNCHANGED <<state, shared_secret, ephemeral, keys>>

\* Mutant: an encrypted connection keeps the keys it has.
GenerateServerKeysOnce ==
  IF state = "ENCRYPTED"
    THEN UNCHANGED <<server_write_key, server_write_iv>>
    ELSE /\ server_write_key' = generate_write_key(server_handshake_traffic_secret')
         /\ server_write_iv'  = generate_write_iv(server_handshake_traffic_secret')

\* Mutant: the write keys are generated before the traffic secrets.
GenerateServerKeysEarly ==
  /\ server_write_key' = generate_write_key(server_handshake_traffic_secret)
  /\ server_write_iv'  = generate_write_iv(server_handshake_traffic_secret)

GenerateServerKeys ==
  /\ server_write_key' = generate_write_key(server_handshake_traffic_secret')
  /\ server_write_iv'  = generate_write_iv(server_handshake_traffic_secret')

\* Back in main_state_mech: everything is derived anew from the shared secret
\* and the hash of the transcript up to the ServerHello.
InstallKeys ==
  /\ pc = "installKeys"
  /\ state' = "ENCRYPTED"
  /\ LET hash == get_hash(hash_state) IN
     /\ handshake_secret' = process_handshake_secret(shared_secret)
     /\ server_handshake_traffic_secret' =
          process_server_handshake_traffic_secret(shared_secret, hash)
     /\ client_handshake_traffic_secret' =
          process_client_handshake_traffic_secret(shared_secret, hash)
  /\ GenerateServerKeys
  /\ client_write_key' = generate_write_key(client_handshake_traffic_secret')
  /\ client_write_iv'  = generate_write_iv(client_handshake_traffic_secret')
  /\ server_nonce_counter' = 0
  /\ client_nonce_counter' = 0
  /\ pc' = "encryptedExtensions"
  /\ UNCHANGED <<record, peer, out, hash_state, shared_secret, ephemeral>>

EncryptedExtensionsUnderKeys ==
  EncryptedExtensionsRec(server_write_key,
                         generate_nonce(server_write_iv, server_nonce_counter))

\* Mutant: the message also enters the transcript.
HashedEncryptedExtensions ==
  /\ pc = "encryptedExtensions"
  /\ Write(EncryptedExtensionsUnderKeys, "read")
  /\ hash_state' = Append(hash_state, EncryptedExtensionsUnderKeys)
  /\ UNCHANGED <<state, shared_secret, ephemeral, keys>>

\* Mutant: the test of the state is the wrong way round.
InvertedEncryptedExtensions ==
  /\ pc = "encryptedExtensions"
  /\ IF state = "ENCRYPTED"
       THEN pc' = "stopped" /\ UNCHANGED <<record, peer, out>>
       ELSE Write(EncryptedExtensionsUnderKeys, "read")
  /\ UNCHANGED connection

\* Without keys it would return -1 and main_state_mech -4.  The message is not
\* hashed and the nonce counter stays.
send_null_EncryptedExtensions ==
  /\ pc = "encryptedExtensions"
  /\ IF state # "ENCRYPTED"
       THEN pc' = "stopped" /\ UNCHANGED <<record, peer, out>>
       ELSE Write(EncryptedExtensionsUnderKeys, "read")
  /\ UNCHANGED connection

\* A handshake message in hand, any stage of its handling asks for memory: the
\* parsed message, the extensions and the record of the answer, the HKDF label,
\* the inner plaintext and the ciphertext.  Without it an assertion fails or a null
\* pointer is written to, and nobody sees what that stage had done by then.
OutOfMemory ==
  /\ \/ Dispatch("handshake")
     \/ pc \in {"serverHello", "installKeys", "encryptedExtensions"}
  /\ pc' = "killed"
  /\ UNCHANGED <<record, peer, out, connection>>

-----------------------------------------------------------------------------

main_state_mech ==
  \/ IgnoreRecord \/ RejectRecord \/ RefuseApplicationData
  \/ ScanKillsProcess \/ StartHandshake
  \/ SendServerHello \/ InstallKeys \/ send_null_EncryptedExtensions
  \/ OutOfMemory

Terminated == Ended /\ UNCHANGED vars

Next ==
  \/ ReadRecord \/ ReadFails
  \/ main_state_mech
  \/ PeerCloses \/ PeerResets
  \/ Terminated

Spec == Init /\ [][Next]_vars

\* The thread that runs main_state_mech is scheduled, and a write to the socket
\* returns.  Nothing is assumed of the peer, hence nothing of read_record.
FairSpec == Spec /\ WF_vars(main_state_mech)

-----------------------------------------------------------------------------
(* Properties.                                                             *)

Message ==
  [kind : {"ClientHello"}, hello : Hello, extent : Extent]
    \cup [kind : {"ServerHello"}, hello : Hello, ephemeral : Nat]

TypeOK ==
  /\ pc \in {"read", "dispatch", "serverHello", "installKeys",
             "encryptedExtensions", "stopped", "killed"}
  /\ record \in Record
  /\ peer \in {"open", "closed", "reset"}
  /\ ephemeral \in 0..MaxHandshakes
  /\ state \in {"UNENCRYPTED", "ENCRYPTED"}
  /\ hash_state \in Seq(Message)
  /\ server_nonce_counter \in Nat /\ client_nonce_counter \in Nat

IsEncrypted(r) == r.kind = "EncryptedExtensions"

\* No key ever meets the same nonce twice.  send_null_EncryptedExtensions leaves
\* server_nonce_counter alone and every handshake sets it back to 0, so this
\* rests on every handshake deriving new keys before it encrypts.
NonceUnique ==
  \A i, j \in DOMAIN out :
    /\ i # j
    /\ IsEncrypted(out[i]) /\ IsEncrypted(out[j])
    => <<out[i].key, out[i].nonce>> # <<out[j].key, out[j].nonce>>

\* The ClientHello as its sender knows it.
ClientHelloMsg(h) == [kind |-> "ClientHello", hello |-> h, extent |-> "whole"]

\* The transcript as the peer can tell it from its own ClientHellos and the first
\* n records it received: each ClientHello, then the ServerHello it got.  Between
\* the two it sends no message, so bytes behind a ClientHello are none of it.
PeerTranscript(received, n) ==
  [i \in 1..n |-> IF i % 2 = 1 THEN ClientHelloMsg(received[i].hello)
                               ELSE received[i-1]]

ServerWriteKey(shared, transcript) ==
  generate_write_key(process_server_handshake_traffic_secret(shared,
                                                             get_hash(transcript)))

\* Among the first n messages every ClientHello filled its record.
FilledRecords(n) ==
  \A j \in DOMAIN hash_state :
    j <= n /\ hash_state[j].kind = "ClientHello" => hash_state[j].extent = "whole"

\* An encrypted record reaches the peer right after a ServerHello.  It is under the
\* key the peer computes from the share it offered and from its own view of the
\* transcript exactly if every ClientHello up to there came in a record of its own:
\* main_state_mech hashes records, the peer hashes messages.  One split or padded
\* ClientHello sets the two apart for every later handshake of the connection.
KeyAgreement ==
  \A i \in DOMAIN out :
    IsEncrypted(out[i]) =>
      /\ i % 2 = 0
      /\ out[i-1].kind = "ServerHello"
      /\ LET share == KeyShareOf[out[i-1].hello] IN
         share # NoShare =>
           (out[i].key = ServerWriteKey(X25519(out[i-1].ephemeral, share),
                                        PeerTranscript(out, i))
              <=> FilledRecords(i))

\* Between two records the secrets of an encrypted connection belong together:
\* all are derived from the shared secret and the transcript of one and the
\* same handshake, none is left over from an earlier one or from malloc.
SecretsCoherent ==
  state = "ENCRYPTED" /\ pc \in {"read", "dispatch", "encryptedExtensions"} =>
    LET hash == get_hash(hash_state)
        s == process_server_handshake_traffic_secret(shared_secret, hash)
        c == process_client_handshake_traffic_secret(shared_secret, hash)
    IN  /\ shared_secret \notin {Uninitialised, Zero}
        /\ handshake_secret = process_handshake_secret(shared_secret)
        /\ server_handshake_traffic_secret = s
        /\ client_handshake_traffic_secret = c
        /\ server_write_key = generate_write_key(s)
        /\ server_write_iv  = generate_write_iv(s)
        /\ client_write_key = generate_write_key(c)
        /\ client_write_iv  = generate_write_iv(c)

\* A handshake whose ServerHello is due is answered in full while the peer stays and
\* there is memory: EncryptedExtensions arrive and the server is back at reading.  It
\* never ends in an error that main_state_mech returns.
HelloAnswered ==
  pc = "serverHello" ~>
    \/ peer # "open" \/ pc = "killed"
    \/ pc = "read" /\ Len(out) > 0 /\ IsEncrypted(out[Len(out)])

\* How far the flight in hand is: it is owed from the write of the ServerHello on,
\* and once the peer or the process is gone the promise is over.
FlightPhase ==
  IF Ended \/ peer # "open" THEN "over"
  ELSE CASE pc \in {"read", "dispatch"}                      -> "idle"
         [] pc = "serverHello"                               -> "heard"
         [] pc \in {"installKeys", "encryptedExtensions"}    -> "owed"

\* The server's promise to the peer (module HandshakeFlights), read off its state.
Flights == INSTANCE HandshakeFlights WITH
  Ephemeral  <- 1..MaxHandshakes,
  SharesOf   <- ParsedShares,
  transcript <- hash_state,
  phase      <- FlightPhase

\* Every connection keeps that promise: no record out of order, none under a key
\* of another transcript, an alert only before any flight.
KeepsFlights == Flights!Spec

\* The comment at the head of the handshake case of main_state_mech: it performs
\* the entire handshake up to the verification of the peer's finished message.
\* The server's part of that includes its own Finished.
EntireHandshake ==
  pc = "read" /\ state = "ENCRYPTED" /\ peer = "open" =>
    \E i \in DOMAIN out : out[i].kind = "Finished"
=============================================================================
