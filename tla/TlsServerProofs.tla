-------------------------- MODULE TlsServerProofs --------------------------
(***************************************************************************)
(* Proofs about TlsServer, for every set of ClientHellos and shares and    *)
(* every MaxHandshakes.                                                    *)
(***************************************************************************)
EXTENDS TlsServer, TLAPS

-----------------------------------------------------------------------------
(* The inductive invariant.                                                *)

\* A ClientHello is in hand from its dispatch to the end of its handshake.
HelloInHand ==
  /\ pc = "dispatch" /\ record.hello # NoHello => ephemeral < MaxHandshakes
  /\ pc \in {"serverHello", "installKeys", "encryptedExtensions"} =>
       record.hello # NoHello /\ ephemeral # 0

TypeInv == TypeOK /\ HelloInHand

OutIsSequence == out \in Seq({out[i] : i \in DOMAIN out})

IsServerHello(r) == r.kind = "ServerHello"

\* Every ServerHello that was sent has a private key of its own, drawn before.
FreshKeys ==
  /\ \A i \in DOMAIN out : IsServerHello(out[i]) =>
       /\ out[i].ephemeral \in 1..ephemeral
       /\ pc = "serverHello" => out[i].ephemeral < ephemeral
  /\ \A i, j \in DOMAIN out :
       IsServerHello(out[i]) /\ IsServerHello(out[j]) /\ i # j =>
         out[i].ephemeral # out[j].ephemeral

\* The shared secret of the handshake in hand.
SharedSecretInHand ==
  pc \in {"serverHello", "installKeys", "encryptedExtensions"} =>
    \E s \in ParsedShares(record) : shared_secret = X25519(ephemeral, s)

\* The first n messages hashed are the peer's, but that each ClientHello is as much
\* of it as its record held.
SeenByPeer(hashed, received, n) ==
  \A j \in 1..n :
    /\ j % 2 = 1 =>
         hashed[j] = [kind |-> "ClientHello", hello |-> received[j].hello,
                      extent |-> hashed[j].extent]
    /\ j % 2 = 0 => hashed[j] = received[j-1] /\ IsServerHello(received[j-1])

\* As long as the peer is there, the records it has received and the transcript
\* keep step.
InStepWithPeer ==
  peer = "open" =>
    /\ pc \in {"read", "dispatch", "serverHello"} => Len(out) % 2 = 0
    /\ pc \in {"read", "dispatch"} =>
         Len(hash_state) = Len(out) /\ SeenByPeer(hash_state, out, Len(out))
    /\ pc = "serverHello" =>
         /\ Len(hash_state) = Len(out) + 1 /\ SeenByPeer(hash_state, out, Len(out))
         /\ hash_state[Len(out) + 1] = RecordBytes(record)
    /\ pc \in {"installKeys", "encryptedExtensions"} =>
         /\ Len(out) % 2 = 1
         /\ out[Len(out)] = ServerHelloMsg(record.hello, ephemeral)
         /\ Len(hash_state) = Len(out) + 1 /\ SeenByPeer(hash_state, out, Len(out) + 1)
         /\ hash_state[Len(out)] = RecordBytes(record)

\* The first n messages hashed.
Hashed(hashed, n) == [j \in 1..n |-> hashed[j]]

\* Each encrypted record is under the key of the secret and of the transcript that
\* the ServerHello before it concluded.
KeyOfFlight(hashed, received, i) ==
  /\ i % 2 = 0
  /\ IsServerHello(received[i-1])
  /\ i <= Len(hashed) /\ SeenByPeer(hashed, received, i)
  /\ \E s \in ParsedShares(hashed[i-1]) :
       received[i].key = ServerWriteKey(X25519(received[i-1].ephemeral, s), Hashed(hashed, i))

KeysFromFlights == \A i \in DOMAIN out : IsEncrypted(out[i]) => KeyOfFlight(hash_state, out, i)

\* EncryptedExtensions is due under fresh keys.
KeysInHand ==
  pc = "encryptedExtensions" => state = "ENCRYPTED" /\ server_nonce_counter = 0

\* Nothing is sent before there are keys, but the ServerHello that leads to them.
SilentBeforeKeys ==
  /\ peer = "open"
  /\ state = "UNENCRYPTED"
  /\ pc \in {"read", "dispatch", "serverHello"}
  => out = << >>

IInv ==
  /\ OutIsSequence
  /\ FreshKeys
  /\ SharedSecretInHand
  /\ InStepWithPeer
  /\ KeysInHand
  /\ SilentBeforeKeys
  /\ SecretsCoherent
  /\ KeysFromFlights

-----------------------------------------------------------------------------
(* Sequences and writes.                                                   *)

\* What Append does, for sequences over any set.
LEMMA AppendFacts ==
  ASSUME NEW S, NEW s \in Seq(S), NEW m
  PROVE  /\ Append(s, m) \in Seq(S \cup {m})
         /\ Len(Append(s, m)) = Len(s) + 1
         /\ DOMAIN Append(s, m) = 1..(Len(s) + 1)
         /\ \A i \in 1..Len(s) : Append(s, m)[i] = s[i]
         /\ Append(s, m)[Len(s) + 1] = m
  OBVIOUS

\* A sequence is one over its own elements.
LEMMA SeqOfElements ==
  ASSUME NEW S, NEW s \in Seq(S)
  PROVE  s \in Seq({s[i] : i \in DOMAIN s})
  OBVIOUS

\* A write appends to what the peer has if it is there, and goes on unless
\* SIGPIPE kills the process.
LEMMA WriteFacts ==
  ASSUME NEW m, NEW next, Write(m, next)
  PROVE  /\ record' = record /\ peer' = peer
         /\ pc' \in {next, "killed"}
         /\ peer = "open" => out' = Append(out, m) /\ pc' = next
         /\ peer # "open" => out' = out
  BY DEF Write

-----------------------------------------------------------------------------
(* Types.                                                                  *)

\* The initial state is well typed.
LEMMA InitTypeInv == Init => TypeInv
  BY ShareAssumption, BoundAssumption
  DEF Init, TypeInv, TypeOK, HelloInHand, Record, ContentType, Message, Extent

\* Every step keeps the types, and takes on a ClientHello only within the bound.
LEMMA NextTypeInv == TypeInv /\ [Next]_vars => TypeInv'
<1> SUFFICES ASSUME TypeInv, [Next]_vars PROVE TypeInv'
  OBVIOUS
<1> USE ShareAssumption, BoundAssumption
<1>1. CASE ReadRecord
  BY <1>1 DEF ReadRecord, TypeInv, TypeOK, HelloInHand, connection, keys
<1>2. CASE ReadFails \/ IgnoreRecord \/ RejectRecord
  BY <1>2 DEF ReadFails, IgnoreRecord, RejectRecord, TypeInv, TypeOK, HelloInHand,
              connection, keys
<1>3. CASE RefuseApplicationData
  BY <1>3 DEF RefuseApplicationData, Write, TypeInv, TypeOK, HelloInHand,
              connection, keys
<1>4. CASE ScanKillsProcess \/ StartHandshake
  <2>1. /\ record.hello \in Hello
        /\ ephemeral' = ephemeral + 1
        /\ record.extent \in Extent
        /\ hash_state' = Append(hash_state, RecordBytes(record))
        /\ pc' \in {"killed", "stopped", "serverHello"}
        /\ UNCHANGED <<record, peer, state, server_nonce_counter, client_nonce_counter>>
        /\ ephemeral < MaxHandshakes
    BY <1>4 DEF ScanKillsProcess, StartHandshake, Dispatch, TypeInv, TypeOK, HelloInHand,
                Record, keys
  <2>2. hash_state' \in Seq(Message)
    BY <2>1 DEF TypeInv, TypeOK, RecordBytes, Message
  <2> QED  BY <2>1, <2>2 DEF TypeInv, TypeOK, HelloInHand
<1>5. CASE SendServerHello
  <2>1. /\ record.hello \in Hello /\ ephemeral # 0
        /\ hash_state' = Append(hash_state, ServerHelloMsg(record.hello, ephemeral))
        /\ pc' \in {"killed", "installKeys"}
        /\ UNCHANGED <<record, peer, state, ephemeral, server_nonce_counter,
                       client_nonce_counter>>
    BY <1>5, WriteFacts DEF SendServerHello, TypeInv, TypeOK, HelloInHand, Record, keys
  <2>2. hash_state' \in Seq(Message)
    BY <2>1 DEF TypeInv, TypeOK, ServerHelloMsg, Message
  <2> QED  BY <2>1, <2>2 DEF TypeInv, TypeOK, HelloInHand
<1>6. CASE InstallKeys
  BY <1>6 DEF InstallKeys, TypeInv, TypeOK, HelloInHand
<1>7. CASE send_null_EncryptedExtensions
  BY <1>7 DEF send_null_EncryptedExtensions, Write, TypeInv, TypeOK, HelloInHand,
              connection, keys
<1>8. CASE PeerCloses \/ PeerResets
  BY <1>8 DEF PeerCloses, PeerResets, TypeInv, TypeOK, HelloInHand, connection, keys
<1>9. CASE OutOfMemory
  BY <1>9 DEF OutOfMemory, TypeInv, TypeOK, HelloInHand, connection, keys
<1>10. CASE UNCHANGED vars
  BY <1>10 DEF vars, connection, keys, TypeInv, TypeOK, HelloInHand
<1> QED
  BY <1>1, <1>2, <1>3, <1>4, <1>5, <1>6, <1>7, <1>8, <1>9, <1>10
  DEF Next, main_state_mech, Terminated

\* The state stays well typed, the transcript a sequence of hello messages: what
\* is sent under keys never enters it.
THEOREM TypeCorrect == Spec => []TypeOK
<1>1. TypeInv => TypeOK
  BY DEF TypeInv
<1> QED  BY <1>1, InitTypeInv, NextTypeInv, PTL DEF Spec

-----------------------------------------------------------------------------
(* The records the peer has and its view of the transcript.                *)

\* The records that were there stay where they are.
LEMMA AppendToOut ==
  ASSUME OutIsSequence, NEW m, out' = Append(out, m)
  PROVE  /\ OutIsSequence'
         /\ Len(out) \in Nat
         /\ Len(out') = Len(out) + 1
         /\ DOMAIN out = 1..Len(out)
         /\ DOMAIN out' = 1..(Len(out) + 1)
         /\ \A i \in 1..Len(out) : out'[i] = out[i]
         /\ out'[Len(out) + 1] = m
<1> DEFINE S == {out[i] : i \in DOMAIN out}
<1>1. out \in Seq(S)
  BY DEF OutIsSequence
<1>2. Append(out, m) \in Seq(S \cup {m})
  BY <1>1, AppendFacts
<1>3. OutIsSequence'
  BY <1>2, SeqOfElements DEF OutIsSequence
<1> QED
  BY <1>1, <1>3, AppendFacts

\* What was in step stays in step when the peer gets a record and the server hashes
\* a message: n messages need the records before the n-th.
LEMMA SeenGrows ==
  ASSUME NEW n \in Nat, SeenByPeer(hash_state, out, n), n <= Len(hash_state),
         \A j \in 1..Len(hash_state) : hash_state'[j] = hash_state[j],
         \A j \in 1..n : (j % 2 = 1 \/ j < n) => out'[j] = out[j]
  PROVE  SeenByPeer(hash_state', out', n)
<1> SUFFICES ASSUME NEW j \in 1..n
             PROVE  /\ j % 2 = 1 =>
                         hash_state'[j] = [kind |-> "ClientHello", hello |-> out'[j].hello,
                                           extent |-> hash_state'[j].extent]
                    /\ j % 2 = 0 => hash_state'[j] = out'[j-1] /\ IsServerHello(out'[j-1])
  BY DEF SeenByPeer, IsServerHello
<1>1. hash_state'[j] = hash_state[j]
  OBVIOUS
<1>2. CASE j % 2 = 1
  <2>1. out'[j] = out[j]
    BY <1>2
  <2>2. hash_state[j] = [kind |-> "ClientHello", hello |-> out[j].hello,
                         extent |-> hash_state[j].extent]
    BY <1>2 DEF SeenByPeer
  <2> QED
    BY <1>1, <1>2, <2>1, <2>2
<1>3. CASE j % 2 = 0
  <2>1. j - 1 \in 1..n /\ j - 1 < n
    BY <1>3
  <2>2. out'[j-1] = out[j-1]
    BY <2>1
  <2>3. hash_state[j] = out[j-1] /\ IsServerHello(out[j-1])
    BY <1>3 DEF SeenByPeer
  <2> QED
    BY <1>1, <1>3, <2>2, <2>3
<1> QED
  BY <1>2, <1>3

\* The key of a flight stays its key while records and messages are added.
LEMMA KeyOfFlightStays ==
  ASSUME OutIsSequence, hash_state \in Seq(Message), hash_state' \in Seq(Message),
         NEW i \in DOMAIN out, KeyOfFlight(hash_state, out, i),
         Len(hash_state') >= Len(hash_state),
         \A j \in 1..Len(hash_state) : hash_state'[j] = hash_state[j],
         \A j \in DOMAIN out : out'[j] = out[j]
  PROVE  KeyOfFlight(hash_state', out', i)
<1>1. DOMAIN out = 1..Len(out) /\ Len(out) \in Nat /\ Len(hash_state) \in Nat
      /\ Len(hash_state') \in Nat
  BY DEF OutIsSequence
<1>2. i % 2 = 0 /\ i <= Len(hash_state) /\ i \in Nat
  BY <1>1 DEF KeyOfFlight
<1>3. i - 1 \in DOMAIN out /\ i - 1 \in 1..Len(hash_state)
  BY <1>1, <1>2
<1>4. out'[i] = out[i] /\ out'[i-1] = out[i-1] /\ hash_state'[i-1] = hash_state[i-1]
  BY <1>3
<1>5. SeenByPeer(hash_state', out', i)
  <2>1. \A j \in 1..i : out'[j] = out[j]
    BY <1>1, <1>2
  <2> QED
    BY <2>1, <1>2, SeenGrows DEF KeyOfFlight
<1>6. Hashed(hash_state', i) = Hashed(hash_state, i)
  BY <1>1, <1>2 DEF Hashed
<1>7. PICK s \in ParsedShares(hash_state[i-1]) :
        out[i].key = ServerWriteKey(X25519(out[i-1].ephemeral, s), Hashed(hash_state, i))
  BY DEF KeyOfFlight
<1>8. s \in ParsedShares(hash_state'[i-1])
  BY <1>4, <1>7
<1>9. out'[i].key = ServerWriteKey(X25519(out'[i-1].ephemeral, s), Hashed(hash_state', i))
  BY <1>4, <1>6, <1>7
<1>10. IsServerHello(out'[i-1]) /\ i <= Len(hash_state')
  BY <1>1, <1>2, <1>4 DEF KeyOfFlight
<1> QED
  BY <1>2, <1>5, <1>8, <1>9, <1>10
  DEF KeyOfFlight, IsServerHello, ParsedShares, ReadsBehind, Hashed, ServerWriteKey

\* A message more is hashed, and nothing sent.
LEMMA KeysFromFlightsHashed ==
  ASSUME OutIsSequence, KeysFromFlights, UNCHANGED out,
         hash_state \in Seq(Message), hash_state' \in Seq(Message),
         hash_state' = hash_state \/ \E m : hash_state' = Append(hash_state, m)
  PROVE  KeysFromFlights'
<1>1. /\ Len(hash_state') >= Len(hash_state)
      /\ \A j \in 1..Len(hash_state) : hash_state'[j] = hash_state[j]
  BY AppendFacts
<1>2. ASSUME NEW i \in DOMAIN out, KeyOfFlight(hash_state, out, i)
      PROVE  KeyOfFlight(hash_state', out', i)
  BY <1>1, <1>2, KeyOfFlightStays
<1> QED
  BY <1>2 DEF KeysFromFlights, IsEncrypted

\* A record more is sent, and perhaps hashed; if it is encrypted it ends a flight.
LEMMA KeysFromFlightsGrow ==
  ASSUME OutIsSequence, KeysFromFlights, NEW m, out' = Append(out, m),
         hash_state \in Seq(Message), hash_state' \in Seq(Message),
         hash_state' = hash_state \/ \E x : hash_state' = Append(hash_state, x),
         IsEncrypted(m) => KeyOfFlight(hash_state', out', Len(out) + 1)
  PROVE  KeysFromFlights'
<1>1. /\ Len(hash_state') >= Len(hash_state)
      /\ \A j \in 1..Len(hash_state) : hash_state'[j] = hash_state[j]
  BY AppendFacts
<1>2. \A j \in DOMAIN out : out'[j] = out[j]
  BY AppendToOut
<1>3. ASSUME NEW i \in DOMAIN out, IsEncrypted(out'[i])
      PROVE  KeyOfFlight(hash_state', out', i)
  <2>1. KeyOfFlight(hash_state, out, i)
    BY <1>2, <1>3 DEF KeysFromFlights
  <2> QED
    BY <1>1, <1>2, <2>1, KeyOfFlightStays
<1>4. ASSUME NEW i \in DOMAIN out', IsEncrypted(out'[i]), i \notin DOMAIN out
      PROVE  KeyOfFlight(hash_state', out', i)
  <2>1. i = Len(out) + 1 /\ out'[i] = m
    BY <1>4, AppendToOut
  <2> QED
    BY <1>4, <2>1
<1> QED
  BY <1>3, <1>4 DEF KeysFromFlights, IsEncrypted

\* No two ServerHellos come to share a private key.
LEMMA FreshKeysGrow ==
  ASSUME OutIsSequence, FreshKeys, ephemeral \in Nat, NEW m, out' = Append(out, m),
         ephemeral' = ephemeral, pc' # "serverHello",
         IsServerHello(m) =>
           pc = "serverHello" /\ m.ephemeral = ephemeral /\ ephemeral # 0
  PROVE  FreshKeys'
<1>1. \A i \in DOMAIN out' : IsServerHello(out'[i]) =>
        out'[i].ephemeral \in 1..ephemeral
  BY AppendToOut DEF FreshKeys
<1>2. \A i, j \in DOMAIN out' :
        IsServerHello(out'[i]) /\ IsServerHello(out'[j]) /\ i # j =>
          out'[i].ephemeral # out'[j].ephemeral
  <2> SUFFICES ASSUME NEW i \in DOMAIN out', NEW j \in DOMAIN out', i # j,
                      IsServerHello(out'[i]), IsServerHello(out'[j])
               PROVE  out'[i].ephemeral # out'[j].ephemeral
    OBVIOUS
  <2>1. CASE i \in 1..Len(out) /\ j \in 1..Len(out)
    BY <2>1, AppendToOut DEF FreshKeys
  <2>2. CASE i = Len(out) + 1 /\ j \in 1..Len(out)
    BY <2>2, AppendToOut DEF FreshKeys
  <2>3. CASE i \in 1..Len(out) /\ j = Len(out) + 1
    BY <2>3, AppendToOut DEF FreshKeys
  <2> QED
    BY <2>1, <2>2, <2>3, AppendToOut
<1> QED
  BY <1>1, <1>2 DEF FreshKeys, IsServerHello

-----------------------------------------------------------------------------
(* The inductive invariant holds: one lemma per action, or per kind of     *)
(* action that leaves the connection alone.                                *)

\* It holds initially.
LEMMA InitIInv == Init => IInv
  BY DEF Init, IInv, OutIsSequence, FreshKeys, SharedSecretInHand, InStepWithPeer,
         KeysInHand, SilentBeforeKeys, SecretsCoherent, KeysFromFlights, SeenByPeer

\* Steps that touch neither the output nor the connection.
LEMMA QuietIInv ==
  ASSUME IInv, UNCHANGED <<out, connection>>,
         peer' = "open" => peer = "open",
         pc' \in {"read", "dispatch"} => pc \in {"read", "dispatch"},
         pc' \in {"serverHello", "installKeys", "encryptedExtensions"} =>
           pc' = pc /\ record' = record
  PROVE  IInv'
<1> USE DEF IInv, connection, keys
<1>1. OutIsSequence' /\ KeysFromFlights'
  BY DEF OutIsSequence, KeysFromFlights, KeyOfFlight, SeenByPeer, Hashed
<1>2. FreshKeys'
  BY DEF FreshKeys
<1>3. SharedSecretInHand' /\ KeysInHand'
  BY DEF SharedSecretInHand, KeysInHand
<1>4. InStepWithPeer'
  BY DEF InStepWithPeer, SeenByPeer
<1>5. SilentBeforeKeys' /\ SecretsCoherent'
  BY DEF SilentBeforeKeys, SecretsCoherent
<1> QED
  BY <1>1, <1>2, <1>3, <1>4, <1>5

\* Application data before there are keys: an alert, and the end.
LEMMA RefuseIInv ==
  ASSUME TypeInv, IInv, RefuseApplicationData
  PROVE  IInv'
<1>1. /\ UNCHANGED connection
      /\ pc' \in {"stopped", "killed"}
      /\ out' = out \/ out' = Append(out, UnexpectedMessageAlert)
  BY WriteFacts DEF RefuseApplicationData
<1>2. ~IsEncrypted(UnexpectedMessageAlert) /\ ~IsServerHello(UnexpectedMessageAlert)
  BY DEF IsEncrypted, IsServerHello, UnexpectedMessageAlert
<1>3. ephemeral \in Nat /\ ephemeral' = ephemeral
  BY <1>1, BoundAssumption DEF TypeInv, TypeOK, connection
<1>4. OutIsSequence'
  BY <1>1, AppendToOut DEF IInv, OutIsSequence
<1>5. KeysFromFlights'
  <2> hash_state \in Seq(Message) /\ hash_state' = hash_state
    BY <1>1 DEF TypeInv, TypeOK, connection
  <2>1. CASE out' = out
    BY <2>1, KeysFromFlightsHashed DEF IInv
  <2>2. CASE out' = Append(out, UnexpectedMessageAlert)
    BY <2>2, <1>2, KeysFromFlightsGrow DEF IInv
  <2> QED
    BY <1>1, <2>1, <2>2
<1>6. FreshKeys'
  <2>1. CASE out' = out
    BY <2>1, <1>1, <1>3 DEF IInv, FreshKeys
  <2>2. CASE out' = Append(out, UnexpectedMessageAlert)
    BY <2>2, <1>1, <1>2, <1>3, FreshKeysGrow DEF IInv
  <2> QED
    BY <1>1, <2>1, <2>2
<1>7. SharedSecretInHand' /\ InStepWithPeer' /\ KeysInHand' /\ SilentBeforeKeys'
  BY <1>1 DEF SharedSecretInHand, InStepWithPeer, KeysInHand, SilentBeforeKeys
<1>8. SecretsCoherent'
  BY <1>1 DEF SecretsCoherent
<1> QED
  BY <1>4, <1>5, <1>6, <1>7, <1>8 DEF IInv

\* The ClientHello enters the transcript and a private key is drawn, then the
\* scan kills the process, the low-order share ends the connection, or the
\* ServerHello is due.
LEMMA StartIInv ==
  ASSUME TypeInv, IInv, ScanKillsProcess \/ StartHandshake
  PROVE  IInv'
<1>1. /\ pc = "dispatch"
      /\ hash_state' = Append(hash_state, RecordBytes(record))
      /\ ephemeral' = ephemeral + 1
      /\ UNCHANGED <<record, peer, out, state, keys>>
      /\ pc' \in {"killed", "stopped", "serverHello"}
      /\ pc' = "serverHello" =>
           \E s \in ParsedShares(record) : shared_secret' = X25519(ephemeral', s)
  BY DEF ScanKillsProcess, StartHandshake, Dispatch
<1>2. ephemeral \in Nat
  BY BoundAssumption DEF TypeInv, TypeOK
<1>3. OutIsSequence' /\ KeysFromFlights'
  <2>1. hash_state \in Seq(Message) /\ hash_state' \in Seq(Message)
    BY NextTypeInv DEF TypeInv, TypeOK, Next, main_state_mech
  <2>2. OutIsSequence /\ KeysFromFlights /\ out' = out
    BY <1>1 DEF IInv
  <2> QED
    BY <1>1, <2>1, <2>2, KeysFromFlightsHashed DEF OutIsSequence
<1>4. FreshKeys'
  BY <1>1, <1>2 DEF IInv, FreshKeys
<1>5. SharedSecretInHand' /\ KeysInHand' /\ SilentBeforeKeys' /\ SecretsCoherent'
  BY <1>1 DEF IInv, SharedSecretInHand, KeysInHand, SilentBeforeKeys, SecretsCoherent
<1>6. InStepWithPeer'
  <2> SUFFICES ASSUME peer = "open", pc' = "serverHello"
               PROVE  /\ Len(out) % 2 = 0
                      /\ Len(hash_state') = Len(out) + 1 /\ SeenByPeer(hash_state', out', Len(out))
                      /\ hash_state'[Len(out) + 1] = RecordBytes(record)
    BY <1>1 DEF InStepWithPeer, SeenByPeer, RecordBytes
  <2>1. /\ Len(out) % 2 = 0 /\ Len(hash_state) = Len(out) /\ SeenByPeer(hash_state, out, Len(out))
        /\ hash_state \in Seq(Message) /\ Len(hash_state) \in Nat
    BY <1>1 DEF IInv, InStepWithPeer, TypeInv, TypeOK
  <2>2. /\ Len(hash_state') = Len(hash_state) + 1
        /\ \A j \in 1..Len(hash_state) : hash_state'[j] = hash_state[j]
        /\ hash_state'[Len(hash_state) + 1] = RecordBytes(record)
    BY <1>1, <2>1, AppendFacts
  <2>3. SeenByPeer(hash_state', out', Len(hash_state))
    BY <1>1, <2>1, <2>2 DEF SeenByPeer
  <2> QED
    BY <1>1, <2>1, <2>2, <2>3 DEF SeenByPeer
<1> QED
  BY <1>3, <1>4, <1>5, <1>6 DEF IInv

\* The ServerHello reaches the peer, if it is there, and the transcript.
LEMMA SendServerHelloIInv ==
  ASSUME TypeInv, IInv, SendServerHello
  PROVE  IInv'
<1> DEFINE m == ServerHelloMsg(record.hello, ephemeral)
<1>1. /\ pc = "serverHello"
      /\ hash_state' = Append(hash_state, m)
      /\ UNCHANGED <<record, peer, state, shared_secret, ephemeral, keys>>
      /\ pc' \in {"installKeys", "killed"}
      /\ peer = "open" => out' = Append(out, m)
      /\ peer # "open" => out' = out
  BY WriteFacts DEF SendServerHello
<1>2. ~IsEncrypted(m) /\ m.ephemeral = ephemeral /\ m.hello = record.hello
  BY DEF IsEncrypted, ServerHelloMsg
<1>3. ephemeral \in Nat /\ ephemeral # 0
  BY <1>1, BoundAssumption DEF TypeInv, TypeOK, HelloInHand
<1>4. OutIsSequence'
  BY <1>1, AppendToOut DEF IInv, OutIsSequence
<1>5. hash_state \in Seq(Message) /\ hash_state' \in Seq(Message)
  BY NextTypeInv DEF TypeInv, TypeOK, Next, main_state_mech
<1>9. KeysFromFlights'
  <2>1. CASE peer = "open"
    BY <2>1, <1>1, <1>2, <1>5, KeysFromFlightsGrow DEF IInv
  <2>2. CASE peer # "open"
    BY <2>2, <1>1, <1>5, KeysFromFlightsHashed DEF IInv
  <2> QED
    BY <2>1, <2>2
<1>6. FreshKeys'
  <2>1. CASE peer = "open"
    BY <2>1, <1>1, <1>2, <1>3, FreshKeysGrow DEF IInv
  <2>2. CASE peer # "open"
    BY <2>2, <1>1, <1>3 DEF IInv, FreshKeys
  <2> QED
    BY <2>1, <2>2
<1>7. SharedSecretInHand' /\ KeysInHand' /\ SilentBeforeKeys' /\ SecretsCoherent'
  BY <1>1 DEF IInv, SharedSecretInHand, KeysInHand, SilentBeforeKeys, SecretsCoherent
<1>8. InStepWithPeer'
  <2> SUFFICES ASSUME peer = "open", pc' = "installKeys"
               PROVE  /\ Len(out') % 2 = 1
                      /\ out'[Len(out')] = m
                      /\ Len(hash_state') = Len(out') + 1
                      /\ SeenByPeer(hash_state', out', Len(out') + 1)
                      /\ hash_state'[Len(out')] = RecordBytes(record)
    BY <1>1 DEF InStepWithPeer, SeenByPeer, RecordBytes
  <2> DEFINE n == Len(out)
  <2>1. /\ out' = Append(out, m) /\ OutIsSequence
        /\ n % 2 = 0
        /\ Len(hash_state) = n + 1 /\ SeenByPeer(hash_state, out, n)
        /\ hash_state[n + 1] = RecordBytes(record)
    BY <1>1 DEF IInv, InStepWithPeer
  <2>2. /\ n \in Nat /\ Len(out') = n + 1 /\ (n + 1) % 2 = 1
        /\ out'[n + 1] = m /\ \A j \in 1..n : out'[j] = out[j]
    BY <2>1, AppendToOut
  <2>3. /\ Len(hash_state') = n + 2
        /\ \A j \in 1..(n + 1) : hash_state'[j] = hash_state[j]
        /\ hash_state'[n + 2] = m
    BY <1>1, <1>5, <2>1, <2>2, AppendFacts
  <2> HIDE DEF m, n
  <2>4. SeenByPeer(hash_state', out', n)
    BY <2>1, <2>2, <2>3, SeenGrows
  <2>5. SeenByPeer(hash_state', out', n + 2)
    <3> SUFFICES ASSUME NEW j \in 1..(n + 2)
                 PROVE  /\ j % 2 = 1 =>
                             hash_state'[j] = [kind |-> "ClientHello", hello |-> out'[j].hello,
                                               extent |-> hash_state'[j].extent]
                        /\ j % 2 = 0 =>
                             hash_state'[j] = out'[j-1] /\ IsServerHello(out'[j-1])
      BY <2>2 DEF SeenByPeer, IsServerHello
    <3>1. CASE j \in 1..n
      BY <2>4, <3>1 DEF SeenByPeer, IsServerHello
    <3>2. CASE j = n + 1
      <4>1. hash_state'[j] = RecordBytes(record) /\ out'[j].hello = record.hello
        BY <1>2, <2>1, <2>2, <2>3, <3>2
      <4> QED
        BY <2>2, <3>2, <4>1 DEF RecordBytes
    <3>3. CASE j = n + 2
      <4>1. j % 2 = 0 /\ j - 1 = n + 1 /\ IsServerHello(m)
        BY <2>1, <2>2, <3>3 DEF m, ServerHelloMsg, IsServerHello
      <4> QED
        BY <2>2, <2>3, <3>3, <4>1
    <3> QED
      BY <2>2, <3>1, <3>2, <3>3
  <2>6. hash_state'[n + 1] = RecordBytes(record)
    BY <2>1, <2>2, <2>3
  <2>7. Len(out') + 1 = n + 2
    BY <2>2
  <2> QED
    BY <2>2, <2>3, <2>5, <2>6, <2>7
<1> QED
  BY <1>4, <1>6, <1>7, <1>8, <1>9 DEF IInv

\* The keys are derived from the secret and the transcript of this handshake.
LEMMA InstallKeysIInv ==
  ASSUME TypeInv, IInv, InstallKeys
  PROVE  IInv'
<1>1. /\ pc = "installKeys" /\ pc' = "encryptedExtensions"
      /\ UNCHANGED <<record, peer, out, hash_state, shared_secret, ephemeral>>
      /\ state' = "ENCRYPTED" /\ server_nonce_counter' = 0
  BY DEF InstallKeys
<1>2. OutIsSequence' /\ KeysFromFlights' /\ FreshKeys'
  BY <1>1 DEF IInv, OutIsSequence, KeysFromFlights, KeyOfFlight, SeenByPeer, Hashed,
              FreshKeys
<1>3. SharedSecretInHand' /\ KeysInHand' /\ SilentBeforeKeys'
  BY <1>1 DEF IInv, SharedSecretInHand, KeysInHand, SilentBeforeKeys
<1>4. InStepWithPeer'
  BY <1>1 DEF IInv, InStepWithPeer, SeenByPeer
<1>5. shared_secret \notin {Uninitialised, Zero}
  BY <1>1 DEF IInv, SharedSecretInHand, X25519, Uninitialised, Zero
<1>6. SecretsCoherent'
  BY <1>1, <1>5 DEF SecretsCoherent, InstallKeys, GenerateServerKeys
<1> QED
  BY <1>2, <1>3, <1>4, <1>6 DEF IInv

\* EncryptedExtensions reaches the peer, if it is there, under those keys.
LEMMA EncryptedExtensionsIInv ==
  ASSUME TypeInv, IInv, send_null_EncryptedExtensions
  PROVE  IInv'
<1> DEFINE m == EncryptedExtensionsUnderKeys
<1>1. /\ pc = "encryptedExtensions" /\ state = "ENCRYPTED"
      /\ UNCHANGED <<record, peer, connection>>
      /\ pc' \in {"read", "killed"}
      /\ peer = "open" => out' = Append(out, m)
      /\ peer # "open" => out' = out
  BY WriteFacts DEF send_null_EncryptedExtensions, IInv, KeysInHand
<1>2. ~IsServerHello(m) /\ m.key = server_write_key
  BY DEF IsServerHello, EncryptedExtensionsUnderKeys, EncryptedExtensionsRec
<1>3. ephemeral \in Nat
  BY BoundAssumption DEF TypeInv, TypeOK
<1>4. OutIsSequence'
  BY <1>1, AppendToOut DEF IInv, OutIsSequence
<1>5. hash_state \in Seq(Message) /\ hash_state' = hash_state
  BY <1>1 DEF TypeInv, TypeOK, connection
<1>9. ASSUME peer = "open"
      PROVE  /\ Len(out) \in Nat /\ Len(out) % 2 = 1
             /\ out'[Len(out) + 1] = m /\ out'[Len(out)] = out[Len(out)]
             /\ Len(hash_state) = Len(out) + 1 /\ SeenByPeer(hash_state', out', Len(out) + 1)
  <2>1. /\ Len(out) % 2 = 1 /\ OutIsSequence
        /\ Len(hash_state) = Len(out) + 1 /\ SeenByPeer(hash_state, out, Len(out) + 1)
    BY <1>1, <1>9 DEF IInv, InStepWithPeer
  <2>2. /\ Len(out) \in Nat /\ out'[Len(out) + 1] = m
        /\ \A j \in 1..Len(out) : out'[j] = out[j]
    BY <1>1, <1>9, <2>1, AppendToOut
  <2>3. (Len(out) + 1) % 2 = 0 /\ Len(out) \in 1..Len(out)
    BY <2>1, <2>2
  <2> HIDE DEF m
  <2>4. \A j \in 1..(Len(out) + 1) : j % 2 = 1 \/ j < Len(out) + 1 => out'[j] = out[j]
    BY <2>2, <2>3
  <2>5. SeenByPeer(hash_state', out', Len(out) + 1)
    BY <1>5, <2>1, <2>2, <2>4, SeenGrows
  <2> QED
    BY <2>1, <2>2, <2>3, <2>5
<1>10. KeysFromFlights'
  <2>1. CASE peer = "open"
    <3> DEFINE n == Len(out)
    <3>1. /\ n \in Nat /\ n % 2 = 1 /\ (n + 1) % 2 = 0
          /\ out'[n + 1] = m /\ out'[n] = out[n]
          /\ Len(hash_state') = n + 1 /\ SeenByPeer(hash_state', out', n + 1)
      BY <1>5, <1>9, <2>1
    <3>2. out[n] = ServerHelloMsg(record.hello, ephemeral) /\ hash_state[n] = RecordBytes(record)
      BY <2>1, <1>1 DEF IInv, InStepWithPeer
    <3>3. PICK s \in ParsedShares(record) : shared_secret = X25519(ephemeral, s)
      BY <1>1 DEF IInv, SharedSecretInHand
    <3>4. m.key = ServerWriteKey(shared_secret, hash_state)
      BY <1>1, <1>2 DEF IInv, SecretsCoherent, ServerWriteKey
    <3>5. hash_state = Hashed(hash_state', n + 1)
      BY <1>5, <3>1 DEF Hashed
    <3>6. s \in ParsedShares(hash_state[n])
      BY <3>2, <3>3 DEF RecordBytes, ParsedShares, ReadsBehind
    <3>7. IsServerHello(out'[n]) /\ out'[n].ephemeral = ephemeral
      BY <3>1, <3>2 DEF ServerHelloMsg, IsServerHello
    <3> HIDE DEF m, n
    <3>8. out'[n + 1].key = ServerWriteKey(X25519(out'[n].ephemeral, s), Hashed(hash_state', n + 1))
      BY <3>1, <3>3, <3>4, <3>5, <3>7
    <3>9. n + 1 - 1 = n /\ n + 1 <= Len(hash_state') /\ hash_state'[n] = hash_state[n]
      BY <1>5, <3>1
    <3>10. KeyOfFlight(hash_state', out', n + 1)
      BY <3>1, <3>6, <3>7, <3>8, <3>9
      DEF KeyOfFlight, IsServerHello, ParsedShares, ReadsBehind, Hashed, ServerWriteKey
    <3> QED
      BY <2>1, <1>1, <1>5, <3>10, KeysFromFlightsGrow DEF IInv, n
  <2>2. CASE peer # "open"
    BY <2>2, <1>1, <1>5, KeysFromFlightsHashed DEF IInv
  <2> QED
    BY <2>1, <2>2
<1>6. FreshKeys'
  <2>1. CASE peer = "open"
    <3> HIDE DEF m
    <3> QED
      BY <2>1, <1>1, <1>2, <1>3, FreshKeysGrow DEF IInv, connection
  <2>2. CASE peer # "open"
    BY <2>2, <1>1, <1>3 DEF IInv, FreshKeys, connection
  <2> QED
    BY <2>1, <2>2
<1>7. SharedSecretInHand' /\ KeysInHand' /\ SilentBeforeKeys' /\ SecretsCoherent'
  BY <1>1 DEF IInv, SharedSecretInHand, KeysInHand, SilentBeforeKeys, SecretsCoherent,
              connection, keys
<1>8. InStepWithPeer'
  <2> SUFFICES ASSUME peer = "open", pc' = "read"
               PROVE  /\ Len(out') % 2 = 0
                      /\ Len(hash_state') = Len(out') /\ SeenByPeer(hash_state', out', Len(out'))
    BY <1>1 DEF InStepWithPeer, SeenByPeer
  <2>1. out' = Append(out, m) /\ OutIsSequence
    BY <1>1 DEF IInv
  <2>2. Len(out') = Len(out) + 1
    BY <2>1, AppendToOut
  <2> QED
    BY <1>5, <1>9, <2>2
<1> QED
  BY <1>4, <1>6, <1>7, <1>8, <1>10 DEF IInv

\* Every step keeps the inductive invariant.
LEMMA NextIInv == TypeInv /\ IInv /\ [Next]_vars => IInv'
<1> SUFFICES ASSUME TypeInv, IInv, [Next]_vars PROVE IInv'
  OBVIOUS
<1>1. CASE \/ ReadRecord \/ ReadFails \/ IgnoreRecord \/ RejectRecord
          \/ PeerCloses \/ PeerResets \/ OutOfMemory \/ UNCHANGED vars
  <2>1. /\ UNCHANGED <<out, connection>>
        /\ peer' = "open" => peer = "open"
        /\ pc' \in {"read", "dispatch"} => pc \in {"read", "dispatch"}
        /\ pc' \in {"serverHello", "installKeys", "encryptedExtensions"} =>
             pc' = pc /\ record' = record
    BY <1>1 DEF ReadRecord, ReadFails, IgnoreRecord, RejectRecord, Dispatch,
                PeerCloses, PeerResets, OutOfMemory, vars
  <2> QED
    BY <2>1, QuietIInv
<1>2. CASE RefuseApplicationData
  BY <1>2, RefuseIInv
<1>3. CASE ScanKillsProcess \/ StartHandshake
  BY <1>3, StartIInv
<1>4. CASE SendServerHello
  BY <1>4, SendServerHelloIInv
<1>5. CASE InstallKeys
  BY <1>5, InstallKeysIInv
<1>6. CASE send_null_EncryptedExtensions
  BY <1>6, EncryptedExtensionsIInv
<1> QED
  BY <1>1, <1>2, <1>3, <1>4, <1>5, <1>6 DEF Next, main_state_mech, Terminated

\* The invariant holds of every behaviour.
THEOREM Inductive == Spec => [](TypeInv /\ IInv)
<1>1. Init => TypeInv /\ IInv
  BY InitTypeInv, InitIInv
<1>2. TypeInv /\ IInv /\ [Next]_vars => (TypeInv /\ IInv)'
  BY NextTypeInv, NextIInv
<1> QED
  BY <1>1, <1>2, PTL DEF Spec

-----------------------------------------------------------------------------
(* What follows from it.                                                   *)

\* A write key tells the private key and the transcript it was derived from.
LEMMA WriteKeyTells ==
  ASSUME NEW e, NEW s, NEW t, NEW e2, NEW s2, NEW t2,
         ServerWriteKey(X25519(e, s), t) = ServerWriteKey(X25519(e2, s2), t2)
  PROVE  e = e2 /\ t = t2
  BY DEF ServerWriteKey, generate_write_key, process_server_handshake_traffic_secret,
         process_handshake_secret, HKDF_Expand_Label, HKDF_Extract, X25519, get_hash, Sha256

\* Records under one key come after one ServerHello, so there is at most one.
LEMMA KeysOnce == OutIsSequence /\ FreshKeys /\ KeysFromFlights => NonceUnique
<1> SUFFICES ASSUME OutIsSequence, FreshKeys, KeysFromFlights,
                    NEW i \in DOMAIN out, NEW j \in DOMAIN out, i # j,
                    IsEncrypted(out[i]), IsEncrypted(out[j])
             PROVE  out[i].key # out[j].key
  BY DEF NonceUnique
<1>1. DOMAIN out = 1..Len(out) /\ Len(out) \in Nat
  BY DEF OutIsSequence
<1>2. /\ i - 1 \in DOMAIN out /\ IsServerHello(out[i-1])
      /\ \E s : out[i].key = ServerWriteKey(X25519(out[i-1].ephemeral, s), Hashed(hash_state, i))
  BY <1>1 DEF KeysFromFlights, KeyOfFlight
<1>3. /\ j - 1 \in DOMAIN out /\ IsServerHello(out[j-1])
      /\ \E s : out[j].key = ServerWriteKey(X25519(out[j-1].ephemeral, s), Hashed(hash_state, j))
  BY <1>1 DEF KeysFromFlights, KeyOfFlight
<1>4. out[i-1].ephemeral # out[j-1].ephemeral
  BY <1>1, <1>2, <1>3 DEF FreshKeys
<1> QED
  BY <1>2, <1>3, <1>4, WriteKeyTells

\* The peer's transcript is the one hashed exactly if every ClientHello in it filled
\* its record.
LEMMA SameTranscript ==
  ASSUME hash_state \in Seq(Message), NEW n \in Nat, n <= Len(hash_state), SeenByPeer(hash_state, out, n)
  PROVE  Hashed(hash_state, n) = PeerTranscript(out, n) <=> FilledRecords(n)
<1> DEFINE T == PeerTranscript(out, n)
<1>1. DOMAIN hash_state = 1..Len(hash_state) /\ Len(hash_state) \in Nat
  OBVIOUS
<1>2. ASSUME NEW j \in 1..n, j % 2 = 1
      PROVE  /\ hash_state[j].kind = "ClientHello"
             /\ hash_state[j] = T[j] <=> hash_state[j].extent = "whole"
  <2>1. hash_state[j] = [kind |-> "ClientHello", hello |-> out[j].hello,
                         extent |-> hash_state[j].extent]
    BY <1>2 DEF SeenByPeer
  <2>2. T[j] = [kind |-> "ClientHello", hello |-> out[j].hello, extent |-> "whole"]
    BY <1>2 DEF PeerTranscript, ClientHelloMsg
  <2> HIDE DEF T
  <2>3. T[j].extent = "whole" /\ hash_state[j].kind = "ClientHello"
    BY <2>1, <2>2
  <2>4. ASSUME hash_state[j].extent = "whole" PROVE hash_state[j] = T[j]
    BY <2>1, <2>2, <2>4
  <2> QED
    BY <2>3, <2>4
<1>3. ASSUME NEW j \in 1..n, j % 2 # 1
      PROVE  hash_state[j].kind = "ServerHello" /\ hash_state[j] = T[j]
  <2>1. j % 2 = 0
    BY <1>3
  <2> QED
    BY <1>3, <2>1 DEF SeenByPeer, PeerTranscript, IsServerHello
<1>4. FilledRecords(n) <=> \A j \in 1..n : hash_state[j] = T[j]
  <2> HIDE DEF T
  <2> QED
    BY <1>1, <1>2, <1>3 DEF FilledRecords
<1>5. T = [j \in 1..n |-> T[j]]
  BY DEF PeerTranscript
<1> HIDE DEF T
<1>6. Hashed(hash_state, n) = T <=> \A j \in 1..n : hash_state[j] = T[j]
  <2>1. ASSUME Hashed(hash_state, n) = T, NEW j \in 1..n PROVE hash_state[j] = T[j]
    BY <2>1 DEF Hashed
  <2>2. ASSUME \A j \in 1..n : hash_state[j] = T[j] PROVE Hashed(hash_state, n) = T
    BY <1>5, <2>2 DEF Hashed
  <2> QED
    BY <2>1, <2>2
<1> QED
  BY <1>4, <1>6 DEF T

\* So the peer has the key of a flight, or is at odds with the server, accordingly.
LEMMA KeysAgreeWithPeer ==
  OutIsSequence /\ hash_state \in Seq(Message) /\ KeysFromFlights => KeyAgreement
<1> SUFFICES ASSUME OutIsSequence, hash_state \in Seq(Message), KeysFromFlights,
                    NEW i \in DOMAIN out, IsEncrypted(out[i])
             PROVE  /\ i % 2 = 0
                    /\ out[i-1].kind = "ServerHello"
                    /\ KeyShareOf[out[i-1].hello] # NoShare =>
                         (out[i].key = ServerWriteKey(X25519(out[i-1].ephemeral,
                                                             KeyShareOf[out[i-1].hello]),
                                                      PeerTranscript(out, i))
                            <=> FilledRecords(i))
  BY DEF KeyAgreement
<1>1. KeyOfFlight(hash_state, out, i) /\ i \in Nat \ {0}
  BY DEF KeysFromFlights, OutIsSequence
<1>2. /\ i % 2 = 0 /\ IsServerHello(out[i-1])
      /\ i <= Len(hash_state) /\ SeenByPeer(hash_state, out, i)
  BY <1>1 DEF KeyOfFlight
<1>3. PICK s \in ParsedShares(hash_state[i-1]) :
        out[i].key = ServerWriteKey(X25519(out[i-1].ephemeral, s), Hashed(hash_state, i))
  BY <1>1 DEF KeyOfFlight
<1>4. Hashed(hash_state, i) = PeerTranscript(out, i) <=> FilledRecords(i)
  BY <1>1, <1>2, SameTranscript
<1>5. i - 1 \in 1..i /\ (i - 1) % 2 = 1 /\ i - 1 \in DOMAIN hash_state
  BY <1>1, <1>2
<1>6. hash_state[i-1] = [kind |-> "ClientHello", hello |-> out[i-1].hello,
                         extent |-> hash_state[i-1].extent]
  BY <1>2, <1>5 DEF SeenByPeer
<1>7. ASSUME FilledRecords(i), KeyShareOf[out[i-1].hello] # NoShare
      PROVE  s = KeyShareOf[out[i-1].hello]
  <2>1. hash_state[i-1].kind = "ClientHello" /\ hash_state[i-1].hello = out[i-1].hello
    BY <1>6
  <2>2. hash_state[i-1].extent = "whole"
    BY <1>5, <1>7, <2>1 DEF FilledRecords
  <2> QED
    BY <1>3, <1>7, <2>1, <2>2 DEF ParsedShares, ReadsBehind
<1> HIDE DEF KeyOfFlight, SeenByPeer
<1>8. ASSUME out[i].key = ServerWriteKey(X25519(out[i-1].ephemeral,
                                                KeyShareOf[out[i-1].hello]),
                                         PeerTranscript(out, i))
      PROVE  Hashed(hash_state, i) = PeerTranscript(out, i)
  <2> DEFINE e == out[i-1].ephemeral
             k == KeyShareOf[out[i-1].hello]
             t == Hashed(hash_state, i)
             t2 == PeerTranscript(out, i)
  <2>1. ServerWriteKey(X25519(e, s), t) = ServerWriteKey(X25519(e, k), t2)
    BY <1>3, <1>8
  <2> HIDE DEF e, k, t, t2
  <2>2. t = t2
    BY <2>1, WriteKeyTells
  <2> QED
    BY <2>2 DEF t, t2
<1> QED
  BY <1>2, <1>3, <1>4, <1>7, <1>8 DEF IsServerHello

\* No key meets the same nonce twice, however many handshakes a connection runs
\* and although the nonce counter is never advanced.
THEOREM NoncesAreUnique == Spec => []NonceUnique
<1>1. IInv => NonceUnique
  BY KeysOnce DEF IInv
<1> QED
  BY <1>1, Inductive, PTL

\* The peer can compute the key of every record it receives if every ClientHello
\* filled its record, and of none after one that did not.
THEOREM KeysAgree == Spec => []KeyAgreement
<1>1. TypeInv /\ IInv => KeyAgreement
  BY KeysAgreeWithPeer DEF TypeInv, TypeOK, IInv
<1> QED
  BY <1>1, Inductive, PTL

\* Between two records the secrets of a connection belong together.
THEOREM SecretsStayCoherent == Spec => []SecretsCoherent
<1>1. IInv => SecretsCoherent
  BY DEF IInv
<1> QED
  BY <1>1, Inductive, PTL

-----------------------------------------------------------------------------
(* The server keeps the promise of HandshakeFlights.                       *)

\* It begins as promised.
LEMMA InitFlights == Init => Flights!Init
  BY DEF Init, Flights!Init, FlightPhase, Ended

\* A step after which the promise is over sends nothing, unless it is the alert.
LEMMA SilentEnd ==
  ASSUME UNCHANGED out, FlightPhase' = "over"
  PROVE  Flights!Next
  BY DEF Flights!Next, Flights!Silence

\* The key schedule of the abstract specification is the same one.
LEMMA SameKeySchedule ==
  /\ \A e, s : Flights!X25519(e, s) = X25519(e, s)
  /\ \A shared, ts : Flights!EncryptedExtensions(shared, ts)
       = EncryptedExtensionsRec(
           ServerWriteKey(shared, ts),
           generate_nonce(generate_write_iv(
             process_server_handshake_traffic_secret(shared, get_hash(ts))), 0))
  BY DEF Flights!X25519, Flights!EncryptedExtensions, Flights!generate_write_key,
         Flights!process_server_handshake_traffic_secret, Flights!get_hash,
         Flights!generate_nonce, Flights!generate_write_iv,
         Flights!process_handshake_secret, Flights!process_base_derived_secret,
         Flights!HKDF_Expand_Label, Flights!HKDF_Extract, Flights!EmptyHash,
         Flights!Sha256, Flights!Zero, Flights!SECRET_LENGTH, Flights!NONCE_LENGTH,
         X25519, ServerWriteKey, EncryptedExtensionsRec, generate_write_key,
         process_server_handshake_traffic_secret, get_hash, generate_nonce,
         generate_write_iv, process_handshake_secret, process_base_derived_secret,
         HKDF_Expand_Label, HKDF_Extract, EmptyHash, Sha256, Zero, SECRET_LENGTH,
         NONCE_LENGTH

\* Every step is one of a flight, the end of the promise or no step at all.
LEMMA StepFlights ==
  ASSUME TypeInv, IInv, [Next]_vars
  PROVE  [Flights!Next]_(Flights!vars)
<1> USE DEF FlightPhase, Ended
<1>1. CASE ReadRecord \/ ReadFails \/ IgnoreRecord \/ RejectRecord
  <2>1. UNCHANGED <<out, hash_state, peer>>
    BY <1>1 DEF ReadRecord, ReadFails, IgnoreRecord, RejectRecord, connection
  <2>2. pc \in {"read", "dispatch"} /\ pc' \in {"read", "dispatch", "stopped"}
    BY <1>1 DEF ReadRecord, ReadFails, IgnoreRecord, RejectRecord, Dispatch
  <2>3. FlightPhase' = FlightPhase \/ FlightPhase' = "over"
    BY <2>1, <2>2
  <2> QED
    BY <2>1, <2>3, SilentEnd DEF Flights!vars
<1>2. CASE RefuseApplicationData
  <2>1. /\ pc = "dispatch" /\ state = "UNENCRYPTED"
        /\ UNCHANGED <<peer, hash_state>>
        /\ pc' \in {"stopped", "killed"}
        /\ peer = "open" => out' = Append(out, UnexpectedMessageAlert)
        /\ peer # "open" => out' = out
    BY <1>2, WriteFacts DEF RefuseApplicationData, Dispatch, connection
  <2>2. FlightPhase' = "over"
    BY <2>1
  <2>3. CASE peer = "open"
    <3>1. out = << >> /\ FlightPhase = "idle"
      BY <2>1, <2>3 DEF IInv, SilentBeforeKeys
    <3>2. out' = <<UnexpectedMessageAlert>>
      BY <2>1, <2>3, <3>1
    <3> QED
      BY <2>1, <2>2, <3>1, <3>2
      DEF Flights!Next, Flights!Refuse, Flights!Alert, UnexpectedMessageAlert
  <2> QED
    BY <2>1, <2>2, <2>3, SilentEnd
<1>3. CASE ScanKillsProcess
  BY <1>3, SilentEnd DEF ScanKillsProcess
<1>4. CASE StartHandshake
  <2>1. /\ pc = "dispatch"
        /\ record.hello # NoHello
        /\ UNCHANGED <<peer, out>>
        /\ hash_state' = Append(hash_state, RecordBytes(record))
        /\ pc' \in {"stopped", "serverHello"}
    BY <1>4 DEF StartHandshake, Dispatch
  <2>2. CASE peer = "open" /\ pc' = "serverHello"
    <3>1. record.hello \in Hello /\ record.extent \in Extent
      BY <2>1 DEF TypeInv, TypeOK, Record
    <3>2. FlightPhase = "idle" /\ FlightPhase' = "heard"
      BY <2>1, <2>2
    <3> QED
      BY <2>1, <3>1, <3>2
      DEF Flights!Next, Flights!Hear, Flights!ClientHello, RecordBytes
  <2> QED
    BY <2>1, <2>2, SilentEnd
<1>5. CASE SendServerHello
  <2>1. /\ pc = "serverHello"
        /\ UNCHANGED peer
        /\ hash_state' = Append(hash_state, ServerHelloMsg(record.hello, ephemeral))
        /\ pc' \in {"installKeys", "killed"}
        /\ peer = "open" =>
             out' = Append(out, ServerHelloMsg(record.hello, ephemeral)) /\ pc' = "installKeys"
        /\ peer # "open" => out' = out
    BY <1>5, WriteFacts DEF SendServerHello
  <2>2. CASE peer = "open"
    <3>1. FlightPhase = "heard" /\ FlightPhase' = "owed"
      BY <2>1, <2>2
    <3>2. record.hello \in Hello /\ ephemeral \in 1..MaxHandshakes
      BY <2>1, BoundAssumption DEF TypeInv, TypeOK, HelloInHand, Record
    <3>3. hash_state[Len(hash_state)].hello = record.hello
      <4>1. Len(hash_state) = Len(out) + 1 /\ hash_state[Len(out) + 1] = RecordBytes(record)
        BY <2>1, <2>2 DEF IInv, InStepWithPeer
      <4> QED
        BY <4>1 DEF RecordBytes
    <3>4. Flights!Fresh(ephemeral)
      BY <2>1 DEF IInv, FreshKeys, IsServerHello, Flights!Fresh, TypeInv, TypeOK
    <3> QED
      BY <2>1, <2>2, <3>1, <3>2, <3>3, <3>4
      DEF Flights!Next, Flights!Answer, Flights!ServerHello, ServerHelloMsg
  <2> QED
    BY <2>1, <2>2, SilentEnd
<1>6. CASE InstallKeys
  BY <1>6 DEF InstallKeys, Flights!vars
<1>7. CASE send_null_EncryptedExtensions
  <2>1. /\ pc = "encryptedExtensions"
        /\ UNCHANGED <<peer, hash_state>>
        /\ pc' \in {"read", "killed"}
        /\ peer = "open" =>
             out' = Append(out, EncryptedExtensionsUnderKeys) /\ pc' = "read"
        /\ peer # "open" => out' = out
    BY <1>7, WriteFacts
    DEF send_null_EncryptedExtensions, IInv, KeysInHand, connection
  <2>2. CASE peer = "open"
    <3>1. FlightPhase = "owed" /\ FlightPhase' = "idle"
      BY <2>1, <2>2
    <3>2. /\ out[Len(out)] = ServerHelloMsg(record.hello, ephemeral)
          /\ Len(out) \in Nat /\ Len(hash_state) - 1 = Len(out)
          /\ hash_state[Len(out)] = RecordBytes(record)
      BY <2>1, <2>2 DEF IInv, InStepWithPeer, OutIsSequence
    <3>3. PICK s \in ParsedShares(record) : shared_secret = X25519(ephemeral, s)
      BY <2>1 DEF IInv, SharedSecretInHand
    <3>4. EncryptedExtensionsUnderKeys
            = Flights!EncryptedExtensions(shared_secret, hash_state)
      BY <2>1, SameKeySchedule
      DEF IInv, KeysInHand, SecretsCoherent, EncryptedExtensionsUnderKeys, ServerWriteKey
    <3>5. /\ out[Len(out)].ephemeral = ephemeral
          /\ s \in ParsedShares(hash_state[Len(hash_state) - 1])
      BY <3>2, <3>3 DEF ServerHelloMsg, RecordBytes, ParsedShares, ReadsBehind
    <3>6. shared_secret = Flights!X25519(ephemeral, s)
      BY <3>3, SameKeySchedule
    <3> QED
      BY <2>1, <2>2, <3>1, <3>4, <3>5, <3>6 DEF Flights!Next, Flights!Confirm
  <2> QED
    BY <2>1, <2>2, SilentEnd
<1>8. CASE PeerCloses \/ PeerResets
  BY <1>8, SilentEnd DEF PeerCloses, PeerResets
<1>9. CASE OutOfMemory
  BY <1>9, SilentEnd DEF OutOfMemory
<1>10. CASE UNCHANGED vars
  BY <1>10 DEF vars, connection, Flights!vars
<1> QED
  BY <1>1, <1>2, <1>3, <1>4, <1>5, <1>6, <1>7, <1>8, <1>9, <1>10
  DEF Next, main_state_mech, Terminated

\* The server implements the abstract specification: what the peer receives is a
\* series of flights, each under the key of the transcript so far.
THEOREM ServerKeepsFlights == Spec => KeepsFlights
<1>1. TypeInv /\ IInv /\ [Next]_vars => [Flights!Next]_(Flights!vars)
  BY StepFlights
<1> QED
  BY <1>1, InitFlights, Inductive, PTL DEF Spec, KeepsFlights, Flights!Spec
=============================================================================
