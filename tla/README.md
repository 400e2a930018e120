# A verification development for TLS13

TLS13 is a small TLS 1.3 server in C. It accepts one TCP connection, reads TLS
records from it, answers a ClientHello with a ServerHello and an encrypted
EncryptedExtensions, and is meant to grow from there (the encoders of Certificate
and CertificateVerify, the verify data of Finished, the application secrets and
the opening of protected records are written, but nothing calls them). This
directory holds TLA+ modules of the server, the TLC configurations that check
them on small instances, and theorems that TLAPS checks for every instance.

    tlc  -config MCTlsServer.cfg MCTlsServer.tla      # check a run
    tlapm TlsServerProofs.tla                         # check the proofs

## 1. Inventory

### The system

One process, one thread, one connection. `main` (main.c) listens, accepts once,
and then loops: `read_record` fills a `TLSPlaintext` from the socket,
`main_state_mech` acts on it, `free_record` releases it. Either of the first two
ends the loop, and with it the process, by returning something other than 0.
There are no timers, no persistent state, no second thread; but an operator may
start the program again, or twice. What makes the
server hard is its surroundings: a byte stream that arrives in pieces, a peer
that may send any record at any time and leave at any time, and a struct
`TLS_SERVER_STATE` of some fifteen dependent fields that every ClientHello
rewrites in place, in several functions.

| component | state it keeps | operations | talks to | what makes it correct |
|---|---|---|---|---|
| process and loop: main.c, socket_manager.c | the two sockets | start, accept, loop | everything below, by calls | every record that arrives is handled once, in order; one client is served at a time, and a restart finds the port |
| record reading: record.c `read_record` | the position in the stream (in the kernel), the record being filled | four `read`s, two `malloc`s | socket; main | it never loses its place; an end of file is told from a torn record |
| state machine: state_machine.c | `TLS_SERVER_STATE` | `main_state_mech`, `ClientHello_ServerHello_handshake`, `send_null_EncryptedExtensions` | all codecs, the key schedule, `write` | keys agree with the peer's, no nonce repeats under a key, flights are whole and in order |
| key schedule: key_schedule.c | none | the derivations, the nonce, `get_hash` | libsodium | labels, contexts and order of RFC 8446; distinct keys for distinct uses |
| record protection: record.c `encrypt_record`, `decrypt_record` | none | seal, open | libsodium | open undoes seal, padding included; lengths fit their fields |
| extensions: extensions.c | none | parse, look up, find the X25519 share, build, serialise | ClientHello, ServerHello | the share used is the one offered; building and parsing are inverse |
| messages: ClientHello.c, ServerHello.c, handshake.c, EncryptedExtensions.c, util.c | none | parse, create, serialise, free | state machine | lengths are those of what is written; each allocation is freed once |
| alerts: Alert.c, alert_constants.c | none | build one alert; names | state machine | the alert is well formed |
| certificates: Certificate.c, CertificateVerify.c | none | read files, sign, serialise; not called | micro-ecc, files | lengths and DER form are right |

### Hard behaviour

- **Sequences of legal calls.** Nothing stops a second ClientHello in state
  `ENCRYPTED`: it restarts the handshake over a transcript and keys in use.
- **Stale state.** `server_nonce_counter` is read for every nonce, never
  incremented, and reset by each handshake.
- **Order.** The transcript is updated in two functions, around a `write`; seven
  derivations must come after both updates and before the next `write`.
- **Delivery.** `read` may return less than asked; each field is read once.
- **Failure.** The peer closes or resets anywhere; results of `write` are ignored
  and SIGPIPE may end the process inside a handshake; `malloc` may return NULL.
- **Boundaries.** Empty fragments, empty extension lists, a `uint8_t` count of
  extensions, `uint16_t` lengths, a list of shares that ends without X25519,
  padding behind a text that ends in zeros.
- **Two computations of one length.** Every encoder allocates by one sum and writes
  by another; every parser steps by lengths of one, two and three bytes.
- **Waiting.** `write` blocks while the peer does not read, and nothing is read
  meanwhile.
- **Ownership.** Structs are copied by value and their pointers freed by convention;
  the ServerHello borrows the session id of the ClientHello.
- **Two servers.** Both can pass `bind` before either listens.

PROJECT.json lists each of these under `hazards`, at its line, with the
properties that would notice it going wrong.

## 2. Modules

| module | role |
|---|---|
| `ServerProcess` | the program from start to exit, several times side by side; clients and the kernel's queue |
| `Connection` | the whole program over one connection: `RecordReader` and `TlsServer` on one thread, finite buffers both ways |
| `TlsServer` | the state machine of one connection, a record at a time, and the peer |
| `HandshakeFlights` | abstract: what the peer is promised about the records it receives |
| `KeySchedule` | the derivations as free terms |
| `RecordReader` | `read_record` over a TCP stream, one action per `read` |
| `RecordChannel` | abstract: a channel of whole records |
| `RecordProtection` | `encrypt_record` and `decrypt_record`, buffers and lengths |
| `KeyShareScan` | parsing of extensions and the search for the X25519 share, one action per loop iteration |
| `KeyShareChoice` | abstract: what the handshake may assume of that search |
| `HeapOwnership` | which step allocates, reads and frees which block |
| `WireFormat` | numbers, extensions and frames in bytes, as encoders write and parsers read them |
| `HelloExchange` | a ClientHello from bytes to fields, a ServerHello from fields to bytes |
| `LaterMessages` | the encoders of EncryptedExtensions, Certificate and CertificateVerify |
| `KeySeparation` | two users of the whole key schedule |
| `KeyEncodings` | the bytes given to HKDF and the bytes of a nonce |
| `TlsServerProofs`, `RecordReaderProofs`, `ConnectionProofs`, `ServerProcessProofs`, `RecordProtectionProofs`, `HeapOwnershipProofs`, `WireFormatProofs`, `ComputationsProofs` | theorems |
| `MCTlsServer`, `MCRecordReader`, `MCKeyShareScan`, `MCRecordProtection`, `MCConnection`, `MCHeapOwnership`, `MCServerProcess`, `MCComputations` | instances for TLC |

How they fit, from outside in. `ServerProcess` has one step for what `Connection`
does in full (`serve`). `Connection` takes the actions of `TlsServer` by EXTENDS and
those of `RecordReader` by INSTANCE, and joins them at the two places where the
program does: where `read_record` returns and where `main_state_mech` returns. Seen
through either half it is a behaviour of that half alone (`BehavesAsServer`,
`BehavesAsReader`), so what is proved of the halves holds of the program.
`RecordReader` implements `RecordChannel`; `TlsServer` implements `HandshakeFlights`;
`KeyShareScan` implements `KeyShareChoice`, which is the choice that `StartHandshake`
and `ScanKillsProcess` of `TlsServer` make with `ParsedShares`. `KeySchedule` takes
different arguments to give different terms; `KeyEncodings` is about whether the
bytes justify that, `KeySeparation` about whether the code always gives different
arguments. `HeapOwnership`, `HelloExchange` and `RecordProtection` follow the same
handshake as `TlsServer`, each with data that the others leave out.

### ServerProcess

`pc[p]` is where the p-th run of `main` is, `code[p]` what it returned.

| action | code |
|---|---|
| `Start` | main.c:4-8, `sodium_init` may fail (2) |
| `Bind`, `Listen` | `start_socket`: SO_REUSEADDR lets `bind` fail only if a socket listens (3); the result of `listen` is ignored |
| `Accept` | `accept_socket`: waits for a queued connection; fails (4) on a socket that does not listen |
| `Finish`, `BreakOff` | the loop is left because the client has gone, or for any other reason |
| `Connect`, `Leave`, `TimeWaitEnds` | the clients and the kernel |

### Connection

| action | code |
|---|---|
| `ReadStep` | one `read` of `read_record`; the last one hands the record to `main_state_mech` |
| `Handle` | one step of `main_state_mech`; one that calls `write` waits for room |
| `PeerWrites`, `PeerReads`, `BytesArrive`, `PeerGoes` | the peer, which writes a burst of records and then reads |

`MessageOf` gives the message that the bytes of a record make up. `PipeBytes` and
`SendBuffer` bound what is under way in either direction.

### TlsServer

The variables named as fields of `TLS_SERVER_STATE` are those fields. In
addition: `pc` (where the thread is), `record`, `peer` (open, closed, reset),
`out` (what reached the peer), `ephemeral` (how many private keys were drawn;
number n stands for the n-th value of `randombytes_buf`, all distinct).

| action | code |
|---|---|
| `ReadRecord`, `ReadFails` | main.c:27-34, `read_record` returns 0 or not |
| `IgnoreRecord` | alert, ChangeCipherSpec, and application data once there are keys |
| `RejectRecord` | an unknown record type (-50), a handshake message other than ClientHello (-2) |
| `RefuseApplicationData` | fatal alert, -40 |
| `StartHandshake` | from the parsing of the ClientHello to `crypto_scalarmult`, which fails for a low-order share (-3) |
| `ScanKillsProcess` | a ClientHello without a usable share: an assertion or a fault |
| `OutOfMemory` | a failing `malloc` at any stage of a handshake message: an assertion or a write through NULL |
| `SendServerHello` | the rest of `ClientHello_ServerHello_handshake`: write, then hash |
| `InstallKeys` | state_machine.c:87-102 |
| `send_null_EncryptedExtensions` | the encrypted message: key, iv and counter as they are then |
| `PeerCloses`, `PeerResets` | the peer, between any two of these |

A record says how much of a ClientHello it holds (`Extent`), because
`parse_handshake` does not compare the two lengths: what goes on in another record
is made up from the memory behind the fragment, so any share may come of it
(`ReadsBehind`), and `hash_state` takes the record's bytes (`RecordBytes`), not the
message.

The steps are cut at the system calls: the only places where the peer can be
seen to have done something. `Write` reaches the peer while it is there; to one
that has gone it does nothing that shows, and to one that has reset the process
may die of SIGPIPE. The reply to a write is never looked at, as in the code.
Fields malloc returned but nobody wrote hold `Uninitialised`.

### KeySchedule, KeySeparation, KeyEncodings

A secret is the tree of derivations it came from, so `<<"expand", s, l, c, n>>`
equals another such tree only with the same secret, label, context and length.
This takes SHA-256, HKDF and X25519 to be free of collisions and keeps every
choice the code makes. `get_hash` copies the running hash before finishing it,
so here it is a function of the transcript and consumes nothing.

In `KeySeparation` two users call the functions of key_schedule.c in any order
that their arguments allow, to the end of the schedule; `calls` is what each has
called, `out` what it holds. In `KeyEncodings`, `Info` is the buffer that
`HKDF_Expand_Label` fills (with one-byte lengths that wrap, as in the code) and
`Nonce` the result of `generate_nonce`, bit by bit; `expanded` and `nonces` collect
the calls made so far with their results.

### RecordReader

`stream` is all the peer wrote, `arrived` how much of it has come through,
`consumed` how much `read` handed out. The peer writes records, bytes arrive in
pieces of any size, the peer goes: what had not arrived is lost, and after a
reset what was not read too. `read(n)` waits for a first byte, unless n is 0
or the stream has ended, and returns what there is up to n. `ReadType`,
`ReadVersion`, `ReadLength`, `ReadFragment` compare the count as the code does and
return its codes -1, -3, -4, -6; `OutOfMemory` returns -2 and -5. Success, the
call of `main_state_mech` and the start of its work are one step
(`ReadFragment`), its return another (`HandlerReturns`): the next record or the
end of the loop.

### RecordProtection

`AllocateInner`, `FillInner` and `SealInner` are `encrypt_record`: the sum cut to a
`uint16_t`, the buffer of that size, the length field. `PeerSeals` puts any plaintext
in place of what the server made, as a peer may. `OpenRecord`, `StripPadding` (one
turn of the loop) and `FillOut` are `decrypt_record`; `FillOut` copies the text over
the struct, as line 195 does. `OutOfMemory` has the assertions and codes of the
failing `malloc`s.

### KeyShareScan

The peer encodes a list of extensions, `offer`, as it should: what is in it fits the
two bytes of its lengths. `data` is those bytes, over the encoders of `WireFormat`;
a share has the form of an extension, a number, a length and bytes. `CountExtension` and `CopyExtension` are the two loops of
`parse_extensions`, `GetExtension` the loop of `get_extension`, `EnterList` and
`ScanShare` the scan of `get_X25519_key_share`. A read behind the message or
behind the array finds whatever is there: `ReadsOutside` lets the process die, an
assertion fail, some share be found, or the loops run on out there (`ScanOutside`).
An extension that is not key_share may be empty or hold any bytes (`DataOf`). The
array's `uint8_t` length is
`count % CountSize`, and the loop of `get_extension` tests that length and not
its index, as in the code.

### HeapOwnership

A block is named by the variable malloc's result goes to, the record that is
handled, and an index. Each step names what it allocates, what it reads through a
pointer and what it frees; `Heap` notes a double free or a use of a dead block in
`misused`. The structs are variables, because they are copied by value and the
question is who still holds which pointer.

### HelloExchange, LaterMessages

`parse_handshake` copies as many bytes as the message says it has, out of the
record and from the memory behind it; `parse_client_hello` is one step per field;
`BuildServerHello` and `SendServerHello` make the four arrays of the answer. An array
is kept with the length that was asked of malloc and the bytes that were written:
the two come from different lines. `LaterMessages` treats the three encoders that
nothing calls yet in the same way, with the loop over the certificates step by
step. `WireFormat` has what they and `KeyShareScan` share, on a little-endian host.

## 3. Runs

| run | instance | what it shows |
|---|---|---|
| `tls_server` | three handshakes on a connection; a good share, a low-order share, none; ClientHellos that fill their record, go on in another or are followed by other bytes; all record types; a peer that closes or resets anywhere; memory that runs out (141234 states) | the five properties below and the type invariant |
| `record_reader` | bytes of three values; records with 0, 1 and 3 bytes of fragment; up to three records; every segmentation and every end of the stream (21086 states) | the reader keeps its place and is a channel of records |
| `connection` | two ClientHellos and application data; five records in bursts of three, a pipe of 6 bytes, a send buffer of 2 records (290748 states) | answers in order, no mutual waiting, each ClientHello answered |
| `server_process` | the server started three times, three clients, a backlog of 1 (123890 states) | one client at a time; restart; nobody waits for good |
| `record_protection` | bytes of three values, words of twelve, padding 0 to 2, fragments up to the width of the word (29868 states) | sealing fits, opening finds the type |
| `key_share_scan` | up to two extensions, up to two shares of four kinds, other extensions empty or with up to five bytes, lists of empty extensions that fill the counter and exceed it; numbers of 16 bits (42372 states) | an offered share is the one found; every scan ends or leaves the message |
| `heap_ownership` | three records; ClientHellos with as many extensions as the counter holds, fewer, and up to two more (4261 states) | no misuse; the leaks are exactly the named ones |
| `computations` | `HelloExchange`, `LaterMessages`, `KeySeparation`, `KeyEncodings`, each by itself (300434 states) | encoders and parsers agree; keys and nonces are distinct |
| `entire_handshake` | as `tls_server` | *violated*: see findings |
| `fragment_error` | as `record_reader`, two records | *violated*: see findings |
| `absent_share` | as `key_share_scan` | *violated*: see findings |
| `opened_type` | as `record_protection` | *violated*: see findings |

`MCComputations` puts four modules that share nothing into one run: the first state
chooses one of them and the others stand still, so its state graph is the union of
theirs.

**Bounds.** Three handshakes: the first starts from uninitialised keys and an
empty transcript, the second from the keys of another, the third from keys that
already replaced others, and nothing in the code distinguishes a fourth. Bytes
of three values: the two bytes of a length differ (a fragment of three bytes is
`<<1, 0>>`), so byte order matters. Three records: one before, one in hand,
one behind. Two shares: the test at extensions.c:171 compares the place of a
share with the length of the list, which makes first, inner and last share
differ; extensions number `CountSize - 1`, `CountSize` and `CountSize + 1` besides.
In `connection` a burst of three records is one more than the buffers hold beside
the record in hand, and five records leave room for a second burst, which the peer
may begin before it has read the answers to the first. In `server_process` three clients are one
more than the queue takes, and three starts are two side by side and a restart. In
`record_protection` a word of twelve values makes sums wrap from fragments of nine
bytes on. The messages of `computations` have real sizes, chosen so that each byte
of each length field is used; nonces are three bytes of two bits over counters of
two. The constants are free in the modules; only the MC modules and
configurations fix them.

### Properties of TlsServer

- `NonceUnique`: no two encrypted records share key and nonce.
- `KeyAgreement`: each encrypted record follows a ServerHello. It is under the key
  that the peer derives from its own share and its own messages exactly if each
  ClientHello so far came in a record of its own. `main_state_mech` hashes the
  record (state_machine.c:77), the peer the message: one ClientHello that is split
  over records or shares its record with other bytes sets the transcripts apart
  for every later handshake of the connection.
- `SecretsCoherent`: all secrets of an encrypted connection come from one
  handshake; none is left from an earlier one or from malloc.
- `HelloAnswered`: once its ServerHello is due, a ClientHello is answered in full
  as long as the peer stays and the process is not killed, which takes a failing
  `malloc`; `main_state_mech` never ends it with an error it returns.
- `KeepsFlights`: the records that reach the peer are whole flights in order,
  possibly broken off, or one alert before any flight (refinement).

### Properties of RecordReader

- `InStep`: between records the socket stands at the start of the next one;
  inside one, at the field that is due, with the fields before it read right.
- `EndOfFileIsClean`: code -1 means that the peer has gone and that every record
  that arrived whole was handled.
- `ReadsChannel`: records come out whole, once, in order (refinement).
- `EveryRecordHandled`: while the peer stays and no read fails, each record is
  handled, also one with an empty fragment and nothing behind it.

### Properties of Connection

- `Coupled`: reader and state machine agree where the one thread is, and what is
  handled is what was read last.
- `AnswersInOrder`: the ServerHellos answer the ClientHellos of the stream, each
  once, in order, none left out between them, however TCP cuts the bytes.
- `NeverBothWait`: server and peer never wait for each other to read, if the
  peer's burst fits the buffers (`BurstFits`) and it has read what answers its
  earlier bursts before it begins another (not `Hasty`). Without either, both can
  wait for good: the program reads nothing while it writes.
- `EveryHelloAnswered`: each ClientHello in the stream is answered in full, the
  connection ends, or the peer is hasty.

### Properties of ServerProcess

- `OneClientAtATime`: however many servers are started, one client is served, by
  the server that listens.
- `RestartListens`: a server that is started while no other runs comes to listen,
  although connections of the last one may be in TIME_WAIT.
- `WaitingEnds`: nobody stays in a queue for good, although a process accepts once.
- `ListensOrEnds`: a server that is started listens or ends, also when two pass
  `bind` together.

### Properties of RecordProtection

- `SealFits`: within the limit, nothing is written behind the buffer and the length
  field is the length of what follows.
- `StripFindsRecord`: the loop stops at the type, also behind a fragment of zeros
  and behind none.
- `OpensAsSealed`: for a record of the server, a success means its own key and
  gives its length; code -2 means another key; the process does not die of it, unless
  the text is longer than the struct it is copied over.
- `SealedOpens`: opening such a record comes to an end, in success or for want of
  memory.

### Properties of KeyShareScan

- `ExtensionsParsed`: the two loops of `parse_extensions` agree and lose nothing.
- `MakesChoice`: an offered share is the one found; only without one may the
  process die or read on (refinement of `KeyShareChoice`). A share counts as
  offered if it is the first X25519 share of the first key_share extension, has
  the right length, and the number of extensions is no multiple of 256.
- `ScanEnds`: a share that is offered is found in the end; without one the scan ends
  or leaves the message. Nothing is said of how long it then runs on.

### Properties of HeapOwnership

- `NoMisuse`: nothing is freed twice or used when it is not allocated.
- `NothingElseLeaks`: back at reading, what is left of the records handled is the
  text of the ServerHello's extensions, one block per handshake (ServerHello.c:34),
  and the extensions beyond those the `uint8_t` length counts, and nothing else.

### Properties of HelloExchange and LaterMessages

- `FieldsAsSent`: each field that lies in the record is parsed as sent, also when
  the message goes on in another record; a whole message is not read beyond.
- `BuffersFilled`, `BuffersHold`: what is allocated is the sum of what is written.
- `PeerReadsAnswer`: a peer that takes the ServerHello apart by its lengths finds
  what the server meant and the session id it sent.
- `CertificateReadBack`: a chain as `create_certificate` makes it, without
  extensions, can be taken apart by its lengths, as long as three bytes can say them.
- `SignatureReadBack`: both halves of the signature come back as numbers that are
  not negative, whatever their first bytes are.

### Properties of KeySeparation and KeyEncodings

- `KeysSeparate`: different ways through the schedule lead to different values.
- `InfoTellsCallsApart`: what HKDF is given determines label, context and length.
- `NonceTellsCountersApart`: under one iv, different counters give different nonces.

### Fairness

`TlsServer`: weak fairness of `main_state_mech`: its thread is scheduled and a
`write` of these short messages returns. Nothing is assumed of the peer, so
nothing of `read_record`. `RecordReader`: TCP delivers what was written while the
peer is there, the thread runs, and `main_state_mech` returns; nothing makes the
peer write. `Connection`: the thread runs (a `write` only when there is room) and
TCP delivers; the peer finishes a burst it has begun and then reads what has come,
as a peer with blocking calls does, and nothing makes it begin one.
`RecordProtection`: `decrypt_record` runs on. `KeyShareScan`: one thread, no waiting.
`ServerProcess`: a process that was started runs, and a client that is being served
leaves some time. The second is needed, since the server has no timeout; those who
wait need not leave, and nobody need start a server.

### Findings

1. **`EntireHandshake`.** The comment at state_machine.c:60 says the handshake
   case performs the entire handshake up to the peer's Finished. It ends with
   EncryptedExtensions; no Certificate, CertificateVerify or Finished is sent.
2. **`GivenUpIsIncomplete`.** The fragment is read with one `read`, so a fragment in
   two segments ends the connection with -6 although its rest arrives: a record
   that comes whole is not handled. The text of -6 (record.c:44) says "COULD NOT
   READ FULL FRAGMENT or END OF FILE ERROR [probaly a buffer overflow attack]". Its
   first half says what happened, but one more `read` would have had the fragment
   in full. `InStep` and `ReadsChannel` show the extent: such a connection stops,
   but no record is ever handed over torn or misplaced.
3. **`AbsenceIsAsserted`.** The assertion "Extension does not have X25519!"
   (extensions.c:172) is tested before the pointer steps over the key, so the last
   share of a list passes the test and an empty list is not tested: the scan
   reads on behind the extension. `MakesChoice` shows the other half: the test
   never stops a scan that has an X25519 share ahead.
4. **`TypeIsContentType`.** `decrypt_record` copies the text over the struct it
   returns (record.c:195) and not into the buffer it allocated, so the type is
   that of the record only when the text is empty. Nothing calls the function yet.

Smaller differences that the modules carry as the code has them, without a run of
their own: `main` passes the port as the backlog and `SOCKET_BACKLOG` is unused
(`Room` of `ServerProcess`); "Now listening" is printed whether or not `listen`
succeeded (`Listen`); the comment on `process_extensions` asks its callers to free
the text, and ServerHello.c:34 does not (`LeftBy` of `HeapOwnership`); the lengths
of extensions at EncryptedExtensions.c:13 and Certificate.c:111 are in the host's
order (`HostBytes`), which shows only when they are not 0; a half of a signature
that begins with a zero byte and a byte below 128 is written longer than DER has it
(`create_certificate_verify` of `LaterMessages`).

## 4. Theorems

All are proved from the assumptions the modules name and for every value of the
constants.

**TlsServerProofs.** `TypeCorrect`, `NoncesAreUnique`, `KeysAgree`,
`SecretsStayCoherent`, `ServerKeepsFlights`. None of the properties is inductive.
The invariant `IInv` adds what the code relies on without saying so:
`FreshKeys` (every ServerHello in `out` has its own private key, drawn before);
`SharedSecretInHand` (from the scalar multiplication to the last write, the shared
secret is that of the ClientHello in hand); `InStepWithPeer` (while the peer is
there, the transcript is what the peer has seen, plus the message in hand, but for
what `Extent` says of the ClientHellos); `KeysFromFlights` (each encrypted record is
under the key of the transcript hashed up to its ServerHello); `KeysInHand` and
`SilentBeforeKeys`. `KeysAgree` compares that transcript with the peer's
(`SameTranscript`) and concludes from equal keys that they are one (`WriteKeyTells`). One lemma per action shows that `IInv` is kept.
`NonceUnique` then follows from `KeysFromFlights` and `FreshKeys`: the key of a
record names the private key of its handshake, so two records under one key are
one record. The counter takes no part in the argument: one encrypted record per
handshake is what makes nonces unique, and a second one would need the
counter to move. `ServerKeepsFlights` maps each step to a step of
`HandshakeFlights` or a stutter.

**RecordReaderProofs.** `TypeCorrect`, `NeverLosesItsPlace`, `EndOfFileLosesNothing`,
`ReaderIsAChannel`. `IInv` describes the stream (`Framed`: records lie one behind
the other; `Encoded`: each is the encoding of what was sent), what came out
(`DeliveredInOrder`) and the codes (`CodesTell`). The arithmetic of the length
field, `ntohs` of the two bytes written by `Encode`, is lemma `TwoBytes`.

**ConnectionProofs.** `BehavesAsServer` and `BehavesAsReader`: each step of the
composition is a step of either half or leaves it alone. With them the theorems of
the halves are cited for the program (`ConnectionNonces`; `DeliveredInOrder` and
`Framed` in what follows). `StaysCoupled` needs both halves' type invariants.
`AnswersStayInOrder` rests on an invariant that names, for each ServerHello, the
place in `delivered` of the record it answers. `NobodyWaitsForTheOther`, for all sizes
of records, bursts and buffers, needs two more facts: `AnswersCounted` (the records
written are two for each ClientHello handled, less one while its handshake is under
way) and `TailFits` (what the pipe holds of a burst is its last records). If the
peer waits, the records behind the one in hand fill the pipe, so the server has
gone so far into the burst that its answers fit the send buffer (`HandlerIsAhead`).

**ServerProcessProofs.** `OneAtATime`, for any number of processes and clients, over
`OneListener`, `ServesWhileListening` and `ServedBySomeone`.

**RecordProtectionProofs.** `TypeCorrect`, `SealingFits`, `StrippingFindsRecord`,
`OpeningUndoesSealing`, for all widths and paddings. `IInv` adds what the buffer holds
(`BufferFilled`, `SealedBuffer`) and that what was stepped over is zeros
(`ZerosStripped`). A record of the server has a type that is not zero behind its
fragment (`BufferOfServer`), so the loop stops there and nowhere else
(`MarkOfServer`); and it is entered only with the right key (`EnteredWithKey`).

**HeapOwnershipProofs.** `NothingMisused` and `LeaksAreKnown`, for any number of
records and of extensions. The two properties say nothing of what happens between
two reads, so `IInv` says which blocks are live at each program counter (`Extent`:
those there for good, `Kept`, and those of the record in hand, `Mine`) and that the
structs point to them (`Shapes`). What is there for good was allocated for an
earlier record (`KeptIsOlder`), so no free of this record touches it; the lists that
are freed hold each block once (`FreeBoth`, `CountedOnce`).

**WireFormatProofs** has the lemmas about bytes that the next module needs. They are
about functions defined by recursion (`Sums`, `PeerNumber`) and about `FlattenSeq`,
whose values need induction; the theorems of the library that would give it take an
operator as a parameter and are out of reach here. `Induct` says the same of sets:
a set that has 0 and with each number the next has them all. It follows from the
order of the natural numbers (`Least`). With it `Recursion` shows that a function as
the definition asks for exists, and is what the definition chooses. From that
come `SumsFacts` and `FlattenFacts`, and the facts that are used from then on:
`Stands(m, p, q)` (the bytes q stand in m at p), how that passes through
concatenation (`Joined`) and nesting (`StandsInside`), how a number is read where it
stands (`Uint16Read`, `Uint24Read`), and the layout of an extension, a
handshake message and a record.

**ComputationsProofs.**

- `KeysStaySeparate`. The invariant `Reached` lists, for each stage of the schedule,
  the calls that lead there and the term they lead to; two terms that are equal are
  taken apart, constructor by constructor, until the calls are equal (`ReachedOnce`).
- `InfoIsInjective` and `NonceIsInjective`. `Layout` says where label, context and
  lengths lie in the buffer; equal buffers have equal lengths, then equal parts.
  Labels may be up to 249 bytes long: beyond that the length in the buffer wraps.
- `FieldsReachTheServer`. `HelloInv` adds to the property that the record is the
  first part of the peer's message (`RecordIsPart`), that the body that was copied
  agrees with the message as far as the record goes (`BodyAsSent`), and that the
  pointer is where the sent fields end as long as it is in the record (`IterAsSent`).
- `AnswerFillsItsBuffers` and `PeerTakesAnswerApart`. `AnswerInv` says which arrays the
  answer is made of; `AnswerLayout` at which byte each field stands, and
  `AnswerRead` that a peer who goes by the lengths arrives there.
- `LaterBuffersHold`, `PeerTakesChainApart`, `PeerReadsSignature`. `LaterInv` says how
  much of the list is written after each turn of the loop (`Written`). A signature is
  cut by the lengths of its two integers; that the padding leaves a number as it
  was and never negative is a fact about its first byte.
- `ScanTypeCorrect`, `ExtensionsComeApart`, `OfferedShareIsChosen`. `LaidOut` says where
  each extension of a message, or share of a list, begins and what is read there, and
  that only the last ends where the bytes end; that last part is what lets the first
  loop of `parse_extensions` count them. `ScanInv` says for each loop how far the
  pointer has come: `CountedSoFar`, `CopiedSoFar` (the two loops make the same number
  of steps), `LookedUpSoFar` (no key_share before the index), `FirstIsFound`,
  `ScannedSoFar` (no share for X25519 before the pointer). Each step is then a step of
  `KeyShareChoice` or a stutter: a read outside the message, a failed assertion or a
  fault is possible only where nothing was offered (`OutsideUnoffered`), and what is
  found is the first share of the group. The lists of extensions are any that fit
  their lengths; only what a key_share holds must be a list of shares.

**Only model-checked:** the liveness properties (`HelloAnswered`,
`EveryRecordHandled`, `EveryHelloAnswered`, `WaitingEnds`, `ListensOrEnds`, `RestartListens`,
`SealedOpens`, `ScanEnds`): liveness under fairness is out of TLAPS's reach. Every
invariant and every refinement that a run checks is a theorem as well.

## 5. Not modelled

- Names, logging, `print_hex`, `get_*_name`, and the two bytes of an alert that is
  received: no state depends on them.
- libsodium and micro-ecc: external. Random numbers are taken to succeed; private
  keys are distinct; `socket` and `setsockopt` succeed.
- Reading the certificate and the private key from files, and signing: the
  certificate's bytes and the signature are inputs of `LaterMessages`.
- Branches the program cannot take: another cipher suite (it is set once), a
  failing base-point multiplication. `free_TLS_SERVER_STATE` is never called.
- What the memory behind a message holds: any value.
- A key_share extension that is not a list of shares: what the scan makes of one is
  left to its reads. The ClientHellos of the `connection` run fill their records.
- Hosts that are not little-endian.

## 6. Plan

Done: the handshake core, record reading, the key share, record protection, the
connection, the life of the process, the ownership of memory, the codecs, the whole
key schedule and its encodings.

Left:

- once the program calls them: Certificate, CertificateVerify and Finished as
  actions of `TlsServer`, which need the nonce counter to move, and
  `decrypt_record` in `Connection`.
