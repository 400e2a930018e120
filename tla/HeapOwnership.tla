--------------------------- MODULE HeapOwnership ---------------------------
(***************************************************************************)
(* Who frees what.  The loop of main, the handshake and the wrappers pass  *)
(* structs by value whose pointers are owned by convention; a step is a    *)
(* call together with the mallocs, reads and frees in it, in that order.   *)
(* The contents of messages matter only where they decide who frees: the   *)
(* kind of record, the number of extensions, and whether a share is found. *)
(***************************************************************************)
EXTENDS Naturals, Sequences, SequencesExt

CONSTANTS
  CountSize,        \* how many values ExtensionArray.length has: 256
  ExtensionCount,   \* how many extensions a ClientHello may have
  MaxRecords,       \* bound on the records read
  NULL

\* The variables that the result of a malloc goes to.
Site == {"state", "version", "fragment", "buf", "hs.body",
         "legacy_session_id", "cipher_suites", "legacy_compression_methods", "ch.array",
         "extension_data", "ea.array", "ea.data", "ex",
         "server_hello_array", "handshake_array", "sh.version", "r_array",
         "ee.hs_array", "TLSInnerPlainText", "cipher_text", "ee.r_array"}

ASSUME SizeAssumption ==
  /\ CountSize \in Nat \ {0}
  /\ ExtensionCount \subseteq Nat \ {0}
  /\ MaxRecords \in Nat
  /\ NULL \notin Site \X Nat \X Nat            \* it is none of the blocks

VARIABLES
  pc,
  turn,             \* how many records have been read
  kind,             \* the kind of record in hand
  rc,               \* what main_state_mech returns: 0 or not
  live,             \* the blocks malloc has returned and nobody has freed
  misused,          \* a block was freed twice, or read when it was not live
  r,                \* main's record
  handshake,        \* body: of the ClientHello, later of the ServerHello
  client_hello,
  server_hello,
  flight,           \* the struct r and r_array of ClientHello_ServerHello_handshake
  served            \* history: for each handshake made, its turn and extensions

vars == <<pc, turn, kind, rc, live, misused, r, handshake, client_hello,
          server_hello, flight, served>>

\* A block is known by the variable malloc's result goes to, the record that is
\* being handled, and its index in an array.
Nth(site, i) == <<site, turn, i>>
Block(site)  == Nth(site, 0)
Blocks(sites) == {Block(s) : s \in sites}
DataBlocks(n) == [i \in 1..n |-> Nth("extension_data", i)]

FreedTwice(freed) ==
  \E i, j \in DOMAIN freed : i # j /\ freed[i] = freed[j] /\ freed[i] # NULL

\* malloc, then read, then free; free(NULL) does nothing.
Heap(allocated, used, freed) ==
  LET heap == live \cup allocated
      real == Range(freed) \ {NULL}
  IN  /\ live' = heap \ real
      /\ misused' = (misused \/ ~ (used \cup real) \subseteq heap \/ FreedTwice(freed))

\* init_TLS_SERVER_STATE allocates twelve buffers; nothing ever frees them.
StateBlocks == {<<"state", 0, i>> : i \in 1..12}

Init ==
  /\ pc = "read" /\ turn = 0 /\ kind = "none" /\ rc = 0
  /\ live = StateBlocks /\ misused = FALSE
  /\ r = [version |-> NULL, fragment |-> NULL]
  /\ handshake = [body |-> NULL]
  /\ client_hello = << >> /\ server_hello = << >> /\ flight = << >>
  /\ served = {}

-----------------------------------------------------------------------------
(* The loop of main.                                                       *)

Kind == {"client_hello", "other_handshake", "ignored", "refused"}

read_record ==
  /\ pc = "read" /\ turn < MaxRecords
  /\ turn' = turn + 1
  /\ kind' \in Kind
  /\ r' = [version |-> Block("version")', fragment |-> Block("fragment")']
  /\ Heap({r'.version, r'.fragment}, {}, << >>)
  /\ pc' = "dispatch"
  /\ UNCHANGED <<rc, handshake, client_hello, server_hello, flight, served>>

\* Returns with the version, or version and buffer, still allocated; main leaves
\* the loop without free_record.
ReadFails ==
  /\ pc = "read"
  /\ \E left \in {{}, {"version"}, {"version", "buf"}} : Heap(Blocks(left), {}, << >>)
  /\ pc' = "stopped"
  /\ UNCHANGED <<turn, kind, rc, r, handshake, client_hello, server_hello, flight, served>>

Return(code) == pc' = "return" /\ rc' = code

\* free_record(r), then the loop goes on or is left.
HandlerReturns ==
  /\ pc = "return"
  /\ Heap({}, {}, <<r.fragment, r.version>>)
  /\ pc' = IF rc = 0 THEN "read" ELSE "stopped"
  /\ UNCHANGED <<turn, kind, rc, r, handshake, client_hello, server_hello, flight, served>>

-----------------------------------------------------------------------------
(* main_state_mech.                                                        *)

\* Alerts are read for logging; -40 and -50 return as early as the rest.
PassOver ==
  /\ pc = "dispatch" /\ kind \in {"ignored", "refused"}
  /\ Heap({}, {r.fragment, r.version}, << >>)
  /\ Return(IF kind = "refused" THEN 1 ELSE 0)
  /\ UNCHANGED <<turn, kind, r, handshake, client_hello, server_hello, flight, served>>

\* A message other than ClientHello returns -2 and keeps the body.
parse_handshake ==
  /\ pc = "dispatch" /\ kind \in {"client_hello", "other_handshake"}
  /\ handshake' = [body |-> Block("hs.body")]
  /\ Heap({handshake'.body}, {r.fragment}, << >>)
  /\ IF kind = "client_hello" THEN pc' = "parse" /\ rc' = rc ELSE Return(2)
  /\ UNCHANGED <<turn, kind, r, client_hello, server_hello, flight, served>>

\* parse_client_hello copies every field; then free_handshake.
parse_client_hello ==
  /\ pc = "parse"
  /\ \E n \in ExtensionCount :
       client_hello' = [legacy_session_id |-> Block("legacy_session_id"),
                        cipher_suites |-> Block("cipher_suites"),
                        legacy_compression_methods |-> Block("legacy_compression_methods"),
                        array |-> Block("ch.array"), data |-> DataBlocks(n)]
  /\ Heap(Blocks({"legacy_session_id", "cipher_suites", "legacy_compression_methods",
                  "ch.array"}) \cup Range(client_hello'.data),
          {handshake.body}, <<handshake.body>>)
  /\ pc' = "share"
  /\ UNCHANGED <<turn, kind, rc, r, handshake, server_hello, flight, served>>

\* ea.length is one byte wide.
Length(ea) == Len(ea.data) % CountSize

\* The ClientHello is hashed and its share looked for: found, useless (-3: the
\* ClientHello is kept), or the process dies looking, always if the length is 0.
FindShare ==
  /\ pc = "share"
  /\ Heap({}, {r.fragment, client_hello.array} \cup Range(client_hello.data), << >>)
  /\ \/ (Length(client_hello) > 0 /\ pc' = "build" /\ rc' = rc)
     \/ Length(client_hello) > 0 /\ Return(3)
     \/ pc' = "killed" /\ rc' = rc
  /\ UNCHANGED <<turn, kind, r, handshake, client_hello, server_hello, flight, served>>

\* add_supported_versions mallocs the array, add_key_share reallocs it.
BuildServerHello ==
  /\ pc = "build"
  /\ server_hello' = [legacy_session_id_echo |-> client_hello.legacy_session_id,
                      array |-> Nth("ea.array", 2),
                      data  |-> <<Nth("ea.data", 1), Nth("ea.data", 2)>>]
  /\ Heap({Nth("ea.array", 1), server_hello'.array} \cup Range(server_hello'.data),
          {}, <<Nth("ea.array", 1)>>)
  /\ pc' = "serialise"
  /\ UNCHANGED <<turn, kind, rc, r, handshake, client_hello, flight, served>>

\* process_server_hello, process_handshake and process_record each copy into a
\* new block.  The text of the extensions is a fourth, and no pointer keeps it.
SerialiseServerHello ==
  /\ pc = "serialise"
  /\ handshake' = [body |-> Block("server_hello_array")]
  /\ flight' = [fragment |-> Block("handshake_array"), version |-> Block("sh.version"),
                r_array |-> Block("r_array")]
  /\ Heap(Range(flight') \cup {handshake'.body, Block("ex")},
          {server_hello.legacy_session_id_echo, server_hello.array}
            \cup Range(server_hello.data), << >>)
  /\ pc' = "send"
  /\ UNCHANGED <<turn, kind, rc, r, client_hello, server_hello, served>>

\* Mutant: the struct that borrowed the session id frees it.
FreedServerHelloAndEcho ==
  server_hello.data \o <<server_hello.array, server_hello.legacy_session_id_echo>>

\* free_server_hello leaves the echoed session id to the ClientHello.
FreedServerHello == server_hello.data \o <<server_hello.array>>

\* write, hash, then free(r_array.ptr), free_record, free_handshake and
\* free_server_hello.
SendServerHello ==
  /\ pc = "send"
  /\ Heap({}, {flight.r_array, flight.fragment},
          <<flight.r_array, flight.fragment, flight.version, handshake.body>>
            \o FreedServerHello)
  /\ pc' = "freeHello"
  /\ UNCHANGED <<turn, kind, rc, r, handshake, client_hello, server_hello, flight, served>>

\* Mutant: the loop of free_extensions leaves the last extension out.
AllButLast(ea) == [i \in 1..(Length(ea) - 1) |-> ea.data[i]] \o <<ea.array>>

free_extensions(ea) == [i \in 1..Length(ea) |-> ea.data[i]] \o <<ea.array>>

free_client_hello ==
  /\ pc = "freeHello"
  /\ Heap({}, {}, <<client_hello.legacy_session_id, client_hello.cipher_suites,
                    client_hello.legacy_compression_methods>>
                    \o free_extensions(client_hello))
  /\ pc' = "encryptedExtensions"
  /\ UNCHANGED <<turn, kind, rc, r, handshake, client_hello, server_hello, flight, served>>

\* The keys are written into the buffers of the state.  encrypt_record frees two
\* of its three; the record has no version, so its free_record frees NULL.
send_null_EncryptedExtensions ==
  /\ pc = "encryptedExtensions"
  /\ Heap(Blocks({"ee.hs_array", "TLSInnerPlainText", "cipher_text", "ee.r_array"}),
          StateBlocks,
          <<Block("TLSInnerPlainText"), Block("cipher_text"), Block("ee.r_array"),
            Block("ee.hs_array"), NULL>>)
  /\ served' = served \cup {[turn |-> turn, extensions |-> Len(client_hello.data)]}
  /\ Return(0)
  /\ UNCHANGED <<turn, kind, r, handshake, client_hello, server_hello, flight>>

\* A malloc of the handshake returns NULL: an assertion or the copy that follows
\* ends the process.
OutOfMemory ==
  /\ pc \in {"dispatch", "parse", "build", "serialise", "encryptedExtensions"}
  /\ pc = "dispatch" => kind \in {"client_hello", "other_handshake"}
  /\ pc' = "killed"
  /\ UNCHANGED <<turn, kind, rc, live, misused, r, handshake, client_hello,
                 server_hello, flight, served>>

-----------------------------------------------------------------------------

Ended == pc \in {"stopped", "killed"}

Terminated == Ended /\ UNCHANGED vars

main_state_mech ==
  \/ PassOver \/ parse_handshake \/ parse_client_hello \/ FindShare
  \/ BuildServerHello \/ SerialiseServerHello \/ SendServerHello
  \/ free_client_hello \/ send_null_EncryptedExtensions \/ OutOfMemory

Next ==
  \/ read_record \/ ReadFails \/ main_state_mech \/ HandlerReturns
  \/ Terminated

Spec == Init /\ [][Next]_vars

-----------------------------------------------------------------------------
(* Properties.                                                             *)

\* Nothing is freed twice, and nothing is read that was never allocated or is
\* already freed, although the ServerHello borrows the session id of the
\* ClientHello and every struct is copied from call to call.
NoMisuse == ~ misused

\* What the handshake made in turn t leaves behind: the text of its extensions, and
\* the extensions of the ClientHello beyond those ea.length counts.
LeftBy(s) ==
  {<<"ex", s.turn, 0>>}
    \cup {<<"extension_data", s.turn, i>> : i \in ((s.extensions % CountSize) + 1)..s.extensions}

\* Back at reading, that is all that is left of the records handled: nothing else
\* leaks, on any path that stays in the loop, and the buffers of the state are
\* still there.
NothingElseLeaks ==
  pc = "read" => live = StateBlocks \cup UNION {LeftBy(s) : s \in served}
=============================================================================
