--------------------------- MODULE HelloExchange ---------------------------
(***************************************************************************)
(* A ClientHello from the peer's bytes to the fields of the struct, and    *)
(* the ServerHello from its fields to the bytes the peer takes apart.  The *)
(* peer may cut its message into records as it likes; parse_handshake      *)
(* looks at one record only and believes the length in the message.        *)
(***************************************************************************)
EXTENDS WireFormat

CONSTANTS
  Hello,            \* the ClientHellos: sequences of their six fields
  PublicKey,        \* the server's public values
  Random,           \* and the values of its random field
  Behind,           \* what the memory behind a record may be filled with
  Reach             \* and how many bytes of it can be read without a fault

CLIENT_HELLO_TYPE == 1
SERVER_HELLO_TYPE == 2

\* version, random, session id, cipher suites, compression methods, extensions
ASSUME HelloAssumption == \A h \in Hello :
  /\ h \in Seq(Seq(Byte)) /\ Len(h) = 6
  /\ Len(h[1]) = 2 /\ Len(h[2]) = 32
  /\ Len(h[3]) <= 255 /\ Len(h[5]) <= 255
  /\ Len(h[4]) <= 65535 /\ Len(h[6]) <= 65535
ASSUME ServerAssumption ==
  /\ Behind \subseteq Byte /\ Reach \in Nat
  /\ PublicKey \subseteq Seq(Byte) /\ \A k \in PublicKey : Len(k) = 32
  /\ Random \subseteq Seq(Byte) /\ \A r \in Random : Len(r) = 32

VARIABLES
  pc,
  hello,            \* what the peer sends
  record,           \* the fragment of the record that is handled
  body,             \* Handshake.body
  iter,             \* the pointer of parse_client_hello
  fields,           \* the fields it has filled, in order
  answer,           \* the fields the ServerHello is made of
  arrays            \* the arrays made of it, each containing the one before

helloVars == <<pc, hello, record, body, iter, fields, answer, arrays>>

-----------------------------------------------------------------------------
(* The peer.                                                               *)

PeerVector(bytes, prefix) ==
  (IF prefix = 2 THEN <<Len(bytes) \div 256>> ELSE << >>) \o <<Len(bytes) % 256>> \o bytes

PeerText(h) ==
  h[1] \o h[2] \o PeerVector(h[3], 1) \o PeerVector(h[4], 2)
    \o PeerVector(h[5], 1) \o PeerVector(h[6], 2)

PeerHeader(n) == <<CLIENT_HELLO_TYPE, n \div 65536, (n \div 256) % 256, n % 256>>

PeerMessage(h) == PeerHeader(Len(PeerText(h))) \o PeerText(h)

\* The first record of the message is what the server gets to see at once.
HelloInit ==
  /\ pc = "handshake"
  /\ hello \in Hello
  /\ \E cut \in 1..Len(PeerMessage(hello)) : record = Part(PeerMessage(hello), 0, cut)
  /\ body = << >> /\ iter = 0 /\ fields = << >>
  /\ answer = << >> /\ arrays = << >>

-----------------------------------------------------------------------------
(* parse_handshake and parse_client_hello.                                 *)

\* A copy of what the message says it has, out of the record and from behind it.
parse_handshake ==
  /\ pc = "handshake"
  /\ \E b \in Behind :
       LET memory == record \o [i \in 1..Reach |-> b]
           length == get_uint24(memory[2], memory[3], memory[4])
       IN  IF Inside(memory, 0, 4) /\ Inside(memory, 4, length)
             THEN body' = Part(memory, 4, length) /\ pc' = "parse"
             ELSE body' = body /\ pc' = "outside"
  /\ UNCHANGED <<hello, record, iter, fields, answer, arrays>>

\* How long the length of each field is, and the length of those without one.
Prefix == <<0, 0, 1, 2, 1, 2>>
Fixed  == <<2, 32>>

\* Mutant: the length of the cipher suites stays in network order.
HostPrefixed(i) ==
  CASE Prefix[i] = 0 -> Fixed[i]
    [] Prefix[i] = 1 -> body[iter + 1]
    [] Prefix[i] = 2 -> FromHost(body[iter + 1], body[iter + 2])

FieldLength(i) ==
  CASE Prefix[i] = 0 -> Fixed[i]
    [] Prefix[i] = 1 -> body[iter + 1]
    [] Prefix[i] = 2 -> Read16(body[iter + 1], body[iter + 2])

\* One field of the struct: its length, its bytes, iter behind both.
parse_client_hello ==
  /\ pc = "parse" /\ Len(fields) < 6
  /\ LET i == Len(fields) + 1 IN
     IF Inside(body, iter, Prefix[i]) /\ Inside(body, iter + Prefix[i], FieldLength(i))
       THEN /\ fields' = Append(fields, Part(body, iter + Prefix[i], FieldLength(i)))
            /\ iter' = iter + Prefix[i] + FieldLength(i)
            /\ pc' = pc
       ELSE pc' = "outside" /\ UNCHANGED <<fields, iter>>
  /\ UNCHANGED <<hello, record, body, answer, arrays>>

-----------------------------------------------------------------------------
(* create_server_hello and the encoders.                                   *)

create_server_hello(random, session_id, key) ==
  LET ea == add_key_share(add_supported_versions(<< >>), NAMED_GROUP_X25519, key)
  IN  [legacy_version |-> <<3, 3>>, random |-> random, legacy_session_id_echo |-> session_id,
       cipher_suite |-> <<19, 3>>, legacy_compression_method |-> 0,
       extensions_length |-> extensions_length(ea), extensions |-> ea]

BuildServerHello ==
  /\ pc = "parse" /\ Len(fields) = 6
  /\ \E key \in PublicKey, random \in Random :
       answer' = create_server_hello(random, fields[3], key)
  /\ pc' = "answer"
  /\ UNCHANGED <<hello, record, body, iter, fields, arrays>>

\* Mutant: the byte for the length of the session id is not counted.
LengthWithoutPrefix(sh) ==
  2 + 32 + Len(sh.legacy_session_id_echo) + 2 + 1 + 2 + sh.extensions_length

\* What is allocated: with the length of the extensions the caller passed.
ServerHelloLength(sh) ==
  2 + 32 + 1 + Len(sh.legacy_session_id_echo) + 2 + 1 + 2 + sh.extensions_length

\* What is written: with the length that is computed again.
process_server_hello(sh) ==
  Array(ServerHelloLength(sh),
        sh.legacy_version \o sh.random
          \o <<Len(sh.legacy_session_id_echo)>> \o sh.legacy_session_id_echo
          \o sh.cipher_suite \o <<sh.legacy_compression_method>>
          \o write_uint16(extensions_length(sh.extensions))
          \o process_extensions(sh.extensions).bytes)

\* Mutant: the record announces a message without its header.
ProcessBodyOnly(msg_type, b) ==
  Array(b.length, <<msg_type>> \o process_uint24(b.length) \o b.bytes)

Framed(msg_type, b) == process_handshake(msg_type, b)

SendServerHello ==
  /\ pc = "answer"
  /\ LET sh == process_server_hello(answer)
         hs == Framed(SERVER_HELLO_TYPE, sh)
     IN  arrays' = <<process_extensions(answer.extensions), sh, hs,
                     process_record(HANDSHAKE_TYPE, <<3, 3>>, hs)>>
  /\ pc' = "sent"
  /\ UNCHANGED <<hello, record, body, iter, fields, answer>>

-----------------------------------------------------------------------------

HelloTerminated == pc \in {"sent", "outside"} /\ UNCHANGED helloVars

HelloNext ==
  \/ parse_handshake \/ parse_client_hello \/ BuildServerHello \/ SendServerHello
  \/ HelloTerminated

HelloSpec == HelloInit /\ [][HelloNext]_helloVars

-----------------------------------------------------------------------------
(* Properties.                                                             *)

\* Where field i ends in the peer's message.
EndOf(i) == 4 + Sums([j \in 1..6 |-> Prefix[j] + Len(hello[j])])[i]

\* Every field that lies in the record is parsed as the peer wrote it, also when
\* the message goes on in another record, which makes the server take what lies
\* behind for the rest.  With the whole message at hand it reads nothing else.
FieldsAsSent ==
  /\ \A i \in DOMAIN fields : EndOf(i) <= Len(record) => fields[i] = hello[i]
  /\ pc = "outside" => record # PeerMessage(hello)

\* Each buffer is as long as what is written into it: the sum computed before
\* malloc is the one the writes add up to.
BuffersFilled == \A i \in DOMAIN arrays : Filled(arrays[i])

\* What a peer finds in a record that holds a ServerHello, if every length in it
\* covers exactly what is there, and otherwise nothing.
PeerReads(w) ==
  LET sid  == w[44]                                   \* 5 + 4 + 2 + 32 bytes before
      exts == Part(w, 44 + sid + 5, Len(w) - (44 + sid + 5))
      whole == /\ Part(w, 0, 3) = <<HANDSHAKE_TYPE, 3, 3>>
               /\ PeerNumber(Part(w, 3, 2)) = Len(w) - 5
               /\ w[6] = SERVER_HELLO_TYPE
               /\ PeerNumber(Part(w, 6, 3)) = Len(w) - 9
               /\ PeerNumber(Part(w, 44 + sid + 3, 2)) = Len(exts)
      versions == <<0, 43, 0, 2, 3, 4>>
      share    == <<0, 51, 0, 36, 0, 29, 0, 32>>
  IN  IF whole /\ Part(exts, 0, 6) = versions /\ Part(exts, 6, 8) = share
        THEN [random |-> Part(w, 11, 32), session_id |-> Part(w, 44, sid),
              suite |-> Part(w, 44 + sid, 2), key |-> Part(exts, 14, Len(exts) - 14)]
        ELSE << >>

\* The peer takes the record of a ServerHello apart into what the server meant,
\* and finds in it the session id the server has seen, whatever the lengths are.
PeerReadsAnswer ==
  pc = "sent" =>
    PeerReads(arrays[4].bytes) =
      [random |-> answer.random, session_id |-> fields[3], suite |-> <<19, 3>>,
       key |-> Part(answer.extensions[2].data, 4, 32)]
=============================================================================
