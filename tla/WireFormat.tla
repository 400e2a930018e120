----------------------------- MODULE WireFormat -----------------------------
(***************************************************************************)
(* The bytes of messages: the number formats of util.c, the extensions and *)
(* the frames of handshake messages and records, as the code writes them   *)
(* on a little-endian host.  An encoder allocates a length it has computed *)
(* and then writes; the two are kept apart, as the fields of an array.     *)
(***************************************************************************)
EXTENDS Naturals, Sequences, SequencesExt

KEY_SHARE_EXTENSION_TYPE          == 51
SUPPORTED_VERSIONS_EXTENSION_TYPE == 43
NAMED_GROUP_X25519 == 29
HANDSHAKE_TYPE     == 22

Byte   == 0..255
Uint16 == {n \in Nat : n < 65536}
Uint24 == {n \in Nat : n < 16777216}

-----------------------------------------------------------------------------
(* Numbers.                                                                *)

\* memcpy of a uint16_t variable out of and into memory.
HostBytes(n)   == <<n % 256, n \div 256>>
FromHost(a, b) == a + 256 * b

htons(n) == (n % 256) * 256 + (n \div 256)
ntohs(n) == htons(n)

write_uint16(num) == HostBytes(htons(num))

Read16(a, b) == ntohs(FromHost(a, b))

\* The four bytes of htonl(n), the lowest first: those of n the other way round.
htonl(n) ==
  <<(n \div 16777216) % 256, (n \div 65536) % 256, (n \div 256) % 256, n % 256>>

\* Shifts by 8, 16 and 24 bits take the second, third and fourth of them.
process_uint24(num) == LET a == htonl(num) IN <<a[2], a[3], a[4]>>

get_uint24(a, b, c) == a * 65536 + b * 256 + c

\* The sums of the first numbers of s: none of them, one, and so on to all.
Sums(s) ==
  LET sum[n \in 0..Len(s)] == IF n = 0 THEN 0 ELSE sum[n - 1] + s[n]
  IN  sum

Total(s) == Sums(s)[Len(s)]

-----------------------------------------------------------------------------
(* Arrays: what malloc was asked for, and what was written into it.        *)

Array(length, bytes) == [length |-> length, bytes |-> bytes]

Filled(arr) == arr.length = Len(arr.bytes)

\* The part of bytes at place p that is n long.
Part(bytes, p, n) == SubSeq(bytes, p + 1, p + n)

Inside(bytes, p, n) == p + n <= Len(bytes)

-----------------------------------------------------------------------------
(* Extensions: a sequence of types with their data.                        *)

Extension(type, data) == [type |-> type, data |-> data]

ExtensionList == Seq([type : Uint16, data : Seq(Byte)])

extensions_length(ea) == Total([i \in DOMAIN ea |-> 4 + Len(ea[i].data)])

ExtensionBytes(e) == write_uint16(e.type) \o write_uint16(Len(e.data)) \o e.data

process_extensions(ea) ==
  Array(extensions_length(ea), FlattenSeq([i \in DOMAIN ea |-> ExtensionBytes(ea[i])]))

\* add_key_share appends a list of one share without the length of a list, as a
\* ServerHello has it.
add_key_share(ea, group, key) ==
  Append(ea, Extension(KEY_SHARE_EXTENSION_TYPE,
                       write_uint16(group) \o write_uint16(Len(key)) \o key))

add_supported_versions(ea) ==
  Append(ea, Extension(SUPPORTED_VERSIONS_EXTENSION_TYPE, <<3, 4>>))

-----------------------------------------------------------------------------
(* Frames.                                                                 *)

process_handshake(msg_type, body) ==
  Array(1 + 3 + body.length, <<msg_type>> \o process_uint24(body.length) \o body.bytes)

process_record(type, version, fragment) ==
  Array(1 + 2 + 2 + fragment.length,
        <<type>> \o version \o write_uint16(fragment.length) \o fragment.bytes)

-----------------------------------------------------------------------------
(* The peer's side.                                                        *)

\* The number that bytes stand for on the wire.
PeerNumber(bytes) ==
  LET number[n \in 0..Len(bytes)] == IF n = 0 THEN 0 ELSE number[n - 1] * 256 + bytes[n]
  IN  number[Len(bytes)]
=============================================================================
