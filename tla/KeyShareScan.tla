---------------------------- MODULE KeyShareScan ----------------------------
(***************************************************************************)
(* How the X25519 share of a ClientHello is found: parse_extensions takes  *)
(* the extensions apart, get_extension looks for key_share among them, and *)
(* get_X25519_key_share walks the shares in it.  One action per iteration  *)
(* of each loop, over the bytes the loop reads.                            *)
(*                                                                         *)
(* The peer encodes its extensions as it should.  What it offers is open:  *)
(* no extension at all, no key_share, no X25519 share, one of the wrong    *)
(* length, more extensions than ExtensionArray can count.                  *)
(***************************************************************************)
EXTENDS WireFormat

CONSTANTS
  CountSize,      \* how many values ExtensionArray.length has: 256
  KeyLength,      \* bytes of an X25519 public value: 32
  NoShare,
  Offer           \* the lists of extensions a ClientHello may carry

Key == [1..KeyLength -> Byte]

\* A share has the form of an extension: a number, a length and the bytes.
ShareBytes(s) == ExtensionBytes(Extension(s.group, s.key))

SharesBytes(shares) == FlattenSeq([j \in DOMAIN shares |-> ShareBytes(shares[j])])

SharesData(shares) == write_uint16(Len(SharesBytes(shares))) \o SharesBytes(shares)

\* What the peer puts on the wire: a list of shares in a key_share extension,
\* whatever it likes in any other.
DataOf(e) == IF e.type = KEY_SHARE_EXTENSION_TYPE THEN SharesData(e.shares) ELSE e.data

OnTheWire(e) == Extension(e.type, DataOf(e))

Message(o) == FlattenSeq([i \in DOMAIN o |-> ExtensionBytes(OnTheWire(o[i]))])

\* A share is a group and a key.  What is offered fits the two bytes of its length;
\* an extension that is not key_share may be empty or hold any bytes.
Share == [group : Uint16, key : {k \in Seq(Byte) : Len(k) \in Uint16}]

OfferedExtension ==
  [type : {KEY_SHARE_EXTENSION_TYPE},
   shares : {l \in Seq(Share) : Len(SharesData(l)) \in Uint16}]
    \cup [type : Uint16 \ {KEY_SHARE_EXTENSION_TYPE},
          data : {d \in Seq(Byte) : Len(d) \in Uint16}]

ASSUME SizeAssumption ==
  /\ CountSize \in Nat /\ CountSize > 1
  /\ KeyLength \in Nat
  /\ NoShare \notin Key
ASSUME OfferAssumption == Offer \subseteq Seq(OfferedExtension)

VARIABLES
  offer,              \* what the peer put in
  data,               \* and its bytes
  loop,               \* the loop that is running, or how it ended
  place,              \* the byte the pointer iter stands at, or the index i
  count,              \* extensions counted by the first loop of parse_extensions
  array,              \* extensions copied by the second: ExtensionArray.array
  ex,                 \* the extension get_extension returned
  client_public_key   \* the buffer for the share

scanVars == <<offer, data, loop, place, count, array, ex, client_public_key>>

-----------------------------------------------------------------------------
(* The bytes.                                                              *)

\* The number in the two bytes at place p.
Uint16At(bytes, p) == Read16(bytes[p + 1], bytes[p + 2])

\* A read outside the buffer finds what happens to be there, and everything
\* after it depends on that: an assertion fails, the process faults, a share is
\* found in it, or the loops run on through whatever lies there.
ReadsOutside ==
  /\ \/ /\ loop' \in {"dead", "asserted", "outside"}
        /\ client_public_key' = client_public_key
     \/ loop' = "found" /\ client_public_key' \in Key
  /\ UNCHANGED <<offer, data, place, count, array, ex>>

ScanInit ==
  /\ offer \in Offer /\ data = Message(offer)
  /\ loop = "count" /\ place = 0 /\ count = 0
  /\ array = << >> /\ ex = << >>
  /\ client_public_key = NoShare

-----------------------------------------------------------------------------
(* parse_extensions.                                                       *)

\* The first loop steps from length to length until it has left the data.
CountExtension ==
  /\ loop = "count"
  /\ IF ~Inside(data, place, 4)
       THEN ReadsOutside
       ELSE LET next == place + 4 + Uint16At(data, place + 2) IN
            /\ count' = count + 1
            /\ IF next >= Len(data)
                 THEN loop' = "copy" /\ place' = 0
                 ELSE loop' = loop /\ place' = next
            /\ UNCHANGED <<offer, data, array, ex, client_public_key>>

\* Mutant: the type keeps the byte order it has on the wire.
HostTypeAt(p) == FromHost(data[p + 1], data[p + 2])

TypeAt(p) == Uint16At(data, p)

\* The second copies that many, and returns the array with a length of one byte.
CopyExtension ==
  /\ loop = "copy"
  /\ LET length == Uint16At(data, place + 2)
         copied == [type |-> TypeAt(place),
                    data |-> Part(data, place + 4, length)]
     IN  /\ array' = Append(array, copied)
         /\ IF Len(array') = count
              THEN loop' = "lookup" /\ place' = 0
              ELSE loop' = loop /\ place' = place + 4 + length
  /\ UNCHANGED <<offer, data, count, ex, client_public_key>>

-----------------------------------------------------------------------------
(* get_extension and get_X25519_key_share.                                 *)

\* The loop's condition is the length itself and not i < length.  With length 0
\* the result is NULL, and reading through it kills the process.
GetExtension ==
  /\ loop = "lookup"
  /\ IF count % CountSize = 0
       THEN /\ loop' = "dead"
            /\ UNCHANGED <<offer, data, place, count, array, ex, client_public_key>>
     ELSE IF place >= Len(array)
       THEN ReadsOutside
     ELSE /\ IF array[place + 1].type = KEY_SHARE_EXTENSION_TYPE
               THEN loop' = "list" /\ ex' = array[place + 1].data /\ place' = place
               ELSE loop' = loop /\ ex' = ex /\ place' = place + 1
          /\ UNCHANGED <<offer, data, count, array, client_public_key>>

\* The pointer steps over the length of the list of shares.
EnterList ==
  /\ loop = "list"
  /\ loop' = "share" /\ place' = 2
  /\ UNCHANGED <<offer, data, count, array, ex, client_public_key>>

\* Mutant: place stays where it is.
SameShare(ke_len) == place

NextShare(ke_len) == place + 4 + ke_len

\* Mutant: any other group fails the assertion at once.
ListIsOverAtOnce == TRUE

\* The test before the assertion for a list without X25519.  It looks at where
\* the key begins, so the last key of a list is left out.
ListIsOver == place + 4 - 2 >= Uint16At(ex, 0)

\* Mutant: the key may have any length.
AnyKey(ke_len) == TRUE

WholeKey(ke_len) == ke_len = KeyLength

\* One share of the list.
ScanShare ==
  /\ loop = "share"
  /\ IF ~Inside(ex, place, 4)
       THEN ReadsOutside
       ELSE LET ke_len == Uint16At(ex, place + 2) IN
            /\ IF Uint16At(ex, place) # NAMED_GROUP_X25519
                 THEN /\ IF ListIsOver
                           THEN loop' = "asserted" /\ place' = place
                           ELSE loop' = loop /\ place' = NextShare(ke_len)
                      /\ client_public_key' = client_public_key
                 ELSE /\ IF WholeKey(ke_len)
                           THEN /\ loop' = "found"
                                /\ client_public_key' = Part(ex, place + 4, ke_len)
                           ELSE /\ loop' = "asserted"
                                /\ client_public_key' = client_public_key
                      /\ place' = place
            /\ UNCHANGED <<offer, data, count, array, ex>>

-----------------------------------------------------------------------------

\* Once outside, only what is read there decides what comes of it.
ScanOutside == loop = "outside" /\ ReadsOutside

Ended == loop \in {"found", "asserted", "dead"}

ScanStep == CountExtension \/ CopyExtension \/ GetExtension \/ EnterList \/ ScanShare

ScanTerminated == Ended /\ UNCHANGED scanVars

ScanNext == ScanStep \/ ScanOutside \/ ScanTerminated

\* One thread runs the loops and nothing in them waits.  How long they run on
\* outside the message is left open.
ScanSpec == ScanInit /\ [][ScanNext]_scanVars /\ WF_scanVars(ScanStep)

-----------------------------------------------------------------------------
(* Properties.                                                             *)

TypeOK ==
  /\ offer \in Offer /\ data = Message(offer)
  /\ loop \in {"count", "copy", "lookup", "list", "share",
              "found", "asserted", "dead", "outside"}
  /\ place \in 0..Len(data) /\ count \in 0..Len(offer)
  /\ array \in ExtensionList
  /\ ex \in Seq(Byte)
  /\ client_public_key \in Key \cup {NoShare}

\* parse_extensions takes the message apart into what the peer put in: the two
\* loops agree on where each extension starts, and none is lost or torn.
ExtensionsParsed ==
  /\ \A i \in DOMAIN array :
       array[i] = OnTheWire(offer[i])
  /\ loop \in {"lookup", "list", "share"} => Len(array) = Len(offer)

KeyShares == {i \in DOMAIN offer : offer[i].type = KEY_SHARE_EXTENSION_TYPE}

\* The shares of the first key_share extension.
SharesOffered == offer[Min(KeyShares)].shares

X25519Shares ==
  {j \in DOMAIN SharesOffered : SharesOffered[j].group = NAMED_GROUP_X25519}

FirstShare == SharesOffered[Min(X25519Shares)].key

\* What the peer offers, read off the list it encoded: the first X25519 share of
\* its first key_share extension, if that has the length of one and the
\* extensions are not so many that their number wraps around to 0.
Offered ==
  IF /\ KeyShares # {} /\ X25519Shares # {} /\ FirstShare \in Key
     /\ Len(offer) % CountSize # 0
    THEN FirstShare ELSE NoShare

Choice == INSTANCE KeyShareChoice WITH
  offered <- Offered, key <- client_public_key,
  outcome <- IF loop = "found" THEN "found"
             ELSE IF Ended THEN "dead" ELSE "pending"

\* A share that is offered is the one the handshake gets, wherever it stands
\* among the extensions and in its list; no assertion is in its way and no read
\* leaves the message before it is found.
MakesChoice == Choice!Spec

\* Every loop comes to its end: a share that is offered is found in the end, and
\* without one the loops stop or leave the message.
ScanEnds ==
  <>(loop = "found" \/ (Offered = NoShare /\ (Ended \/ loop = "outside")))

\* The text of the assertion in get_X25519_key_share, "Extension does not have
\* X25519!": the scan of an extension without one is stopped by it, and so never
\* comes to read a share behind the last.
AbsenceIsAsserted ==
  loop = "share" /\ X25519Shares = {} => Inside(ex, place, 4)
=============================================================================
