------------------------ MODULE HeapOwnershipProofs ------------------------
(***************************************************************************)
(* Theorems about HeapOwnership, for any number of records and extensions. *)
(***************************************************************************)
EXTENDS HeapOwnership, TLAPS

-----------------------------------------------------------------------------
(* The invariant: at each place of the program, which blocks are live, and *)
(* that the structs point to them.                                         *)

RecordBlocks == {Block("version"), Block("fragment")}
HelloFields  == {Block("legacy_session_id"), Block("cipher_suites"),
                 Block("legacy_compression_methods"), Block("ch.array")}
Count        == Len(client_hello.data)
DataFrom(k)  == {Nth("extension_data", i) : i \in k..Count}
AnswerBlocks == {Nth("ea.array", 2), Nth("ea.data", 1), Nth("ea.data", 2)}
FlightBlocks == {Block("handshake_array"), Block("sh.version"), Block("r_array"),
                 Block("server_hello_array")}

Deciding   == {"dispatch", "parse"}
HasHello   == {"share", "build", "serialise", "send", "freeHello"}
HasAnswer  == {"serialise", "send"}
HasText    == {"send", "freeHello", "encryptedExtensions"}
Handshaking == Deciding \cup HasHello \cup HasText
Handling   == Handshaking \cup {"return"}

When(c, S) == IF c THEN S ELSE {}

\* What the record in hand has allocated so far and not freed.
Mine ==
  When(pc # "read", RecordBlocks)
    \cup When(pc = "parse", {Block("hs.body")})
    \cup When(pc \in HasHello, HelloFields \cup DataFrom(1))
    \cup When(pc \in HasAnswer, AnswerBlocks)
    \cup When(pc = "send", FlightBlocks)
    \cup When(pc \in HasText, {Block("ex")})
    \cup When(pc = "encryptedExtensions", DataFrom(Length(client_hello) + 1))

\* What is there for good: the buffers of the state, and what handshakes left.
Kept == StateBlocks \cup UNION {LeftBy(s) : s \in served}

Extent ==
  /\ pc \in Handshaking \cup {"read"} => live = Kept \cup Mine
  /\ pc = "return" => RecordBlocks \subseteq live
  /\ pc = "return" /\ rc = 0 => live = Kept \cup Mine

Types ==
  /\ pc \in Handling \cup {"read", "stopped", "killed"}
  /\ turn \in Nat
  /\ pc \in Handling => turn # 0
  /\ served \subseteq [turn : 1..turn, extensions : Nat]
  /\ pc \in Handshaking => \A s \in served : s.turn < turn

RecordShape == r = [version |-> Block("version"), fragment |-> Block("fragment")]

HelloShape ==
  /\ Count \in Nat
  /\ client_hello = [legacy_session_id |-> Block("legacy_session_id"),
                     cipher_suites |-> Block("cipher_suites"),
                     legacy_compression_methods |-> Block("legacy_compression_methods"),
                     array |-> Block("ch.array"), data |-> DataBlocks(Count)]

AnswerShape ==
  server_hello = [legacy_session_id_echo |-> Block("legacy_session_id"),
                  array |-> Nth("ea.array", 2),
                  data  |-> <<Nth("ea.data", 1), Nth("ea.data", 2)>>]

FlightShape ==
  flight = [fragment |-> Block("handshake_array"), version |-> Block("sh.version"),
            r_array |-> Block("r_array")]

Shapes ==
  /\ pc \in Handling => RecordShape
  /\ pc = "parse" => handshake = [body |-> Block("hs.body")]
  /\ pc = "send" => handshake = [body |-> Block("server_hello_array")]
  /\ pc \in HasHello \cup {"encryptedExtensions"} => HelloShape
  /\ pc \in HasAnswer => AnswerShape
  /\ pc = "send" => FlightShape

IInv == Types /\ Shapes /\ Extent /\ NoMisuse

-----------------------------------------------------------------------------
(* Lists of pointers that are freed.                                       *)

Once(s, ps) == ~FreedTwice(s) /\ Range(s) = ps

LEMMA FreeNone == Once(<< >>, {})
  BY DEF Once, FreedTwice, Range

LEMMA FreeOne == ASSUME NEW a PROVE Once(<<a>>, {a})
  BY DEF Once, FreedTwice, Range

LEMMA FreeTwo == ASSUME NEW a, NEW b, a # b PROVE Once(<<a, b>>, {a, b})
  BY DEF Once, FreedTwice, Range

LEMMA FreeThree ==
  ASSUME NEW a, NEW b, NEW c, a # b, a # c, b # c
  PROVE  Once(<<a, b, c>>, {a, b, c})
<1>1. DOMAIN <<a, b, c>> = {1, 2, 3}
  OBVIOUS
<1> QED
  BY <1>1 DEF Once, FreedTwice, Range

LEMMA FreeFour ==
  ASSUME NEW a, NEW b, NEW c, NEW d, a # b, a # c, a # d, b # c, b # d, c # d
  PROVE  Once(<<a, b, c, d>>, {a, b, c, d})
<1>1. DOMAIN <<a, b, c, d>> = {1, 2, 3, 4}
  OBVIOUS
<1> QED
  BY <1>1 DEF Once, FreedTwice, Range

\* Four blocks and a pointer that is NULL.
LEMMA FreeFive ==
  ASSUME NEW a, NEW b, NEW c, NEW d, a # b, a # c, a # d, b # c, b # d, c # d,
         a # NULL, b # NULL, c # NULL, d # NULL
  PROVE  Once(<<a, b, c, d, NULL>>, {a, b, c, d, NULL})
<1>1. DOMAIN <<a, b, c, d, NULL>> = {1, 2, 3, 4, 5}
  OBVIOUS
<1> QED
  BY <1>1 DEF Once, FreedTwice, Range

\* Two lists without a common pointer, one behind the other.
LEMMA FreeBoth ==
  ASSUME NEW S, NEW s \in Seq(S), NEW t \in Seq(S), NEW ps, NEW qs,
         Once(s, ps), Once(t, qs), ps \cap qs = {}
  PROVE  Once(s \o t, ps \cup qs)
<1> DEFINE u == s \o t
<1>1. /\ Len(s) \in Nat /\ Len(t) \in Nat
      /\ DOMAIN s = 1..Len(s) /\ DOMAIN t = 1..Len(t)
      /\ DOMAIN u = 1..(Len(s) + Len(t))
      /\ \A i \in 1..Len(s) : u[i] = s[i]
      /\ \A i \in 1..Len(t) : u[Len(s) + i] = t[i]
  OBVIOUS
<1> HIDE DEF u
<1>2. \A i \in DOMAIN u : \/ i \in DOMAIN s /\ u[i] = s[i]
                          \/ i - Len(s) \in DOMAIN t /\ u[i] = t[i - Len(s)]
  BY <1>1
<1>3. Range(u) = ps \cup qs
  <2>1. Range(u) \subseteq ps \cup qs
    BY <1>2 DEF Once, Range
  <2>2. ps \subseteq Range(u)
    BY <1>1 DEF Once, Range
  <2>3. qs \subseteq Range(u)
    BY <1>1 DEF Once, Range
  <2> QED
    BY <2>1, <2>2, <2>3
<1>4. ~FreedTwice(u)
  <2> SUFFICES ASSUME NEW i \in DOMAIN u, NEW j \in DOMAIN u,
                      i # j, u[i] = u[j], u[i] # NULL
               PROVE  FALSE
    BY DEF FreedTwice
  <2>1. CASE i \in DOMAIN s /\ u[i] = s[i] /\ j \in DOMAIN s /\ u[j] = s[j]
    BY <2>1 DEF Once, FreedTwice
  <2>2. CASE /\ i - Len(s) \in DOMAIN t /\ u[i] = t[i - Len(s)]
             /\ j - Len(s) \in DOMAIN t /\ u[j] = t[j - Len(s)]
    <3>1. i - Len(s) # j - Len(s)
      BY <1>1
    <3> QED
      BY <2>2, <3>1 DEF Once, FreedTwice
  <2>3. CASE i \in DOMAIN s /\ u[i] = s[i] /\ j - Len(s) \in DOMAIN t /\ u[j] = t[j - Len(s)]
    BY <2>3 DEF Once, Range
  <2>4. CASE j \in DOMAIN s /\ u[j] = s[j] /\ i - Len(s) \in DOMAIN t /\ u[i] = t[i - Len(s)]
    BY <2>4 DEF Once, Range
  <2> QED
    BY <1>2, <2>1, <2>2, <2>3, <2>4
<1> QED
  BY <1>3, <1>4 DEF Once, u

\* A step that uses what is there and frees each of these once.
LEMMA HeapStep ==
  ASSUME NoMisuse, NEW A, NEW U, NEW F, NEW ps, Heap(A, U, F), Once(F, ps),
         U \subseteq live \cup A, ps \ {NULL} \subseteq live \cup A
  PROVE  NoMisuse' /\ live' = (live \cup A) \ (ps \ {NULL})
  BY DEF Heap, Once, NoMisuse

-----------------------------------------------------------------------------
(* Blocks.                                                                 *)

\* A block is not NULL, so free does free it.
LEMMA BlockIsNotNull ==
  ASSUME turn \in Nat
  PROVE  \A site \in Site : Block(site) # NULL /\ \A i \in Nat : Nth(site, i) # NULL
<1>1. ASSUME NEW site \in Site, NEW i \in Nat PROVE Nth(site, i) # NULL
  <2>1. Nth(site, i) \in Site \X Nat \X Nat
    BY DEF Nth
  <2>2. NULL \notin Site \X Nat \X Nat
    BY SizeAssumption
  <2> QED
    BY <2>1, <2>2, Zenon
<1> QED
  BY <1>1 DEF Block

\* Where the blocks of the record in hand were allocated.
LEMMA SitesOf ==
  /\ \A b \in RecordBlocks : b[2] = turn /\ b[1] \in {"version", "fragment"}
  /\ \A b \in HelloFields :
       /\ b[2] = turn
       /\ b[1] \in {"legacy_session_id", "cipher_suites", "legacy_compression_methods",
                    "ch.array"}
  /\ \A k : \A b \in DataFrom(k) : b[2] = turn /\ b[1] = "extension_data"
  /\ \A b \in AnswerBlocks : b[2] = turn /\ b[1] \in {"ea.array", "ea.data"}
  /\ \A b \in FlightBlocks :
       /\ b[2] = turn
       /\ b[1] \in {"handshake_array", "sh.version", "r_array", "server_hello_array"}
  /\ \A site : Block(site)[1] = site /\ Block(site)[2] = turn
  /\ \A site, i : Nth(site, i)[1] = site /\ Nth(site, i)[2] = turn
<1>1. \A b \in RecordBlocks : b[2] = turn /\ b[1] \in {"version", "fragment"}
  BY DEF RecordBlocks, Block, Nth
<1>2. \A b \in HelloFields :
        /\ b[2] = turn
        /\ b[1] \in {"legacy_session_id", "cipher_suites", "legacy_compression_methods",
                     "ch.array"}
  BY DEF HelloFields, Block, Nth
<1>3. \A k : \A b \in DataFrom(k) : b[2] = turn /\ b[1] = "extension_data"
  BY DEF DataFrom, Nth
<1>4. \A b \in AnswerBlocks : b[2] = turn /\ b[1] \in {"ea.array", "ea.data"}
  BY DEF AnswerBlocks, Nth
<1>5. \A b \in FlightBlocks :
        /\ b[2] = turn
        /\ b[1] \in {"handshake_array", "sh.version", "r_array", "server_hello_array"}
  BY DEF FlightBlocks, Block, Nth
<1>6. /\ \A site : Block(site)[1] = site /\ Block(site)[2] = turn
      /\ \A site, i : Nth(site, i)[1] = site /\ Nth(site, i)[2] = turn
  BY DEF Block, Nth
<1> QED
  BY <1>1, <1>2, <1>3, <1>4, <1>5, <1>6

\* The array of a ClientHello points to the blocks of its extensions.
LEMMA DataRange ==
  ASSUME Count \in Nat, client_hello.data = DataBlocks(Count)
  PROVE  Range(client_hello.data) = DataFrom(1)
  BY DEF Range, DataBlocks, DataFrom

\* What is there for good was not allocated for the record in hand.
LEMMA KeptIsOlder ==
  ASSUME Types, pc \in Handshaking
  PROVE  \A b \in Kept : b[2] # turn
<1>1. \A b \in StateBlocks : b[2] = 0
  BY DEF StateBlocks
<1>2. turn # 0
  BY DEF Types, Handling
<1>3. ASSUME NEW s \in served, NEW b \in LeftBy(s) PROVE b[2] # turn
  <2>1. b[2] = s.turn /\ s.turn \in 1..turn /\ s.turn < turn
    BY <1>3 DEF LeftBy, Types
  <2> QED
    BY <2>1 DEF Types
<1> QED
  BY <1>1, <1>2, <1>3 DEF Kept

\* Nor is it one of the record's two.
LEMMA KeptIsNoRecord == \A b \in Kept : b[1] \notin {"version", "fragment"}
<1>1. \A b \in StateBlocks : b[1] = "state"
  BY DEF StateBlocks
<1>2. \A s \in served : \A b \in LeftBy(s) : b[1] \in {"ex", "extension_data"}
  BY DEF LeftBy
<1> QED
  BY <1>1, <1>2 DEF Kept

\* As long as record and ClientHello stay in hand, their blocks are what they are.
LEMMA SameHello ==
  ASSUME turn' = turn, served' = served
  PROVE  /\ RecordBlocks' = RecordBlocks /\ HelloFields' = HelloFields
         /\ AnswerBlocks' = AnswerBlocks /\ FlightBlocks' = FlightBlocks
         /\ Kept' = Kept
         /\ \A site, i : Nth(site, i)' = Nth(site, i)
         /\ \A site : Block(site)' = Block(site)
         /\ client_hello' = client_hello =>
              Count' = Count /\ \A k : DataFrom(k)' = DataFrom(k)
  BY DEF RecordBlocks, HelloFields, AnswerBlocks, FlightBlocks, Kept, Nth, Block, Count,
         DataFrom, LeftBy, StateBlocks

LEMMA SameShapes ==
  ASSUME turn' = turn
  PROVE  /\ r' = r /\ RecordShape => RecordShape'
         /\ client_hello' = client_hello /\ HelloShape => HelloShape'
         /\ server_hello' = server_hello /\ AnswerShape => AnswerShape'
         /\ flight' = flight /\ FlightShape => FlightShape'
<1>1. r' = r /\ RecordShape => RecordShape'
  BY DEF RecordShape, Block, Nth
<1>2. client_hello' = client_hello /\ HelloShape => HelloShape'
  BY DEF HelloShape, Count, DataBlocks, Block, Nth
<1>3. server_hello' = server_hello /\ AnswerShape => AnswerShape'
  BY DEF AnswerShape, Block, Nth
<1>4. flight' = flight /\ FlightShape => FlightShape'
  BY DEF FlightShape, Block, Nth
<1> QED
  BY <1>1, <1>2, <1>3, <1>4

-----------------------------------------------------------------------------
(* The steps.                                                              *)

LEMMA PassOverKeeps ==
  ASSUME IInv, PassOver
  PROVE  IInv'
<1> USE DEF IInv
<1>1. /\ pc = "dispatch" /\ pc' = "return"
      /\ UNCHANGED <<turn, r, client_hello, served>>
  BY DEF PassOver, Return
<1>2. Mine = RecordBlocks /\ Mine' = RecordBlocks /\ Kept' = Kept
  BY <1>1, SameHello DEF Mine, When, HasHello, HasAnswer, HasText
<1>3. live = Kept \cup Mine
  BY <1>1 DEF Extent, Handshaking, Deciding
<1>4. {r.fragment, r.version} = RecordBlocks
  BY <1>1 DEF Shapes, RecordShape, Handling, Handshaking, Deciding, RecordBlocks
<1>5. NoMisuse' /\ live' = live
  BY <1>2, <1>3, <1>4, FreeNone, HeapStep DEF PassOver
<1>6. Extent'
  BY <1>1, <1>2, <1>3, <1>5, SameHello DEF Extent, Handshaking, Deciding, HasHello, HasText
<1>7. Types'
  BY <1>1 DEF Types, Handling, Handshaking, Deciding, HasHello, HasText
<1>8. Shapes'
  BY <1>1, SameShapes DEF Shapes, Handling, Handshaking, Deciding, HasHello, HasText, HasAnswer
<1> QED
  BY <1>5, <1>6, <1>7, <1>8

LEMMA ReadRecordKeeps ==
  ASSUME IInv, read_record
  PROVE  IInv'
<1> USE DEF IInv
<1>1. /\ pc = "read" /\ pc' = "dispatch" /\ turn' = turn + 1 /\ turn \in Nat
      /\ r' = [version |-> Block("version")', fragment |-> Block("fragment")']
      /\ UNCHANGED <<client_hello, served>>
  BY DEF read_record, Types
<1>2. Mine = {} /\ Mine' = RecordBlocks' /\ Kept' = Kept
  BY <1>1 DEF Mine, When, HasHello, HasAnswer, HasText, Kept, StateBlocks, LeftBy
<1>3. live = Kept
  BY <1>1, <1>2 DEF Extent
<1>4. {r'.version, r'.fragment} = RecordBlocks'
  BY <1>1 DEF RecordBlocks
<1>5. Heap(RecordBlocks', {}, << >>)
  BY <1>4 DEF read_record
<1>6. NoMisuse' /\ live' = live \cup RecordBlocks'
  BY <1>5, FreeNone, HeapStep
<1>7. Extent'
  BY <1>1, <1>2, <1>3, <1>6 DEF Extent
<1>8. Types'
  <2>1. \A s \in served : s.turn \in 1..turn' /\ s.turn < turn'
    BY <1>1 DEF Types
  <2>2. served' \subseteq [turn : 1..turn', extensions : Nat]
    BY <1>1 DEF Types
  <2> QED
    BY <1>1, <2>1, <2>2 DEF Types, Handling, Handshaking, Deciding, HasHello, HasText
<1>9. Shapes'
  BY <1>1 DEF Shapes, RecordShape, HasHello, HasAnswer
<1> QED
  BY <1>6, <1>7, <1>8, <1>9

\* The loop is left, or goes on with the record's two blocks freed.
LEMMA HandlerReturnsKeeps ==
  ASSUME IInv, HandlerReturns
  PROVE  IInv'
<1> USE DEF IInv
<1>1. /\ pc = "return" /\ pc' = (IF rc = 0 THEN "read" ELSE "stopped")
      /\ UNCHANGED <<turn, rc, r, client_hello, served>> /\ turn \in Nat
      /\ r.version = Block("version") /\ r.fragment = Block("fragment")
  BY DEF HandlerReturns, Types, Shapes, RecordShape, Handling
<1>2. Mine = RecordBlocks /\ Kept' = Kept
  BY <1>1, SameHello DEF Mine, When, HasHello, HasAnswer, HasText
<1>3. RecordBlocks \subseteq live /\ (rc = 0 => live = Kept \cup RecordBlocks)
  BY <1>1, <1>2 DEF Extent
<1>4. /\ Block("fragment") # Block("version")
      /\ Block("fragment") # NULL /\ Block("version") # NULL
  <2>1. Block("fragment") # Block("version")
    BY DEF Block, Nth
  <2>2. "fragment" \in Site /\ "version" \in Site
    BY DEF Site
  <2> QED
    BY <1>1, <2>1, <2>2, BlockIsNotNull
<1>5. Once(<<r.fragment, r.version>>, RecordBlocks)
  BY <1>1, <1>4, FreeTwo DEF RecordBlocks
<1>6. NoMisuse' /\ live' = live \ RecordBlocks
  <2>1. Heap({}, {}, <<r.fragment, r.version>>)
    BY DEF HandlerReturns
  <2>2. RecordBlocks \ {NULL} = RecordBlocks
    BY <1>4 DEF RecordBlocks
  <2> QED
    BY <1>3, <1>5, <2>1, <2>2, HeapStep
<1>7. rc = 0 => live' = Kept
  <2>1. Kept \cap RecordBlocks = {}
    BY KeptIsNoRecord DEF RecordBlocks, Block, Nth
  <2> QED
    BY <1>3, <1>6, <2>1
<1>8. pc' = "read" => Mine' = {}
  BY DEF Mine, When, HasHello, HasAnswer, HasText
<1>9. Extent'
  BY <1>1, <1>2, <1>7, <1>8 DEF Extent, Handshaking, Deciding, HasHello, HasText
<1>10. Types'
  BY <1>1 DEF Types, Handling, Handshaking, Deciding, HasHello, HasText
<1>11. Shapes'
  BY <1>1 DEF Shapes, Handling, Handshaking, Deciding, HasHello, HasText, HasAnswer
<1> QED
  BY <1>6, <1>9, <1>10, <1>11

LEMMA ParseHandshakeKeeps ==
  ASSUME IInv, parse_handshake
  PROVE  IInv'
<1> USE DEF IInv
<1>1. /\ pc = "dispatch"
      /\ pc' = "parse" \/ (pc' = "return" /\ rc' = 2)
      /\ handshake' = [body |-> Block("hs.body")]
      /\ UNCHANGED <<turn, r, client_hello, served>> /\ turn \in Nat
      /\ r.fragment = Block("fragment")
  BY DEF parse_handshake, Return, Types, Shapes, RecordShape, Handling, Handshaking, Deciding,
         Block, Nth
<1>2. Mine = RecordBlocks /\ Kept' = Kept /\ RecordBlocks' = RecordBlocks
  BY <1>1, SameHello DEF Mine, When, HasHello, HasAnswer, HasText
<1>3. live = Kept \cup RecordBlocks
  BY <1>1, <1>2 DEF Extent, Handshaking, Deciding
<1>4. NoMisuse' /\ live' = live \cup {Block("hs.body")}
  <2>1. Heap({Block("hs.body")}, {r.fragment}, << >>)
    BY <1>1 DEF parse_handshake
  <2> QED
    BY <1>1, <1>3, <2>1, FreeNone, HeapStep DEF RecordBlocks
<1>5. pc' = "parse" => Mine' = RecordBlocks \cup {Block("hs.body")}
  BY <1>1, SameHello DEF Mine, When, HasHello, HasAnswer, HasText
<1>6. Extent'
  BY <1>1, <1>2, <1>3, <1>4, <1>5 DEF Extent, Handshaking, Deciding, HasHello, HasText
<1>7. Types'
  BY <1>1 DEF Types, Handling, Handshaking, Deciding, HasHello, HasText
<1>8. Shapes'
  BY <1>1, SameHello, SameShapes
  DEF Shapes, Handling, Handshaking, Deciding, HasHello, HasText, HasAnswer
<1> QED
  BY <1>4, <1>6, <1>7, <1>8

LEMMA ParseClientHelloKeeps ==
  ASSUME IInv, parse_client_hello
  PROVE  IInv'
<1> USE DEF IInv
<1>1. /\ pc = "parse" /\ pc' = "share"
      /\ UNCHANGED <<turn, r, served>> /\ turn \in Nat
      /\ handshake.body = Block("hs.body")
  BY DEF parse_client_hello, Types, Shapes
<1>2. PICK n \in ExtensionCount :
        client_hello' = [legacy_session_id |-> Block("legacy_session_id"),
                         cipher_suites |-> Block("cipher_suites"),
                         legacy_compression_methods |-> Block("legacy_compression_methods"),
                         array |-> Block("ch.array"), data |-> DataBlocks(n)]
  BY DEF parse_client_hello
<1>3. n \in Nat /\ Count' = n /\ client_hello'.data = DataBlocks(Count')
  BY <1>2, SizeAssumption DEF Count, DataBlocks
<1>4. Range(client_hello'.data) = DataFrom(1)'
  BY <1>1, <1>3, DataRange DEF Range, DataBlocks, DataFrom, Nth
<1>5. /\ Mine = RecordBlocks \cup {Block("hs.body")}
      /\ Mine' = RecordBlocks \cup HelloFields \cup DataFrom(1)'
      /\ Kept' = Kept
  BY <1>1, SameHello DEF Mine, When, HasHello, HasAnswer, HasText
<1>6. live = Kept \cup Mine
  BY <1>1 DEF Extent, Handshaking, Deciding
<1>7. NoMisuse' /\ live' = (live \cup (HelloFields \cup DataFrom(1)')) \ {Block("hs.body")}
  <2>1. Blocks({"legacy_session_id", "cipher_suites", "legacy_compression_methods",
                "ch.array"}) = HelloFields
    BY DEF Blocks, HelloFields
  <2>2. Heap(HelloFields \cup DataFrom(1)', {Block("hs.body")}, <<Block("hs.body")>>)
    BY <1>1, <1>4, <2>1 DEF parse_client_hello
  <2>3. {Block("hs.body")} \ {NULL} = {Block("hs.body")}
    BY <1>1, BlockIsNotNull DEF Site
  <2> QED
    BY <1>5, <1>6, <2>2, <2>3, FreeOne, HeapStep
<1>8. live' = Kept' \cup Mine'
  <2>1. Block("hs.body") \notin Kept
    BY <1>1, KeptIsOlder, SitesOf DEF Handshaking, Deciding
  <2>2. Block("hs.body") \notin RecordBlocks \cup HelloFields \cup DataFrom(1)'
    <3>1. \A b \in DataFrom(1)' : b[1] = "extension_data"
      BY DEF DataFrom, Nth
    <3> QED
      BY <3>1, SitesOf
  <2> QED
    BY <1>5, <1>6, <1>7, <2>1, <2>2
<1>9. Extent'
  BY <1>1, <1>8 DEF Extent
<1>10. Types'
  BY <1>1 DEF Types, Handling, Handshaking, Deciding, HasHello, HasText
<1>11. Shapes'
  <2>1. HelloShape'
    BY <1>1, <1>2, <1>3 DEF HelloShape, DataBlocks, Block, Nth
  <2> QED
    BY <1>1, <2>1, SameShapes
    DEF Shapes, Handling, Handshaking, Deciding, HasHello, HasText, HasAnswer
<1> QED
  BY <1>7, <1>9, <1>10, <1>11

\* What holds while a ClientHello is in hand, and stays as it is.
LEMMA HelloInHand ==
  ASSUME Types, Shapes, pc \in HasHello
  PROVE  /\ turn \in Nat /\ Count \in Nat
         /\ RecordShape /\ HelloShape
         /\ r.fragment \in RecordBlocks
         /\ client_hello.legacy_session_id = Block("legacy_session_id")
         /\ client_hello.cipher_suites = Block("cipher_suites")
         /\ client_hello.legacy_compression_methods = Block("legacy_compression_methods")
         /\ client_hello.array = Block("ch.array")
         /\ client_hello.data = DataBlocks(Count)
         /\ Range(client_hello.data) = DataFrom(1)
<1>1. HelloShape /\ RecordShape
  BY DEF Shapes, Handling, Handshaking
<1>2. Range(client_hello.data) = DataFrom(1)
  BY <1>1, DataRange DEF HelloShape
<1> QED
  BY <1>1, <1>2 DEF Types, RecordBlocks, HelloShape, RecordShape

LEMMA FindShareKeeps ==
  ASSUME IInv, FindShare
  PROVE  IInv'
<1> USE DEF IInv
<1>1. /\ pc = "share" /\ pc' \in {"build", "return", "killed"}
      /\ pc' = "return" => rc' = 3
      /\ UNCHANGED <<turn, r, client_hello, served>>
  BY DEF FindShare, Return
<1>2. pc \in HasHello
  BY <1>1 DEF HasHello
<1>3. /\ Mine = RecordBlocks \cup HelloFields \cup DataFrom(1)
      /\ pc' = "build" => Mine' = Mine
      /\ Kept' = Kept /\ RecordBlocks' = RecordBlocks
  BY <1>1, SameHello DEF Mine, When, HasHello, HasAnswer, HasText
<1>4. live = Kept \cup Mine
  BY <1>1 DEF Extent, Handshaking, HasHello
<1>5. {r.fragment, client_hello.array} \cup Range(client_hello.data) \subseteq live
  BY <1>2, <1>3, <1>4, HelloInHand DEF HelloFields
<1>6. NoMisuse' /\ live' = live
  <2>1. Heap({}, {r.fragment, client_hello.array} \cup Range(client_hello.data), << >>)
    BY DEF FindShare
  <2> QED
    BY <1>5, <2>1, FreeNone, HeapStep
<1>7. Extent'
  BY <1>1, <1>3, <1>4, <1>6 DEF Extent, Handshaking, Deciding, HasHello, HasText
<1>8. Types'
  BY <1>1 DEF Types, Handling, Handshaking, Deciding, HasHello, HasText
<1>9. Shapes'
  BY <1>1, <1>2, SameShapes DEF Shapes, Handling, Handshaking, HasHello, HasAnswer
<1> QED
  BY <1>6, <1>7, <1>8, <1>9

LEMMA BuildServerHelloKeeps ==
  ASSUME IInv, BuildServerHello
  PROVE  IInv'
<1> USE DEF IInv
<1> DEFINE first == Nth("ea.array", 1)
<1>1. /\ pc = "build" /\ pc' = "serialise"
      /\ UNCHANGED <<turn, r, client_hello, served>>
      /\ server_hello' = [legacy_session_id_echo |-> client_hello.legacy_session_id,
                          array |-> Nth("ea.array", 2),
                          data  |-> <<Nth("ea.data", 1), Nth("ea.data", 2)>>]
      /\ Heap({first, server_hello'.array} \cup Range(server_hello'.data), {}, <<first>>)
  BY DEF BuildServerHello
<1>2. pc \in HasHello
  BY <1>1 DEF HasHello
<1>3. /\ Mine = RecordBlocks \cup HelloFields \cup DataFrom(1)
      /\ Mine' = RecordBlocks \cup HelloFields \cup DataFrom(1) \cup AnswerBlocks
      /\ Kept' = Kept
  BY <1>1, SameHello DEF Mine, When, HasHello, HasAnswer, HasText
<1>4. live = Kept \cup Mine
  BY <1>1 DEF Extent, Handshaking, HasHello
<1>5. {first, server_hello'.array} \cup Range(server_hello'.data) = AnswerBlocks \cup {first}
  <2>1. Nth("ea.data", 1) # Nth("ea.data", 2)
    BY DEF Nth
  <2>2. Range(server_hello'.data) = {Nth("ea.data", 1), Nth("ea.data", 2)}
    BY <1>1, <2>1, FreeTwo DEF Once
  <2> QED
    BY <1>1, <2>2 DEF AnswerBlocks
<1>6. first # NULL
  BY <1>2, HelloInHand, BlockIsNotNull DEF Site
<1> HIDE DEF first
<1>7. NoMisuse' /\ live' = (live \cup (AnswerBlocks \cup {first})) \ {first}
  <2>1. Heap(AnswerBlocks \cup {first}, {}, <<first>>)
    BY <1>1, <1>5
  <2>2. {first} \ {NULL} = {first}
    BY <1>6
  <2>3. Once(<<first>>, {first})
    BY FreeOne
  <2>4. {} \subseteq live \cup (AnswerBlocks \cup {first})
    OBVIOUS
  <2>5. {first} \ {NULL} \subseteq live \cup (AnswerBlocks \cup {first})
    BY <2>2
  <2> QED
    BY <2>1, <2>2, <2>3, <2>4, <2>5, HeapStep
<1>8. first \notin Kept \cup Mine'
  <2>1. first[1] = "ea.array" /\ first[2] = turn
    BY SitesOf DEF first
  <2>2. first \notin AnswerBlocks
    BY DEF AnswerBlocks, Nth, first
  <2>3. first \notin Kept
    BY <1>1, <2>1, KeptIsOlder DEF Handshaking, HasHello
  <2> QED
    BY <1>3, <2>1, <2>2, <2>3, SitesOf
<1>9. Extent'
  BY <1>1, <1>3, <1>4, <1>7, <1>8 DEF Extent
<1>10. Types'
  BY <1>1 DEF Types, Handling, Handshaking, Deciding, HasHello, HasText
<1>11. Shapes'
  <2>1. AnswerShape'
    BY <1>1, <1>2, HelloInHand DEF AnswerShape, Block, Nth
  <2> QED
    BY <1>1, <1>2, <2>1, HelloInHand, SameShapes DEF Shapes, Handling, HasHello, HasAnswer
<1> QED
  BY <1>7, <1>9, <1>10, <1>11

LEMMA SerialiseServerHelloKeeps ==
  ASSUME IInv, SerialiseServerHello
  PROVE  IInv'
<1> USE DEF IInv
<1>1. /\ pc = "serialise" /\ pc' = "send"
      /\ UNCHANGED <<turn, r, client_hello, server_hello, served>>
      /\ handshake' = [body |-> Block("server_hello_array")]
      /\ flight' = [fragment |-> Block("handshake_array"), version |-> Block("sh.version"),
                    r_array |-> Block("r_array")]
      /\ Heap(Range(flight') \cup {handshake'.body, Block("ex")},
              {server_hello.legacy_session_id_echo, server_hello.array}
                \cup Range(server_hello.data), << >>)
  BY DEF SerialiseServerHello
<1>2. pc \in HasHello /\ AnswerShape
  BY <1>1 DEF HasHello, HasAnswer, Shapes
<1>3. /\ Mine = RecordBlocks \cup HelloFields \cup DataFrom(1) \cup AnswerBlocks
      /\ Mine' = RecordBlocks \cup HelloFields \cup DataFrom(1) \cup AnswerBlocks
                   \cup FlightBlocks \cup {Block("ex")}
      /\ Kept' = Kept
  BY <1>1, SameHello DEF Mine, When, HasHello, HasAnswer, HasText
<1>4. live = Kept \cup Mine
  BY <1>1 DEF Extent, Handshaking, HasHello
<1>5. Range(flight') \cup {handshake'.body, Block("ex")} = FlightBlocks \cup {Block("ex")}
  <2>1. Range(flight') = {Block("handshake_array"), Block("sh.version"), Block("r_array")}
    BY <1>1 DEF Range
  <2> QED
    BY <1>1, <2>1 DEF FlightBlocks
<1>6. {server_hello.legacy_session_id_echo, server_hello.array}
        \cup Range(server_hello.data) \subseteq live
  <2>1. Nth("ea.data", 1) # Nth("ea.data", 2)
    BY DEF Nth
  <2>2. Range(server_hello.data) = {Nth("ea.data", 1), Nth("ea.data", 2)}
    BY <1>2, <2>1, FreeTwo DEF Once, AnswerShape
  <2> QED
    BY <1>2, <1>3, <1>4, <2>2 DEF AnswerShape, AnswerBlocks, HelloFields
<1>7. NoMisuse' /\ live' = live \cup (FlightBlocks \cup {Block("ex")})
  <2>1. Heap(FlightBlocks \cup {Block("ex")},
             {server_hello.legacy_session_id_echo, server_hello.array}
               \cup Range(server_hello.data), << >>)
    BY <1>1, <1>5
  <2> QED
    BY <1>6, <2>1, FreeNone, HeapStep
<1>8. Extent'
  BY <1>1, <1>3, <1>4, <1>7 DEF Extent
<1>9. Types'
  BY <1>1 DEF Types, Handling, Handshaking, Deciding, HasHello, HasText
<1>10. Shapes'
  <2>1. FlightShape' /\ handshake' = [body |-> Block("server_hello_array")']
    BY <1>1 DEF FlightShape, Block, Nth
  <2> QED
    BY <1>1, <1>2, <2>1, HelloInHand, SameShapes DEF Shapes, Handling, HasHello, HasAnswer
<1> QED
  BY <1>7, <1>8, <1>9, <1>10

LEMMA SendServerHelloKeeps ==
  ASSUME IInv, SendServerHello
  PROVE  IInv'
<1> USE DEF IInv
<1> DEFINE flown  == <<flight.r_array, flight.fragment, flight.version, handshake.body>>
           answer == FreedServerHello
<1>1. /\ pc = "send" /\ pc' = "freeHello"
      /\ UNCHANGED <<turn, r, client_hello, served>>
      /\ Heap({}, {flight.r_array, flight.fragment}, flown \o answer)
  BY DEF SendServerHello
<1>2. /\ pc \in HasHello /\ AnswerShape /\ FlightShape
      /\ handshake.body = Block("server_hello_array")
  BY <1>1 DEF HasHello, HasAnswer, Shapes
<1>3. /\ Mine = RecordBlocks \cup HelloFields \cup DataFrom(1) \cup AnswerBlocks
                  \cup FlightBlocks \cup {Block("ex")}
      /\ Mine' = RecordBlocks \cup HelloFields \cup DataFrom(1) \cup {Block("ex")}
      /\ Kept' = Kept
  BY <1>1, SameHello DEF Mine, When, HasHello, HasAnswer, HasText
<1>4. live = Kept \cup Mine
  BY <1>1 DEF Extent, Handshaking, HasHello
<1>5. Once(flown, FlightBlocks) /\ flown \in Seq(FlightBlocks)
  <2>1. flown = <<Block("r_array"), Block("handshake_array"), Block("sh.version"),
                  Block("server_hello_array")>>
    BY <1>2 DEF FlightShape
  <2>2. FlightBlocks = {Block("r_array"), Block("handshake_array"), Block("sh.version"),
                        Block("server_hello_array")}
    BY DEF FlightBlocks
  <2>3. /\ Block("r_array") # Block("handshake_array")
        /\ Block("r_array") # Block("sh.version")
        /\ Block("r_array") # Block("server_hello_array")
        /\ Block("handshake_array") # Block("sh.version")
        /\ Block("handshake_array") # Block("server_hello_array")
        /\ Block("sh.version") # Block("server_hello_array")
    BY DEF Block, Nth
  <2> QED
    BY <2>1, <2>2, <2>3, FreeFour
<1>6. Once(answer, AnswerBlocks) /\ answer \in Seq(AnswerBlocks)
  <2>1. answer = <<Nth("ea.data", 1), Nth("ea.data", 2)>> \o <<Nth("ea.array", 2)>>
    BY <1>2 DEF AnswerShape, FreedServerHello
  <2>2. /\ Nth("ea.data", 1) # Nth("ea.data", 2)
        /\ {Nth("ea.data", 1), Nth("ea.data", 2)} \cap {Nth("ea.array", 2)} = {}
    BY DEF Nth
  <2>3. /\ AnswerBlocks = {Nth("ea.data", 1), Nth("ea.data", 2)} \cup {Nth("ea.array", 2)}
        /\ <<Nth("ea.data", 1), Nth("ea.data", 2)>> \in Seq(AnswerBlocks)
        /\ <<Nth("ea.array", 2)>> \in Seq(AnswerBlocks)
    BY DEF AnswerBlocks
  <2>4. /\ Once(<<Nth("ea.data", 1), Nth("ea.data", 2)>>,
                {Nth("ea.data", 1), Nth("ea.data", 2)})
        /\ Once(<<Nth("ea.array", 2)>>, {Nth("ea.array", 2)})
    BY <2>2, FreeOne, FreeTwo
  <2>5. Once(answer, AnswerBlocks)
    BY <2>1, <2>2, <2>3, <2>4, FreeBoth
  <2>6. answer \in Seq(AnswerBlocks)
    BY <2>1, <2>3
  <2> QED
    BY <2>5, <2>6
<1>7. {flight.r_array, flight.fragment} \subseteq live
  BY <1>2, <1>3, <1>4 DEF FlightShape, FlightBlocks
<1> HIDE DEF flown, answer
<1>8. Once(flown \o answer, FlightBlocks \cup AnswerBlocks)
  <2>1. FlightBlocks \cap AnswerBlocks = {}
    BY SitesOf
  <2>2. flown \in Seq(FlightBlocks \cup AnswerBlocks)
        /\ answer \in Seq(FlightBlocks \cup AnswerBlocks)
    BY <1>5, <1>6
  <2> QED
    BY <1>5, <1>6, <2>1, <2>2, FreeBoth
<1>9. NULL \notin FlightBlocks \cup AnswerBlocks
  <2>1. turn \in Nat
    BY DEF Types
  <2> QED
    BY <2>1, BlockIsNotNull DEF FlightBlocks, AnswerBlocks, Site
<1>10. NoMisuse' /\ live' = live \ (FlightBlocks \cup AnswerBlocks)
  <2>1. (FlightBlocks \cup AnswerBlocks) \ {NULL} = FlightBlocks \cup AnswerBlocks
    BY <1>9
  <2>2. FlightBlocks \cup AnswerBlocks \subseteq live
    BY <1>3, <1>4
  <2> QED
    BY <1>1, <1>7, <1>8, <2>1, <2>2, HeapStep
<1>11. live' = Kept' \cup Mine'
  <2>1. Kept \cap (FlightBlocks \cup AnswerBlocks) = {}
    BY <1>1, KeptIsOlder, SitesOf DEF Handshaking, HasHello
  <2>2. Mine' \cap (FlightBlocks \cup AnswerBlocks) = {}
    BY <1>3, SitesOf
  <2> QED
    BY <1>3, <1>4, <1>10, <2>1, <2>2
<1>12. Extent'
  BY <1>1, <1>11 DEF Extent
<1>13. Types'
  BY <1>1 DEF Types, Handling, Handshaking, Deciding, HasHello, HasText
<1>14. Shapes'
  BY <1>1, <1>2, HelloInHand, SameShapes DEF Shapes, Handling, HasHello, HasAnswer
<1> QED
  BY <1>10, <1>12, <1>13, <1>14

\* The extensions that the length counts, as free_extensions goes through them.
Counted == [i \in 1..Length(client_hello) |-> client_hello.data[i]]

CountedBlocks == {Nth("extension_data", i) : i \in 1..Length(client_hello)}

\* They and the others are all the extensions, and each is freed once.
LEMMA CountedOnce ==
  ASSUME turn \in Nat, HelloShape
  PROVE  /\ Counted \in Seq(CountedBlocks) /\ Once(Counted, CountedBlocks)
         /\ DataFrom(1) = CountedBlocks \cup DataFrom(Length(client_hello) + 1)
         /\ CountedBlocks \cap DataFrom(Length(client_hello) + 1) = {}
<1> DEFINE k == Length(client_hello)
<1>1. k \in Nat /\ k <= Count /\ Count \in Nat
  <2>1. Count \in Nat /\ CountSize \in Nat /\ CountSize > 0
    BY SizeAssumption DEF HelloShape
  <2>2. Count % CountSize \in Nat /\ Count % CountSize <= Count
    <3>1. \A n \in Nat : \A m \in Nat : m > 0 => n % m \in Nat /\ n % m <= n
      OBVIOUS
    <3> QED
      BY <2>1, <3>1
  <2> QED
    BY <2>1, <2>2 DEF Length, Count
<1> HIDE DEF k
<1>2. \A i \in 1..Count : client_hello.data[i] = Nth("extension_data", i)
  BY <1>1 DEF HelloShape, DataBlocks
<1>3. Counted = [i \in 1..k |-> Nth("extension_data", i)]
  BY <1>1, <1>2 DEF Counted, k
<1>4. CountedBlocks = {Nth("extension_data", i) : i \in 1..k}
  BY DEF CountedBlocks, k
<1>5. \A i, j : Nth("extension_data", i) = Nth("extension_data", j) => i = j
  BY DEF Nth
<1>6. Counted \in Seq(CountedBlocks)
  BY <1>1, <1>3, <1>4
<1>7. Once(Counted, CountedBlocks)
  BY <1>3, <1>4, <1>5 DEF Once, FreedTwice, Range
<1>8. DataFrom(1) = CountedBlocks \cup DataFrom(k + 1)
  BY <1>1, <1>4 DEF DataFrom
<1>9. CountedBlocks \cap DataFrom(k + 1) = {}
  BY <1>1, <1>4, <1>5 DEF DataFrom
<1> QED
  BY <1>6, <1>7, <1>8, <1>9 DEF k

LEMMA FreeClientHelloKeeps ==
  ASSUME IInv, free_client_hello
  PROVE  IInv'
<1> USE DEF IInv
<1> DEFINE three == <<Block("legacy_session_id"), Block("cipher_suites"),
                      Block("legacy_compression_methods")>>
           array == Block("ch.array")
           all   == HelloFields \cup CountedBlocks
<1>1. /\ pc = "freeHello" /\ pc' = "encryptedExtensions"
      /\ UNCHANGED <<turn, r, client_hello, served>>
  BY DEF free_client_hello
<1>2. pc \in HasHello /\ turn \in Nat /\ HelloShape /\ RecordShape
  BY <1>1, HelloInHand DEF HasHello
<1>3. Heap({}, {}, three \o (Counted \o <<array>>))
  BY <1>2 DEF free_client_hello, free_extensions, Counted, HelloShape
<1>4. /\ Mine = RecordBlocks \cup HelloFields \cup DataFrom(1) \cup {Block("ex")}
      /\ Mine' = RecordBlocks \cup {Block("ex")} \cup DataFrom(Length(client_hello) + 1)
      /\ Kept' = Kept
  BY <1>1, SameHello DEF Mine, When, HasHello, HasAnswer, HasText
<1>5. live = Kept \cup Mine
  BY <1>1 DEF Extent, Handshaking, HasHello
<1>6. \A b \in CountedBlocks : b[1] = "extension_data" /\ b[2] = turn
  BY DEF CountedBlocks, Nth
<1> HIDE DEF array, three
<1>7. Once(Counted \o <<array>>, CountedBlocks \cup {array})
  <2>1. CountedBlocks \cap {array} = {}
    BY <1>6, SitesOf DEF array
  <2>2. Counted \in Seq(CountedBlocks \cup {array}) /\ <<array>> \in Seq(CountedBlocks \cup {array})
    BY <1>2, CountedOnce
  <2> QED
    BY <1>2, <2>1, <2>2, CountedOnce, FreeOne, FreeBoth
<1>8. Once(three \o (Counted \o <<array>>), all)
  <2> DEFINE ps == {Block("legacy_session_id"), Block("cipher_suites"),
                    Block("legacy_compression_methods")}
             qs == CountedBlocks \cup {array}
  <2>1. three \in Seq(ps) /\ Once(three, ps)
    <3>1. /\ Block("legacy_session_id") # Block("cipher_suites")
          /\ Block("legacy_session_id") # Block("legacy_compression_methods")
          /\ Block("cipher_suites") # Block("legacy_compression_methods")
      BY DEF Block, Nth
    <3> QED
      BY <3>1, FreeThree DEF three
  <2>2. Counted \o <<array>> \in Seq(qs)
    BY <1>2, CountedOnce
  <2>3. ps \cap qs = {}
    BY <1>6, SitesOf DEF array
  <2>4. ps \cup qs = all
    BY DEF HelloFields, array
  <2> HIDE DEF ps, qs, all
  <2>5. three \in Seq(ps \cup qs) /\ Counted \o <<array>> \in Seq(ps \cup qs)
    BY <2>1, <2>2
  <2>6. Once(Counted \o <<array>>, qs)
    BY <1>7 DEF qs
  <2>7. Once(three \o (Counted \o <<array>>), ps \cup qs)
    BY <2>1, <2>3, <2>5, <2>6, FreeBoth
  <2> QED
    BY <2>4, <2>7
<1>9. NoMisuse' /\ live' = live \ all
  <2>1. all \ {NULL} = all
    <3>1. \A site \in Site : Block(site) # NULL /\ \A i \in Nat : Nth(site, i) # NULL
      BY <1>2, BlockIsNotNull
    <3>2. NULL \notin HelloFields
      BY <3>1 DEF HelloFields, Site
    <3>3. NULL \notin CountedBlocks
      <4>1. \A i \in 1..Length(client_hello) : i \in Nat
        OBVIOUS
      <4>2. "extension_data" \in Site
        BY DEF Site
      <4> QED
        BY <3>1, <4>1, <4>2 DEF CountedBlocks
    <3> QED
      BY <3>2, <3>3
  <2>2. all \subseteq live
    BY <1>2, <1>4, <1>5, CountedOnce
  <2> HIDE DEF all
  <2> QED
    BY <1>3, <1>8, <2>1, <2>2, HeapStep
<1>10. live' = Kept' \cup Mine'
  <2>1. Kept \cap all = {}
    BY <1>1, <1>6, KeptIsOlder, SitesOf DEF Handshaking, HasHello
  <2>2. Mine' \cap all = {}
    BY <1>2, <1>4, <1>6, CountedOnce, SitesOf
  <2>3. Mine \subseteq Mine' \cup all
    BY <1>2, <1>4, CountedOnce
  <2>4. Mine' \subseteq Mine
    BY <1>2, <1>4, CountedOnce
  <2> QED
    BY <1>4, <1>5, <1>9, <2>1, <2>2, <2>3, <2>4
<1>11. Extent'
  BY <1>1, <1>10 DEF Extent
<1>12. Types'
  BY <1>1 DEF Types, Handling, Handshaking, Deciding, HasHello, HasText
<1>13. Shapes'
  BY <1>1, <1>2, SameShapes DEF Shapes, Handling, HasHello, HasAnswer
<1> QED
  BY <1>9, <1>11, <1>12, <1>13

\* What this record leaves is from now on part of what is there for good.
LEMMA EncryptedExtensionsKeeps ==
  ASSUME IInv, send_null_EncryptedExtensions
  PROVE  IInv'
<1> USE DEF IInv
<1> DEFINE made  == Blocks({"ee.hs_array", "TLSInnerPlainText", "cipher_text", "ee.r_array"})
           freed == <<Block("TLSInnerPlainText"), Block("cipher_text"), Block("ee.r_array"),
                      Block("ee.hs_array"), NULL>>
           new   == [turn |-> turn, extensions |-> Len(client_hello.data)]
<1>1. /\ pc = "encryptedExtensions" /\ pc' = "return" /\ rc' = 0
      /\ UNCHANGED <<turn, r, client_hello>>
      /\ served' = served \cup {new}
      /\ Heap(made, StateBlocks, freed)
  BY DEF send_null_EncryptedExtensions, Return
<1>2. turn \in Nat /\ turn # 0 /\ HelloShape /\ RecordShape
  BY <1>1 DEF Types, Shapes, Handling, Handshaking, HasText
<1>3. /\ Mine = RecordBlocks \cup {Block("ex")} \cup DataFrom(Length(client_hello) + 1)
      /\ Mine' = RecordBlocks
  <2>1. RecordBlocks' = RecordBlocks
    BY <1>1 DEF RecordBlocks, Block, Nth
  <2> QED
    BY <1>1, <2>1 DEF Mine, When, HasHello, HasAnswer, HasText
<1>4. live = Kept \cup Mine
  BY <1>1 DEF Extent, Handshaking, HasText
<1>5. LeftBy(new) = {Block("ex")} \cup DataFrom(Length(client_hello) + 1)
  BY DEF LeftBy, Block, Nth, DataFrom, Length, Count
<1> HIDE DEF new
<1>6. Kept' = Kept \cup LeftBy(new)
  <2>1. StateBlocks' = StateBlocks
    BY DEF StateBlocks
  <2>2. \A s : LeftBy(s)' = LeftBy(s)
    BY DEF LeftBy
  <2>3. Kept' = StateBlocks \cup UNION {LeftBy(s) : s \in served \cup {new}}
    BY <1>1, <2>1 DEF Kept, LeftBy
  <2> QED
    BY <2>3 DEF Kept
<1>7. /\ made = {Block("TLSInnerPlainText"), Block("cipher_text"), Block("ee.r_array"),
                 Block("ee.hs_array")}
      /\ NULL \notin made
  <2>1. \A site \in Site : Block(site) # NULL
    BY <1>2, BlockIsNotNull
  <2>2. made = {Block("TLSInnerPlainText"), Block("cipher_text"), Block("ee.r_array"),
                Block("ee.hs_array")}
    BY DEF Blocks
  <2> QED
    BY <2>1, <2>2 DEF Site
<1>8. Once(freed, made \cup {NULL})
  <2>1. /\ Block("TLSInnerPlainText") # Block("cipher_text")
        /\ Block("TLSInnerPlainText") # Block("ee.r_array")
        /\ Block("TLSInnerPlainText") # Block("ee.hs_array")
        /\ Block("cipher_text") # Block("ee.r_array")
        /\ Block("cipher_text") # Block("ee.hs_array")
        /\ Block("ee.r_array") # Block("ee.hs_array")
    BY DEF Block, Nth
  <2>2. made \cup {NULL} = {Block("TLSInnerPlainText"), Block("cipher_text"),
                            Block("ee.r_array"), Block("ee.hs_array"), NULL}
    BY <1>7
  <2>3. /\ Block("TLSInnerPlainText") # NULL /\ Block("cipher_text") # NULL
        /\ Block("ee.r_array") # NULL /\ Block("ee.hs_array") # NULL
    BY <1>7
  <2> QED
    BY <2>1, <2>2, <2>3, FreeFive
<1>9. made \cap live = {}
  <2>1. \A b \in made : b[2] = turn /\
          b[1] \in {"ee.hs_array", "TLSInnerPlainText", "cipher_text", "ee.r_array"}
    BY <1>7, SitesOf
  <2>2. made \cap Kept = {}
    BY <1>1, <2>1, KeptIsOlder DEF Handshaking, HasText
  <2>3. made \cap Mine = {}
    BY <1>3, <2>1, SitesOf
  <2> QED
    BY <1>4, <2>2, <2>3
<1> HIDE DEF made, freed
<1>10. NoMisuse' /\ live' = live
  <2>1. (made \cup {NULL}) \ {NULL} = made
    BY <1>7
  <2>2. StateBlocks \subseteq live \cup made
    BY <1>4 DEF Kept
  <2>3. (made \cup {NULL}) \ {NULL} \subseteq live \cup made
    BY <2>1
  <2>4. NoMisuse' /\ live' = (live \cup made) \ made
    BY <1>1, <1>8, <2>1, <2>2, <2>3, HeapStep
  <2> QED
    BY <1>9, <2>4
<1>11. Extent'
  <2>1. live' = Kept' \cup Mine'
    BY <1>3, <1>4, <1>5, <1>6, <1>10
  <2>2. RecordBlocks' \subseteq live'
    BY <1>1, <1>3, <2>1 DEF RecordBlocks, Block, Nth
  <2> QED
    BY <1>1, <2>1, <2>2 DEF Extent, Handshaking, Deciding, HasHello, HasText
<1>12. Types'
  <2>1. new \in [turn : 1..turn, extensions : Nat]
    BY <1>2 DEF new, HelloShape, Count
  <2> QED
    BY <1>1, <1>2, <2>1 DEF Types, Handling, Handshaking, Deciding, HasHello, HasText
<1>13. Shapes'
  BY <1>1, <1>2, SameShapes DEF Shapes, Handling, HasHello, HasAnswer
<1> QED
  BY <1>10, <1>11, <1>12, <1>13

\* The process dies with what it has, and reading fails with what it got.
LEMMA OutOfMemoryKeeps ==
  ASSUME IInv, OutOfMemory
  PROVE  IInv'
<1>1. pc' = "killed" /\ UNCHANGED <<turn, misused, served>>
  BY DEF OutOfMemory
<1> QED
  BY <1>1 DEF IInv, Types, Shapes, Extent, NoMisuse, Handling, Handshaking, Deciding,
              HasHello, HasAnswer, HasText

LEMMA ReadFailsKeeps ==
  ASSUME IInv, ReadFails
  PROVE  IInv'
<1>1. pc' = "stopped" /\ UNCHANGED <<turn, served>>
  BY DEF ReadFails
<1>2. PICK A : Heap(A, {}, << >>)
  BY DEF ReadFails
<1>3. NoMisuse'
  BY <1>2, FreeNone, HeapStep DEF IInv
<1> QED
  BY <1>1, <1>3 DEF IInv, Types, Shapes, Extent, Handling, Handshaking, Deciding,
                    HasHello, HasAnswer, HasText

LEMMA StutterKeeps ==
  ASSUME IInv, UNCHANGED vars
  PROVE  IInv'
<1>1. turn' = turn /\ served' = served /\ client_hello' = client_hello
  BY DEF vars
<1>2. Mine' = Mine
  <2>1. Length(client_hello)' = Length(client_hello)
    BY <1>1 DEF Length
  <2>2. pc' = pc
    BY DEF vars
  <2> QED
    BY <1>1, <2>1, <2>2, SameHello, SMTT(60) DEF Mine
<1>3. Types' /\ Extent' /\ NoMisuse'
  BY <1>1, <1>2, SameHello DEF IInv, Types, Extent, NoMisuse, vars
<1>4. Shapes'
  BY <1>1, SameShapes DEF IInv, Shapes, Block, Nth, vars
<1> QED
  BY <1>3, <1>4 DEF IInv

-----------------------------------------------------------------------------
(* The invariant holds.                                                    *)

LEMMA InitIInv == Init => IInv
<1> SUFFICES ASSUME Init PROVE IInv
  OBVIOUS
<1>1. pc = "read" /\ turn = 0 /\ live = StateBlocks /\ misused = FALSE /\ served = {}
  BY DEF Init
<1>2. Kept = StateBlocks /\ Mine = {}
  BY <1>1 DEF Kept, Mine, When, HasHello, HasAnswer, HasText
<1> QED
  BY <1>1, <1>2 DEF IInv, Types, Shapes, Extent, NoMisuse, Handling, Handshaking, Deciding,
                    HasHello, HasAnswer, HasText

LEMMA StepIInv == IInv /\ [Next]_vars => IInv'
<1> SUFFICES ASSUME IInv, [Next]_vars PROVE IInv'
  OBVIOUS
<1>1. CASE read_record    BY <1>1, ReadRecordKeeps
<1>2. CASE ReadFails      BY <1>2, ReadFailsKeeps
<1>3. CASE HandlerReturns BY <1>3, HandlerReturnsKeeps
<1>4. CASE PassOver       BY <1>4, PassOverKeeps
<1>5. CASE parse_handshake      BY <1>5, ParseHandshakeKeeps
<1>6. CASE parse_client_hello   BY <1>6, ParseClientHelloKeeps
<1>7. CASE FindShare            BY <1>7, FindShareKeeps
<1>8. CASE BuildServerHello     BY <1>8, BuildServerHelloKeeps
<1>9. CASE SerialiseServerHello BY <1>9, SerialiseServerHelloKeeps
<1>10. CASE SendServerHello     BY <1>10, SendServerHelloKeeps
<1>11. CASE free_client_hello   BY <1>11, FreeClientHelloKeeps
<1>12. CASE send_null_EncryptedExtensions BY <1>12, EncryptedExtensionsKeeps
<1>13. CASE OutOfMemory         BY <1>13, OutOfMemoryKeeps
<1>14. CASE UNCHANGED vars      BY <1>14, StutterKeeps
<1> QED
  BY <1>1, <1>2, <1>3, <1>4, <1>5, <1>6, <1>7, <1>8, <1>9, <1>10, <1>11, <1>12, <1>13,
     <1>14 DEF Next, main_state_mech, Terminated

LEMMA InvariantHolds == Spec => []IInv
<1>1. Init => IInv
  BY InitIInv
<1>2. IInv /\ [Next]_vars => IInv'
  BY StepIInv
<1> QED
  BY <1>1, <1>2, PTL DEF Spec

\* No block is freed twice or read when it is not live, whatever records arrive
\* and however many extensions a ClientHello has.
THEOREM NothingMisused == Spec => []NoMisuse
<1>1. IInv => NoMisuse
  BY DEF IInv
<1> QED
  BY <1>1, InvariantHolds, PTL

\* Whenever the server reads again, the only blocks beyond those of the state are
\* the text of the extensions it sent and the extensions its length lost count of.
THEOREM LeaksAreKnown == Spec => []NothingElseLeaks
<1>1. IInv => NothingElseLeaks
  <2> SUFFICES ASSUME IInv, pc = "read" PROVE live = Kept
    BY DEF NothingElseLeaks, Kept
  <2>1. Mine = {}
    BY DEF Mine, When, HasHello, HasAnswer, HasText
  <2> QED
    BY <2>1 DEF IInv, Extent
<1> QED
  BY <1>1, InvariantHolds, PTL
=============================================================================
