--------------------------- MODULE MCComputations ---------------------------
(***************************************************************************)
(* An instance of the modules of functions that only compute, each run by  *)
(* itself: HelloExchange, LaterMessages, KeySeparation and KeyEncodings.   *)
(* The first state chooses one of them, and the others do not move.        *)
(***************************************************************************)
EXTENDS HelloExchange, LaterMessages, KeySeparation, KeyEncodings

CONSTANTS s1, s2, h1

VARIABLE running

Fill(n, b) == [i \in 1..n |-> b]
Bytes(n)   == [i \in 1..n |-> (7 * i) % 256]

-----------------------------------------------------------------------------
(* HelloExchange, with the real sizes: session ids of 0, 32 and 255 bytes, *)
(* cipher suites of 2 and 260 bytes, and every way to cut the message.     *)

MCHello ==
  {<< <<3, 3>>, Bytes(32), Bytes(s), Bytes(c), Bytes(m), Bytes(e) >> :
     s \in {0, 32, 255}, c \in {2, 260}, m \in {1}, e \in {8, 300}}

MCPublicKey == {Bytes(32), Fill(32, 0)}
MCRandom    == {Fill(32, 255)}

-----------------------------------------------------------------------------
(* LaterMessages: chains of up to two certificates of 1 to 300 bytes and   *)
(* one of more than 65536, so that each byte of a length of three is used; *)
(* signatures whose halves begin with any of the bytes that the padding    *)
(* and the form of an integer tell apart.                                  *)

MCExtensions ==
  {<< >>, <<Extension(10, Bytes(4))>>, <<Extension(10, Bytes(0)), Extension(0, Bytes(253))>>}

Entry == {[cert_data |-> Bytes(n), extensions |-> e] : n \in {1, 255, 300}, e \in MCExtensions}

MCChain == {<<a>> : a \in Entry} \cup {<<a, b>> : a \in Entry, b \in Entry}
             \cup {<<[cert_data |-> Bytes(65793), extensions |-> << >>]>>}

MCScalar == {<<a, b>> \o Bytes(30) : a \in {0, 1, 127, 128, 255}, b \in {0, 127, 128}}

MCContextString == Bytes(33)
MCHash          == Bytes(32)

-----------------------------------------------------------------------------
(* KeySeparation: besides ordinary values, a shared secret of zeros, which *)
(* is also the input of two extractions, and a transcript hash that is the *)
(* one of the empty transcript, which "derived" takes.                     *)

MCSharedSecret   == {s1, s2, Zero}
MCTranscriptHash == {h1, EmptyHash}

-----------------------------------------------------------------------------
(* KeyEncodings: labels of which one begins another, with contexts that    *)
(* could pass for what is missing and one as long as its length can say;   *)
(* nonces of three bytes of two bits over counters of two.                 *)

MCBase    == Fill(6, 116)
MCLabel   == {<<107>>, <<107, 2>>, <<107, 2, 1>>, <<107, 0, 0>>, Fill(249, 0)}
MCContext == {<< >>, <<0>>, <<1, 0>>, Fill(32, 0), Fill(255, 0)}

MCBits     == {1, 2}
MCBitBytes(n) == [1..n -> SUBSET MCBits]
MCIv       == {iv \in MCBitBytes(3) : iv[1] \subseteq iv[3]}
MCCounter  == MCBitBytes(2)

-----------------------------------------------------------------------------

HelloIdle ==
  /\ pc = "idle" /\ hello = << >> /\ record = << >> /\ body = << >> /\ iter = 0
  /\ fields = << >> /\ answer = << >> /\ arrays = << >>

LaterIdle ==
  /\ stage = "idle" /\ input = << >> /\ done = 0
  /\ signed = Array(0, << >>) /\ arr = Array(0, << >>)

Init ==
  /\ \/ running = "hello"     /\ HelloInit /\ LaterIdle
     \/ running = "later"     /\ HelloIdle /\ LaterInit
     \/ running \in {"schedule", "encodings"} /\ HelloIdle /\ LaterIdle
  /\ ScheduleInit /\ EncodingInit

Next ==
  /\ running' = running
  /\ \/ /\ running = "hello" /\ HelloNext
        /\ UNCHANGED <<laterVars, scheduleVars, encodingVars>>
     \/ /\ running = "later" /\ LaterNext
        /\ UNCHANGED <<helloVars, scheduleVars, encodingVars>>
     \/ /\ running = "schedule" /\ ScheduleNext
        /\ UNCHANGED <<helloVars, laterVars, encodingVars>>
     \/ /\ running = "encodings" /\ EncodingNext
        /\ UNCHANGED <<helloVars, laterVars, scheduleVars>>

Spec == Init /\ [][Next]_<<running, helloVars, laterVars, scheduleVars, encodingVars>>
=============================================================================
