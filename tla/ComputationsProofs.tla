------------------------- MODULE ComputationsProofs -------------------------
(***************************************************************************)
(* Theorems about the functions that only compute: that the key schedule   *)
(* separates its keys, that the bytes given to HKDF and to the cipher tell *)
(* calls apart, that the messages come through as they were sent, and that *)
(* the scan of a ClientHello finds the share that was offered.             *)
(***************************************************************************)
EXTENDS WireFormatProofs, KeySeparation, KeyEncodings, HelloExchange, LaterMessages,
        KeyShareScan

-----------------------------------------------------------------------------
(* KeySeparation.  What a user has called determines what it holds, and    *)
(* the other way round: from the outside in, each term gives away the      *)
(* function that made it and what it was made from.                        *)

Side    == HandshakeTraffic \cup ApplicationTraffic
Purpose == {"key", "iv", "finished"}

SideLabel(x) ==
  CASE x = "c hs" -> "c hs traffic" [] x = "s hs" -> "s hs traffic"
    [] x = "c ap" -> "c ap traffic" [] x = "s ap" -> "s ap traffic"

Length(n) == IF n = "iv" THEN NONCE_LENGTH ELSE SECRET_LENGTH

-----------------------------------------------------------------------------
(* The terms, one layer at a time.                                         *)

Master(s) == process_master_secret(process_handshake_secret(s))

Root(x, s) == IF x \in HandshakeTraffic THEN process_handshake_secret(s) ELSE Master(s)

Traffic(x, s, h) == HKDF_Expand_Label(Root(x, s), SideLabel(x), h, SECRET_LENGTH)

Purposed(n, p) == HKDF_Expand_Label(p, n, << >>, Length(n))

\* HKDF_Expand_Label and HKDF_Extract are free: they give away their arguments.
LEMMA ExpandFree ==
  ASSUME NEW a, NEW b, NEW c, NEW d, NEW a2, NEW b2, NEW c2, NEW d2,
         HKDF_Expand_Label(a, b, c, d) = HKDF_Expand_Label(a2, b2, c2, d2)
  PROVE  a = a2 /\ b = b2 /\ c = c2 /\ d = d2
BY DEF HKDF_Expand_Label

LEMMA ExtractFree ==
  ASSUME NEW a, NEW b, NEW a2, NEW b2, HKDF_Extract(a, b) = HKDF_Extract(a2, b2)
  PROVE  a = a2 /\ b = b2
BY DEF HKDF_Extract

\* The first component of a term names the function.
LEMMA Constructors ==
  /\ \A a, b : HKDF_Extract(a, b)[1] = "extract"
  /\ \A a, b, c, d : /\ HKDF_Expand_Label(a, b, c, d)[1] = "expand"
                     /\ HKDF_Expand_Label(a, b, c, d)[3] = b
  /\ \A a, b : HMAC(a, b)[1] = "hmac"
  /\ Uninitialised[1] = "uninitialised" /\ Zero[1] = "zero"
BY DEF HKDF_Extract, HKDF_Expand_Label, HMAC, Uninitialised, Zero

\* Two handshake secrets are equal only for one shared secret.
LEMMA HandshakeFree ==
  ASSUME NEW s, NEW t, process_handshake_secret(s) = process_handshake_secret(t)
  PROVE  s = t
BY ExtractFree DEF process_handshake_secret

\* The same for two master secrets.
LEMMA MasterFree ==
  ASSUME NEW s, NEW t, Master(s) = Master(t)
  PROVE  s = t
BY ExtractFree, ExpandFree, HandshakeFree DEF Master, process_master_secret

\* No handshake secret is a master secret: their salts were derived from different
\* secrets, whatever the shared secret is.
LEMMA HandshakeIsNotMaster ==
  ASSUME NEW s, NEW t
  PROVE  process_handshake_secret(s) # Master(t)
<1> SUFFICES ASSUME process_handshake_secret(s) = Master(t)
             PROVE  FALSE
  OBVIOUS
<1>1. process_base_derived_secret =
        HKDF_Expand_Label(process_handshake_secret(t), "derived", EmptyHash, SECRET_LENGTH)
  BY ExtractFree DEF process_handshake_secret, Master, process_master_secret
<1>2. HKDF_Extract(Zero, Zero) = process_handshake_secret(t)
  BY <1>1, ExpandFree DEF process_base_derived_secret
<1>3. Zero = process_base_derived_secret
  BY <1>2, ExtractFree DEF process_handshake_secret
<1> QED
  BY <1>3, Constructors DEF process_base_derived_secret

\* A traffic secret gives away its side, its shared secret and its hash.
LEMMA TrafficFree ==
  ASSUME NEW x \in Side, NEW y \in Side, NEW s, NEW t, NEW h, NEW g,
         Traffic(x, s, h) = Traffic(y, t, g)
  PROVE  x = y /\ s = t /\ h = g
<1>1. Root(x, s) = Root(y, t) /\ SideLabel(x) = SideLabel(y) /\ h = g
  BY ExpandFree DEF Traffic
<1>2. x = y
  BY <1>1 DEF SideLabel, Side, HandshakeTraffic, ApplicationTraffic
<1>3. s = t
  BY <1>1, <1>2, HandshakeFree, MasterFree DEF Root
<1> QED
  BY <1>1, <1>2, <1>3

\* A key, iv or finished key gives away what it is and the secret it is from.
LEMMA PurposedFree ==
  ASSUME NEW n, NEW m, NEW p, NEW q, Purposed(n, p) = Purposed(m, q)
  PROVE  n = m /\ p = q
BY ExpandFree DEF Purposed

-----------------------------------------------------------------------------
(* What a user can hold, with the calls that led there.                    *)

ToMaster(s) == Append(<<<<"handshake", s>>>>, <<"master", "none">>)

ToTraffic(x, s, h) ==
  IF x \in HandshakeTraffic
    THEN <<<<x, <<s, h>>>>>>
    ELSE Append(ToMaster(s), <<x, h>>)

IsNothing(cs, o) == cs = << >> /\ o = Uninitialised

IsHandshake(cs, o) ==
  \E s \in SharedSecret : cs = <<<<"handshake", s>>>> /\ o = process_handshake_secret(s)

IsMaster(cs, o) ==
  \E s \in SharedSecret : cs = ToMaster(s) /\ o = Master(s)

IsTraffic(cs, o) ==
  \E x \in Side, s \in SharedSecret, h \in TranscriptHash :
    cs = ToTraffic(x, s, h) /\ o = Traffic(x, s, h)

IsPurposed(cs, o) ==
  \E n \in Purpose, x \in Side, s \in SharedSecret, h \in TranscriptHash :
    /\ cs = Append(ToTraffic(x, s, h), <<n, "none">>)
    /\ o = Purposed(n, Traffic(x, s, h))

IsVerify(cs, o) ==
  \E x \in Side, s \in SharedSecret, h \in TranscriptHash, g \in TranscriptHash :
    /\ cs = Append(Append(ToTraffic(x, s, h), <<"finished", "none">>), <<"verify", g>>)
    /\ o = HMAC(Purposed("finished", Traffic(x, s, h)), g)

Reached(cs, o) ==
  \/ IsNothing(cs, o) \/ IsHandshake(cs, o) \/ IsMaster(cs, o)
  \/ IsTraffic(cs, o) \/ IsPurposed(cs, o) \/ IsVerify(cs, o)

\* The invariant: each user holds what its calls lead to.
ScheduleInv ==
  /\ calls = [u \in User |-> calls[u]] /\ out = [u \in User |-> out[u]]
  /\ \A u \in User : Reached(calls[u], out[u])

\* What is held gives away the calls.
LEMMA ReachedOnce ==
  ASSUME NEW cs, NEW ds, NEW o, Reached(cs, o), Reached(ds, o)
  PROVE  cs = ds
<1> DEFINE Tagged(t) == o[1] = t
<1>1. IsNothing(cs, o) \/ IsNothing(ds, o) => Tagged("uninitialised")
  BY Constructors DEF IsNothing
<1>2. IsHandshake(cs, o) \/ IsHandshake(ds, o) => Tagged("extract")
  BY Constructors DEF IsHandshake, process_handshake_secret
<1>3. IsMaster(cs, o) \/ IsMaster(ds, o) => Tagged("extract")
  BY Constructors DEF IsMaster, Master, process_master_secret
<1>4. IsTraffic(cs, o) \/ IsTraffic(ds, o) =>
        /\ Tagged("expand")
        /\ o[3] \in {"c hs traffic", "s hs traffic", "c ap traffic", "s ap traffic"}
  <2>1. \A x \in Side :
          SideLabel(x) \in {"c hs traffic", "s hs traffic", "c ap traffic", "s ap traffic"}
    BY DEF SideLabel, Side, HandshakeTraffic, ApplicationTraffic
  <2>2. ASSUME NEW es, IsTraffic(es, o)
        PROVE  \E x \in Side : Tagged("expand") /\ o[3] = SideLabel(x)
    <3>1. PICK x \in Side, s \in SharedSecret, h \in TranscriptHash : o = Traffic(x, s, h)
      BY <2>2 DEF IsTraffic
    <3>2. o[1] = "expand" /\ o[3] = SideLabel(x)
      BY <3>1, Constructors DEF Traffic
    <3> QED
      BY <3>2
  <2> HIDE DEF Tagged
  <2> QED
    BY <2>1, <2>2
<1>5. IsPurposed(cs, o) \/ IsPurposed(ds, o) => Tagged("expand") /\ o[3] \in Purpose
  BY Constructors DEF IsPurposed, Purposed
<1>6. IsVerify(cs, o) \/ IsVerify(ds, o) => Tagged("hmac")
  BY Constructors DEF IsVerify
<1>7. CASE IsNothing(cs, o) /\ IsNothing(ds, o)
  BY <1>7 DEF IsNothing
<1>8. CASE IsHandshake(cs, o) /\ IsHandshake(ds, o)
  BY <1>8, HandshakeFree DEF IsHandshake
<1>9. CASE IsMaster(cs, o) /\ IsMaster(ds, o)
  BY <1>9, MasterFree DEF IsMaster
<1>10. CASE IsTraffic(cs, o) /\ IsTraffic(ds, o)
  <2>1. PICK x \in Side, s \in SharedSecret, h \in TranscriptHash :
          cs = ToTraffic(x, s, h) /\ o = Traffic(x, s, h)
    BY <1>10 DEF IsTraffic
  <2>2. PICK y \in Side, t \in SharedSecret, g \in TranscriptHash :
          ds = ToTraffic(y, t, g) /\ o = Traffic(y, t, g)
    BY <1>10 DEF IsTraffic
  <2>3. Traffic(x, s, h) = Traffic(y, t, g)
    BY <2>1, <2>2
  <2>4. x = y /\ s = t /\ h = g
    BY <2>3, TrafficFree
  <2> QED
    BY <2>1, <2>2, <2>4
<1>11. CASE IsPurposed(cs, o) /\ IsPurposed(ds, o)
  <2>1. PICK n \in Purpose, x \in Side, s \in SharedSecret, h \in TranscriptHash :
          /\ cs = Append(ToTraffic(x, s, h), <<n, "none">>)
          /\ o = Purposed(n, Traffic(x, s, h))
    BY <1>11 DEF IsPurposed
  <2>2. PICK m \in Purpose, y \in Side, t \in SharedSecret, g \in TranscriptHash :
          /\ ds = Append(ToTraffic(y, t, g), <<m, "none">>)
          /\ o = Purposed(m, Traffic(y, t, g))
    BY <1>11 DEF IsPurposed
  <2>3. Purposed(n, Traffic(x, s, h)) = Purposed(m, Traffic(y, t, g))
    BY <2>1, <2>2
  <2>4. n = m /\ Traffic(x, s, h) = Traffic(y, t, g)
    BY <2>3, PurposedFree
  <2>5. x = y /\ s = t /\ h = g
    BY <2>4, TrafficFree
  <2> QED
    BY <2>1, <2>2, <2>4, <2>5
<1>12. CASE IsVerify(cs, o) /\ IsVerify(ds, o)
  <2>1. PICK x \in Side, s \in SharedSecret, h \in TranscriptHash, v \in TranscriptHash :
          /\ cs = Append(Append(ToTraffic(x, s, h), <<"finished", "none">>), <<"verify", v>>)
          /\ o = HMAC(Purposed("finished", Traffic(x, s, h)), v)
    BY <1>12 DEF IsVerify
  <2>2. PICK y \in Side, t \in SharedSecret, g \in TranscriptHash, w \in TranscriptHash :
          /\ ds = Append(Append(ToTraffic(y, t, g), <<"finished", "none">>), <<"verify", w>>)
          /\ o = HMAC(Purposed("finished", Traffic(y, t, g)), w)
    BY <1>12 DEF IsVerify
  <2>3. v = w /\ Purposed("finished", Traffic(x, s, h)) = Purposed("finished", Traffic(y, t, g))
    BY <2>1, <2>2 DEF HMAC
  <2>4. Traffic(x, s, h) = Traffic(y, t, g)
    BY <2>3, PurposedFree
  <2>5. x = y /\ s = t /\ h = g
    BY <2>4, TrafficFree
  <2> QED
    BY <2>1, <2>2, <2>3, <2>5
<1>13. ~ (IsHandshake(cs, o) /\ IsMaster(ds, o)) /\ ~ (IsMaster(cs, o) /\ IsHandshake(ds, o))
  BY HandshakeIsNotMaster DEF IsHandshake, IsMaster
<1> HIDE DEF Tagged
<1>14. \A t, t2 : Tagged(t) /\ Tagged(t2) => t = t2
  BY DEF Tagged
<1> QED
  BY <1>1, <1>2, <1>3, <1>4, <1>5, <1>6, <1>7, <1>8, <1>9, <1>10, <1>11, <1>12, <1>13,
     <1>14 DEF Reached, Purpose

-----------------------------------------------------------------------------
(* The invariant is kept.                                                  *)

\* Only user u has moved, to what the name, the given and the result say.
LEMMA OneCall ==
  ASSUME ScheduleInv, NEW u \in User, NEW name, NEW given, NEW result,
         Call(u, name, given, result),
         Reached(Append(calls[u], <<name, given>>), result)
  PROVE  ScheduleInv'
<1>1. calls' = [calls EXCEPT ![u] = Append(@, <<name, given>>)]
      /\ out' = [out EXCEPT ![u] = result]
  BY DEF Call
<1>2. calls'[u] = Append(calls[u], <<name, given>>) /\ out'[u] = result
  BY <1>1 DEF ScheduleInv
<1>3. \A v \in User : v # u => calls'[v] = calls[v] /\ out'[v] = out[v]
  BY <1>1 DEF ScheduleInv
<1>4. calls' = [v \in User |-> calls'[v]] /\ out' = [v \in User |-> out'[v]]
  BY <1>1 DEF ScheduleInv
<1> QED
  BY <1>2, <1>3, <1>4 DEF ScheduleInv

\* The calls of a user that holds a secret of one of these names.
LEMMA LastCall ==
  ASSUME NEW cs, NEW o, Reached(cs, o), cs # << >>
  PROVE  /\ cs[Len(cs)][1] = "handshake" => IsHandshake(cs, o)
         /\ cs[Len(cs)][1] = "master" => IsMaster(cs, o)
         /\ cs[Len(cs)][1] \in Side => IsTraffic(cs, o)
         /\ cs[Len(cs)][1] = "finished" => IsPurposed(cs, o)
<1> DEFINE name == cs[Len(cs)][1]
<1>1. IsHandshake(cs, o) => name = "handshake"
  BY DEF IsHandshake
<1>2. IsMaster(cs, o) => name = "master"
  BY DEF IsMaster, ToMaster
<1>3. IsTraffic(cs, o) => name \in Side
  BY DEF IsTraffic, ToTraffic, ToMaster
<1>4. IsPurposed(cs, o) => name \in Purpose
  BY DEF IsPurposed, ToTraffic, ToMaster
<1>5. IsVerify(cs, o) => name = "verify"
  BY DEF IsVerify, ToTraffic, ToMaster
<1> HIDE DEF name
<1> QED
  BY <1>1, <1>2, <1>3, <1>4, <1>5
     DEF Reached, IsNothing, Side, HandshakeTraffic, ApplicationTraffic, Purpose, name

\* The first call.
LEMMA AppendedToNone ==
  ASSUME NEW a
  PROVE  Append(<< >>, a) = <<a>>
OBVIOUS

\* One lemma for each function: the user now holds what the function returns.
LEMMA HandshakeSecretKeeps ==
  ASSUME ScheduleInv, NEW u \in User, HandshakeSecret(u)
  PROVE  ScheduleInv'
<1>1. PICK s \in SharedSecret : Call(u, "handshake", s, process_handshake_secret(s))
  BY DEF HandshakeSecret
<1>2. Append(calls[u], <<"handshake", s>>) = <<<<"handshake", s>>>>
  BY DEF HandshakeSecret
<1>3. IsHandshake(<<<<"handshake", s>>>>, process_handshake_secret(s))
  BY DEF IsHandshake
<1> QED
  BY <1>1, <1>2, <1>3, OneCall DEF Reached

LEMMA HandshakeTrafficSecretKeeps ==
  ASSUME ScheduleInv, NEW u \in User, HandshakeTrafficSecret(u)
  PROVE  ScheduleInv'
<1>1. PICK x \in HandshakeTraffic, s \in SharedSecret, h \in TranscriptHash :
        Call(u, x, <<s, h>>, Traffic(x, s, h))
  BY DEF HandshakeTrafficSecret, HandshakeTraffic, Traffic, Root, SideLabel,
         process_client_handshake_traffic_secret, process_server_handshake_traffic_secret
<1>2. Append(calls[u], <<x, <<s, h>>>>) = ToTraffic(x, s, h)
  <2>1. calls[u] = << >>
    BY DEF HandshakeTrafficSecret
  <2>2. ToTraffic(x, s, h) = <<<<x, <<s, h>>>>>>
    BY DEF ToTraffic
  <2> QED
    BY <2>1, <2>2, AppendedToNone
<1>3. IsTraffic(ToTraffic(x, s, h), Traffic(x, s, h))
  BY DEF IsTraffic, Side
<1> QED
  BY <1>1, <1>2, <1>3, OneCall DEF Reached

LEMMA MasterSecretKeeps ==
  ASSUME ScheduleInv, NEW u \in User, MasterSecret(u)
  PROVE  ScheduleInv'
<1>1. IsHandshake(calls[u], out[u])
  BY LastCall DEF ScheduleInv, MasterSecret, Holds
<1>2. PICK s \in SharedSecret :
        calls[u] = <<<<"handshake", s>>>> /\ out[u] = process_handshake_secret(s)
  BY <1>1 DEF IsHandshake
<1>3. Call(u, "master", "none", Master(s))
  BY <1>2 DEF MasterSecret, Master
<1>4. Append(calls[u], <<"master", "none">>) = ToMaster(s)
  BY <1>2 DEF ToMaster
<1>5. IsMaster(ToMaster(s), Master(s))
  BY DEF IsMaster
<1> QED
  BY <1>3, <1>4, <1>5, OneCall DEF Reached

LEMMA ApplicationTrafficSecretKeeps ==
  ASSUME ScheduleInv, NEW u \in User, ApplicationTrafficSecret(u)
  PROVE  ScheduleInv'
<1>1. IsMaster(calls[u], out[u])
  BY LastCall DEF ScheduleInv, ApplicationTrafficSecret, Holds
<1>2. PICK s \in SharedSecret : calls[u] = ToMaster(s) /\ out[u] = Master(s)
  BY <1>1 DEF IsMaster
<1>3. PICK x \in ApplicationTraffic, h \in TranscriptHash :
        Call(u, x, h, HKDF_Expand_Label(Master(s), SideLabel(x), h, SECRET_LENGTH))
  BY <1>2 DEF ApplicationTrafficSecret, ApplicationTraffic, SideLabel,
              process_client_application_traffic_secret_0,
              process_server_application_traffic_secret_0
<1>4. x \notin HandshakeTraffic
  BY DEF HandshakeTraffic, ApplicationTraffic
<1>5. Call(u, x, h, Traffic(x, s, h))
  BY <1>3, <1>4 DEF Traffic, Root
<1>6. Append(calls[u], <<x, h>>) = ToTraffic(x, s, h)
  BY <1>2, <1>4 DEF ToTraffic
<1>7. IsTraffic(ToTraffic(x, s, h), Traffic(x, s, h))
  BY DEF IsTraffic, Side
<1> QED
  BY <1>5, <1>6, <1>7, OneCall DEF Reached

LEMMA FromTrafficSecretKeeps ==
  ASSUME ScheduleInv, NEW u \in User, FromTrafficSecret(u)
  PROVE  ScheduleInv'
<1>1. IsTraffic(calls[u], out[u])
  BY LastCall DEF ScheduleInv, FromTrafficSecret, Holds, Side
<1>2. PICK x \in Side, s \in SharedSecret, h \in TranscriptHash :
        calls[u] = ToTraffic(x, s, h) /\ out[u] = Traffic(x, s, h)
  BY <1>1 DEF IsTraffic
<1>3. PICK n \in Purpose : Call(u, n, "none", Purposed(n, out[u]))
  BY DEF FromTrafficSecret, Purpose, Purposed, Length, generate_write_key,
         generate_write_iv, generate_finished_key
<1>4. IsPurposed(Append(calls[u], <<n, "none">>), Purposed(n, out[u]))
  BY <1>2 DEF IsPurposed
<1> QED
  BY <1>3, <1>4, OneCall DEF Reached

LEMMA VerifyDataKeeps ==
  ASSUME ScheduleInv, NEW u \in User, VerifyData(u)
  PROVE  ScheduleInv'
<1>1. IsPurposed(calls[u], out[u]) /\ calls[u][Len(calls[u])][1] = "finished"
  BY LastCall DEF ScheduleInv, VerifyData, Holds
<1>2. PICK n \in Purpose, x \in Side, s \in SharedSecret, h \in TranscriptHash :
        /\ calls[u] = Append(ToTraffic(x, s, h), <<n, "none">>)
        /\ out[u] = Purposed(n, Traffic(x, s, h))
  BY <1>1 DEF IsPurposed
<1>3. n = "finished"
  BY <1>1, <1>2 DEF ToTraffic, ToMaster
<1>4. PICK g \in TranscriptHash : Call(u, "verify", g, HMAC(out[u], g))
  BY DEF VerifyData, process_verify_data
<1>5. IsVerify(Append(calls[u], <<"verify", g>>), HMAC(out[u], g))
  BY <1>2, <1>3 DEF IsVerify
<1> QED
  BY <1>4, <1>5, OneCall DEF Reached

-----------------------------------------------------------------------------

\* No two ways through the key schedule lead to the same bytes, for any shared
\* secrets and transcript hashes, equal to other inputs of the schedule or not.
THEOREM KeysStaySeparate == ScheduleSpec => []KeysSeparate
<1>1. ScheduleInit => ScheduleInv
  BY DEF ScheduleInit, ScheduleInv, Reached, IsNothing
<1>2. ScheduleInv /\ [ScheduleNext]_scheduleVars => ScheduleInv'
  <2> SUFFICES ASSUME ScheduleInv, [ScheduleNext]_scheduleVars
               PROVE  ScheduleInv'
    OBVIOUS
  <2>1. CASE ScheduleTerminated \/ UNCHANGED scheduleVars
    BY <2>1 DEF ScheduleTerminated, scheduleVars, ScheduleInv
  <2> QED
    BY <2>1, HandshakeSecretKeeps, HandshakeTrafficSecretKeeps, MasterSecretKeeps,
       ApplicationTrafficSecretKeeps, FromTrafficSecretKeeps, VerifyDataKeeps DEF ScheduleNext
<1>3. ScheduleInv => KeysSeparate
  <2>1. 1 \in User /\ 2 \in User
    BY DEF User
  <2> QED
    BY <2>1, ReachedOnce DEF ScheduleInv, KeysSeparate
<1> QED
  BY <1>1, <1>2, <1>3, PTL DEF ScheduleSpec

-----------------------------------------------------------------------------
(* KeyEncodings: every call has bytes of its own, within the widths the    *)
(* code has.                                                               *)

\* A uint16_t is its two bytes.
LEMMA TwoBytesTell ==
  ASSUME NEW m \in Uint16, NEW n \in Uint16,
         m \div 256 = n \div 256, m % 256 = n % 256
  PROVE  m = n
<1>1. m \in Int /\ n \in Int
  BY DEF Uint16
<1>2. m = 256 * (m \div 256) + (m % 256)
  BY <1>1
<1>3. n = 256 * (n \div 256) + (n % 256)
  BY <1>1
<1> QED
  BY <1>2, <1>3

\* The widths that the assumption gives to a call.
LEMMA Widths ==
  ASSUME NEW l \in Label, NEW c \in Context, NEW n \in OutLength
  PROVE  /\ l \in Seq(Byte) /\ Len(l) \in Nat /\ Len(l) <= 249
         /\ c \in Seq(Byte) /\ Len(c) \in Nat /\ Len(c) <= 255
         /\ Base \in Seq(Byte) /\ Len(Base) = 6 /\ n \in Uint16
<1>1. l \in Seq(Byte) /\ c \in Seq(Byte) /\ n \in Uint16
  BY LabelAssumption
<1>2. Len(l) \in Nat /\ Len(c) \in Nat
  BY <1>1
<1>3. Len(l) <= 249 /\ Len(c) <= 255
  BY LabelAssumption
<1> QED
  BY <1>1, <1>2, <1>3, LabelAssumption

\* Numbers that fit a byte.
LEMMA FitsByte ==
  /\ \A k \in Nat : k <= 255 => k \in Byte /\ k % 256 = k
  /\ \A k \in Nat : k <= 249 => 6 + k \in Nat /\ 6 + k <= 255
  /\ \A k \in Uint16 : k \div 256 \in Byte /\ k % 256 \in Byte
<1>1. ASSUME NEW k \in Nat, k <= 255
      PROVE  k \in Byte /\ k % 256 = k
  BY <1>1 DEF Byte
<1>2. ASSUME NEW k \in Nat, k <= 249
      PROVE  6 + k \in Nat /\ 6 + k <= 255
  BY <1>2
<1>3. ASSUME NEW k \in Uint16
      PROVE  k \div 256 \in Byte /\ k % 256 \in Byte
  <2>1. k \in Int /\ 0 <= k /\ k <= 65535
    BY DEF Uint16
  <2>2. k \div 256 \in Int /\ 0 <= k \div 256 /\ k \div 256 <= 255
    BY <2>1
  <2>3. k % 256 \in Int /\ 0 <= k % 256 /\ k % 256 <= 255
    BY <2>1
  <2> QED
    BY <2>2, <2>3 DEF Byte
<1> QED
  BY <1>1, <1>2, <1>3

\* Where everything is in the info b of a call, if the lengths fit their bytes.
Layout(b, l, c, n) ==
  /\ b \in Seq(Byte)
  /\ Len(b) = 10 + Len(l) + Len(c)
  /\ b[1] = n \div 256 /\ b[2] = n % 256
  /\ b[3] = 6 + Len(l)
  /\ \A i \in 1..Len(l) : b[9 + i] = l[i]
  /\ b[10 + Len(l)] = Len(c)
  /\ \A i \in 1..Len(c) : b[10 + Len(l) + i] = c[i]

\* The info of a call has that layout.
LEMMA InfoLayout ==
  ASSUME NEW l \in Label, NEW c \in Context, NEW n \in OutLength
  PROVE  Layout(Info(l, c, n).bytes, l, c, n)
<1> DEFINE head == <<n \div 256, n % 256>> \o <<6 + Len(l)>>
           upto == (head \o Base) \o l
           all  == upto \o <<Len(c)>>
           b    == Info(l, c, n).bytes
<1> HIDE DEF head, upto, all, b
<1>1. /\ l \in Seq(Byte) /\ Len(l) \in Nat /\ Len(l) <= 249
      /\ c \in Seq(Byte) /\ Len(c) \in Nat /\ Len(c) <= 255
      /\ Base \in Seq(Byte) /\ Len(Base) = 6 /\ n \in Uint16
  BY Widths
<1>2. LabelLength(l) = 6 + Len(l) /\ 6 + Len(l) \in Byte
  <2>1. Len(l) \in Nat /\ Len(l) <= 249
    BY <1>1
  <2>2. 6 + Len(l) \in Nat /\ 6 + Len(l) <= 255
    BY <2>1, FitsByte
  <2> QED  BY <2>2, FitsByte DEF LabelLength
<1>3. n \div 256 \in Byte /\ n % 256 \in Byte
  <2>1. n \in Uint16
    BY <1>1
  <2> QED  BY <2>1, FitsByte
<1>4. Len(c) \in Byte
  <2>1. Len(c) \in Nat /\ Len(c) <= 255
    BY <1>1
  <2> QED  BY <2>1, FitsByte
<1>5. b = all \o c
  <2>1. write_uint16(n) = <<n \div 256, n % 256>>
    BY <1>1, HighByteFirst
  <2> QED  BY <1>2, <2>1 DEF Info, Array, all, upto, head, b
<1>6. /\ head \in Seq(Byte) /\ Len(head) = 3
      /\ head[1] = n \div 256 /\ head[2] = n % 256 /\ head[3] = 6 + Len(l)
  BY <1>2, <1>3 DEF head
<1>7. ASSUME NEW p \in Seq(Byte), NEW q \in Seq(Byte)
      PROVE  /\ p \o q \in Seq(Byte) /\ Len(p \o q) = Len(p) + Len(q)
             /\ \A i \in 1..Len(p) : (p \o q)[i] = p[i]
             /\ \A i \in 1..Len(q) : (p \o q)[Len(p) + i] = q[i]
  BY Concat
<1>8. /\ head \o Base \in Seq(Byte) /\ Len(head \o Base) = 9
      /\ \A i \in 1..3 : (head \o Base)[i] = head[i]
  <2>1. Base \in Seq(Byte) /\ Len(Base) = 6 /\ head \in Seq(Byte) /\ Len(head) = 3
    BY <1>1, <1>6
  <2>2. /\ head \o Base \in Seq(Byte) /\ Len(head \o Base) = Len(head) + Len(Base)
        /\ \A i \in 1..Len(head) : (head \o Base)[i] = head[i]
    BY <2>1, <1>7
  <2> QED  BY <2>1, <2>2
<1>9. /\ upto \in Seq(Byte) /\ Len(upto) = 9 + Len(l)
      /\ \A i \in 1..9 : upto[i] = (head \o Base)[i]
      /\ \A i \in 1..Len(l) : upto[9 + i] = l[i]
  <2>1. l \in Seq(Byte) /\ head \o Base \in Seq(Byte) /\ Len(head \o Base) = 9
    BY <1>1, <1>8
  <2>2. /\ upto \in Seq(Byte) /\ Len(upto) = Len(head \o Base) + Len(l)
        /\ \A i \in 1..Len(head \o Base) : upto[i] = (head \o Base)[i]
        /\ \A i \in 1..Len(l) : upto[Len(head \o Base) + i] = l[i]
    BY <2>1, <1>7 DEF upto
  <2> QED  BY <2>1, <2>2
<1>10. /\ all \in Seq(Byte) /\ Len(all) = 10 + Len(l)
       /\ \A i \in 1..(9 + Len(l)) : all[i] = upto[i]
       /\ all[10 + Len(l)] = Len(c)
  <2>1. Len(l) \in Nat /\ upto \in Seq(Byte) /\ Len(upto) = 9 + Len(l)
    BY <1>1, <1>9
  <2>2. <<Len(c)>> \in Seq(Byte) /\ Len(<<Len(c)>>) = 1 /\ <<Len(c)>>[1] = Len(c)
    BY <1>4
  <2>3. /\ all \in Seq(Byte) /\ Len(all) = Len(upto) + 1
        /\ \A i \in 1..Len(upto) : all[i] = upto[i]
        /\ \A i \in 1..1 : all[Len(upto) + i] = <<Len(c)>>[i]
    <3> HIDE DEF all
    <3> QED  BY <2>1, <2>2, <1>7 DEF all
  <2> QED  BY <2>1, <2>2, <2>3
<1>11. /\ b \in Seq(Byte) /\ Len(b) = 10 + Len(l) + Len(c)
       /\ \A i \in 1..(10 + Len(l)) : b[i] = all[i]
       /\ \A i \in 1..Len(c) : b[10 + Len(l) + i] = c[i]
  <2>1. c \in Seq(Byte) /\ all \in Seq(Byte) /\ Len(all) = 10 + Len(l)
    BY <1>1, <1>10
  <2>2. /\ all \o c \in Seq(Byte) /\ Len(all \o c) = Len(all) + Len(c)
        /\ \A i \in 1..Len(all) : (all \o c)[i] = all[i]
        /\ \A i \in 1..Len(c) : (all \o c)[Len(all) + i] = c[i]
    BY <2>1, <1>7
  <2> QED  BY <2>1, <2>2, <1>5
<1>12. b[1] = head[1] /\ b[2] = head[2] /\ b[3] = head[3]
  <2>1. ASSUME NEW i \in 1..3
        PROVE  b[i] = head[i]
    <3>1. i \in 1..9 /\ i \in 1..(9 + Len(l)) /\ i \in 1..(10 + Len(l))
      BY <1>1
    <3>2. (head \o Base)[i] = head[i] /\ upto[i] = (head \o Base)[i]
      BY <3>1, <1>8, <1>9
    <3>3. all[i] = upto[i] /\ b[i] = all[i]
      BY <3>1, <1>10, <1>11
    <3> QED  BY <3>2, <3>3
  <2> QED  BY <2>1
<1>13. \A i \in 1..Len(l) : b[9 + i] = l[i]
  <2> TAKE i \in 1..Len(l)
  <2>1. 9 + i \in 1..(9 + Len(l)) /\ 9 + i \in 1..(10 + Len(l))
    BY <1>1
  <2> QED  BY <2>1, <1>9, <1>10, <1>11
<1>14. b[10 + Len(l)] = Len(c)
  <2>1. 10 + Len(l) \in 1..(10 + Len(l))
    BY <1>1
  <2> QED  BY <2>1, <1>10, <1>11
<1> QED
  BY <1>6, <1>11, <1>12, <1>13, <1>14 DEF Layout, b

\* Two calls with the same bytes had the same arguments.
LEMMA InfoInjective ==
  ASSUME NEW l \in Label, NEW c \in Context, NEW n \in OutLength,
         NEW l2 \in Label, NEW c2 \in Context, NEW n2 \in OutLength,
         Info(l, c, n).bytes = Info(l2, c2, n2).bytes
  PROVE  l = l2 /\ c = c2 /\ n = n2
<1> DEFINE b == Info(l, c, n).bytes
<1> HIDE DEF b
<1>0. Layout(b, l, c, n) /\ Layout(b, l2, c2, n2)
  BY InfoLayout DEF b
<1>1. /\ Len(b) = 10 + Len(l) + Len(c)
      /\ b[1] = n \div 256 /\ b[2] = n % 256 /\ b[3] = 6 + Len(l)
      /\ \A i \in 1..Len(l) : b[9 + i] = l[i]
      /\ b[10 + Len(l)] = Len(c)
      /\ \A i \in 1..Len(c) : b[10 + Len(l) + i] = c[i]
  BY <1>0 DEF Layout
<1>2. /\ Len(b) = 10 + Len(l2) + Len(c2)
      /\ b[1] = n2 \div 256 /\ b[2] = n2 % 256 /\ b[3] = 6 + Len(l2)
      /\ \A i \in 1..Len(l2) : b[9 + i] = l2[i]
      /\ b[10 + Len(l2)] = Len(c2)
      /\ \A i \in 1..Len(c2) : b[10 + Len(l2) + i] = c2[i]
  BY <1>0 DEF Layout
<1>3. /\ l \in Seq(Byte) /\ l2 \in Seq(Byte) /\ c \in Seq(Byte) /\ c2 \in Seq(Byte)
      /\ Len(l) \in Nat /\ Len(l2) \in Nat
      /\ n \in Uint16 /\ n2 \in Uint16
  BY Widths
<1>4. n = n2
  BY <1>1, <1>2, <1>3, TwoBytesTell
<1>5. Len(l) = Len(l2)
  BY <1>1, <1>2, <1>3
<1>6. Len(c) = Len(c2)
  BY <1>1, <1>2, <1>5
<1>7. \A i \in 1..Len(l) : l[i] = l2[i]
  BY <1>1, <1>2, <1>5
<1>8. \A i \in 1..Len(c) : c[i] = c2[i]
  BY <1>1, <1>2, <1>5, <1>6
<1>9. l = l2
  BY <1>3, <1>5, <1>7
<1>10. c = c2
  BY <1>3, <1>6, <1>8
<1> QED
  BY <1>4, <1>9, <1>10

\* Two counters that give one nonce under one iv are one counter.
LEMMA NonceInjective ==
  ASSUME NEW iv \in Iv, NEW m \in Counter, NEW n \in Counter,
         Nonce(iv, m) = Nonce(iv, n)
  PROVE  m = n
<1>1. /\ NonceLength \in Nat /\ CounterLength \in Nat /\ CounterLength <= NonceLength
      /\ m \in [1..CounterLength -> SUBSET Bits] /\ n \in [1..CounterLength -> SUBSET Bits]
  BY NonceAssumption
<1>2. ASSUME NEW i \in 1..CounterLength
      PROVE  m[i] = n[i]
  <2> DEFINE j == i + (NonceLength - CounterLength)
  <2>1. j \in 1..NonceLength /\ j > NonceLength - CounterLength
        /\ j - (NonceLength - CounterLength) = i
    BY <1>1
  <2> HIDE DEF j
  <2>2. Padded(m)[j] = m[i] /\ Padded(n)[j] = n[i]
    BY <2>1 DEF Padded
  <2>3. Nonce(iv, m)[j] = xor(m[i], iv[j]) /\ Nonce(iv, n)[j] = xor(n[i], iv[j])
    BY <2>1, <2>2 DEF Nonce
  <2>4. xor(m[i], iv[j]) = xor(n[i], iv[j])
    BY <2>3
  <2> QED
    BY <2>4 DEF xor
<1> QED
  BY <1>1, <1>2

-----------------------------------------------------------------------------

\* What was computed is what the functions give for the arguments kept with it.
AsCalled ==
  /\ \A x \in expanded : \E l \in Label, c \in Context, n \in OutLength :
       x = [label |-> l, context |-> c, length |-> n, buf |-> Info(l, c, n)]
  /\ \A x \in nonces : \E iv \in Iv, n \in Counter :
       x = [iv |-> iv, counter |-> n, out |-> Nonce(iv, n)]

\* AsCalled is an invariant.
LEMMA AlwaysAsCalled == EncodingSpec => []AsCalled
<1>1. EncodingInit => AsCalled
  BY DEF EncodingInit, AsCalled
<1>2. AsCalled /\ [EncodingNext]_encodingVars => AsCalled'
  <2> SUFFICES ASSUME AsCalled, [EncodingNext]_encodingVars
               PROVE  AsCalled'
    OBVIOUS
  <2>1. CASE ExpandLabel
    BY <2>1 DEF AsCalled, ExpandLabel
  <2>2. CASE MakeNonce
    BY <2>2 DEF AsCalled, MakeNonce
  <2>3. CASE EncodingTerminated \/ UNCHANGED encodingVars
    BY <2>3 DEF AsCalled, EncodingTerminated, encodingVars
  <2> QED
    BY <2>1, <2>2, <2>3 DEF EncodingNext
<1> QED
  BY <1>1, <1>2, PTL DEF EncodingSpec

\* The bytes given to HKDF tell the label, the context and the length, and fill the
\* buffer, for all labels of up to 249 bytes and contexts of up to 255: what lets
\* KeySchedule treat HKDF_Expand_Label as a free constructor of terms.
THEOREM InfoIsInjective == EncodingSpec => []InfoTellsCallsApart
<1>1. AsCalled => InfoTellsCallsApart
  <2> SUFFICES ASSUME AsCalled
               PROVE  InfoTellsCallsApart
    OBVIOUS
  <2>1. ASSUME NEW x \in expanded
        PROVE  Filled(x.buf)
    <3>1. PICK l \in Label, c \in Context, n \in OutLength :
            x = [label |-> l, context |-> c, length |-> n, buf |-> Info(l, c, n)]
      BY DEF AsCalled
    <3>2. Len(Info(l, c, n).bytes) = 10 + Len(l) + Len(c)
      BY InfoLayout DEF Layout
    <3>3. Info(l, c, n).length = 2 + 1 + 6 + Len(l) + 1 + Len(c)
      BY DEF Info, Array
    <3>4. Len(l) \in Nat /\ Len(c) \in Nat
      BY Widths
    <3> QED
      BY <3>1, <3>2, <3>3, <3>4 DEF Filled
  <2>2. ASSUME NEW x \in expanded, NEW y \in expanded, x.buf.bytes = y.buf.bytes
        PROVE  x = y
    <3>1. PICK l \in Label, c \in Context, n \in OutLength :
            x = [label |-> l, context |-> c, length |-> n, buf |-> Info(l, c, n)]
      BY DEF AsCalled
    <3>2. PICK l2 \in Label, c2 \in Context, n2 \in OutLength :
            y = [label |-> l2, context |-> c2, length |-> n2, buf |-> Info(l2, c2, n2)]
      BY DEF AsCalled
    <3>3. Info(l, c, n).bytes = Info(l2, c2, n2).bytes
      BY <2>2, <3>1, <3>2
    <3>4. l = l2 /\ c = c2 /\ n = n2
      BY <3>3, InfoInjective
    <3> QED
      BY <3>1, <3>2, <3>4
  <2> QED
    BY <2>1, <2>2 DEF InfoTellsCallsApart
<1> QED
  BY <1>1, AlwaysAsCalled, PTL

\* Counters that differ in any byte give nonces that differ, for every length of
\* nonce and counter: the counter, once it moves, is enough for fresh nonces.
THEOREM NonceIsInjective == EncodingSpec => []NonceTellsCountersApart
<1>1. AsCalled => NonceTellsCountersApart
  <2> SUFFICES ASSUME AsCalled, NEW x \in nonces, NEW y \in nonces,
                      x.iv = y.iv, x.out = y.out
               PROVE  x.counter = y.counter
    BY DEF NonceTellsCountersApart
  <2>1. PICK iv \in Iv, m \in Counter :
          x = [iv |-> iv, counter |-> m, out |-> Nonce(iv, m)]
    BY DEF AsCalled
  <2>2. PICK iv2 \in Iv, n \in Counter :
          y = [iv |-> iv2, counter |-> n, out |-> Nonce(iv2, n)]
    BY DEF AsCalled
  <2>3. iv = iv2 /\ Nonce(iv, m) = Nonce(iv, n)
    BY <2>1, <2>2
  <2> QED
    BY <2>1, <2>2, <2>3, NonceInjective
<1> QED
  BY <1>1, AlwaysAsCalled, PTL

-----------------------------------------------------------------------------
(* HelloExchange.                                                          *)

\* Field i as the peer sends it, behind its length if it has one.
Piece(h, i) == IF Prefix[i] = 0 THEN h[i] ELSE PeerVector(h[i], Prefix[i])

\* Where the fields of a message end.
Ends(h) == Sums([j \in 1..6 |-> Prefix[j] + Len(h[j])])

LEMMA HelloFields ==
  ASSUME NEW h \in Hello
  PROVE  /\ \A i \in 1..6 : h[i] \in Seq(Byte) /\ h[i] \in Numbers /\ Len(h[i]) \in Nat
         /\ Len(h[1]) = 2 /\ Len(h[2]) = 32 /\ Len(h[3]) < 256 /\ Len(h[5]) < 256
         /\ \A i \in 1..6 : Len(h[i]) \in Uint16
<1>1. /\ h \in Seq(Seq(Byte)) /\ Len(h) = 6 /\ Len(h[1]) = 2 /\ Len(h[2]) = 32
      /\ Len(h[3]) <= 255 /\ Len(h[5]) <= 255 /\ Len(h[4]) <= 65535 /\ Len(h[6]) <= 65535
  BY HelloAssumption
<1>2. \A i \in 1..6 : h[i] \in Seq(Byte)
  <2>1. h \in Seq(Seq(Byte)) /\ Len(h) = 6
    BY <1>1
  <2>2. \A i \in 1..Len(h) : h[i] \in Seq(Byte)
    BY <2>1, ElementOfSeq
  <2> QED
    BY <2>1, <2>2
<1>3. \A i \in 1..6 : h[i] \in Numbers /\ Len(h[i]) \in Nat
  BY <1>2, BytesAreNumbers
<1>4. \A i \in 1..6 : Len(h[i]) < 65536
  <2>1. \A i \in 1..6 : i = 1 \/ i = 2 \/ i = 3 \/ i = 4 \/ i = 5 \/ i = 6
    OBVIOUS
  <2>2. /\ Len(h[1]) < 65536 /\ Len(h[2]) < 65536 /\ Len(h[3]) < 65536
        /\ Len(h[4]) < 65536 /\ Len(h[5]) < 65536 /\ Len(h[6]) < 65536
    <3>1. /\ Len(h[1]) \in Nat /\ Len(h[2]) \in Nat /\ Len(h[3]) \in Nat
          /\ Len(h[4]) \in Nat /\ Len(h[5]) \in Nat /\ Len(h[6]) \in Nat
      BY <1>3
    <3> QED
      BY <1>1, <3>1, SMT
  <2> QED
    BY <2>1, <2>2, SMT
<1>5. \A i \in 1..6 : Len(h[i]) \in Uint16
  BY <1>3, <1>4, SMTT(60) DEF Uint16
<1> QED
  BY <1>1, <1>2, <1>3, <1>5

\* A length of two bytes.
LEMMA LowAndHigh ==
  ASSUME NEW n \in Uint16
  PROVE  n \in Nat /\ n % 256 \in Byte /\ n \div 256 \in Byte /\ (n < 256 => n % 256 = n)
<1>1. n \in Nat
  BY DEF Uint16
<1>2. n % 256 \in 0..255
  BY <1>1
<1>3. n \div 256 \in 0..255
  <2>1. n \in Nat /\ n < 65536
    BY DEF Uint16
  <2> QED  BY <2>1
<1>4. n < 256 => n % 256 = n
  BY <1>1
<1> QED
  BY <1>1, <1>2, <1>3, <1>4, Zenon DEF Byte

\* A vector of the peer's: one byte or two for the length.
LEMMA VectorFacts ==
  ASSUME NEW x \in Seq(Byte), Len(x) \in Uint16
  PROVE  /\ Len(x) < 256 => /\ PeerVector(x, 1) \in Seq(Byte)
                            /\ Len(PeerVector(x, 1)) = 1 + Len(x)
                            /\ PeerVector(x, 1)[1] = Len(x)
                            /\ Stands(PeerVector(x, 1), 1, x)
         /\ PeerVector(x, 2) \in Seq(Byte) /\ Len(PeerVector(x, 2)) = 2 + Len(x)
         /\ PeerVector(x, 2)[1] = Len(x) \div 256 /\ PeerVector(x, 2)[2] = Len(x) % 256
         /\ Stands(PeerVector(x, 2), 2, x)
<1> DEFINE a == Len(x) % 256
           b == Len(x) \div 256
<1>1. Len(x) \in Nat /\ a \in Byte /\ b \in Byte /\ (Len(x) < 256 => a = Len(x))
  BY LowAndHigh
<1>2. PeerVector(x, 1) = << >> \o <<a>> \o x
  BY DEF PeerVector
<1>3. PeerVector(x, 2) = <<b>> \o <<a>> \o x
  BY DEF PeerVector
<1> HIDE DEF a, b
<1>4. << >> \o <<a>> = <<a>>
  <2>1. <<a>> \in Seq(Byte)
    BY <1>1
  <2> QED
    BY <2>1, ConcatEmptySeq
<1>5. \A e \in Byte : <<e>> \in Seq(Byte) /\ Len(<<e>>) = 1 /\ <<e>>[1] = e
  OBVIOUS
<1>6. PICK y \in Seq(Byte) : y = <<a>> /\ Len(y) = 1 /\ y[1] = a
  BY <1>1, <1>5, Zenon
<1>7. PICK c \in Seq(Byte) : c = <<b>> /\ Len(c) = 1 /\ c[1] = b
  BY <1>1, <1>5, Zenon
<1>8. PICK z : z = c \o y
  OBVIOUS
<1>9. z \in Seq(Byte) /\ Len(z) = 2 /\ z[1] = b /\ z[2] = a
      /\ PeerVector(x, 1) = y \o x /\ PeerVector(x, 2) = z \o x
  <2>1. /\ z \in Seq(Byte) /\ Len(z) = Len(c) + Len(y)
        /\ \A i \in 1..Len(c) : z[i] = c[i]
        /\ \A i \in 1..Len(y) : z[Len(c) + i] = y[i]
    BY <1>6, <1>7, <1>8, Concat
  <2>2. 1 \in 1..Len(c) /\ 1 \in 1..Len(y) /\ Len(c) + 1 = 2
    BY <1>6, <1>7
  <2> QED
    BY <1>2, <1>3, <1>4, <1>6, <1>7, <1>8, <2>1, <2>2
<1>10. PICK v, w : v = y \o x /\ w = z \o x /\ PeerVector(x, 1) = v /\ PeerVector(x, 2) = w
  BY <1>9, Zenon
<1>11. /\ v \in Seq(Byte) /\ Len(v) = 1 + Len(x) /\ v[1] = a
      /\ \A i \in 1..Len(x) : v[1 + i] = x[i]
  <2>1. /\ v \in Seq(Byte) /\ Len(v) = Len(y) + Len(x)
        /\ \A i \in 1..Len(y) : v[i] = y[i]
        /\ \A i \in 1..Len(x) : v[Len(y) + i] = x[i]
    BY <1>6, <1>7, <1>9, <1>10, Concat
  <2>2. Len(y) = 1 /\ y[1] = a
    BY <1>6, <1>7
  <2>3. 1 \in 1..Len(y)
    BY <2>2
  <2> QED
    BY <2>1, <2>2, <2>3
<1>12. /\ w \in Seq(Byte) /\ Len(w) = 2 + Len(x) /\ w[1] = b /\ w[2] = a
       /\ \A i \in 1..Len(x) : w[2 + i] = x[i]
  <2>1. /\ w \in Seq(Byte) /\ Len(w) = Len(z) + Len(x)
        /\ \A i \in 1..Len(z) : w[i] = z[i]
        /\ \A i \in 1..Len(x) : w[Len(z) + i] = x[i]
    <3>1. z \in Seq(Byte) /\ w = z \o x
      BY <1>9, <1>10
    <3> QED
      BY <3>1, Concat
  <2>2. Len(z) = 2 /\ z[1] = b /\ z[2] = a
    BY <1>9
  <2>3. 1 \in 1..Len(z) /\ 2 \in 1..Len(z)
    BY <2>2
  <2> QED
    BY <2>1, <2>2, <2>3
<1>13. Stands(v, 1, x) /\ Stands(w, 2, x)
  BY <1>1, <1>11, <1>12 DEF Stands
<1> QED
  BY <1>1, <1>10, <1>11, <1>12, <1>13, ZenonT(60) DEF a, b

LEMMA PieceFacts ==
  ASSUME NEW h \in Hello, NEW i \in 1..6
  PROVE  /\ Prefix[i] \in 0..2 /\ h[i] \in Numbers /\ Len(h[i]) \in Nat /\ Len(h[i]) \in Uint16
         /\ Piece(h, i) \in Seq(Byte) /\ Piece(h, i) \in Numbers
         /\ Len(Piece(h, i)) = Prefix[i] + Len(h[i])
         /\ Stands(Piece(h, i), Prefix[i], h[i])
         /\ Prefix[i] = 0 => Fixed[i] = Len(h[i])
         /\ Prefix[i] = 1 => Piece(h, i)[1] = Len(h[i]) /\ Len(h[i]) < 256
         /\ Prefix[i] = 2 => /\ Piece(h, i)[1] = Len(h[i]) \div 256
                             /\ Piece(h, i)[2] = Len(h[i]) % 256
<1>1. /\ h[i] \in Seq(Byte) /\ h[i] \in Numbers /\ Len(h[i]) \in Nat /\ Len(h[i]) \in Uint16
  BY HelloFields
<1>2. i \in {3, 5} => Len(h[i]) < 256
  BY HelloFields
<1>3. i \in {1, 2} => Fixed[i] = Len(h[i])
  <2>1. Len(h[1]) = 2 /\ Len(h[2]) = 32
    BY HelloFields
  <2>2. Fixed[1] = 2 /\ Fixed[2] = 32
    BY DEF Fixed
  <2> QED
    BY <2>1, <2>2
<1>4. /\ i \in {1, 2} => Prefix[i] = 0
      /\ i \in {3, 5} => Prefix[i] = 1
      /\ i \in {4, 6} => Prefix[i] = 2
      /\ i \in {1, 2} \/ i \in {3, 5} \/ i \in {4, 6}
  BY DEF Prefix
<1>5. PICK x \in Seq(Byte) : x = h[i]
  BY <1>1
<1>6. CASE i \in {1, 2}
  <2>1. Piece(h, i) = x /\ Prefix[i] = 0
    BY <1>4, <1>5, <1>6 DEF Piece
  <2>2. Stands(x, 0, x)
    BY <1>5 DEF Stands
  <2> QED
    BY <1>1, <1>3, <1>5, <1>6, <2>1, <2>2
<1>7. CASE i \in {3, 5}
  <2>1. PICK v : v = PeerVector(x, 1)
    OBVIOUS
  <2>2. Piece(h, i) = v /\ Prefix[i] = 1
    BY <1>4, <1>5, <1>7, <2>1 DEF Piece
  <2>3. Len(x) < 256 /\ Len(x) \in Uint16
    BY <1>1, <1>2, <1>5, <1>7
  <2>4. v \in Seq(Byte) /\ Len(v) = 1 + Len(x) /\ v[1] = Len(x) /\ Stands(v, 1, x)
    BY <2>1, <2>3, VectorFacts
  <2>5. v \in Numbers
    BY <2>4, BytesAreNumbers
  <2> QED
    BY <1>1, <1>5, <2>2, <2>3, <2>4, <2>5
<1>8. CASE i \in {4, 6}
  <2>1. PICK v : v = PeerVector(x, 2)
    OBVIOUS
  <2>2. Piece(h, i) = v /\ Prefix[i] = 2
    BY <1>4, <1>5, <1>8, <2>1 DEF Piece
  <2>3. Len(x) \in Uint16
    BY <1>1, <1>5
  <2>4. /\ v \in Seq(Byte) /\ Len(v) = 2 + Len(x) /\ v[1] = Len(x) \div 256
        /\ v[2] = Len(x) % 256 /\ Stands(v, 2, x)
    BY <2>1, <2>3, VectorFacts
  <2>5. v \in Numbers
    BY <2>4, BytesAreNumbers
  <2> QED
    BY <1>1, <1>5, <2>2, <2>4, <2>5
<1> QED
  BY <1>4, <1>6, <1>7, <1>8

\* Each field begins where the one before ends.
LEMMA EndsFacts ==
  ASSUME NEW h \in Hello
  PROVE  /\ Ends(h)[0] = 0 /\ \A n \in 0..6 : Ends(h)[n] \in Nat /\ Ends(h)[n] <= Ends(h)[6]
         /\ \A n \in 1..6 : Ends(h)[n] = Ends(h)[n - 1] + Len(Piece(h, n))
         /\ Ends(h)[6] \in Uint24
<1>1. PICK s : s = [j \in 1..6 |-> Prefix[j] + Len(h[j])]
  OBVIOUS
<1>2. \A j \in 1..6 : Prefix[j] \in 0..2 /\ Len(h[j]) \in Nat /\ Len(h[j]) \in Uint16
                      /\ Len(Piece(h, j)) = Prefix[j] + Len(h[j])
  BY PieceFacts, ZenonT(60)
<1>3. \A n \in 1..6 : s[n] = Prefix[n] + Len(h[n]) /\ s[n] = Len(Piece(h, n)) /\ s[n] \in Nat
  <2> SUFFICES ASSUME NEW n \in 1..6
               PROVE  s[n] = Prefix[n] + Len(h[n]) /\ s[n] = Len(Piece(h, n)) /\ s[n] \in Nat
    OBVIOUS
  <2>1. s[n] = Prefix[n] + Len(h[n])
    BY <1>1
  <2>2. Prefix[n] \in 0..2 /\ Len(h[n]) \in Nat /\ Len(Piece(h, n)) = Prefix[n] + Len(h[n])
    BY <1>2
  <2> QED
    BY <2>1, <2>2
<1>4. s \in Seq(Nat) /\ Len(s) = 6
  BY <1>1, <1>3
<1>5. PICK e : e = Sums(s)
  OBVIOUS
<1>6. e[0] = 0 /\ (\A n \in 1..6 : e[n] = e[n - 1] + s[n]) /\ \A n \in 0..6 : e[n] \in Nat
  BY <1>4, <1>5, SumsFacts
<1>7. PICK a, b, c, d, f, g : /\ a = s[1] /\ b = s[2] /\ c = s[3] /\ d = s[4]
                             /\ f = s[5] /\ g = s[6]
  OBVIOUS
<1>8. /\ a \in Nat /\ b \in Nat /\ c \in Nat /\ d \in Nat /\ f \in Nat /\ g \in Nat
  BY <1>3, <1>7
<1>9. /\ e[1] = 0 + a /\ e[2] = e[1] + b /\ e[3] = e[2] + c /\ e[4] = e[3] + d
      /\ e[5] = e[4] + f /\ e[6] = e[5] + g
  <2>1. e[1] = e[0] + a /\ e[2] = e[1] + b /\ e[3] = e[2] + c
    BY <1>6, <1>7
  <2>2. e[4] = e[3] + d /\ e[5] = e[4] + f /\ e[6] = e[5] + g
    BY <1>6, <1>7
  <2> QED
    BY <1>6, <2>1, <2>2
<1>10. /\ e[1] \in Nat /\ e[2] \in Nat /\ e[3] \in Nat /\ e[4] \in Nat /\ e[5] \in Nat
       /\ e[6] \in Nat
  BY <1>6
<1>11. \A n \in 0..6 : e[n] <= e[6]
  <2>1. \A n \in 0..6 : n = 0 \/ n = 1 \/ n = 2 \/ n = 3 \/ n = 4 \/ n = 5 \/ n = 6
    OBVIOUS
  <2>2. e[1] <= e[6] /\ e[2] <= e[6] /\ e[3] <= e[6] /\ e[4] <= e[6] /\ e[5] <= e[6]
    BY <1>8, <1>9, <1>10
  <2> QED
    BY <1>6, <1>10, <2>1, <2>2
<1>12. e[6] \in Uint24
  <2>1. ASSUME NEW n \in 1..6 PROVE s[n] <= 2 + Len(h[n]) /\ Len(h[n]) \in Uint16
    <3>1. Prefix[n] \in 0..2 /\ Len(h[n]) \in Nat /\ Len(h[n]) \in Uint16
      BY <1>2
    <3>2. s[n] = Prefix[n] + Len(h[n])
      BY <1>3
    <3> QED
      BY <3>1, <3>2
  <2>2. \A x \in Uint16 : x \in Nat /\ 2 + x < 70000
    BY SMT DEF Uint16
  <2>3. ASSUME NEW n \in 1..6 PROVE s[n] < 70000
    <3>1. PICK x \in Uint16 : x = Len(h[n])
      BY <2>1
    <3>2. s[n] \in Nat /\ s[n] <= 2 + x
      BY <1>3, <2>1, <3>1
    <3>3. x \in Nat /\ 2 + x < 70000
      BY <2>2
    <3> QED
      BY <3>2, <3>3, SMT
  <2>4. a < 70000 /\ b < 70000 /\ c < 70000 /\ d < 70000 /\ f < 70000 /\ g < 70000
    BY <1>7, <2>3, SMT
  <2> QED
    BY <1>8, <1>9, <1>10, <2>4, SMT DEF Uint24
<1>13. Ends(h) = e
  BY <1>1, <1>5 DEF Ends
<1> QED
  BY <1>3, <1>6, <1>11, <1>12, <1>13

\* The fields of a ClientHello, one behind the other.
LEMMA TextLayout ==
  ASSUME NEW h \in Hello
  PROVE  \E t \in Seq(Byte) :
           /\ t = PeerText(h)
           /\ Len(t) = Ends(h)[6]
           /\ \A i \in 1..6 : Stands(t, Ends(h)[i - 1], Piece(h, i))
<1>1. \A i \in 1..6 : Piece(h, i) \in Seq(Byte) /\ Piece(h, i) \in Numbers
  BY PieceFacts
<1>2. PICK e : e = Ends(h)
  OBVIOUS
<1>3. /\ e[0] = 0 /\ \A n \in 0..6 : e[n] \in Nat
  BY <1>2, EndsFacts
<1>4. \A n \in 1..6 : e[n] = e[n - 1] + Len(Piece(h, n))
  BY <1>2, EndsFacts
<1>5. PICK p1, p2, p3, p4, p5, p6 :
        /\ p1 = Piece(h, 1) /\ p2 = Piece(h, 2) /\ p3 = Piece(h, 3)
        /\ p4 = Piece(h, 4) /\ p5 = Piece(h, 5) /\ p6 = Piece(h, 6)
  OBVIOUS
<1>6. /\ p1 \in Numbers /\ p2 \in Numbers /\ p3 \in Numbers /\ p4 \in Numbers /\ p5 \in Numbers
      /\ p6 \in Numbers
  BY <1>1, <1>5
<1>7. PICK t2, t3, t4, t5, t6 :
        t2 = p1 \o p2 /\ t3 = t2 \o p3 /\ t4 = t3 \o p4 /\ t5 = t4 \o p5 /\ t6 = t5 \o p6
  BY Zenon
<1>8. Joins(t2, p1, p2) /\ Joins(t3, t2, p3) /\ Joins(t4, t3, p4) /\ Joins(t5, t4, p5)
      /\ Joins(t6, t5, p6)
  BY <1>7, Zenon DEF Joins
<1> DEFINE Keeps(c, a) == \A q \in Nat, x \in Numbers : Stands(a, q, x) => Stands(c, q, x)
<1>9. /\ t2 \in Numbers /\ Len(t2) = Len(p1) + Len(p2)
      /\ Stands(t2, 0, p1) /\ Stands(t2, Len(p1), p2)
  BY <1>6, <1>8, Joined, Zenon
<1>10. /\ t3 \in Numbers /\ Len(t3) = Len(t2) + Len(p3)
       /\ Stands(t3, Len(t2), p3) /\ Keeps(t3, t2)
  BY <1>6, <1>8, <1>9, Joined, Zenon
<1>11. /\ t4 \in Numbers /\ Len(t4) = Len(t3) + Len(p4)
       /\ Stands(t4, Len(t3), p4) /\ Keeps(t4, t3)
  BY <1>6, <1>8, <1>10, Joined, ZenonT(60)
<1>12. /\ t5 \in Numbers /\ Len(t5) = Len(t4) + Len(p5)
       /\ Stands(t5, Len(t4), p5) /\ Keeps(t5, t4)
  BY <1>6, <1>8, <1>11, Joined, ZenonT(60)
<1>13. /\ t6 \in Numbers /\ Len(t6) = Len(t5) + Len(p6)
       /\ Stands(t6, Len(t5), p6) /\ Keeps(t6, t5)
  BY <1>6, <1>8, <1>12, Joined, ZenonT(60)
<1> HIDE DEF Keeps
<1>14. /\ Len(p1) = e[1] /\ Len(t2) = e[2] /\ Len(t3) = e[3] /\ Len(t4) = e[4]
       /\ Len(t5) = e[5] /\ Len(t6) = e[6]
  <2>1. e[1] = e[0] + Len(p1) /\ e[2] = e[1] + Len(p2) /\ e[3] = e[2] + Len(p3)
    BY <1>4, <1>5
  <2>2. e[4] = e[3] + Len(p4) /\ e[5] = e[4] + Len(p5) /\ e[6] = e[5] + Len(p6)
    BY <1>4, <1>5
  <2>3. Len(p1) \in Nat
    BY <1>6, LengthType
  <2> QED
    BY <1>3, <1>9, <1>10, <1>11, <1>12, <1>13, <2>1, <2>2, <2>3
<1>15. /\ 0 \in Nat /\ e[1] \in Nat /\ e[2] \in Nat /\ e[3] \in Nat /\ e[4] \in Nat
  BY <1>3
<1>16. /\ Stands(t2, 0, p1) /\ Stands(t2, e[1], p2) /\ Stands(t3, e[2], p3)
       /\ Stands(t4, e[3], p4) /\ Stands(t5, e[4], p5) /\ Stands(t6, e[5], p6)
  BY <1>9, <1>10, <1>11, <1>12, <1>13, <1>14
<1>17. /\ Stands(t6, 0, p1) /\ Stands(t6, e[1], p2) /\ Stands(t6, e[2], p3)
       /\ Stands(t6, e[3], p4) /\ Stands(t6, e[4], p5) /\ Stands(t6, e[5], p6)
  <2>1. Keeps(t3, t2) /\ Keeps(t4, t3) /\ Keeps(t5, t4) /\ Keeps(t6, t5)
    BY <1>10, <1>11, <1>12, <1>13, Zenon
  <2>2. /\ Stands(t3, 0, p1) /\ Stands(t3, e[1], p2)
    BY <1>6, <1>15, <1>16, <2>1 DEF Keeps
  <2>3. /\ Stands(t4, 0, p1) /\ Stands(t4, e[1], p2) /\ Stands(t4, e[2], p3)
    BY <1>6, <1>15, <1>16, <2>1, <2>2 DEF Keeps
  <2>4. /\ Stands(t5, 0, p1) /\ Stands(t5, e[1], p2) /\ Stands(t5, e[2], p3)
        /\ Stands(t5, e[3], p4)
    BY <1>6, <1>15, <1>16, <2>1, <2>3 DEF Keeps
  <2> QED
    BY <1>6, <1>15, <1>16, <2>1, <2>4 DEF Keeps
<1>18. \A i \in 1..6 : Stands(t6, e[i - 1], Piece(h, i))
  <2>1. /\ Stands(t6, e[0], Piece(h, 1)) /\ Stands(t6, e[1], Piece(h, 2))
        /\ Stands(t6, e[2], Piece(h, 3)) /\ Stands(t6, e[3], Piece(h, 4))
        /\ Stands(t6, e[4], Piece(h, 5)) /\ Stands(t6, e[5], Piece(h, 6))
    BY <1>3, <1>5, <1>17
  <2>2. \A i \in 1..6 : i = 1 \/ i = 2 \/ i = 3 \/ i = 4 \/ i = 5 \/ i = 6
    OBVIOUS
  <2> QED
    BY <2>1, <2>2
<1>19. t6 \in Seq(Byte)
  <2>1. /\ p1 \in Seq(Byte) /\ p2 \in Seq(Byte) /\ p3 \in Seq(Byte) /\ p4 \in Seq(Byte)
        /\ p5 \in Seq(Byte) /\ p6 \in Seq(Byte)
    BY <1>1, <1>5
  <2>2. \A x, y \in Seq(Byte) : x \o y \in Seq(Byte)
    OBVIOUS
  <2> QED
    BY <1>7, <2>1, <2>2, Zenon
<1>20. t6 = PeerText(h)
  <2>1. h[1] = p1 /\ h[2] = p2 /\ PeerVector(h[3], 1) = p3 /\ PeerVector(h[4], 2) = p4
        /\ PeerVector(h[5], 1) = p5 /\ PeerVector(h[6], 2) = p6
    BY <1>5 DEF Piece, Prefix
  <2> QED
    BY <1>7, <2>1, Zenon DEF PeerText
<1> QED
  BY <1>2, <1>14, <1>18, <1>19, <1>20, Zenon

\* Type and length of a message.
LEMMA HeaderOf ==
  ASSUME NEW n \in Uint24
  PROVE  /\ PeerHeader(n) \in Seq(Byte) /\ Len(PeerHeader(n)) = 4
         /\ get_uint24(PeerHeader(n)[2], PeerHeader(n)[3], PeerHeader(n)[4]) = n
<1> DEFINE a == n \div 65536
           b == (n \div 256) % 256
           c == n % 256
<1>1. n \in Nat /\ n < 16777216
  BY SMT DEF Uint24
<1>2. a \in 0..255 /\ b \in 0..255 /\ c \in 0..255
  BY <1>1, SMT
<1>3. a * 65536 + b * 256 + c = n
  BY <1>1, SMT
<1>4. PeerHeader(n) = <<CLIENT_HELLO_TYPE, a, b, c>>
  BY SMT DEF PeerHeader
<1> HIDE DEF a, b, c
<1>5. PICK hd : hd = PeerHeader(n) /\ hd = <<CLIENT_HELLO_TYPE, a, b, c>>
  BY <1>4, SMT
<1>6. Len(hd) = 4 /\ hd[2] = a /\ hd[3] = b /\ hd[4] = c
  BY <1>5, SMT
<1>7. hd \in Seq(Byte)
  BY <1>2, <1>5, SMT DEF Byte, CLIENT_HELLO_TYPE
<1>8. get_uint24(hd[2], hd[3], hd[4]) = n
  BY <1>3, <1>6, SMT DEF get_uint24
<1> QED
  BY <1>5, <1>6, <1>7, <1>8, SMT

\* The message is its four bytes of type and length and its fields.
LEMMA MessageLayout ==
  ASSUME NEW h \in Hello
  PROVE  \E m \in Seq(Byte) :
           /\ m = PeerMessage(h) /\ m \in Numbers /\ Len(m) = 4 + Ends(h)[6]
           /\ get_uint24(m[2], m[3], m[4]) = Ends(h)[6]
           /\ \A i \in 1..6 : Stands(m, 4 + Ends(h)[i - 1], Piece(h, i))
<1>1. PICK t \in Seq(Byte) :
        /\ t = PeerText(h) /\ Len(t) = Ends(h)[6]
        /\ \A i \in 1..6 : Stands(t, Ends(h)[i - 1], Piece(h, i))
  BY TextLayout
<1>2. Len(t) \in Uint24
  BY <1>1, EndsFacts
<1>3. PICK hd \in Seq(Byte) :
        hd = PeerHeader(Len(t)) /\ Len(hd) = 4 /\ get_uint24(hd[2], hd[3], hd[4]) = Len(t)
  BY <1>2, HeaderOf
<1>4. PICK m : m = hd \o t /\ Joins(m, hd, t)
  BY Zenon DEF Joins
<1>5. m = PeerMessage(h)
  BY <1>1, <1>3, <1>4, Zenon DEF PeerMessage
<1>6. hd \in Seq(Byte) /\ t \in Seq(Byte) /\ Len(hd) = 4
  BY <1>1, <1>3
<1>7. /\ m \in Seq(Byte) /\ \A i \in 1..Len(hd) : m[i] = hd[i]
  BY <1>4, <1>6, Concat, ZenonT(60)
<1>8. m[2] = hd[2] /\ m[3] = hd[3] /\ m[4] = hd[4]
  BY <1>6, <1>7
<1>9. hd \in Numbers /\ t \in Numbers /\ m \in Numbers
  BY <1>6, <1>7, BytesAreNumbers
<1>10. /\ Len(m) = Len(hd) + Len(t)
       /\ \A q \in Nat, x \in Numbers : Stands(t, q, x) => Stands(m, Len(hd) + q, x)
  BY <1>4, <1>9, Joined, Zenon
<1>11. ASSUME NEW i \in 1..6 PROVE Stands(m, 4 + Ends(h)[i - 1], Piece(h, i))
  <2>1. PICK q \in Nat : q = Ends(h)[i - 1]
    BY EndsFacts, SMTT(60)
  <2>2. PICK x \in Numbers : x = Piece(h, i)
    BY PieceFacts
  <2>3. Stands(t, q, x)
    BY <1>1, <2>1, <2>2
  <2>4. Stands(m, Len(hd) + q, x)
    BY <1>10, <2>1, <2>2, <2>3, Zenon
  <2>5. Len(hd) + q = 4 + Ends(h)[i - 1]
    BY <1>6, <2>1
  <2> QED
    BY <2>2, <2>4, <2>5, Zenon
<1>12. get_uint24(m[2], m[3], m[4]) = Ends(h)[6]
  BY <1>1, <1>3, <1>8, Zenon
<1>13. Len(m) = 4 + Ends(h)[6]
  BY <1>1, <1>6, <1>10
<1> QED
  BY <1>5, <1>7, <1>9, <1>11, <1>12, <1>13, Zenon

-----------------------------------------------------------------------------
(* What the server makes of the message.                                   *)

HelloType ==
  /\ hello \in Hello
  /\ pc \in {"handshake", "parse", "answer", "sent", "outside"}
  /\ body \in Seq(Byte) /\ iter \in Nat
  /\ fields \in Seq(Seq(Byte)) /\ Len(fields) <= 6
  /\ Len(fields) >= 3 => Len(fields[3]) \in Byte

\* The record is the beginning of the message.
RecordIsPart ==
  /\ record \in Seq(Byte) /\ Len(record) <= Len(PeerMessage(hello))
  /\ \A k \in 1..Len(record) : record[k] = PeerMessage(hello)[k]

\* The body is that of the message where it comes from the record.
BodyAsSent ==
  /\ pc = "handshake" => body = << >>
  /\ pc # "handshake" =>
       \A k \in 1..Len(body) : 4 + k <= Len(record) => body[k] = PeerMessage(hello)[4 + k]
  /\ record = PeerMessage(hello) /\ pc # "handshake" => 4 + Len(body) = Len(record)

\* The pointer is where the fields end that have been read, if they lie in the record.
IterAsSent == EndOf(Len(fields)) <= Len(record) => 4 + iter = EndOf(Len(fields))

HelloInv == HelloType /\ RecordIsPart /\ BodyAsSent /\ IterAsSent /\ FieldsAsSent

LEMMA EndsOf ==
  ASSUME NEW i
  PROVE  EndOf(i) = 4 + Ends(hello)[i]
BY DEF EndOf, Ends

\* Two bytes are read as the peer wrote them.
LEMMA Read16AsSent ==
  ASSUME NEW n \in Uint16
  PROVE  Read16(n \div 256, n % 256) = n
<1> DEFINE a == n \div 256
           b == n % 256
<1>1. n \in Nat /\ a \in 0..255 /\ b \in 0..255 /\ a * 256 + b = n
  <2>1. n \in Nat /\ n < 65536
    BY SMT DEF Uint16
  <2> QED
    BY <2>1, SMT
<1> HIDE DEF a, b
<1>2. (a + 256 * b) % 256 = a /\ (a + 256 * b) \div 256 = b
  BY <1>1
<1>3. Read16(a, b) = a * 256 + b
  BY <1>2 DEF Read16, ntohs, FromHost, htons
<1> QED
  BY <1>1, <1>3, Zenon DEF a, b

\* A field that lies in the record is found where the peer put it.
LEMMA FieldRead ==
  ASSUME HelloInv, pc = "parse", NEW i \in 1..6, Len(fields) = i - 1, EndOf(i) <= Len(record)
  PROVE  /\ Prefix[i] \in 0..2 /\ Len(hello[i]) \in Nat
         /\ EndOf(i) = 4 + (iter + Prefix[i] + Len(hello[i]))
         /\ Inside(body, iter, Prefix[i]) => FieldLength(i) = Len(hello[i])
         /\ \A k \in 1..Len(hello[i]) :
              iter + Prefix[i] + k <= Len(body) => body[iter + Prefix[i] + k] = hello[i][k]
<1>1. hello \in Hello /\ body \in Seq(Byte) /\ iter \in Nat /\ Len(fields) \in Nat
  BY DEF HelloInv, HelloType
<1>2. PICK m \in Seq(Byte) :
        /\ m = PeerMessage(hello)
        /\ \A j \in 1..6 : Stands(m, 4 + Ends(hello)[j - 1], Piece(hello, j))
  BY <1>1, MessageLayout
<1>3. PICK p, n, pre : p = Piece(hello, i) /\ n = Len(hello[i]) /\ pre = Prefix[i]
  OBVIOUS
<1>4. /\ pre \in 0..2 /\ n \in Nat /\ n \in Uint16 /\ p \in Numbers /\ Len(p) = pre + n
      /\ Stands(p, pre, hello[i])
      /\ pre = 0 => Fixed[i] = n
      /\ pre = 1 => p[1] = n
      /\ pre = 2 => p[1] = n \div 256 /\ p[2] = n % 256
  <2>1. hello \in Hello
    BY <1>1
  <2>2. /\ Prefix[i] \in 0..2 /\ hello[i] \in Numbers /\ Len(hello[i]) \in Nat /\ Len(hello[i]) \in Uint16
        /\ Piece(hello, i) \in Seq(Byte) /\ Piece(hello, i) \in Numbers
        /\ Len(Piece(hello, i)) = Prefix[i] + Len(hello[i])
        /\ Stands(Piece(hello, i), Prefix[i], hello[i])
        /\ Prefix[i] = 0 => Fixed[i] = Len(hello[i])
        /\ Prefix[i] = 1 => Piece(hello, i)[1] = Len(hello[i]) /\ Len(hello[i]) < 256
        /\ Prefix[i] = 2 => /\ Piece(hello, i)[1] = Len(hello[i]) \div 256
                            /\ Piece(hello, i)[2] = Len(hello[i]) % 256
    BY <2>1, PieceFacts, ZenonT(60)
  <2> QED
    BY <1>3, <2>2, Zenon
<1>5. PICK e, f : e = Ends(hello)[i - 1] /\ f = Ends(hello)[i]
  OBVIOUS
<1>6. e \in Nat /\ f = e + (pre + n)
  <2>1. hello \in Hello
    BY <1>1
  <2>2. /\ \A j \in 0..6 : Ends(hello)[j] \in Nat
        /\ \A j \in 1..6 : Ends(hello)[j] = Ends(hello)[j - 1] + Len(Piece(hello, j))
    BY <2>1, EndsFacts
  <2>3. f = e + Len(p) /\ e \in Nat
    <3>1. i - 1 \in 0..6
      OBVIOUS
    <3>2. Ends(hello)[i - 1] \in Nat
      BY <2>2, <3>1, Zenon
    <3>3. Ends(hello)[i] = Ends(hello)[i - 1] + Len(Piece(hello, i))
      BY <2>2, Zenon
    <3> QED
      BY <1>3, <1>5, <3>2, <3>3, Zenon
  <2> QED
    BY <1>4, <2>3
<1>7. Len(record) \in Nat /\ 4 + f <= Len(record) /\ EndOf(i) = 4 + f
  BY <1>5, EndsOf DEF HelloInv, RecordIsPart
<1>8. iter = e
  <2>1. Len(fields) = i - 1
    BY <1>1
  <2>2. EndOf(Len(fields)) = 4 + e
    BY <1>5, <2>1, EndsOf
  <2>3. EndOf(Len(fields)) <= Len(record)
    BY <1>4, <1>6, <1>7, <2>2
  <2>4. 4 + iter = 4 + e
    BY <2>2, <2>3 DEF HelloInv, IterAsSent
  <2> QED
    BY <1>1, <1>6, <2>4
<1>9. \A k \in 1..(pre + n) : iter + k <= Len(body) => body[iter + k] = p[k]
  <2> SUFFICES ASSUME NEW k \in 1..(pre + n), iter + k <= Len(body)
               PROVE  body[iter + k] = p[k]
    OBVIOUS
  <2>1. Stands(m, 4 + e, p)
    BY <1>2, <1>3, <1>5
  <2>2. m[(4 + e) + k] = p[k]
    BY <1>4, <2>1 DEF Stands
  <2>3. PICK j \in Nat : j = iter + k /\ j \in 1..Len(body)
    BY <1>1, <1>4
  <2>4. 4 + j <= Len(record) /\ (4 + e) + k = 4 + j
    BY <1>1, <1>4, <1>6, <1>7, <1>8, <2>3
  <2>5. \A x \in 1..Len(body) : 4 + x <= Len(record) => body[x] = m[4 + x]
    BY <1>2 DEF HelloInv, BodyAsSent
  <2>6. body[j] = m[4 + j]
    BY <2>3, <2>4, <2>5
  <2> QED
    BY <2>2, <2>3, <2>4, <2>6
<1>10. ASSUME Inside(body, iter, pre) PROVE FieldLength(i) = n
  <2>1. iter + pre <= Len(body) /\ Len(body) \in Nat
    BY <1>10, <1>1 DEF Inside
  <2>2. CASE pre = 0
    BY <1>3, <1>4, <2>2 DEF FieldLength
  <2>3. CASE pre = 1
    <3>1. body[iter + 1] = p[1]
      BY <1>1, <1>4, <1>9, <2>1, <2>3
    <3> QED
      BY <1>3, <1>4, <2>3, <3>1 DEF FieldLength
  <2>4. CASE pre = 2
    <3>1. body[iter + 1] = p[1] /\ body[iter + 2] = p[2]
      BY <1>1, <1>4, <1>9, <2>1, <2>4
    <3>2. FieldLength(i) = Read16(p[1], p[2])
      BY <1>3, <2>4, <3>1 DEF FieldLength
    <3> QED
      BY <1>4, <2>4, <3>2, Read16AsSent
  <2> QED
    BY <1>4, <2>2, <2>3, <2>4
<1>11. ASSUME NEW k \in 1..n, iter + pre + k <= Len(body)
       PROVE  body[iter + pre + k] = hello[i][k]
  <2>1. PICK j \in Nat : j = pre + k /\ j \in 1..(pre + n)
    BY <1>4
  <2>2. iter + pre + k = iter + j
    BY <1>1, <1>4, <2>1
  <2>3. body[iter + j] = p[j]
    BY <1>9, <1>11, <2>1, <2>2
  <2>4. p[pre + k] = hello[i][k]
    BY <1>3, <1>4 DEF Stands
  <2> QED
    BY <2>1, <2>2, <2>3, <2>4
<1>12. EndOf(i) = 4 + (iter + pre + n)
  BY <1>1, <1>4, <1>6, <1>7, <1>8
<1> QED
  BY <1>3, <1>4, <1>10, <1>11, <1>12

LEMMA HelloInitial == HelloInit => HelloInv
<1> SUFFICES ASSUME HelloInit PROVE HelloInv
  OBVIOUS
<1>1. /\ pc = "handshake" /\ hello \in Hello /\ body = << >> /\ iter = 0 /\ fields = << >>
  BY DEF HelloInit
<1>2. PICK m \in Seq(Byte) : m = PeerMessage(hello)
  BY <1>1, MessageLayout
<1>3. PICK cut \in 1..Len(m) : record = Part(m, 0, cut)
  BY <1>2 DEF HelloInit
<1>4. record \in Seq(Byte) /\ Len(record) = cut /\ \A k \in 1..cut : record[k] = m[k]
  <2>1. cut \in Nat /\ 0 \in Nat /\ 0 + cut <= Len(m)
    BY <1>2, <1>3
  <2>2. /\ Part(m, 0, cut) \in Seq(Byte) /\ Len(Part(m, 0, cut)) = cut
        /\ \A k \in 1..cut : Part(m, 0, cut)[k] = m[0 + k]
    BY <1>2, <2>1, PartIn
  <2> QED
    BY <1>3, <2>2
<1>5. RecordIsPart
  BY <1>2, <1>3, <1>4 DEF RecordIsPart
<1>6. HelloType
  BY <1>1 DEF HelloType
<1>7. BodyAsSent
  BY <1>1 DEF BodyAsSent
<1>8. IterAsSent
  <2>1. EndOf(0) = 4
    <3>1. Ends(hello)[0] = 0
      BY <1>1, EndsFacts
    <3>2. EndOf(0) = 4 + Ends(hello)[0]
      BY EndsOf
    <3> QED
      BY <3>1, <3>2
  <2> QED
    BY <1>1, <2>1 DEF IterAsSent
<1>9. FieldsAsSent
  BY <1>1 DEF FieldsAsSent
<1> QED
  BY <1>5, <1>6, <1>7, <1>8, <1>9 DEF HelloInv

\* What depends on the message and the record only.
LEMMA SameMessage ==
  ASSUME hello' = hello
  PROVE  PeerMessage(hello)' = PeerMessage(hello) /\ \A i : EndOf(i)' = EndOf(i)
BY DEF EndOf

LEMMA ThreeBytes ==
  ASSUME NEW a \in Nat, NEW b \in Nat, NEW c \in Nat
  PROVE  get_uint24(a, b, c) \in Nat
BY SMT DEF get_uint24

LEMMA HandshakeKeeps == HelloInv /\ parse_handshake => HelloInv'
<1> SUFFICES ASSUME HelloInv, parse_handshake PROVE HelloInv'
  OBVIOUS
<1>1. /\ hello \in Hello /\ iter \in Nat /\ body \in Seq(Byte)
      /\ fields \in Seq(Seq(Byte)) /\ Len(fields) <= 6
      /\ Len(fields) >= 3 => Len(fields[3]) \in Byte
  BY DEF HelloInv, HelloType
<1>2. pc = "handshake" /\ UNCHANGED <<hello, record, iter, fields>>
  BY DEF parse_handshake
<1>3. PICK m \in Seq(Byte) :
        /\ m = PeerMessage(hello) /\ Len(m) = 4 + Ends(hello)[6]
        /\ get_uint24(m[2], m[3], m[4]) = Ends(hello)[6]
  BY <1>1, MessageLayout
<1>4. /\ record \in Seq(Byte) /\ Len(record) <= Len(m)
      /\ \A k \in 1..Len(record) : record[k] = m[k]
  BY <1>3 DEF HelloInv, RecordIsPart
<1>5. PICK junk \in Seq(Byte) :
        LET memory == record \o junk
            length == get_uint24(memory[2], memory[3], memory[4])
        IN  /\ Len(junk) \in Nat
            /\ IF Inside(memory, 0, 4) /\ Inside(memory, 4, length)
                 THEN body' = Part(memory, 4, length) /\ pc' = "parse"
                 ELSE body' = body /\ pc' = "outside"
  <2>1. PICK b \in Behind :
          LET memory == record \o [i \in 1..Reach |-> b]
              length == get_uint24(memory[2], memory[3], memory[4])
          IN  IF Inside(memory, 0, 4) /\ Inside(memory, 4, length)
                THEN body' = Part(memory, 4, length) /\ pc' = "parse"
                ELSE body' = body /\ pc' = "outside"
    BY DEF parse_handshake
  <2>2. b \in Byte /\ Reach \in Nat
    BY ServerAssumption
  <2>3. [i \in 1..Reach |-> b] \in Seq(Byte) /\ Len([i \in 1..Reach |-> b]) \in Nat
    BY <2>2
  <2> QED
    BY <2>1, <2>3
<1>6. PICK memory : memory = record \o junk
  OBVIOUS
<1>7. /\ memory \in Seq(Byte) /\ Len(memory) = Len(record) + Len(junk)
      /\ \A k \in 1..Len(record) : memory[k] = record[k]
  BY <1>4, <1>5, <1>6, Concat
<1>8. PICK length : length = get_uint24(memory[2], memory[3], memory[4])
  OBVIOUS
<1>9. IF Inside(memory, 0, 4) /\ Inside(memory, 4, length)
        THEN body' = Part(memory, 4, length) /\ pc' = "parse"
        ELSE body' = body /\ pc' = "outside"
  BY <1>5, <1>6, <1>8
<1>10. Len(memory) \in Nat /\ Len(record) \in Nat /\ Len(junk) \in Nat /\ Len(m) \in Nat
  BY <1>3, <1>4, <1>5, <1>7
<1>11. Inside(memory, 0, 4) => length \in Nat
  <2> SUFFICES ASSUME Inside(memory, 0, 4) PROVE length \in Nat
    OBVIOUS
  <2>1. 2 \in 1..Len(memory) /\ 3 \in 1..Len(memory) /\ 4 \in 1..Len(memory)
    BY <1>10 DEF Inside
  <2>2. memory[2] \in Byte /\ memory[3] \in Byte /\ memory[4] \in Byte
    BY <1>7, <2>1, ElementOfSeq
  <2>3. memory[2] \in Nat /\ memory[3] \in Nat /\ memory[4] \in Nat
    <3>1. \A x \in Byte : x \in Nat
      BY DEF Byte
    <3> QED
      BY <2>2, <3>1
  <2> QED
    BY <1>8, <2>3, ThreeBytes
<1>12. CASE Inside(memory, 0, 4) /\ Inside(memory, 4, length)
  <2>1. body' = Part(memory, 4, length) /\ pc' = "parse"
    BY <1>9, <1>12
  <2>2. length \in Nat /\ 4 + length <= Len(memory)
    BY <1>11, <1>12 DEF Inside
  <2>3. /\ body' \in Seq(Byte) /\ Len(body') = length
        /\ \A k \in 1..length : body'[k] = memory[4 + k]
    <3>1. /\ Part(memory, 4, length) \in Seq(Byte) /\ Len(Part(memory, 4, length)) = length
          /\ \A k \in 1..length : Part(memory, 4, length)[k] = memory[4 + k]
      <4>1. memory \in Seq(Byte)
        BY <1>7
      <4> QED
        BY <2>2, <4>1, PartIn
    <3> QED
      BY <2>1, <3>1, Zenon
  <2>4. ASSUME NEW k \in 1..length, 4 + k <= Len(record)
        PROVE  body'[k] = m[4 + k]
    <3>1. 4 + k \in 1..Len(record)
      BY <1>10, <2>4
    <3> QED
      BY <1>4, <1>7, <2>3, <3>1
  <2>5. ASSUME record = m PROVE 4 + Len(body') = Len(record)
    <3>1. 4 <= Len(m)
      BY <1>1, <1>3, EndsFacts
    <3>2. memory[2] = m[2] /\ memory[3] = m[3] /\ memory[4] = m[4]
      BY <1>7, <1>10, <2>5, <3>1, SMTT(60)
    <3>3. length = Ends(hello)[6]
      BY <1>3, <1>8, <3>2
    <3> QED
      BY <1>3, <2>3, <2>5, <3>3
  <2>6. HelloType'
    BY <1>1, <1>2, <2>1, <2>3 DEF HelloType
  <2>7. BodyAsSent'
    BY <1>2, <1>3, <2>1, <2>3, <2>4, <2>5, SameMessage DEF BodyAsSent
  <2>8. RecordIsPart' /\ IterAsSent'
    BY <1>2, SameMessage DEF HelloInv, RecordIsPart, IterAsSent
  <2>9. FieldsAsSent'
    BY <1>2, <2>1, SameMessage DEF HelloInv, FieldsAsSent
  <2> QED
    BY <2>6, <2>7, <2>8, <2>9 DEF HelloInv
<1>13. CASE ~(Inside(memory, 0, 4) /\ Inside(memory, 4, length))
  <2>1. body' = body /\ pc' = "outside"
    BY <1>9, <1>13
  <2>2. record # m
    <3> SUFFICES ASSUME record = m PROVE FALSE
      OBVIOUS
    <3>1. Ends(hello)[6] \in Nat
      BY <1>1, EndsFacts
    <3>2. memory[2] = m[2] /\ memory[3] = m[3] /\ memory[4] = m[4]
      <4>1. Len(m) \in Nat /\ 4 <= Len(m)
        BY <1>3, <3>1
      <4>2. \A k \in 1..Len(m) : memory[k] = m[k]
        BY <1>7
      <4> QED
        BY <4>1, <4>2
    <3>3. length = Ends(hello)[6]
      BY <1>3, <1>8, <3>2
    <3> QED
      BY <1>3, <1>7, <1>10, <1>13, <3>1, <3>3 DEF Inside
  <2>3. body = << >> /\ Len(body) = 0
    BY <1>2 DEF HelloInv, BodyAsSent
  <2>4. HelloType'
    BY <1>1, <1>2, <2>1 DEF HelloType
  <2>5. BodyAsSent'
    BY <1>2, <1>3, <2>1, <2>2, <2>3, SameMessage DEF BodyAsSent
  <2>6. RecordIsPart' /\ IterAsSent'
    BY <1>2, SameMessage DEF HelloInv, RecordIsPart, IterAsSent
  <2>7. FieldsAsSent'
    BY <1>2, <1>3, <2>1, <2>2, SameMessage DEF HelloInv, FieldsAsSent
  <2> QED
    BY <2>4, <2>5, <2>6, <2>7 DEF HelloInv
<1> QED
  BY <1>12, <1>13

\* A field's length is a number, and a byte where one byte says it.
LEMMA LengthOfField ==
  ASSUME body \in Seq(Byte), iter \in Nat, NEW i \in 1..6, Inside(body, iter, Prefix[i])
  PROVE  Prefix[i] \in Nat /\ FieldLength(i) \in Nat /\ (i = 3 => FieldLength(i) \in Byte)
<1>1. /\ i \in {1, 2} => Prefix[i] = 0
      /\ i \in {3, 5} => Prefix[i] = 1
      /\ i \in {4, 6} => Prefix[i] = 2
      /\ i \in {1, 2} \/ i \in {3, 5} \/ i \in {4, 6}
  BY DEF Prefix
<1>2. Len(body) \in Nat /\ \A k \in 1..Len(body) : body[k] \in Byte
  OBVIOUS
<1>3. \A x \in Byte : x \in Nat
  BY DEF Byte
<1>4. CASE i \in {1, 2}
  <2>1. Fixed[1] = 2 /\ Fixed[2] = 32
    BY DEF Fixed
  <2>2. FieldLength(i) = Fixed[i]
    BY <1>1, <1>4 DEF FieldLength
  <2> QED
    BY <1>1, <1>4, <2>1, <2>2
<1>5. CASE i \in {3, 5}
  <2>1. FieldLength(i) = body[iter + 1]
    BY <1>1, <1>5 DEF FieldLength
  <2>2. iter + 1 \in 1..Len(body)
    BY <1>1, <1>2, <1>5 DEF Inside
  <2> QED
    BY <1>1, <1>2, <1>3, <1>5, <2>1, <2>2
<1>6. CASE i \in {4, 6}
  <2>1. FieldLength(i) = Read16(body[iter + 1], body[iter + 2])
    BY <1>1, <1>6 DEF FieldLength
  <2>2. iter + 1 \in 1..Len(body) /\ iter + 2 \in 1..Len(body)
    BY <1>1, <1>2, <1>6 DEF Inside
  <2>3. PICK a \in Nat, b \in Nat : a = body[iter + 1] /\ b = body[iter + 2]
    BY <1>2, <1>3, <2>2
  <2>4. Read16(a, b) \in Nat
    BY DEF Read16, ntohs, htons, FromHost
  <2> QED
    BY <1>1, <1>6, <2>1, <2>3, <2>4
<1> QED
  BY <1>1, <1>4, <1>5, <1>6

LEMMA ParseKeeps == HelloInv /\ parse_client_hello => HelloInv'
<1> SUFFICES ASSUME HelloInv, parse_client_hello PROVE HelloInv'
  OBVIOUS
<1>1. /\ hello \in Hello /\ iter \in Nat /\ body \in Seq(Byte)
      /\ fields \in Seq(Seq(Byte)) /\ Len(fields) \in Nat
      /\ Len(fields) >= 3 => Len(fields[3]) \in Byte
  BY DEF HelloInv, HelloType
<1>2. pc = "parse" /\ Len(fields) < 6 /\ UNCHANGED <<hello, record, body>>
  BY DEF parse_client_hello
<1>3. PICK i \in 1..6 : Len(fields) = i - 1 /\ i = Len(fields) + 1
  BY <1>1, <1>2, SMTT(60)
<1>4. IF Inside(body, iter, Prefix[i]) /\ Inside(body, iter + Prefix[i], FieldLength(i))
        THEN /\ fields' = Append(fields, Part(body, iter + Prefix[i], FieldLength(i)))
             /\ iter' = iter + Prefix[i] + FieldLength(i)
             /\ pc' = pc
        ELSE pc' = "outside" /\ UNCHANGED <<fields, iter>>
  BY <1>3 DEF parse_client_hello
<1>5. EndOf(i) <= Len(record) =>
        /\ Prefix[i] \in 0..2 /\ Len(hello[i]) \in Nat
        /\ EndOf(i) = 4 + (iter + Prefix[i] + Len(hello[i]))
        /\ Inside(body, iter, Prefix[i]) => FieldLength(i) = Len(hello[i])
        /\ \A k \in 1..Len(hello[i]) :
             iter + Prefix[i] + k <= Len(body) => body[iter + Prefix[i] + k] = hello[i][k]
  BY <1>2, <1>3, FieldRead
<1>6. Len(record) \in Nat /\ Len(body) \in Nat
  BY <1>1 DEF HelloInv, RecordIsPart
<1>7. RecordIsPart' /\ (pc' # "handshake" => BodyAsSent')
  BY <1>2, SameMessage DEF HelloInv, RecordIsPart, BodyAsSent
<1>8. CASE Inside(body, iter, Prefix[i]) /\ Inside(body, iter + Prefix[i], FieldLength(i))
  <2>1. PICK v, p, n : v = Part(body, p, n) /\ p = iter + Prefix[i] /\ n = FieldLength(i)
    OBVIOUS
  <2>2. fields' = Append(fields, v) /\ iter' = p + n /\ pc' = "parse"
    BY <1>2, <1>4, <1>8, <2>1
  <2>3. p \in Nat /\ n \in Nat /\ (i = 3 => n \in Byte)
    <3>1. Inside(body, iter, Prefix[i])
      BY <1>8
    <3>2. Prefix[i] \in Nat /\ FieldLength(i) \in Nat /\ (i = 3 => FieldLength(i) \in Byte)
      BY <1>1, <3>1, LengthOfField
    <3> QED
      BY <1>1, <2>1, <3>2
  <2>4. p + n <= Len(body)
    BY <1>8, <2>1 DEF Inside
  <2>5. v \in Seq(Byte) /\ Len(v) = n /\ \A k \in 1..n : v[k] = body[p + k]
    <3>1. body \in Seq(Byte) /\ p \in Nat /\ n \in Nat
      BY <1>1, <2>3
    <3>2. /\ Part(body, p, n) \in Seq(Byte) /\ Len(Part(body, p, n)) = n
          /\ \A k \in 1..n : Part(body, p, n)[k] = body[p + k]
      BY <2>4, <3>1, PartIn
    <3> QED
      BY <2>1, <3>2, Zenon
  <2>6. /\ fields' \in Seq(Seq(Byte)) /\ Len(fields') = i /\ fields'[i] = v
        /\ \A j \in 1..(i - 1) : fields'[j] = fields[j]
    BY <1>1, <1>3, <2>2, <2>5
  <2>7. HelloType'
    <3>1. Len(fields') >= 3 => Len(fields'[3]) \in Byte
      <4>1. CASE i = 3
        BY <2>3, <2>5, <2>6, <4>1
      <4>2. CASE i > 3
        <5>1. 3 \in 1..(i - 1) /\ Len(fields) >= 3
          BY <1>3, <4>2
        <5> QED
          BY <1>1, <2>6, <5>1
      <4>3. CASE i < 3
        BY <2>6, <4>3
      <4> QED
        BY <4>1, <4>2, <4>3
    <3>2. iter' \in Nat /\ Len(fields') <= 6
      BY <2>2, <2>3, <2>6
    <3> QED
      BY <1>1, <1>2, <2>2, <2>6, <3>1, <3>2 DEF HelloType
  <2>8. ASSUME EndOf(i) <= Len(record) PROVE v = hello[i] /\ 4 + iter' = EndOf(i)
    <3>1. n = Len(hello[i]) /\ EndOf(i) = 4 + (p + n) /\ hello[i] \in Seq(Byte)
      BY <1>1, <1>5, <1>8, <2>1, <2>8, HelloFields
    <3>2. \A k \in 1..n : v[k] = hello[i][k]
      <4>1. \A k \in 1..n : p + k <= Len(body) => body[p + k] = hello[i][k]
        BY <1>5, <2>1, <2>8, <3>1
      <4>2. \A k \in 1..n : p + k <= Len(body)
        BY <1>6, <2>3, <2>4
      <4> QED
        BY <2>5, <4>1, <4>2
    <3>3. PICK u \in Seq(Byte) : u = hello[i] /\ Len(u) = n
      BY <3>1
    <3>4. v = u
      BY <2>5, <3>2, <3>3, SameElements
    <3> QED
      BY <2>2, <3>1, <3>3, <3>4
  <2>9. IterAsSent'
    BY <1>2, <2>6, <2>8, SameMessage DEF IterAsSent
  <2>10. FieldsAsSent'
    <3>1. ASSUME NEW j \in 1..i, EndOf(j) <= Len(record) PROVE fields'[j] = hello[j]
      <4>1. CASE j = i
        BY <2>6, <2>8, <3>1, <4>1
      <4>2. CASE j \in 1..(i - 1)
        <5>1. j \in DOMAIN fields
          BY <1>1, <1>3, <4>2
        <5>2. fields[j] = hello[j]
          BY <3>1, <5>1 DEF HelloInv, FieldsAsSent
        <5> QED
          BY <2>6, <4>2, <5>2
      <4> QED
        BY <4>1, <4>2
    <3>2. DOMAIN fields' = 1..i
      BY <2>6
    <3> QED
      BY <1>2, <2>2, <3>1, <3>2, SameMessage DEF FieldsAsSent
  <2> QED
    BY <1>7, <2>2, <2>7, <2>9, <2>10 DEF HelloInv
<1>9. CASE ~(Inside(body, iter, Prefix[i]) /\ Inside(body, iter + Prefix[i], FieldLength(i)))
  <2>1. pc' = "outside" /\ UNCHANGED <<fields, iter>>
    BY <1>4, <1>9
  <2>2. record # PeerMessage(hello)
    <3> SUFFICES ASSUME record = PeerMessage(hello) PROVE FALSE
      OBVIOUS
    <3>1. 4 + Len(body) = Len(record)
      BY <1>2 DEF HelloInv, BodyAsSent
    <3>2. Len(record) = 4 + Ends(hello)[6]
      BY <1>1, MessageLayout
    <3>3. EndOf(i) = 4 + Ends(hello)[i]
      BY EndsOf
    <3>4. /\ Ends(hello)[i] \in Nat /\ Ends(hello)[6] \in Nat
          /\ Ends(hello)[i] <= Ends(hello)[6]
      BY <1>1, EndsFacts, SMTT(60)
    <3>5. EndOf(i) <= Len(record)
      BY <3>2, <3>3, <3>4
    <3>6. PICK x, n : x = Prefix[i] /\ n = Len(hello[i])
      OBVIOUS
    <3>7. x \in 0..2 /\ n \in Nat /\ EndOf(i) = 4 + (iter + x + n)
          /\ (Inside(body, iter, x) => FieldLength(i) = n)
      BY <1>5, <3>5, <3>6
    <3>8. iter + x + n <= Len(body)
      BY <1>1, <1>6, <3>1, <3>5, <3>7
    <3>9. Inside(body, iter, x) /\ Inside(body, iter + x, n)
      BY <1>1, <1>6, <3>7, <3>8 DEF Inside
    <3> QED
      BY <1>9, <3>6, <3>7, <3>9
  <2>3. HelloType'
    BY <1>1, <1>2, <2>1 DEF HelloType
  <2>4. IterAsSent'
    BY <1>2, <2>1, SameMessage DEF HelloInv, IterAsSent
  <2>5. FieldsAsSent'
    BY <1>2, <2>1, <2>2, SameMessage DEF HelloInv, FieldsAsSent
  <2> QED
    BY <1>7, <2>1, <2>3, <2>4, <2>5 DEF HelloInv
<1> QED
  BY <1>8, <1>9

LEMMA OthersKeep ==
  HelloInv /\ (BuildServerHello \/ SendServerHello \/ UNCHANGED helloVars) => HelloInv'
<1> SUFFICES ASSUME HelloInv, BuildServerHello \/ SendServerHello \/ UNCHANGED helloVars
             PROVE  HelloInv'
  OBVIOUS
<1>1. UNCHANGED <<hello, record, body, iter, fields>>
  BY DEF BuildServerHello, SendServerHello, helloVars
<1>2. pc' = pc \/ (pc \in {"parse", "answer"} /\ pc' \in {"answer", "sent"})
  BY DEF BuildServerHello, SendServerHello, helloVars
<1>3. HelloType'
  BY <1>1, <1>2 DEF HelloInv, HelloType
<1>4. RecordIsPart' /\ IterAsSent'
  BY <1>1, SameMessage DEF HelloInv, RecordIsPart, IterAsSent
<1>5. BodyAsSent'
  BY <1>1, <1>2, SameMessage DEF HelloInv, BodyAsSent
<1>6. FieldsAsSent'
  BY <1>1, <1>2, SameMessage DEF HelloInv, FieldsAsSent
<1> QED
  BY <1>3, <1>4, <1>5, <1>6 DEF HelloInv

LEMMA HelloInvariant == HelloSpec => []HelloInv
<1>1. HelloInv /\ [HelloNext]_helloVars => HelloInv'
  BY HandshakeKeeps, ParseKeeps, OthersKeep DEF HelloNext, HelloTerminated
<1> QED
  BY HelloInitial, <1>1, PTL DEF HelloSpec

\* Every field that lies in the record is parsed as the peer wrote it, however the
\* peer cuts its message into records and whatever lies behind them; a server that
\* has the whole message reads nothing outside of it.
THEOREM FieldsReachTheServer == HelloSpec => []FieldsAsSent
<1>1. HelloInv => FieldsAsSent
  BY DEF HelloInv
<1> QED
  BY <1>1, HelloInvariant, PTL

-----------------------------------------------------------------------------
(* The ServerHello.                                                        *)

\* Tuples joined.
LEMMA Tuples ==
  ASSUME NEW a \in Nat, NEW b \in Nat, NEW c \in Nat, NEW d \in Nat
  PROVE  <<a>> \o <<b, c>> = <<a, b, c>> /\ <<a, b>> \o <<c, d>> = <<a, b, c, d>>
<1>1. PICK u, v : u = <<a>> /\ v = <<b, c>>
  OBVIOUS
<1>2. u \in Seq(Nat) /\ Len(u) = 1 /\ u[1] = a /\ v \in Seq(Nat) /\ Len(v) = 2
      /\ v[1] = b /\ v[2] = c
  BY <1>1
<1>3. PICK w : w = u \o v
  OBVIOUS
<1>4. w \in Seq(Nat) /\ Len(w) = 3 /\ w[1] = a /\ w[2] = b /\ w[3] = c
  <2>1. /\ w \in Seq(Nat) /\ Len(w) = Len(u) + Len(v)
        /\ \A i \in 1..Len(u) : w[i] = u[i]
        /\ \A i \in 1..Len(v) : w[Len(u) + i] = v[i]
    <3>1. u \in Seq(Nat) /\ v \in Seq(Nat)
      BY <1>2
    <3> QED
      BY <1>3, <3>1, Concat
  <2>2. w[1] = u[1] /\ w[1 + 1] = v[1] /\ w[1 + 2] = v[2]
    BY <1>2, <2>1
  <2> QED
    BY <1>2, <2>1, <2>2
<1>5. w = <<a, b, c>>
  BY <1>4
<1>6. PICK x, y : x = <<a, b>> /\ y = <<c, d>>
  OBVIOUS
<1>7. x \in Seq(Nat) /\ Len(x) = 2 /\ x[1] = a /\ x[2] = b
      /\ y \in Seq(Nat) /\ Len(y) = 2 /\ y[1] = c /\ y[2] = d
  BY <1>6
<1>8. PICK z : z = x \o y
  OBVIOUS
<1>9. z \in Seq(Nat) /\ Len(z) = 4 /\ z[1] = a /\ z[2] = b /\ z[3] = c /\ z[4] = d
  <2>1. /\ z \in Seq(Nat) /\ Len(z) = Len(x) + Len(y)
        /\ \A i \in 1..Len(x) : z[i] = x[i]
        /\ \A i \in 1..Len(y) : z[Len(x) + i] = y[i]
    <3>1. x \in Seq(Nat) /\ y \in Seq(Nat)
      BY <1>7
    <3> QED
      BY <1>8, <3>1, Concat
  <2>2. z[1] = x[1] /\ z[2] = x[2] /\ z[2 + 1] = y[1] /\ z[2 + 2] = y[2]
    BY <1>7, <2>1
  <2> QED
    BY <1>7, <2>1, <2>2
<1>10. z = <<a, b, c, d>>
  BY <1>9
<1> QED
  BY <1>1, <1>3, <1>5, <1>6, <1>8, <1>10

\* A number of one byte, in two.
LEMMA SmallNumber ==
  ASSUME NEW n \in Byte
  PROVE  n \in Uint16 /\ n \in Uint24 /\ n \in Nat /\ write_uint16(n) = <<0, n>>
<1>1. n \in Nat /\ n < 256
  BY DEF Byte
<1>2. n \in Uint16
  BY <1>1 DEF Uint16
<1>3. n \in Uint24
  BY <1>1, SMT DEF Uint24
<1>4. n \div 256 = 0 /\ n % 256 = n
  BY <1>1
<1> QED
  BY <1>1, <1>2, <1>3, <1>4, HighByteFirst

LEMMA SmallNumbers ==
  ASSUME NEW c \in Byte, NEW d \in Byte
  PROVE  /\ write_uint16(c) \o write_uint16(d) = <<0, c, 0, d>>
         /\ <<0, c, 0, d>> \in Numbers
<1>1. 0 \in Nat /\ c \in Nat /\ d \in Nat
  BY SmallNumber
<1>2. <<0, c>> \o <<0, d>> = <<0, c, 0, d>>
  BY <1>1, Tuples, ZenonT(60)
<1>3. write_uint16(c) = <<0, c>> /\ write_uint16(d) = <<0, d>>
  BY SmallNumber
<1>4. <<0, c, 0, d>> \in Numbers
  BY <1>1 DEF Numbers
<1> QED
  BY <1>2, <1>3, <1>4, Zenon

\* Pairs.
LEMMA PairOf ==
  ASSUME NEW S, NEW v \in S, NEW k \in S
  PROVE  /\ <<v, k>> \in Seq(S) /\ Len(<<v, k>>) = 2 /\ DOMAIN <<v, k>> = 1..2
         /\ <<v, k>>[1] = v /\ <<v, k>>[2] = k
OBVIOUS

\* The two extensions of a ServerHello.
LEMMA AnswerExtensions ==
  ASSUME NEW key \in Seq(Byte), Len(key) = 32, NEW ea,
         ea = add_key_share(add_supported_versions(<< >>), NAMED_GROUP_X25519, key)
  PROVE  /\ ea \in ExtensionList /\ extensions_length(ea) = 46
         /\ Filled(process_extensions(ea)) /\ process_extensions(ea).bytes \in Numbers
         /\ Len(process_extensions(ea).bytes) = 46
         /\ Stands(process_extensions(ea).bytes, 0, <<0, 43, 0, 2>>)
         /\ Stands(process_extensions(ea).bytes, 4, <<3, 4>>)
         /\ Stands(process_extensions(ea).bytes, 6, <<0, 51, 0, 36>>)
         /\ Stands(process_extensions(ea).bytes, 10, <<0, 29, 0, 32>>)
         /\ Stands(process_extensions(ea).bytes, 14, key)
         /\ ea[2].data \in Numbers /\ Stands(ea[2].data, 4, key)
<1>1. /\ 43 \in Byte /\ 2 \in Byte /\ 51 \in Byte /\ 36 \in Byte /\ 29 \in Byte /\ 32 \in Byte
      /\ 3 \in Byte /\ 4 \in Byte /\ 0 \in Byte
  BY DEF Byte
<1>2. /\ write_uint16(43) = <<0, 43>> /\ write_uint16(2) = <<0, 2>>
      /\ write_uint16(51) = <<0, 51>> /\ write_uint16(36) = <<0, 36>>
      /\ write_uint16(29) = <<0, 29>> /\ write_uint16(32) = <<0, 32>>
      /\ 43 \in Uint16 /\ 51 \in Uint16
  BY <1>1, SmallNumber
<1>3. key \in Numbers
  BY BytesAreNumbers
<1>4. PICK g : g = <<0, 29, 0, 32>> /\ g = write_uint16(29) \o write_uint16(32)
  BY <1>1, SmallNumbers, Zenon
<1>5. g \in Seq(Byte) /\ Len(g) = 4 /\ g \in Numbers
  <2>1. g \in Seq(Byte) /\ Len(g) = 4
    BY <1>1, <1>4
  <2> QED
    BY <2>1, BytesAreNumbers
<1>6. PICK d : d = g \o key /\ Joins(d, g, key)
  BY DEF Joins
<1>7. d \in Seq(Byte) /\ Len(d) = 36 /\ d \in Numbers
  <2>1. d \in Seq(Byte) /\ Len(d) = Len(g) + Len(key)
    BY <1>5, <1>6, Concat, ZenonT(60)
  <2> QED
    BY <1>5, <2>1, BytesAreNumbers
<1>8. Stands(d, 0, g) /\ Stands(d, 4, key)
  <2>1. Stands(d, 0, g) /\ Stands(d, Len(g), key)
    BY <1>3, <1>5, <1>6, Joined, Zenon
  <2> QED
    BY <1>5, <2>1
<1>9. PICK v : v = Extension(43, <<3, 4>>)
  OBVIOUS
<1>10. PICK k : k = Extension(51, d)
  OBVIOUS
<1>11. ea = <<v, k>>
  <2>1. add_supported_versions(<< >>) = Append(<< >>, v)
    BY <1>9 DEF add_supported_versions, SUPPORTED_VERSIONS_EXTENSION_TYPE
  <2>2. d = write_uint16(29) \o write_uint16(Len(key)) \o key
    BY <1>4, <1>6
  <2>3. ea = Append(Append(<< >>, v), k)
    BY <1>10, <2>1, <2>2, Zenon
       DEF add_key_share, KEY_SHARE_EXTENSION_TYPE, NAMED_GROUP_X25519
  <2> QED
    BY <2>3
<1>12. /\ v.type = 43 /\ v.data = <<3, 4>> /\ k.type = 51 /\ k.data = d
       /\ v \in [type : Uint16, data : Seq(Byte)] /\ k \in [type : Uint16, data : Seq(Byte)]
  BY <1>1, <1>2, <1>7, <1>9, <1>10 DEF Extension
<1>13. ea \in ExtensionList /\ Len(ea) = 2 /\ DOMAIN ea = 1..2 /\ ea[1] = v /\ ea[2] = k
  <2>1. PICK E : E = [type : Uint16, data : Seq(Byte)]
    OBVIOUS
  <2>2. v \in E /\ k \in E
    BY <1>12, <2>1
  <2>3. /\ ea \in Seq(E) /\ Len(ea) = 2 /\ DOMAIN ea = 1..2 /\ ea[1] = v /\ ea[2] = k
    <3>1. /\ <<v, k>> \in Seq(E) /\ Len(<<v, k>>) = 2 /\ DOMAIN <<v, k>> = 1..2
          /\ <<v, k>>[1] = v /\ <<v, k>>[2] = k
      BY <2>2, PairOf
    <3> QED
      BY <1>11, <3>1, Zenon
  <2> QED
    BY <2>1, <2>3, Zenon DEF ExtensionList
<1>14. PICK s : s = [j \in DOMAIN ea |-> 4 + Len(ea[j].data)]
  OBVIOUS
<1>15. s \in Seq(Nat) /\ Len(s) = 2 /\ s[1] = 6 /\ s[2] = 40
  <2>1. Len(ea[1].data) = 2 /\ Len(ea[2].data) = 36
    BY <1>7, <1>12, <1>13
  <2>2. 1 \in DOMAIN ea /\ 2 \in DOMAIN ea
    BY <1>13
  <2>3. s[1] = 4 + Len(ea[1].data) /\ s[2] = 4 + Len(ea[2].data)
    BY <1>14, <2>2
  <2>4. s[1] = 6 /\ s[2] = 40
    BY <2>1, <2>3
  <2>5. \A j \in 1..2 : s[j] \in Nat
    BY <2>4
  <2>6. s = <<6, 40>>
    BY <1>13, <1>14, <2>4
  <2> QED
    BY <2>6
<1>16. Sums(s)[0] = 0 /\ Sums(s)[1] = 6 /\ Sums(s)[2] = 46
  <2>1. Sums(s)[0] = 0 /\ \A n \in 1..2 : Sums(s)[n] = Sums(s)[n - 1] + s[n]
    BY <1>15, SumsFacts
  <2>2. Sums(s)[1] = Sums(s)[0] + s[1]
    BY <2>1
  <2>3. Sums(s)[2] = Sums(s)[1] + s[2]
    BY <2>1
  <2> QED
    BY <1>15, <2>1, <2>2, <2>3
<1>17. extensions_length(ea) = 46
  BY <1>14, <1>15, <1>16 DEF extensions_length, Total
<1>18. PICK x : x = process_extensions(ea).bytes
  OBVIOUS
<1>19. /\ x \in Numbers /\ Len(x) = 46 /\ process_extensions(ea).length = 46
       /\ \A i \in DOMAIN ea : Stands(x, Sums(s)[i - 1], ExtensionBytes(ea[i]))
  BY <1>13, <1>14, <1>17, <1>18, ExtensionsFilled
<1>20. Stands(x, 0, ExtensionBytes(v)) /\ Stands(x, 6, ExtensionBytes(k))
  BY <1>13, <1>16, <1>19
<1>21. /\ ExtensionBytes(v) \in Numbers /\ <<3, 4>> \in Numbers
       /\ Stands(ExtensionBytes(v), 0, <<0, 43, 0, 2>>) /\ Stands(ExtensionBytes(v), 4, <<3, 4>>)
  <2>1. write_uint16(43) \o write_uint16(2) = <<0, 43, 0, 2>> /\ Len(<<3, 4>>) = 2
    <3>1. write_uint16(43) \o write_uint16(2) = <<0, 43, 0, 2>>
      BY <1>1, SmallNumbers, Zenon
    <3>2. Len(<<3, 4>>) = 2
      OBVIOUS
    <3> QED
      BY <3>1, <3>2, Zenon
  <2>2. /\ ExtensionBytes(v) \in Numbers /\ v.data \in Numbers
        /\ Stands(ExtensionBytes(v), 0, write_uint16(v.type) \o write_uint16(Len(v.data)))
        /\ Stands(ExtensionBytes(v), 4, v.data)
    BY <1>12, ExtensionLayout
  <2> QED
    BY <1>12, <2>1, <2>2
<1>22. /\ ExtensionBytes(k) \in Numbers
       /\ Stands(ExtensionBytes(k), 0, <<0, 51, 0, 36>>) /\ Stands(ExtensionBytes(k), 4, d)
  <2>1. write_uint16(51) \o write_uint16(36) = <<0, 51, 0, 36>>
    BY <1>1, SmallNumbers, Zenon
  <2>2. /\ ExtensionBytes(k) \in Numbers
        /\ Stands(ExtensionBytes(k), 0, write_uint16(k.type) \o write_uint16(Len(k.data)))
        /\ Stands(ExtensionBytes(k), 4, k.data)
    BY <1>12, ExtensionLayout
  <2> QED
    BY <1>7, <1>12, <2>1, <2>2
<1>23. <<0, 43, 0, 2>> \in Numbers /\ <<0, 51, 0, 36>> \in Numbers
  BY DEF Numbers
<1>24. Stands(x, 0, <<0, 43, 0, 2>>) /\ Stands(x, 4, <<3, 4>>)
  <2>1. Stands(x, 0 + 0, <<0, 43, 0, 2>>) /\ Stands(x, 0 + 4, <<3, 4>>)
    BY <1>19, <1>20, <1>21, <1>23, StandsInside
  <2> QED
    BY <2>1
<1>25. Stands(x, 6, <<0, 51, 0, 36>>) /\ Stands(x, 10, d)
  <2>1. Stands(x, 6 + 0, <<0, 51, 0, 36>>) /\ Stands(x, 6 + 4, d)
    BY <1>7, <1>19, <1>20, <1>22, <1>23, StandsInside
  <2> QED
    BY <2>1
<1>26. Stands(x, 10, g) /\ Stands(x, 14, key)
  <2>1. Stands(x, 10 + 0, g) /\ Stands(x, 10 + 4, key)
    BY <1>3, <1>5, <1>7, <1>8, <1>19, <1>25, StandsInside
  <2> QED
    BY <2>1
<1>27. Filled(process_extensions(ea))
  BY <1>18, <1>19 DEF Filled
<1>28. ea[2].data = d
  BY <1>12, <1>13
<1> QED
  BY <1>4, <1>7, <1>8, <1>13, <1>17, <1>18, <1>19, <1>24, <1>25, <1>26, <1>27, <1>28, Zenon

\* The fields of the ServerHello, one behind the other.
LEMMA AnswerLayout ==
  ASSUME NEW random \in Seq(Byte), Len(random) = 32,
         NEW sid \in Seq(Byte), Len(sid) \in Byte,
         NEW key \in Seq(Byte), Len(key) = 32,
         NEW ans, ans = create_server_hello(random, sid, key)
  PROVE  /\ process_server_hello(ans).bytes \in Numbers
         /\ Len(process_server_hello(ans).bytes) = 86 + Len(sid)
         /\ process_server_hello(ans).length = 86 + Len(sid)
         /\ Stands(process_server_hello(ans).bytes, 2, random)
         /\ Stands(process_server_hello(ans).bytes, 34, <<Len(sid)>>)
         /\ Stands(process_server_hello(ans).bytes, 35, sid)
         /\ Stands(process_server_hello(ans).bytes, 35 + Len(sid), <<19, 3>>)
         /\ Stands(process_server_hello(ans).bytes, 38 + Len(sid), write_uint16(46))
         /\ Stands(process_server_hello(ans).bytes, 40 + Len(sid),
                   process_extensions(ans.extensions).bytes)
<1>1. PICK ea : ea = add_key_share(add_supported_versions(<< >>), NAMED_GROUP_X25519, key)
  OBVIOUS
<1>2. /\ ans.legacy_version = <<3, 3>> /\ ans.random = random
      /\ ans.legacy_session_id_echo = sid /\ ans.cipher_suite = <<19, 3>>
      /\ ans.legacy_compression_method = 0 /\ ans.extensions_length = extensions_length(ea)
      /\ ans.extensions = ea
  BY <1>1 DEF create_server_hello
<1>3. /\ extensions_length(ea) = 46 /\ process_extensions(ea).bytes \in Numbers
      /\ Len(process_extensions(ea).bytes) = 46
  BY <1>1, AnswerExtensions
<1>4. PICK s \in Nat : s = Len(sid)
  OBVIOUS
<1>5. PICK p1, p3, p5, p6 : p1 = <<3, 3>> /\ p3 = <<s>> /\ p5 = <<19, 3>> /\ p6 = << 0 >>
  OBVIOUS
<1>6. PICK p7, p8 : p7 = write_uint16(46) /\ p8 = process_extensions(ea).bytes
  OBVIOUS
<1>7. /\ p1 \in Numbers /\ Len(p1) = 2 /\ p3 \in Numbers /\ Len(p3) = 1
      /\ p5 \in Numbers /\ Len(p5) = 2 /\ p6 \in Numbers /\ Len(p6) = 1
  BY <1>4, <1>5 DEF Numbers
<1>8. p7 \in Numbers /\ Len(p7) = 2 /\ p8 \in Numbers /\ Len(p8) = 46
  BY <1>3, <1>6, WidthsOfNumbers
<1>9. random \in Numbers /\ sid \in Numbers
  BY BytesAreNumbers
<1>10. PICK t2, t3, t4, t5, t6, t7, t8 :
         /\ t2 = p1 \o random /\ t3 = t2 \o p3 /\ t4 = t3 \o sid /\ t5 = t4 \o p5
         /\ t6 = t5 \o p6 /\ t7 = t6 \o p7 /\ t8 = t7 \o p8
  BY Zenon
<1>11. /\ Joins(t2, p1, random) /\ Joins(t3, t2, p3) /\ Joins(t4, t3, sid) /\ Joins(t5, t4, p5)
       /\ Joins(t6, t5, p6) /\ Joins(t7, t6, p7) /\ Joins(t8, t7, p8)
  BY <1>10, Zenon DEF Joins
<1> DEFINE Keeps(c, a) == \A q \in Nat, x \in Numbers : Stands(a, q, x) => Stands(c, q, x)
<1>12. t2 \in Numbers /\ Len(t2) = Len(p1) + Len(random) /\ Stands(t2, Len(p1), random)
  BY <1>7, <1>9, <1>11, Joined, ZenonT(60)
<1>13. t3 \in Numbers /\ Len(t3) = Len(t2) + Len(p3) /\ Stands(t3, Len(t2), p3) /\ Keeps(t3, t2)
  BY <1>7, <1>11, <1>12, Joined, ZenonT(60)
<1>14. t4 \in Numbers /\ Len(t4) = Len(t3) + Len(sid) /\ Stands(t4, Len(t3), sid) /\ Keeps(t4, t3)
  BY <1>9, <1>11, <1>13, Joined, Zenon
<1>15. t5 \in Numbers /\ Len(t5) = Len(t4) + Len(p5) /\ Stands(t5, Len(t4), p5) /\ Keeps(t5, t4)
  BY <1>7, <1>11, <1>14, Joined, ZenonT(60)
<1>16. t6 \in Numbers /\ Len(t6) = Len(t5) + Len(p6) /\ Keeps(t6, t5)
  BY <1>7, <1>11, <1>15, Joined, ZenonT(60)
<1>17. t7 \in Numbers /\ Len(t7) = Len(t6) + Len(p7) /\ Stands(t7, Len(t6), p7) /\ Keeps(t7, t6)
  BY <1>8, <1>11, <1>16, Joined, ZenonT(60)
<1>18. t8 \in Numbers /\ Len(t8) = Len(t7) + Len(p8) /\ Stands(t8, Len(t7), p8) /\ Keeps(t8, t7)
  BY <1>8, <1>11, <1>17, Joined, ZenonT(60)
<1>19. /\ Keeps(t3, t2) /\ Keeps(t4, t3) /\ Keeps(t5, t4) /\ Keeps(t6, t5) /\ Keeps(t7, t6)
       /\ Keeps(t8, t7)
  BY <1>13, <1>14, <1>15, <1>16, <1>17, <1>18, Zenon
<1> HIDE DEF Keeps
<1>20. /\ Len(t2) = 34 /\ Len(t3) = 35 /\ Len(t4) = 35 + s /\ Len(t5) = 37 + s
       /\ Len(t6) = 38 + s /\ Len(t7) = 40 + s /\ Len(t8) = 86 + s
  BY <1>4, <1>7, <1>8, <1>12, <1>13, <1>14, <1>15, <1>16, <1>17, <1>18
<1>21. /\ Stands(t2, 2, random) /\ Stands(t3, 34, p3) /\ Stands(t4, 35, sid)
       /\ Stands(t5, 35 + s, p5) /\ Stands(t7, 38 + s, p7) /\ Stands(t8, 40 + s, p8)
  BY <1>7, <1>12, <1>13, <1>14, <1>15, <1>17, <1>18, <1>20
<1>22. PICK k \in Nat : k = 35 + s
  OBVIOUS
<1>23. PICK l \in Nat : l = 38 + s
  OBVIOUS
<1>24. 2 \in Nat /\ 34 \in Nat /\ 35 \in Nat
  OBVIOUS
<1>25. Stands(t8, 2, random)
  BY <1>9, <1>19, <1>21, <1>24, Zenon DEF Keeps
<1>26. Stands(t8, 34, p3)
  BY <1>7, <1>19, <1>21, <1>24, Zenon DEF Keeps
<1>27. Stands(t8, 35, sid)
  BY <1>9, <1>19, <1>21, <1>24, Zenon DEF Keeps
<1>28. Stands(t8, k, p5)
  <2>1. Stands(t5, k, p5)
    BY <1>21, <1>22
  <2> QED
    BY <1>7, <1>19, <1>22, <2>1, Zenon DEF Keeps
<1>29. Stands(t8, l, p7)
  <2>1. Stands(t7, l, p7)
    BY <1>21, <1>23
  <2> QED
    BY <1>8, <1>19, <1>23, <2>1, Zenon DEF Keeps
<1>30. process_server_hello(ans).bytes = t8
  BY <1>2, <1>3, <1>4, <1>5, <1>6, <1>10 DEF process_server_hello, Array
<1>31. process_server_hello(ans).length = 86 + s
  <2>1. process_server_hello(ans).length = ServerHelloLength(ans)
    BY DEF process_server_hello, Array
  <2>2. ServerHelloLength(ans) = 2 + 32 + 1 + s + 2 + 1 + 2 + 46
    BY <1>2, <1>3, <1>4 DEF ServerHelloLength
  <2> QED
    BY <1>4, <2>1, <2>2
<1> QED
  BY <1>2, <1>4, <1>5, <1>6, <1>18, <1>20, <1>21, <1>22, <1>23, <1>25, <1>26, <1>27, <1>28, <1>29,
     <1>30, <1>31, ZenonT(60)

\* What stands in two neighbouring places is one part.
LEMMA Neighbours ==
  ASSUME NEW m \in Numbers, NEW p \in Nat, NEW a \in Numbers, NEW b \in Numbers,
         Stands(m, p, a), Stands(m, p + Len(a), b)
  PROVE  Part(m, p, Len(a) + Len(b)) = a \o b
<1>1. Len(m) \in Nat /\ Len(a) \in Nat /\ Len(b) \in Nat
  BY LengthType
<1>2. /\ p + Len(a) + Len(b) <= Len(m)
      /\ \A k \in 1..Len(a) : m[p + k] = a[k]
      /\ \A k \in 1..Len(b) : m[(p + Len(a)) + k] = b[k]
  BY DEF Stands
<1>3. PICK u : u = Part(m, p, Len(a) + Len(b))
  OBVIOUS
<1>4. /\ u \in Numbers /\ Len(u) = Len(a) + Len(b)
      /\ \A k \in 1..(Len(a) + Len(b)) : u[k] = m[p + k]
  <2>1. PICK n \in Nat : n = Len(a) + Len(b) /\ p + n <= Len(m)
    BY <1>1, <1>2
  <2> QED
    BY <1>3, <2>1, PartOf
<1>5. PICK v : v = a \o b
  OBVIOUS
<1>6. /\ v \in Numbers /\ Len(v) = Len(a) + Len(b)
      /\ \A k \in 1..Len(a) : v[k] = a[k]
      /\ \A k \in 1..Len(b) : v[Len(a) + k] = b[k]
  BY <1>5, Concat DEF Numbers
<1>7. ASSUME NEW k \in 1..Len(u) PROVE u[k] = v[k]
  <2>1. CASE k \in 1..Len(a)
    BY <1>1, <1>2, <1>4, <1>6, <2>1
  <2>2. CASE k > Len(a)
    <3>1. PICK j \in 1..Len(b) : k = Len(a) + j
      <4>1. k - Len(a) \in 1..Len(b) /\ k = Len(a) + (k - Len(a))
        BY <1>1, <1>4, <2>2
      <4> QED
        BY <4>1
    <3>2. p + k = (p + Len(a)) + j
      BY <1>1, <3>1
    <3>3. u[k] = m[p + k]
      BY <1>4
    <3> QED
      BY <1>2, <1>6, <3>1, <3>2, <3>3
  <2> QED
    BY <1>1, <1>4, <2>1, <2>2
<1>8. u = v
  BY <1>4, <1>6, <1>7, SameElements DEF Numbers
<1> QED
  BY <1>3, <1>5, <1>8

\* What a peer reads there, byte by byte.
LEMMA SixRead ==
  ASSUME NEW m \in Numbers, NEW p \in Nat, NEW x \in Numbers, NEW y \in Numbers
  PROVE  Len(x) = 4 /\ Len(y) = 2 /\ Stands(m, p, x) /\ Stands(m, p + 4, y)
           => Part(m, p, 6) = <<x[1], x[2], x[3], x[4], y[1], y[2]>>
<1>1. PICK v : v = x \o y
  OBVIOUS
<1>2. x \in Seq(Nat) /\ y \in Seq(Nat)
  BY DEF Numbers
<1>3. \A i \in 1..Len(x) : (x \o y)[i] = x[i]
  BY <1>2, Concat
<1>4. \A i \in 1..Len(y) : (x \o y)[Len(x) + i] = y[i]
  BY <1>2, Concat
<1>5. (x \o y) \in Seq(Nat) /\ Len(x \o y) = Len(x) + Len(y)
  BY <1>2, Concat
<1>6. /\ v \in Seq(Nat) /\ Len(v) = Len(x) + Len(y)
      /\ \A i \in 1..Len(x) : v[i] = x[i]
      /\ \A i \in 1..Len(y) : v[Len(x) + i] = y[i]
  BY <1>1, <1>3, <1>4, <1>5, Zenon
<1> SUFFICES ASSUME Len(x) = 4, Len(y) = 2, Stands(m, p, x), Stands(m, p + 4, y)
             PROVE  Part(m, p, 6) = <<x[1], x[2], x[3], x[4], y[1], y[2]>>
  OBVIOUS
<1>7. v[1] = x[1] /\ v[2] = x[2] /\ v[3] = x[3] /\ v[4] = x[4] /\ v[4 + 1] = y[1]
      /\ v[4 + 2] = y[2]
  BY <1>6
<1>8. v = <<v[1], v[2], v[3], v[4], v[5], v[6]>>
  BY <1>6
<1>9. Part(m, p, Len(x) + Len(y)) = v
  BY <1>1, Neighbours
<1> QED
  BY <1>7, <1>8, <1>9

LEMMA EightRead ==
  ASSUME NEW m \in Numbers, NEW p \in Nat, NEW x \in Numbers, NEW y \in Numbers
  PROVE  Len(x) = 4 /\ Len(y) = 4 /\ Stands(m, p, x) /\ Stands(m, p + 4, y)
           => Part(m, p, 8) = <<x[1], x[2], x[3], x[4], y[1], y[2], y[3], y[4]>>
<1>1. PICK v : v = x \o y
  OBVIOUS
<1>2. x \in Seq(Nat) /\ y \in Seq(Nat)
  BY DEF Numbers
<1>3. \A i \in 1..Len(x) : (x \o y)[i] = x[i]
  BY <1>2, Concat
<1>4. \A i \in 1..Len(y) : (x \o y)[Len(x) + i] = y[i]
  BY <1>2, Concat
<1>5. (x \o y) \in Seq(Nat) /\ Len(x \o y) = Len(x) + Len(y)
  BY <1>2, Concat
<1>6. /\ v \in Seq(Nat) /\ Len(v) = Len(x) + Len(y)
      /\ \A i \in 1..Len(x) : v[i] = x[i]
      /\ \A i \in 1..Len(y) : v[Len(x) + i] = y[i]
  BY <1>1, <1>3, <1>4, <1>5, Zenon
<1> SUFFICES ASSUME Len(x) = 4, Len(y) = 4, Stands(m, p, x), Stands(m, p + 4, y)
             PROVE  Part(m, p, 8) = <<x[1], x[2], x[3], x[4], y[1], y[2], y[3], y[4]>>
  OBVIOUS
<1>7. v[1] = x[1] /\ v[2] = x[2] /\ v[3] = x[3] /\ v[4] = x[4] /\ v[4 + 1] = y[1]
      /\ v[4 + 2] = y[2] /\ v[4 + 3] = y[3] /\ v[4 + 4] = y[4]
  BY <1>6
<1>8. v = <<v[1], v[2], v[3], v[4], v[5], v[6], v[7], v[8]>>
  BY <1>6
<1>9. Part(m, p, Len(x) + Len(y)) = v
  BY <1>1, Neighbours
<1> QED
  BY <1>7, <1>8, <1>9

\* What is said of the arrays of an answer, and of what the peer reads.
AnswerSent(random, sid, ans, arrs) ==
  /\ DOMAIN arrs = 1..4 /\ \A i \in 1..4 : Filled(arrs[i])
  /\ PeerReads(arrs[4].bytes) =
       [random |-> random, session_id |-> sid, suite |-> <<19, 3>>,
        key |-> Part(ans.extensions[2].data, 4, 32)]

LEMMA AnswerRead ==
  ASSUME NEW random \in Seq(Byte), Len(random) = 32,
         NEW sid \in Seq(Byte), Len(sid) \in Byte,
         NEW key \in Seq(Byte), Len(key) = 32,
         NEW ans, ans = create_server_hello(random, sid, key),
         NEW sh, sh = process_server_hello(ans),
         NEW hs, hs = Framed(SERVER_HELLO_TYPE, sh),
         NEW rec, rec = process_record(HANDSHAKE_TYPE, <<3, 3>>, hs)
  PROVE  AnswerSent(random, sid, ans, <<process_extensions(ans.extensions), sh, hs, rec>>)
<1>1. PICK ea : ea = add_key_share(add_supported_versions(<< >>), NAMED_GROUP_X25519, key)
  OBVIOUS
<1>2. ans.extensions = ea /\ ans.random = random
  BY <1>1 DEF create_server_hello
<1>3. PICK xs : xs = process_extensions(ea).bytes
  OBVIOUS
<1>4. /\ Filled(process_extensions(ea)) /\ xs \in Numbers /\ Len(xs) = 46
      /\ Stands(xs, 0, <<0, 43, 0, 2>>) /\ Stands(xs, 4, <<3, 4>>)
      /\ Stands(xs, 6, <<0, 51, 0, 36>>) /\ Stands(xs, 10, <<0, 29, 0, 32>>)
      /\ Stands(xs, 14, key) /\ ea[2].data \in Numbers /\ Stands(ea[2].data, 4, key)
  BY <1>1, <1>3, AnswerExtensions
<1>5. PICK s \in Nat : s = Len(sid) /\ s \in Byte
  OBVIOUS
<1>6. /\ sh.bytes \in Numbers /\ Len(sh.bytes) = 86 + s /\ sh.length = 86 + s
      /\ Stands(sh.bytes, 2, random) /\ Stands(sh.bytes, 34, <<s>>) /\ Stands(sh.bytes, 35, sid)
      /\ Stands(sh.bytes, 35 + s, <<19, 3>>) /\ Stands(sh.bytes, 38 + s, write_uint16(46))
      /\ Stands(sh.bytes, 40 + s, xs)
  BY <1>2, <1>3, <1>5, AnswerLayout
<1>7. Filled(sh)
  BY <1>6 DEF Filled
<1>8. /\ hs.bytes \in Numbers /\ Filled(hs) /\ hs.length = 4 + sh.length
      /\ Stands(hs.bytes, 0, << 2 >>) /\ Stands(hs.bytes, 1, process_uint24(sh.length))
      /\ Stands(hs.bytes, 4, sh.bytes)
  <2>1. hs = process_handshake(2, sh) /\ 2 \in Nat /\ sh.bytes \in Numbers
    BY <1>6 DEF Framed, SERVER_HELLO_TYPE
  <2> QED
    BY <1>7, <2>1, HandshakeLayout
<1>9. <<3, 3>> \in Numbers /\ Len(<<3, 3>>) = 2 /\ 22 \in Nat
  BY DEF Numbers
<1>10. /\ rec.bytes \in Numbers /\ Filled(rec) /\ rec.length = 5 + hs.length
       /\ Stands(rec.bytes, 0, << 22 >> \o <<3, 3>>) /\ Stands(rec.bytes, 3, write_uint16(hs.length))
       /\ Stands(rec.bytes, 5, hs.bytes)
  <2>1. rec = process_record(22, <<3, 3>>, hs) /\ hs.bytes \in Numbers /\ Filled(hs)
    BY <1>8 DEF HANDSHAKE_TYPE
  <2> QED
    BY <1>9, <2>1, RecordLayout
<1>11. PICK w \in Numbers : w = rec.bytes
  BY <1>10
<1>12. sh.length = 86 + s /\ hs.length = 90 + s /\ Len(w) = 95 + s
  BY <1>5, <1>6, <1>8, <1>10, <1>11 DEF Filled
<1>13. PICK n24 \in Uint24 : n24 = 86 + s
  <2>1. s < 256
    <3>1. \A x \in Byte : x < 256
      BY DEF Byte
    <3> QED
      BY <1>5, <3>1
  <2> QED
    BY <2>1, SMT DEF Uint24
<1>14. PICK n16 \in Uint16 : n16 = 90 + s
  <2>1. s < 256
    <3>1. \A x \in Byte : x < 256
      BY DEF Byte
    <3> QED
      BY <1>5, <3>1
  <2> QED
    BY <2>1, SMT DEF Uint16
<1>15. Part(w, 0, 3) = <<22, 3, 3>>
  <2>1. PICK q : q = <<22, 3, 3>>
    OBVIOUS
  <2>2. << 22 >> \o <<3, 3>> = <<22, 3, 3>>
    <3>1. 22 \in Nat /\ 3 \in Nat
      OBVIOUS
    <3> QED
      BY <3>1, Tuples, ZenonT(60)
  <2>3. Stands(w, 0, q)
    BY <1>10, <1>11, <2>1, <2>2, Zenon
  <2>4. q \in Numbers /\ Len(q) = 3
    BY <2>1 DEF Numbers
  <2>5. Part(w, 0, Len(q)) = q
    BY <2>3, <2>4, StandsPart
  <2> QED
    BY <2>1, <2>4, <2>5
<1>16. PeerNumber(Part(w, 3, 2)) = Len(w) - 5
  <2>1. Stands(w, 3, write_uint16(n16))
    BY <1>10, <1>11, <1>12, <1>14
  <2>2. PeerNumber(Part(w, 3, 2)) = n16
    BY <2>1, Uint16Read
  <2> QED
    BY <1>12, <1>14, <2>2
<1>17. Stands(w, 5, hs.bytes)
  BY <1>10, <1>11
<1>18. w[6] = 2
  <2>1. << 2 >> \in Numbers
    BY OneNumber
  <2>2. Stands(w, 5 + 0, << 2 >>)
    BY <1>8, <1>17, <2>1, StandsInside
  <2>3. w[5 + 1] = 2
    BY <2>2, ByteRead
  <2> QED
    BY <2>3
<1>19. PeerNumber(Part(w, 6, 3)) = Len(w) - 9
  <2>1. n24 \in Nat
    BY <1>13
  <2>2. process_uint24(n24) \in Numbers
    BY <2>1, WidthsOfNumbers
  <2>3. Stands(hs.bytes, 1, process_uint24(n24))
    BY <1>8, <1>12, <1>13
  <2>4. Stands(w, 5 + 1, process_uint24(n24))
    BY <1>8, <1>17, <2>2, <2>3, StandsInside
  <2>5. PeerNumber(Part(w, 6, 3)) = n24
    BY <2>4, Uint24Read
  <2> QED
    BY <1>12, <1>13, <2>5
<1>20. Stands(w, 9, sh.bytes)
  <2>1. Stands(w, 5 + 4, sh.bytes)
    BY <1>6, <1>8, <1>17, StandsInside
  <2> QED
    BY <2>1
<1>21. \A p \in Nat, q \in Numbers : Stands(sh.bytes, p, q) => Stands(w, 9 + p, q)
  BY <1>6, <1>20, StandsInside
<1>22. random \in Numbers /\ sid \in Numbers /\ key \in Numbers
  BY BytesAreNumbers
<1>23. Part(w, 11, 32) = random
  <2>1. Stands(w, 9 + 2, random)
    BY <1>6, <1>21, <1>22
  <2>2. Stands(w, 11, random) /\ 11 \in Nat
    BY <2>1
  <2>3. Part(w, 11, Len(random)) = random
    BY <1>22, <2>2, StandsPart, Zenon
  <2> QED
    BY <2>3
<1>24. w[44] = s
  <2>1. <<s>> \in Numbers
    BY OneNumber
  <2>2. Stands(w, 9 + 34, <<s>>)
    BY <1>6, <1>21, <2>1
  <2>3. w[43 + 1] = s
    BY <2>2, ByteRead
  <2> QED
    BY <2>3
<1>25. Part(w, 44, s) = sid
  <2>1. Stands(w, 9 + 35, sid)
    BY <1>6, <1>21, <1>22
  <2>2. Part(w, 44, Len(sid)) = sid
    BY <1>22, <2>1, StandsPart
  <2> QED
    BY <1>5, <2>2
<1>26. Part(w, 44 + s, 2) = <<19, 3>>
  <2>1. PICK q : q = <<19, 3>>
    OBVIOUS
  <2>2. q \in Numbers /\ Len(q) = 2
    BY <2>1 DEF Numbers
  <2>3. PICK p \in Nat : p = 35 + s /\ 9 + p = 44 + s
    BY <1>5
  <2>4. Stands(w, 9 + p, q)
    BY <1>6, <1>21, <2>1, <2>2, <2>3
  <2>5. PICK r \in Nat : r = 9 + p
    OBVIOUS
  <2>6. Stands(w, r, q) /\ q \in Numbers
    BY <2>2, <2>4, <2>5
  <2>7. Part(w, r, Len(q)) = q
    BY <2>6, StandsPart
  <2> QED
    BY <2>1, <2>2, <2>3, <2>5, <2>7
<1>27. PeerNumber(Part(w, 44 + s + 3, 2)) = 46
  <2>1. 46 \in Uint16 /\ 46 \in Nat
    BY DEF Uint16
  <2>2. PICK q : q = write_uint16(46)
    OBVIOUS
  <2>3. q \in Numbers
    BY <2>1, <2>2, WidthsOfNumbers
  <2>4. PICK p \in Nat : p = 38 + s /\ 9 + p = 44 + s + 3
    BY <1>5
  <2>5. Stands(w, 9 + p, q)
    BY <1>6, <1>21, <2>2, <2>3, <2>4
  <2>6. PeerNumber(Part(w, 9 + p, 2)) = 46
    BY <2>1, <2>2, <2>4, <2>5, Uint16Read
  <2> QED
    BY <2>4, <2>6
<1>28. Part(w, 44 + s + 5, Len(w) - (44 + s + 5)) = xs
  <2>1. PICK p \in Nat : p = 40 + s /\ 9 + p = 44 + s + 5
    BY <1>5
  <2>2. Stands(w, 9 + p, xs)
    BY <1>4, <1>6, <1>21, <2>1
  <2>3. PICK r \in Nat : r = 9 + p
    OBVIOUS
  <2>4. Stands(w, r, xs) /\ xs \in Numbers
    BY <1>4, <2>2, <2>3
  <2>5. Part(w, r, Len(xs)) = xs
    BY <2>4, StandsPart
  <2>6. Len(w) - (44 + s + 5) = 46
    BY <1>5, <1>12
  <2> QED
    BY <1>4, <2>1, <2>3, <2>5, <2>6
<1>29. Part(xs, 0, 6) = <<0, 43, 0, 2, 3, 4>>
  <2>1. PICK a, b : a = <<0, 43, 0, 2>> /\ b = <<3, 4>>
    OBVIOUS
  <2>2. /\ a \in Numbers /\ Len(a) = 4 /\ b \in Numbers /\ Len(b) = 2
        /\ a[1] = 0 /\ a[2] = 43 /\ a[3] = 0 /\ a[4] = 2 /\ b[1] = 3 /\ b[2] = 4
    BY <2>1 DEF Numbers
  <2>3. Stands(xs, 0, a) /\ Stands(xs, 0 + 4, b)
    BY <1>4, <2>1
  <2>4. Part(xs, 0, 6) = <<a[1], a[2], a[3], a[4], b[1], b[2]>>
    BY <1>4, <2>2, <2>3, SixRead
  <2> QED
    BY <2>2, <2>4
<1>30. Part(xs, 6, 8) = <<0, 51, 0, 36, 0, 29, 0, 32>>
  <2>1. PICK a, b : a = <<0, 51, 0, 36>> /\ b = <<0, 29, 0, 32>>
    OBVIOUS
  <2>2. /\ a \in Numbers /\ Len(a) = 4 /\ b \in Numbers /\ Len(b) = 4
        /\ a[1] = 0 /\ a[2] = 51 /\ a[3] = 0 /\ a[4] = 36
        /\ b[1] = 0 /\ b[2] = 29 /\ b[3] = 0 /\ b[4] = 32
    BY <2>1 DEF Numbers
  <2>3. Stands(xs, 6, a) /\ Stands(xs, 6 + 4, b)
    BY <1>4, <2>1
  <2>4. Part(xs, 6, 8) = <<a[1], a[2], a[3], a[4], b[1], b[2], b[3], b[4]>>
    BY <1>4, <2>2, <2>3, EightRead
  <2> QED
    BY <2>2, <2>4
<1>31. Part(xs, 14, Len(xs) - 14) = key /\ Part(ea[2].data, 4, 32) = key
  <2>1. Part(xs, 14, Len(key)) = key /\ Part(ea[2].data, 4, Len(key)) = key
    BY <1>4, <1>22, StandsPart, ZenonT(60)
  <2>2. Len(xs) - 14 = 32
    BY <1>4
  <2> QED
    BY <2>1, <2>2
<1>32. PeerReads(w) = [random |-> random, session_id |-> sid, suite |-> <<19, 3>>, key |-> key]
  <2>1. PeerNumber(Part(w, 44 + s + 3, 2)) = Len(xs)
    BY <1>4, <1>27
  <2>2. /\ Part(w, 0, 3) = <<HANDSHAKE_TYPE, 3, 3>> /\ w[6] = SERVER_HELLO_TYPE
    BY <1>15, <1>18 DEF HANDSHAKE_TYPE, SERVER_HELLO_TYPE
  <2> QED
    BY <1>16, <1>19, <1>23, <1>24, <1>25, <1>26, <1>28, <1>29, <1>30, <1>31, <2>1, <2>2, ZenonT(60)
       DEF PeerReads
<1>33. PICK arrs : arrs = <<process_extensions(ans.extensions), sh, hs, rec>>
  OBVIOUS
<1>34. /\ DOMAIN arrs = 1..4 /\ arrs[1] = process_extensions(ans.extensions)
       /\ arrs[2] = sh /\ arrs[3] = hs /\ arrs[4] = rec
  BY <1>33
<1>35. \A i \in 1..4 : Filled(arrs[i])
  <2>1. Filled(arrs[1]) /\ Filled(arrs[2]) /\ Filled(arrs[3]) /\ Filled(arrs[4])
    BY <1>2, <1>4, <1>7, <1>8, <1>10, <1>34
  <2>2. \A i \in 1..4 : i = 1 \/ i = 2 \/ i = 3 \/ i = 4
    OBVIOUS
  <2> QED
    BY <2>1, <2>2
<1>36. PeerReads(arrs[4].bytes) = [random |-> random, session_id |-> sid, suite |-> <<19, 3>>,
                                   key |-> Part(ans.extensions[2].data, 4, 32)]
  BY <1>2, <1>11, <1>31, <1>32, <1>34, Zenon
<1> QED
  BY <1>33, <1>34, <1>35, <1>36, Zenon DEF AnswerSent

\* How far the answer is.
AnswerInv ==
  /\ pc \in {"answer", "sent"} =>
       /\ Len(fields) = 6
       /\ \E key \in PublicKey, random \in Random :
            answer = create_server_hello(random, fields[3], key)
  /\ pc = "sent" =>
       LET sh == process_server_hello(answer)
           hs == Framed(SERVER_HELLO_TYPE, sh)
       IN  arrays = <<process_extensions(answer.extensions), sh, hs,
                      process_record(HANDSHAKE_TYPE, <<3, 3>>, hs)>>
  /\ pc # "sent" => arrays = << >>

LEMMA AnswerInvariant == HelloSpec => []AnswerInv
<1>1. HelloInit => AnswerInv
  BY DEF HelloInit, AnswerInv
<1>2. AnswerInv /\ [HelloNext]_helloVars => AnswerInv'
  <2> SUFFICES ASSUME AnswerInv, [HelloNext]_helloVars PROVE AnswerInv'
    OBVIOUS
  <2>1. CASE UNCHANGED helloVars
    BY <2>1 DEF AnswerInv, helloVars
  <2>2. CASE parse_handshake
    <3>1. pc = "handshake" /\ pc' \in {"parse", "outside"} /\ UNCHANGED arrays
      BY <2>2 DEF parse_handshake
    <3> QED
      BY <3>1 DEF AnswerInv
  <2>3. CASE parse_client_hello
    <3>1. pc = "parse" /\ pc' \in {"parse", "outside"} /\ UNCHANGED arrays
      BY <2>3 DEF parse_client_hello
    <3> QED
      BY <3>1 DEF AnswerInv
  <2>4. CASE BuildServerHello
    <3>1. /\ pc = "parse" /\ pc' = "answer" /\ Len(fields) = 6 /\ UNCHANGED <<fields, arrays>>
          /\ \E key \in PublicKey, random \in Random :
               answer' = create_server_hello(random, fields[3], key)
      BY <2>4 DEF BuildServerHello
    <3> QED
      BY <3>1 DEF AnswerInv
  <2>5. CASE SendServerHello
    <3>1. pc = "answer" /\ pc' = "sent" /\ UNCHANGED <<fields, answer>>
      BY <2>5 DEF SendServerHello
    <3>2. LET sh == process_server_hello(answer)
              hs == Framed(SERVER_HELLO_TYPE, sh)
          IN  arrays' = <<process_extensions(answer.extensions), sh, hs,
                          process_record(HANDSHAKE_TYPE, <<3, 3>>, hs)>>
      BY <2>5 DEF SendServerHello
    <3> QED
      BY <3>1, <3>2 DEF AnswerInv
  <2> QED
    BY <2>1, <2>2, <2>3, <2>4, <2>5 DEF HelloNext, HelloTerminated
<1> QED
  BY <1>1, <1>2, PTL DEF HelloSpec

\* What was sent is an answer to what the server has read.
LEMMA SentAnswer ==
  ASSUME HelloInv, AnswerInv, pc = "sent"
  PROVE  AnswerSent(answer.random, fields[3], answer, arrays)
<1>1. PICK key \in PublicKey, random \in Random :
        answer = create_server_hello(random, fields[3], key)
  BY DEF AnswerInv
<1>2. key \in Seq(Byte) /\ Len(key) = 32 /\ random \in Seq(Byte) /\ Len(random) = 32
  BY ServerAssumption
<1>3. fields[3] \in Seq(Byte) /\ Len(fields[3]) \in Byte
  <2>1. fields \in Seq(Seq(Byte)) /\ Len(fields) = 6
    BY DEF HelloInv, HelloType, AnswerInv
  <2>2. 3 \in 1..Len(fields) /\ Len(fields) >= 3
    BY <2>1
  <2>3. fields[3] \in Seq(Byte)
    BY <2>1, <2>2, ElementOfSeq
  <2> QED
    BY <2>2, <2>3 DEF HelloInv, HelloType
<1>4. PICK sh : sh = process_server_hello(answer)
  OBVIOUS
<1>5. PICK hs : hs = Framed(SERVER_HELLO_TYPE, sh)
  OBVIOUS
<1>6. PICK rec : rec = process_record(HANDSHAKE_TYPE, <<3, 3>>, hs)
  OBVIOUS
<1>7. arrays = <<process_extensions(answer.extensions), sh, hs, rec>>
  BY <1>4, <1>5, <1>6, Zenon DEF AnswerInv
<1>8. AnswerSent(random, fields[3], answer, <<process_extensions(answer.extensions), sh, hs, rec>>)
  BY <1>1, <1>2, <1>3, <1>4, <1>5, <1>6, AnswerRead
<1>9. answer.random = random
  BY <1>1 DEF create_server_hello
<1> QED
  BY <1>7, <1>8, <1>9, Zenon

\* Each buffer of a ServerHello is as long as what is written into it, whatever
\* the lengths of the session id are: what create_server_hello and the encoders
\* compute before malloc is what the writes add up to.
THEOREM AnswerFillsItsBuffers == HelloSpec => []BuffersFilled
<1>1. HelloInv /\ AnswerInv => BuffersFilled
  <2> SUFFICES ASSUME HelloInv, AnswerInv PROVE BuffersFilled
    OBVIOUS
  <2>1. CASE pc = "sent"
    BY <2>1, SentAnswer DEF AnswerSent, BuffersFilled
  <2>2. CASE pc # "sent"
    BY <2>2 DEF AnswerInv, BuffersFilled
  <2> QED
    BY <2>1, <2>2
<1> QED
  BY <1>1, HelloInvariant, AnswerInvariant, PTL

\* The peer takes the record of a ServerHello apart into the random, the session id
\* it had sent, the suite and the key: every length in it covers what is there.
THEOREM PeerTakesAnswerApart == HelloSpec => []PeerReadsAnswer
<1>1. HelloInv /\ AnswerInv => PeerReadsAnswer
  BY SentAnswer DEF AnswerSent, PeerReadsAnswer
<1> QED
  BY <1>1, HelloInvariant, AnswerInvariant, PTL

-----------------------------------------------------------------------------
(* The messages of the rest of the flight.                                 *)

\* No sum is above the last one.
LEMMA SumsGrow ==
  ASSUME NEW s \in Seq(Nat), NEW n \in 0..Len(s)
  PROVE  Sums(s)[n] <= Total(s)
<1> DEFINE T == {m \in Nat : m <= Len(s) => Sums(s)[Len(s) - m] <= Sums(s)[Len(s)]}
<1>1. Len(s) \in Nat
  OBVIOUS
<1>2. /\ \A k \in 1..Len(s) : Sums(s)[k] = Sums(s)[k - 1] + s[k] /\ s[k] \in Nat
      /\ \A k \in 0..Len(s) : Sums(s)[k] \in Nat
  BY SumsFacts
<1>3. 0 \in T
  BY <1>1, <1>2
<1>4. ASSUME NEW m \in Nat, m \in T PROVE m + 1 \in T
  <2> SUFFICES ASSUME m + 1 <= Len(s)
               PROVE  Sums(s)[Len(s) - (m + 1)] <= Sums(s)[Len(s)]
    OBVIOUS
  <2>1. PICK k : k = Len(s) - m
    OBVIOUS
  <2>2. k \in 1..Len(s) /\ k - 1 \in 0..Len(s) /\ k - 1 = Len(s) - (m + 1) /\ k \in 0..Len(s)
    BY <1>1, <2>1
  <2>3. Sums(s)[k] = Sums(s)[k - 1] + s[k] /\ s[k] \in Nat /\ Sums(s)[k - 1] \in Nat
    BY <1>2, <2>2
  <2>4. Sums(s)[k] <= Sums(s)[Len(s)] /\ Sums(s)[Len(s)] \in Nat
    BY <1>1, <1>2, <1>4, <2>1
  <2> QED
    BY <2>2, <2>3, <2>4, SMTT(60)
<1>5. \A m \in Nat : m \in T
  <2> HIDE DEF T
  <2> QED
    BY <1>3, <1>4, Induct
<1>6. PICK m \in Nat : m = Len(s) - n /\ m <= Len(s) /\ Len(s) - m = n
  <2>1. Len(s) - n \in Nat /\ Len(s) - n <= Len(s) /\ Len(s) - (Len(s) - n) = n
    BY <1>1
  <2> QED
    BY <2>1
<1>7. Sums(s)[Len(s) - m] <= Sums(s)[Len(s)]
  BY <1>5, <1>6
<1> QED
  BY <1>6, <1>7 DEF Total

\* What is computed for the entry of a certificate is what is written of it.
LEMMA EntryLayout ==
  ASSUME NEW ce \in CertificateEntry, NEW e, e = process_certificate_entry(ce),
         NEW n, n = Len(ce.cert_data)
  PROVE  /\ n \in Nat /\ ce.cert_data \in Numbers
         /\ e \in Numbers /\ Len(e) = EntryLength(ce) /\ EntryLength(ce) \in Nat
         /\ Stands(e, 0, process_uint24(n)) /\ Stands(e, 3, ce.cert_data)
         /\ ce.extensions = << >> => /\ EntryLength(ce) = 5 + n
                                     /\ Stands(e, 3 + n, <<0, 0>>)
<1>1. ce.cert_data \in Seq(Byte) /\ ce.extensions \in ExtensionList
  BY DEF CertificateEntry, ListWithin
<1>2. PICK d \in Numbers : d = ce.cert_data /\ n = Len(d) /\ n \in Nat
  BY <1>1, BytesAreNumbers, LengthType
<1>3. PICK x \in Nat : x = extensions_length(ce.extensions)
  BY <1>1, ExtensionsFilled
<1>4. PICK t : t = (IF x # 0 THEN process_extensions(ce.extensions).bytes ELSE << >>)
  OBVIOUS
<1>5. t \in Numbers /\ Len(t) = x
  <2>1. << >> \in Numbers /\ Len(<< >>) = 0
    BY DEF Numbers
  <2>2. /\ process_extensions(ce.extensions).bytes \in Numbers
        /\ Len(process_extensions(ce.extensions).bytes) = x
    BY <1>1, <1>3, ExtensionsFilled
  <2> QED
    BY <1>4, <2>1, <2>2
<1>6. PICK a, b : a = process_uint24(n) /\ b = HostBytes(x)
  OBVIOUS
<1>7. a \in Numbers /\ Len(a) = 3 /\ b \in Numbers /\ Len(b) = 2
  BY <1>2, <1>3, <1>6, WidthsOfNumbers
<1>8. PICK u, v, w : u = a \o d /\ v = u \o b /\ w = v \o t
  BY Zenon
<1>9. Joins(u, a, d) /\ Joins(v, u, b) /\ Joins(w, v, t)
  BY <1>8, Zenon DEF Joins
<1> DEFINE Keeps(c, s) == \A q \in Nat, y \in Numbers : Stands(s, q, y) => Stands(c, q, y)
<1>10. u \in Numbers /\ Len(u) = Len(a) + Len(d) /\ Stands(u, 0, a) /\ Stands(u, Len(a), d)
  BY <1>2, <1>7, <1>9, Joined, Zenon
<1>11. v \in Numbers /\ Len(v) = Len(u) + Len(b) /\ Stands(v, Len(u), b) /\ Keeps(v, u)
  BY <1>7, <1>9, <1>10, Joined, Zenon
<1>12. w \in Numbers /\ Len(w) = Len(v) + Len(t) /\ Keeps(w, v)
  BY <1>5, <1>9, <1>11, Joined, Zenon
<1>13. Keeps(v, u) /\ Keeps(w, v)
  BY <1>11, <1>12, Zenon
<1> HIDE DEF Keeps
<1>14. PICK k \in Nat : k = 3 + n
  BY <1>2
<1>15. Len(u) = k /\ Len(v) = k + 2 /\ Len(w) = k + 2 + x /\ Stands(u, 3, d) /\ Stands(v, k, b)
  BY <1>2, <1>5, <1>7, <1>10, <1>11, <1>12, <1>14
<1>16. 0 \in Nat /\ 3 \in Nat
  OBVIOUS
<1>17. Stands(w, 0, a) /\ Stands(w, 3, d) /\ Stands(w, k, b)
  BY <1>2, <1>7, <1>10, <1>13, <1>14, <1>15, <1>16, Zenon DEF Keeps
<1>18. e = w
  BY <1>2, <1>3, <1>4, <1>6, <1>8 DEF process_certificate_entry
<1>19. EntryLength(ce) = 3 + n + 2 + x
  BY <1>3 DEF EntryLength
<1>20. Len(e) = EntryLength(ce) /\ EntryLength(ce) \in Nat
  BY <1>2, <1>3, <1>14, <1>15, <1>18, <1>19
<1>21. ASSUME ce.extensions = << >>
       PROVE  EntryLength(ce) = 5 + n /\ Stands(e, 3 + n, <<0, 0>>)
  <2>1. x = 0
    BY <1>3, <1>21, NoExtensions
  <2>2. b = <<0, 0>>
    BY <1>6, <2>1 DEF HostBytes
  <2> QED
    BY <1>2, <1>14, <1>17, <1>18, <1>19, <2>1, <2>2
<1> QED
  BY <1>2, <1>6, <1>12, <1>17, <1>18, <1>20, <1>21

EntryLengths(cc) == [i \in DOMAIN cc |-> EntryLength(cc[i])]

\* The lengths of the entries, and where the peer looks for them.
LEMMA ChainFacts ==
  ASSUME NEW cc \in Seq(CertificateEntry)
  PROVE  /\ Len(cc) \in Nat /\ DOMAIN cc = 1..Len(cc)
         /\ \A i \in 1..Len(cc) : cc[i] \in CertificateEntry
         /\ EntryLengths(cc) \in Seq(Nat) /\ Len(EntryLengths(cc)) = Len(cc)
         /\ \A i \in 1..Len(cc) : EntryLengths(cc)[i] = EntryLength(cc[i])
         /\ certificate_chain_length(cc) = Total(EntryLengths(cc))
         /\ certificate_chain_length(cc) \in Nat
         /\ HasNoExtensions(cc) =>
              \A i \in 1..Len(cc) : EntryPlace(cc, i) = 4 + Sums(EntryLengths(cc))[i - 1]
<1>1. Len(cc) \in Nat /\ DOMAIN cc = 1..Len(cc)
  OBVIOUS
<1>2. \A i \in 1..Len(cc) : cc[i] \in CertificateEntry
  BY ElementOfSeq
<1>3. \A i \in 1..Len(cc) : EntryLength(cc[i]) \in Nat
  BY <1>2, EntryLayout
<1>4. EntryLengths(cc) = [i \in 1..Len(cc) |-> EntryLength(cc[i])]
  BY <1>1 DEF EntryLengths
<1>5. EntryLengths(cc) \in Seq(Nat) /\ Len(EntryLengths(cc)) = Len(cc)
  BY <1>1, <1>3, <1>4
<1>6. \A i \in 1..Len(cc) : EntryLengths(cc)[i] = EntryLength(cc[i])
  BY <1>4
<1>7. certificate_chain_length(cc) = Total(EntryLengths(cc))
  BY DEF certificate_chain_length, EntryLengths
<1>8. Total(EntryLengths(cc)) \in Nat
  BY <1>1, <1>5, SumsFacts DEF Total
<1>9. ASSUME HasNoExtensions(cc)
      PROVE  \A i \in 1..Len(cc) : EntryPlace(cc, i) = 4 + Sums(EntryLengths(cc))[i - 1]
  <2>1. \A i \in 1..Len(cc) : EntryLength(cc[i]) = 5 + Len(cc[i].cert_data)
    BY <1>1, <1>2, <1>9, EntryLayout DEF HasNoExtensions
  <2>2. [j \in DOMAIN cc |-> 5 + Len(cc[j].cert_data)] = EntryLengths(cc)
    BY <1>1, <1>4, <2>1
  <2> QED
    BY <2>2 DEF EntryPlace
<1> QED
  BY <1>1, <1>2, <1>5, <1>6, <1>7, <1>8, <1>9

\* A certificate message in which n entries stand, each behind those before it.
Written(cc, n, a) ==
  /\ a \in [length : Nat, bytes : Numbers]
  /\ a.length = 4 + certificate_chain_length(cc)
  /\ Len(a.bytes) = 4 + Sums(EntryLengths(cc))[n]
  /\ Stands(a.bytes, 0, << 0 >>)
  /\ Stands(a.bytes, 1, process_uint24(certificate_chain_length(cc)))
  /\ \A i \in 1..n :
       Stands(a.bytes, 4 + Sums(EntryLengths(cc))[i - 1], process_certificate_entry(cc[i]))

\* It begins with the length of the list.
LEMMA NothingWritten ==
  ASSUME NEW cc \in Seq(CertificateEntry), NEW a,
         a = Array(1 + 0 + 3 + ListLength(cc), << 0 >> \o process_uint24(ListLength(cc)))
  PROVE  Written(cc, 0, a)
<1>1. PICK n \in Nat : n = certificate_chain_length(cc)
  BY ChainFacts
<1>2. PICK b, c : b = << 0 >> /\ c = process_uint24(n)
  OBVIOUS
<1>3. b \in Numbers /\ Len(b) = 1 /\ c \in Numbers /\ Len(c) = 3
  BY <1>1, <1>2, OneNumber, WidthsOfNumbers
<1>4. PICK m : m = b \o c /\ Joins(m, b, c)
  BY DEF Joins
<1>5. m \in Numbers /\ Len(m) = Len(b) + Len(c) /\ Stands(m, 0, b) /\ Stands(m, Len(b), c)
  BY <1>3, <1>4, Joined, Zenon
<1>6. a = [length |-> 1 + 0 + 3 + n, bytes |-> m]
  BY <1>1, <1>2, <1>4 DEF ListLength, Array
<1>7. a \in [length : Nat, bytes : Numbers] /\ a.length = 4 + n /\ a.bytes = m
  BY <1>1, <1>5, <1>6
<1>8. Sums(EntryLengths(cc))[0] = 0
  BY ChainFacts, SumsFacts
<1> QED
  BY <1>1, <1>2, <1>3, <1>5, <1>7, <1>8 DEF Written

\* Each entry goes behind those before it.
LEMMA EntryAdded ==
  ASSUME NEW cc \in Seq(CertificateEntry), NEW n \in Nat, n < Len(cc), NEW a, Written(cc, n, a),
         NEW b, b = [a EXCEPT !.bytes = @ \o process_certificate_entry(cc[n + 1])]
  PROVE  Written(cc, n + 1, b)
<1>1. PICK m : m = a.bytes
  OBVIOUS
<1>2. PICK e : e = process_certificate_entry(cc[n + 1])
  OBVIOUS
<1>3. PICK S : S = Sums(EntryLengths(cc))
  OBVIOUS
<1>4. n + 1 \in 1..Len(cc)
  BY ChainFacts
<1>5. e \in Numbers /\ Len(e) = EntryLength(cc[n + 1])
  BY <1>2, <1>4, ChainFacts, EntryLayout
<1>6. S[n + 1] = S[n] + Len(e) /\ S[n] \in Nat
  <2>1. EntryLengths(cc) \in Seq(Nat) /\ Len(EntryLengths(cc)) = Len(cc)
        /\ EntryLengths(cc)[n + 1] = Len(e)
    BY <1>4, <1>5, ChainFacts
  <2>2. n + 1 \in 1..Len(EntryLengths(cc)) /\ n \in 0..Len(EntryLengths(cc)) /\ (n + 1) - 1 = n
    BY <1>4, <2>1
  <2> QED
    BY <1>3, <2>1, <2>2, SumsFacts
<1>7. /\ a \in [length : Nat, bytes : Numbers] /\ m \in Numbers
      /\ a.length = 4 + certificate_chain_length(cc) /\ Len(m) = 4 + S[n]
      /\ Stands(m, 0, << 0 >>) /\ Stands(m, 1, process_uint24(certificate_chain_length(cc)))
      /\ \A i \in 1..n : Stands(m, 4 + S[i - 1], process_certificate_entry(cc[i]))
  BY <1>1, <1>3 DEF Written
<1>8. PICK w : w = m \o e /\ Joins(w, m, e)
  BY DEF Joins
<1>9. /\ w \in Numbers /\ Len(w) = Len(m) + Len(e) /\ Stands(w, Len(m), e)
      /\ \A p \in Nat, q \in Numbers : Stands(m, p, q) => Stands(w, p, q)
  BY <1>5, <1>7, <1>8, Joined, Zenon
<1>10. b \in [length : Nat, bytes : Numbers] /\ b.length = a.length /\ b.bytes = w
  BY <1>1, <1>2, <1>7, <1>8, <1>9
<1>11. Len(w) = 4 + S[n + 1]
  BY <1>6, <1>7, <1>9
<1>12. Stands(w, 0, << 0 >>) /\ Stands(w, 1, process_uint24(certificate_chain_length(cc)))
  <2>1. 0 \in Nat /\ 1 \in Nat /\ << 0 >> \in Numbers
    BY OneNumber
  <2>2. process_uint24(certificate_chain_length(cc)) \in Numbers
    BY ChainFacts, WidthsOfNumbers
  <2> QED
    BY <1>7, <1>9, <2>1, <2>2, Zenon
<1>13. ASSUME NEW i \in 1..(n + 1)
       PROVE  Stands(w, 4 + S[i - 1], process_certificate_entry(cc[i]))
  <2>1. CASE i = n + 1
    BY <1>2, <1>7, <1>9, <2>1
  <2>2. CASE i \in 1..n
    <3>1. i \in 1..Len(cc)
      BY <1>4, <2>2
    <3>2. process_certificate_entry(cc[i]) \in Numbers
      BY <3>1, ChainFacts, EntryLayout
    <3>3. Stands(m, 4 + S[i - 1], process_certificate_entry(cc[i]))
      BY <1>7, <2>2
    <3>4. 4 + S[i - 1] \in Nat
      BY <3>3 DEF Stands
    <3> QED
      BY <1>9, <3>2, <3>3, <3>4, Zenon
  <2> QED
    BY <2>1, <2>2
<1> QED
  BY <1>3, <1>7, <1>10, <1>11, <1>12, <1>13 DEF Written

\* There is room for every entry, and the last one fills the buffer.
LEMMA RoomForEntries ==
  ASSUME NEW cc \in Seq(CertificateEntry), NEW n \in 0..Len(cc), NEW a, Written(cc, n, a)
  PROVE  Len(a.bytes) <= a.length /\ (n = Len(cc) => Filled(a))
<1>1. PICK S : S = Sums(EntryLengths(cc))
  OBVIOUS
<1>2. /\ S[n] \in Nat /\ S[n] <= Total(EntryLengths(cc))
      /\ Total(EntryLengths(cc)) = S[Len(cc)] /\ S[Len(cc)] \in Nat
  <2>1. EntryLengths(cc) \in Seq(Nat) /\ Len(EntryLengths(cc)) = Len(cc) /\ Len(cc) \in Nat
    BY ChainFacts
  <2> QED
    BY <1>1, <2>1, SumsFacts, SumsGrow DEF Total
<1>3. a.length = 4 + Total(EntryLengths(cc)) /\ Len(a.bytes) = 4 + S[n]
  BY <1>1, ChainFacts DEF Written
<1> QED
  BY <1>2, <1>3 DEF Filled

\* The peer finds an entry without extensions where it looks for it, with its data
\* and an empty list of extensions.
LEMMA EntryRead ==
  ASSUME NEW m \in Numbers, NEW p \in Nat, NEW ce \in CertificateEntry,
         ce.extensions = << >>, Stands(m, p, process_certificate_entry(ce)),
         EntryLength(ce) \in Uint24
  PROVE  /\ IsVector(m, p, 3, p + 3 + Len(ce.cert_data))
         /\ Part(m, p + 3, Len(ce.cert_data)) = ce.cert_data
         /\ Part(m, p + 3 + Len(ce.cert_data), 2) = <<0, 0>>
<1>1. PICK e : e = process_certificate_entry(ce)
  OBVIOUS
<1>2. PICK n : n = Len(ce.cert_data)
  OBVIOUS
<1>3. /\ n \in Nat /\ ce.cert_data \in Numbers /\ e \in Numbers
      /\ Stands(e, 0, process_uint24(n)) /\ Stands(e, 3, ce.cert_data)
      /\ EntryLength(ce) = 5 + n /\ Stands(e, 3 + n, <<0, 0>>)
  BY <1>1, <1>2, EntryLayout
<1>4. <<0, 0>> \in Numbers /\ Len(<<0, 0>>) = 2 /\ process_uint24(n) \in Numbers
  <2>1. process_uint24(n) \in Numbers
    BY <1>3, WidthsOfNumbers
  <2> QED
    BY <2>1 DEF Numbers
<1>5. Stands(m, p + 0, process_uint24(n)) /\ Stands(m, p + 3, ce.cert_data)
  <2>1. 0 \in Nat /\ 3 \in Nat /\ Stands(m, p, e)
    BY <1>1
  <2>2. Stands(m, p + 0, process_uint24(n))
    BY <1>3, <1>4, <2>1, StandsInside, Zenon
  <2>3. Stands(m, p + 3, ce.cert_data)
    BY <1>3, <2>1, StandsInside, Zenon
  <2> QED
    BY <2>2, <2>3
<1>6. PICK k \in Nat : k = 3 + n
  BY <1>3
<1>7. Stands(m, p + k, <<0, 0>>)
  <2>1. Stands(e, k, <<0, 0>>) /\ Stands(m, p, e)
    BY <1>1, <1>3, <1>6
  <2> QED
    BY <1>3, <1>4, <1>6, <2>1, StandsInside, Zenon
<1>8. n \in Uint24
  BY <1>3 DEF Uint24
<1>9. PeerNumber(Part(m, p, 3)) = n
  <2>1. Stands(m, p, process_uint24(n))
    BY <1>5
  <2> QED
    BY <1>8, <2>1, Uint24Read
<1>10. Part(m, p + 3, Len(ce.cert_data)) = ce.cert_data
  <2>1. p + 3 \in Nat
    OBVIOUS
  <2> QED
    BY <1>3, <1>5, <2>1, StandsPart
<1>11. Part(m, p + k, 2) = <<0, 0>>
  <2>1. p + k \in Nat
    BY <1>6
  <2>2. Part(m, p + k, Len(<<0, 0>>)) = <<0, 0>>
    BY <1>4, <1>7, <2>1, StandsPart
  <2> QED
    BY <1>4, <2>2
<1>12. p + 3 + n = p + k
  BY <1>3, <1>6
<1>13. IsVector(m, p, 3, p + 3 + n)
  BY <1>3, <1>9 DEF IsVector, VectorEnd
<1> QED
  BY <1>2, <1>10, <1>11, <1>12, <1>13

\* The peer takes a list of certificates without extensions apart.
LEMMA ChainRead ==
  ASSUME NEW cc \in Seq(CertificateEntry), NEW a, Written(cc, Len(cc), a),
         HasNoExtensions(cc), certificate_chain_length(cc) \in Uint24
  PROVE  /\ a.bytes[1] = 0
         /\ IsVector(a.bytes, 1, 3, Len(a.bytes))
         /\ \A i \in DOMAIN cc :
              LET p == EntryPlace(cc, i)
                  n == Len(cc[i].cert_data)
              IN  /\ IsVector(a.bytes, p, 3, p + 3 + n)
                  /\ Part(a.bytes, p + 3, n) = cc[i].cert_data
                  /\ Part(a.bytes, p + 3 + n, 2) = <<0, 0>>
<1>1. PICK m : m = a.bytes
  OBVIOUS
<1>2. PICK S : S = Sums(EntryLengths(cc))
  OBVIOUS
<1>3. PICK L \in Uint24 : L = certificate_chain_length(cc)
  OBVIOUS
<1>4. /\ m \in Numbers /\ Stands(m, 0, << 0 >>) /\ Stands(m, 1, process_uint24(L))
      /\ \A i \in 1..Len(cc) : Stands(m, 4 + S[i - 1], process_certificate_entry(cc[i]))
      /\ a.length = 4 + L
  BY <1>1, <1>2, <1>3 DEF Written
<1>5. Len(m) = 4 + L
  <2>1. Len(cc) \in 0..Len(cc)
    BY ChainFacts
  <2> QED
    BY <1>1, <1>4, <2>1, RoomForEntries DEF Filled
<1>6. m[0 + 1] = 0
  BY <1>4, ByteRead
<1>7. IsVector(m, 1, 3, Len(m))
  <2>1. PeerNumber(Part(m, 1, 3)) = L
    BY <1>4, Uint24Read
  <2>2. L \in Nat
    BY <1>3, ChainFacts
  <2> QED
    BY <1>5, <2>1, <2>2 DEF IsVector, VectorEnd
<1>8. ASSUME NEW i \in 1..Len(cc)
      PROVE  /\ IsVector(m, EntryPlace(cc, i), 3, EntryPlace(cc, i) + 3 + Len(cc[i].cert_data))
             /\ Part(m, EntryPlace(cc, i) + 3, Len(cc[i].cert_data)) = cc[i].cert_data
             /\ Part(m, EntryPlace(cc, i) + 3 + Len(cc[i].cert_data), 2) = <<0, 0>>
  <2>1. cc[i] \in CertificateEntry /\ cc[i].extensions = << >>
    BY ChainFacts DEF HasNoExtensions
  <2>2. PICK p : p = EntryPlace(cc, i)
    OBVIOUS
  <2>3. p = 4 + S[i - 1] /\ Stands(m, p, process_certificate_entry(cc[i]))
    BY <1>2, <1>4, <2>2, ChainFacts
  <2>4. p \in Nat
    BY <2>3 DEF Stands
  <2>5. EntryLength(cc[i]) \in Uint24
    <3>1. EntryLengths(cc) \in Seq(Nat) /\ Len(EntryLengths(cc)) = Len(cc) /\ Len(cc) \in Nat
          /\ EntryLengths(cc)[i] = EntryLength(cc[i]) /\ L = Total(EntryLengths(cc))
          /\ EntryLength(cc[i]) \in Nat
      BY <1>3, <2>1, ChainFacts, EntryLayout
    <3>2. i \in 1..Len(EntryLengths(cc)) /\ i - 1 \in 0..Len(EntryLengths(cc))
          /\ i \in 0..Len(EntryLengths(cc))
      BY <3>1
    <3>3. S[i] = S[i - 1] + EntryLength(cc[i]) /\ S[i - 1] \in Nat /\ S[i] <= L
      BY <1>2, <3>1, <3>2, SumsFacts, SumsGrow
    <3>4. EntryLength(cc[i]) <= L
      <4>1. PICK x \in Nat, y \in Nat : x = S[i - 1] /\ y = EntryLength(cc[i])
        BY <3>1, <3>3
      <4>2. S[i] = x + y /\ S[i] <= L
        BY <3>3, <4>1
      <4>3. L \in Nat
        BY <1>3, ChainFacts
      <4> QED
        BY <4>1, <4>2, <4>3
    <3> QED
      BY <3>1, <3>4 DEF Uint24
  <2> QED
    BY <1>4, <2>1, <2>2, <2>3, <2>4, <2>5, EntryRead
<1>9. m[1] = 0 /\ DOMAIN cc = 1..Len(cc)
  BY <1>6, ChainFacts
<1> QED
  BY <1>1, <1>7, <1>8, <1>9, Zenon

\* The pad is a zero byte or nothing, and nothing only where the first byte is low.
LEMMA PadFacts ==
  ASSUME NEW x \in Seq(Byte), Len(x) = HASH_LENGTH
  PROVE  /\ x \in Numbers /\ Pad(x) \in Numbers /\ Len(Pad(x)) \in 0..1
         /\ (Pad(x) = << >> /\ x[1] < 128) \/ Pad(x) = << 0 >>
<1>1. x \in Numbers
  BY BytesAreNumbers
<1>2. x[1] \in Byte
  <2>1. 1 \in 1..Len(x)
    BY DEF HASH_LENGTH
  <2> QED
    BY <2>1, ElementOfSeq
<1>3. x[1] < 128 \/ x[1] >= 128
  <2>1. PICK b \in 0..255 : b = x[1]
    BY <1>2 DEF Byte
  <2>2. b < 128 \/ b >= 128
    OBVIOUS
  <2> QED
    BY <2>1, <2>2
<1>4. (Pad(x) = << >> /\ x[1] < 128) \/ Pad(x) = << 0 >>
  BY <1>2, <1>3 DEF Pad, NeedsPad, Byte
<1>5. Pad(x) \in Numbers /\ Len(Pad(x)) \in 0..1
  <2>1. << >> \in Numbers /\ Len(<< >>) = 0
    BY DEF Numbers
  <2>2. << 0 >> \in Numbers /\ Len(<< 0 >>) = 1
    BY OneNumber
  <2> QED
    BY <1>4, <2>1, <2>2
<1> QED
  BY <1>1, <1>4, <1>5

\* A number of one byte behind another.
LEMMA PairStands ==
  ASSUME NEW m \in Numbers, NEW p \in Nat, NEW a \in Nat, NEW b \in Nat, Stands(m, p, <<a, b>>)
  PROVE  m[p + 1] = a /\ PeerNumber(Part(m, p + 1, 1)) = b /\ p + 2 <= Len(m)
<1>1. PICK q : q = <<a, b>>
  OBVIOUS
<1>2. q \in Numbers /\ Len(q) = 2 /\ q[1] = a /\ q[2] = b
  BY <1>1 DEF Numbers
<1>3. p + 2 <= Len(m) /\ m[p + 1] = a /\ m[p + 2] = b
  BY <1>1, <1>2 DEF Stands
<1>4. PICK r : r = <<b>>
  OBVIOUS
<1>5. r \in Numbers /\ Len(r) = 1 /\ r[1] = b
  BY <1>4, OneNumber
<1>6. Stands(m, p + 1, r)
  BY <1>3, <1>5 DEF Stands
<1>7. p + 1 \in Nat /\ Stands(m, p + 1, <<b>>)
  BY <1>4, <1>6
<1>8. PeerNumber(Part(m, p + 1, 1)) = b
  BY <1>7, ByteRead
<1> QED
  BY <1>3, <1>8

\* A half of a signature is read as the integer it is.
LEMMA IntegerRead ==
  ASSUME NEW m \in Numbers, NEW p \in Nat, NEW x \in Seq(Byte), Len(x) = HASH_LENGTH,
         NEW n, n = HASH_LENGTH + Len(Pad(x)),
         Stands(m, p, <<2, n>>), Stands(m, p + 2, Pad(x)),
         Stands(m, (p + 2) + Len(Pad(x)), x)
  PROVE  VectorEnd(m, p + 1, 1) = p + 2 + n /\ IsInteger(m, p, p + 2 + n, x)
<1>1. PICK z : z = Pad(x)
  OBVIOUS
<1>2. /\ x \in Numbers /\ z \in Numbers /\ Len(z) \in 0..1
      /\ (z = << >> /\ x[1] < 128) \/ z = << 0 >>
  BY <1>1, PadFacts
<1>3. n \in Nat /\ n = Len(z) + Len(x) /\ Len(x) = 32 /\ 2 \in Nat
  BY <1>1, <1>2 DEF HASH_LENGTH
<1>4. m[p + 1] = 2 /\ PeerNumber(Part(m, p + 1, 1)) = n
  BY <1>3, PairStands
<1>5. VectorEnd(m, p + 1, 1) = p + 2 + n
  BY <1>3, <1>4 DEF VectorEnd
<1>6. p + 2 \in Nat /\ Stands(m, p + 2, z) /\ Stands(m, (p + 2) + Len(z), x)
  BY <1>1
<1>7. Part(m, p + 2, n) = z \o x
  <2>1. Part(m, p + 2, Len(z) + Len(x)) = z \o x
    BY <1>2, <1>6, Neighbours, Zenon
  <2> QED
    BY <1>3, <2>1, Zenon
<1>8. z \o x \in {x, << 0 >> \o x}
  <2>1. CASE z = << >>
    BY <1>2, <2>1 DEF Numbers
  <2>2. CASE z = << 0 >>
    BY <2>2
  <2> QED
    BY <1>2, <2>1, <2>2
<1>9. m[p + 3] < 128
  <2>1. CASE z = << >> /\ x[1] < 128
    <3>1. Stands(m, p + 2, x)
      BY <1>2, <1>6, <2>1
    <3>2. m[(p + 2) + 1] = x[1]
      BY <1>3, <3>1 DEF Stands
    <3> QED
      BY <2>1, <3>2
  <2>2. CASE z = << 0 >>
    <3>1. m[(p + 2) + 1] = 0
      BY <1>6, <2>2, ByteRead
    <3> QED
      BY <3>1
  <2> QED
    BY <1>2, <2>1, <2>2
<1>10. PICK end \in Nat : end = p + 2 + n
  BY <1>3
<1>11. end - p - 2 = n /\ (p + 1) + 1 <= end
  <2>1. PICK k \in Nat : k = n
    BY <1>3
  <2>2. end = p + 2 + k
    BY <1>10, <2>1
  <2>3. end - p - 2 = k /\ (p + 1) + 1 <= end
    BY <2>2
  <2> QED
    BY <2>1, <2>3
<1>12. IsVector(m, p + 1, 1, end)
  BY <1>5, <1>10, <1>11 DEF IsVector
<1>13. Part(m, p + 2, end - p - 2) \in {x, << 0 >> \o x}
  BY <1>7, <1>8, <1>11
<1>14. IsInteger(m, p, end, x)
  BY <1>4, <1>9, <1>12, <1>13, Zenon DEF IsInteger
<1> QED
  BY <1>5, <1>10, <1>14

\* What create_certificate_verify makes of the halves of a signature, and
\* process_certificate_verify of that.
Signature(r, s) ==
  LET r_len == HASH_LENGTH + Len(Pad(r))
      s_len == HASH_LENGTH + Len(Pad(s))
      full_der_payload_len == 1 + 1 + 1 + 1 + r_len + 1 + 1 + s_len
  IN  Array(full_der_payload_len,
            <<48, full_der_payload_len - 2>>
              \o <<2, r_len>> \o Pad(r) \o r
              \o <<2, s_len>> \o Pad(s) \o s)

Verify(d) ==
  Array(2 + 2 + d.length,
        write_uint16(ECDSA_SECP256R1_SHA256) \o write_uint16(d.length) \o d.bytes)

\* Both integers stand in the sequence, with their types, lengths and pads.
LEMMA SignatureLayout ==
  ASSUME NEW r \in Seq(Byte), Len(r) = HASH_LENGTH, NEW s \in Seq(Byte), Len(s) = HASH_LENGTH,
         NEW d, d = Signature(r, s)
  PROVE  \E k \in 32..33, l \in 32..33 :
           /\ k = HASH_LENGTH + Len(Pad(r)) /\ l = HASH_LENGTH + Len(Pad(s))
           /\ d.bytes \in Numbers /\ d.length = 6 + k + l /\ Len(d.bytes) = 6 + k + l
           /\ Stands(d.bytes, 0, <<48, 4 + k + l>>)
           /\ Stands(d.bytes, 2, <<2, k>>) /\ Stands(d.bytes, 4, Pad(r))
           /\ Stands(d.bytes, 4 + Len(Pad(r)), r)
           /\ Stands(d.bytes, 4 + k, <<2, l>>) /\ Stands(d.bytes, 6 + k, Pad(s))
           /\ Stands(d.bytes, 6 + k + Len(Pad(s)), s)
<1>1. PICK y, z : y = Pad(r) /\ z = Pad(s)
  OBVIOUS
<1>2. /\ r \in Numbers /\ y \in Numbers /\ Len(y) \in 0..1
      /\ s \in Numbers /\ z \in Numbers /\ Len(z) \in 0..1
  BY <1>1, PadFacts
<1>3. PICK k \in 32..33 : k = HASH_LENGTH + Len(y)
  <2>1. \A n \in 0..1 : 32 + n \in 32..33
    OBVIOUS
  <2>2. 32 + Len(y) \in 32..33
    BY <1>2, <2>1
  <2> QED
    BY <2>2 DEF HASH_LENGTH
<1>4. PICK l \in 32..33 : l = HASH_LENGTH + Len(z)
  <2>1. \A n \in 0..1 : 32 + n \in 32..33
    OBVIOUS
  <2>2. 32 + Len(z) \in 32..33
    BY <1>2, <2>1
  <2> QED
    BY <2>2 DEF HASH_LENGTH
<1>5. Len(r) = 32 /\ Len(s) = 32 /\ k = 32 + Len(y) /\ l = 32 + Len(z)
  BY <1>3, <1>4 DEF HASH_LENGTH
<1>6. PICK a, b, c : a = <<48, 4 + k + l>> /\ b = <<2, k>> /\ c = <<2, l>>
  OBVIOUS
<1>7. /\ a \in Numbers /\ Len(a) = 2 /\ b \in Numbers /\ Len(b) = 2 /\ c \in Numbers /\ Len(c) = 2
  BY <1>6 DEF Numbers
<1>8. PICK t1, t2, t3, t4, t5, t6 :
        /\ t1 = a \o b /\ t2 = t1 \o y /\ t3 = t2 \o r
        /\ t4 = t3 \o c /\ t5 = t4 \o z /\ t6 = t5 \o s
  BY Zenon
<1>9. /\ Joins(t1, a, b) /\ Joins(t2, t1, y) /\ Joins(t3, t2, r)
      /\ Joins(t4, t3, c) /\ Joins(t5, t4, z) /\ Joins(t6, t5, s)
  BY <1>8, Zenon DEF Joins
<1> DEFINE Keeps(u, v) == \A q \in Nat, x \in Numbers : Stands(v, q, x) => Stands(u, q, x)
<1>10. t1 \in Numbers /\ Len(t1) = Len(a) + Len(b) /\ Stands(t1, 0, a) /\ Stands(t1, Len(a), b)
  BY <1>7, <1>9, Joined, Zenon
<1>11. t2 \in Numbers /\ Len(t2) = Len(t1) + Len(y) /\ Stands(t2, Len(t1), y) /\ Keeps(t2, t1)
  BY <1>2, <1>9, <1>10, Joined, Zenon
<1>12. t3 \in Numbers /\ Len(t3) = Len(t2) + Len(r) /\ Stands(t3, Len(t2), r) /\ Keeps(t3, t2)
  BY <1>2, <1>9, <1>11, Joined, Zenon
<1>13. t4 \in Numbers /\ Len(t4) = Len(t3) + Len(c) /\ Stands(t4, Len(t3), c) /\ Keeps(t4, t3)
  BY <1>7, <1>9, <1>12, Joined, ZenonT(60)
<1>14. t5 \in Numbers /\ Len(t5) = Len(t4) + Len(z) /\ Stands(t5, Len(t4), z) /\ Keeps(t5, t4)
  BY <1>2, <1>9, <1>13, Joined, Zenon
<1>15. t6 \in Numbers /\ Len(t6) = Len(t5) + Len(s) /\ Stands(t6, Len(t5), s) /\ Keeps(t6, t5)
  BY <1>2, <1>9, <1>14, Joined, Zenon
<1>16. Keeps(t2, t1) /\ Keeps(t3, t2) /\ Keeps(t4, t3) /\ Keeps(t5, t4) /\ Keeps(t6, t5)
  BY <1>11, <1>12, <1>13, <1>14, <1>15, Zenon
<1> HIDE DEF Keeps
<1>17. PICK g \in Nat : g = 4 + Len(y)
  BY <1>2
<1>18. PICK h \in Nat : h = 6 + k
  OBVIOUS
<1>19. PICK i \in Nat : i = h + Len(z)
  BY <1>2
<1>20. PICK j \in Nat : j = 4 + k
  OBVIOUS
<1>21. /\ Len(t1) = 4 /\ Len(t2) = g /\ Len(t3) = j /\ Len(t4) = h /\ Len(t5) = i
       /\ Len(t6) = 6 + k + l
  BY <1>2, <1>5, <1>7, <1>10, <1>11, <1>12, <1>13, <1>14, <1>15, <1>17, <1>18, <1>19, <1>20
<1>22. /\ Stands(t1, 0, a) /\ Stands(t1, 2, b) /\ Stands(t2, 4, y) /\ Stands(t3, g, r)
       /\ Stands(t4, j, c) /\ Stands(t5, h, z) /\ Stands(t6, i, s)
  BY <1>7, <1>10, <1>11, <1>12, <1>13, <1>14, <1>15, <1>21
<1>23. 0 \in Nat /\ 2 \in Nat /\ 4 \in Nat
  OBVIOUS
<1>24. Stands(t6, 0, a) /\ Stands(t6, 2, b)
  BY <1>7, <1>16, <1>22, <1>23, Zenon DEF Keeps
<1>25. Stands(t6, 4, y) /\ Stands(t6, g, r)
  BY <1>2, <1>16, <1>17, <1>22, <1>23, Zenon DEF Keeps
<1>26. Stands(t6, j, c) /\ Stands(t6, h, z)
  BY <1>2, <1>7, <1>16, <1>18, <1>20, <1>22, Zenon DEF Keeps
<1>27. d = Array(1 + 1 + 1 + 1 + k + 1 + 1 + l,
                 <<48, (1 + 1 + 1 + 1 + k + 1 + 1 + l) - 2>> \o b \o y \o r \o c \o z \o s)
  BY <1>1, <1>3, <1>4, <1>6 DEF Signature
<1>28. 1 + 1 + 1 + 1 + k + 1 + 1 + l = 6 + k + l /\ (1 + 1 + 1 + 1 + k + 1 + 1 + l) - 2 = 4 + k + l
  OBVIOUS
<1>29. d = Array(6 + k + l, t6)
  BY <1>6, <1>8, <1>27, <1>28, Zenon
<1>30. d.length = 6 + k + l /\ d.bytes = t6
  BY <1>29 DEF Array
<1>31. i = 6 + k + Len(z)
  BY <1>18, <1>19
<1> QED
  BY <1>1, <1>3, <1>4, <1>6, <1>15, <1>17, <1>18, <1>20, <1>21, <1>22, <1>24, <1>25, <1>26, <1>30,
     <1>31, Zenon

\* The message has it behind the algorithm and the length.
LEMMA VerifyLayout ==
  ASSUME NEW d, d.bytes \in Numbers, Filled(d), NEW v, v = Verify(d)
  PROVE  /\ v.bytes \in Numbers /\ Filled(v) /\ Len(v.bytes) = 4 + d.length
         /\ Stands(v.bytes, 2, write_uint16(d.length)) /\ Stands(v.bytes, 4, d.bytes)
<1>1. PICK q \in Numbers : q = d.bytes /\ d.length = Len(q) /\ Len(q) \in Nat
  BY LengthType DEF Filled
<1>2. PICK a, b : a = write_uint16(ECDSA_SECP256R1_SHA256) /\ b = write_uint16(Len(q))
  OBVIOUS
<1>3. a \in Numbers /\ Len(a) = 2 /\ b \in Numbers /\ Len(b) = 2
  BY <1>1, <1>2, WidthsOfNumbers DEF ECDSA_SECP256R1_SHA256
<1>4. PICK w, x : w = a \o b /\ x = w \o q
  BY Zenon
<1>5. Joins(w, a, b) /\ Joins(x, w, q)
  BY <1>4, Zenon DEF Joins
<1>6. w \in Numbers /\ Len(w) = Len(a) + Len(b) /\ Stands(w, Len(a), b)
  BY <1>3, <1>5, Joined, Zenon
<1>7. /\ x \in Numbers /\ Len(x) = Len(w) + Len(q) /\ Stands(x, Len(w), q)
      /\ \A p \in Nat, r \in Numbers : Stands(w, p, r) => Stands(x, p, r)
  BY <1>5, <1>6, Joined, Zenon
<1>8. Len(x) = 4 + Len(q) /\ Stands(w, 2, b) /\ Stands(x, 4, q) /\ 2 \in Nat
  BY <1>1, <1>3, <1>6, <1>7
<1>9. Stands(x, 2, b)
  BY <1>3, <1>7, <1>8, Zenon
<1>10. v.bytes = x /\ v.length = 2 + 2 + Len(q)
  BY <1>1, <1>2, <1>4 DEF Verify, Array
<1>11. v.length = 4 + Len(q)
  BY <1>1, <1>10
<1> QED
  BY <1>1, <1>2, <1>7, <1>8, <1>9, <1>10, <1>11 DEF Filled

\* The peer takes the message of a signature apart into the two integers.
LEMMA SignatureRead ==
  ASSUME NEW r \in Seq(Byte), Len(r) = HASH_LENGTH, NEW s \in Seq(Byte), Len(s) = HASH_LENGTH,
         NEW v, v = Verify(Signature(r, s))
  PROVE  /\ IsVector(v.bytes, 2, 2, Len(v.bytes))
         /\ v.bytes[5] = 48 /\ IsVector(v.bytes, 5, 1, Len(v.bytes))
         /\ IsInteger(v.bytes, 6, VectorEnd(v.bytes, 7, 1), r)
         /\ IsInteger(v.bytes, VectorEnd(v.bytes, 7, 1), Len(v.bytes), s)
<1>1. PICK d : d = Signature(r, s)
  OBVIOUS
<1>2. PICK k \in 32..33, l \in 32..33 :
        /\ k = HASH_LENGTH + Len(Pad(r)) /\ l = HASH_LENGTH + Len(Pad(s))
        /\ d.bytes \in Numbers /\ d.length = 6 + k + l /\ Len(d.bytes) = 6 + k + l
        /\ Stands(d.bytes, 0, <<48, 4 + k + l>>)
        /\ Stands(d.bytes, 2, <<2, k>>) /\ Stands(d.bytes, 4, Pad(r))
        /\ Stands(d.bytes, 4 + Len(Pad(r)), r)
        /\ Stands(d.bytes, 4 + k, <<2, l>>) /\ Stands(d.bytes, 6 + k, Pad(s))
        /\ Stands(d.bytes, 6 + k + Len(Pad(s)), s)
  BY <1>1, SignatureLayout, ZenonT(60)
<1>3. PICK m : m = v.bytes
  OBVIOUS
<1>4. PICK q : q = d.bytes
  OBVIOUS
<1>5. /\ m \in Numbers /\ Len(m) = 10 + k + l /\ q \in Numbers
      /\ Stands(m, 2, write_uint16(6 + k + l)) /\ Stands(m, 4, q)
  <2>1. Filled(d) /\ d.bytes \in Numbers /\ v = Verify(d)
    BY <1>1, <1>2 DEF Filled
  <2>2. /\ v.bytes \in Numbers /\ Len(v.bytes) = 4 + d.length
        /\ Stands(v.bytes, 2, write_uint16(d.length)) /\ Stands(v.bytes, 4, d.bytes)
    BY <2>1, VerifyLayout, Zenon
  <2> QED
    BY <1>2, <1>3, <1>4, <2>2, SMTT(60)
<1>6. PICK y, z : y = Pad(r) /\ z = Pad(s)
  OBVIOUS
<1>7. /\ r \in Numbers /\ s \in Numbers /\ y \in Numbers /\ z \in Numbers
      /\ Len(y) \in Nat /\ Len(z) \in Nat
  BY <1>6, PadFacts
<1>8. PICK g \in Nat : g = 4 + Len(y)
  BY <1>7
<1>9. PICK h \in Nat : h = 6 + k
  OBVIOUS
<1>10. PICK i \in Nat : i = h + Len(z)
  BY <1>7
<1>11. PICK j \in Nat : j = 4 + k
  OBVIOUS
<1>12. PICK a, b, c : a = <<48, 4 + k + l>> /\ b = <<2, k>> /\ c = <<2, l>>
  OBVIOUS
<1>13. a \in Numbers /\ b \in Numbers /\ c \in Numbers
  BY <1>12 DEF Numbers
<1>14. /\ Stands(q, 0, a) /\ Stands(q, 2, b) /\ Stands(q, 4, y) /\ Stands(q, g, r)
       /\ Stands(q, j, c) /\ Stands(q, h, z)
  BY <1>2, <1>4, <1>6, <1>8, <1>9, <1>11, <1>12, Zenon
<1>15. Stands(q, i, s)
  BY <1>2, <1>4, <1>6, <1>9, <1>10, Zenon
<1>16. 0 \in Nat /\ 2 \in Nat /\ 4 \in Nat
  OBVIOUS
<1>17. Stands(m, 4 + 0, a)
  BY <1>5, <1>13, <1>14, <1>16, StandsInside, Zenon
<1>18. Stands(m, 4 + 2, b)
  BY <1>5, <1>13, <1>14, <1>16, StandsInside, Zenon
<1>19. Stands(m, 4 + 4, y)
  BY <1>5, <1>7, <1>14, <1>16, StandsInside, Zenon
<1>20. Stands(m, 4 + g, r)
  BY <1>5, <1>7, <1>8, <1>14, <1>16, StandsInside, Zenon
<1>21. Stands(m, 4 + j, c)
  BY <1>5, <1>11, <1>13, <1>14, <1>16, StandsInside, Zenon
<1>22. Stands(m, 4 + h, z)
  BY <1>5, <1>7, <1>9, <1>14, <1>16, StandsInside, Zenon
<1>23. Stands(m, 4 + i, s)
  BY <1>5, <1>7, <1>10, <1>15, <1>16, StandsInside, Zenon
<1>24. IsVector(m, 2, 2, Len(m))
  <2>1. PICK n \in Byte : n = 6 + k + l
    BY DEF Byte
  <2>2. n \in Uint16
    BY <2>1, SmallNumber
  <2>3. PeerNumber(Part(m, 2, 2)) = n
    BY <1>5, <2>1, <2>2, Uint16Read
  <2> QED
    BY <1>5, <2>1, <2>3 DEF IsVector, VectorEnd
<1>25. m[5] = 48 /\ IsVector(m, 5, 1, Len(m))
  <2>1. PICK n \in Nat : n = 4 + k + l
    OBVIOUS
  <2>2. Stands(m, 4, <<48, n>>) /\ 48 \in Nat
    BY <1>12, <1>17, <2>1
  <2>3. m[4 + 1] = 48 /\ PeerNumber(Part(m, 4 + 1, 1)) = n
    BY <1>5, <1>16, <2>2, PairStands
  <2> QED
    BY <1>5, <2>1, <2>3 DEF IsVector, VectorEnd
<1>26. VectorEnd(m, 7, 1) = 8 + k /\ IsInteger(m, 6, 8 + k, r)
  <2>1. 6 \in Nat /\ k = HASH_LENGTH + Len(Pad(r))
    BY <1>2
  <2>2. Stands(m, 6, <<2, k>>) /\ Stands(m, 6 + 2, Pad(r))
    BY <1>6, <1>12, <1>18, <1>19
  <2>3. Stands(m, (6 + 2) + Len(Pad(r)), r)
    BY <1>6, <1>7, <1>8, <1>20
  <2>4. VectorEnd(m, 6 + 1, 1) = 6 + 2 + k /\ IsInteger(m, 6, 6 + 2 + k, r)
    BY <1>5, <2>1, <2>2, <2>3, IntegerRead, SMTT(60)
  <2> QED
    BY <2>4
<1>27. IsInteger(m, 8 + k, Len(m), s)
  <2>1. PICK p \in Nat : p = 8 + k
    OBVIOUS
  <2>2. l = HASH_LENGTH + Len(Pad(s))
    BY <1>2
  <2>3. Stands(m, p, <<2, l>>) /\ Stands(m, p + 2, Pad(s))
    BY <1>6, <1>9, <1>11, <1>12, <1>21, <1>22, <2>1
  <2>4. Stands(m, (p + 2) + Len(Pad(s)), s)
    BY <1>6, <1>7, <1>9, <1>10, <1>23, <2>1
  <2>5. IsInteger(m, p, p + 2 + l, s)
    BY <1>5, <2>2, <2>3, <2>4, IntegerRead
  <2>6. p + 2 + l = Len(m)
    BY <1>5, <2>1
  <2> QED
    BY <2>1, <2>5, <2>6
<1> QED
  BY <1>3, <1>24, <1>25, <1>26, <1>27, Zenon

\* How far each message is.
LaterInv ==
  /\ stage \in {"extensions", "extensionsDone", "certificate", "entries", "certificateDone",
                "verify", "sign", "signature", "verifyDone"}
  /\ stage = "extensions" => input \in Extensions
  /\ stage \in {"certificate", "entries", "certificateDone"} => input \in Chain
  /\ stage \in {"verify", "sign", "signature", "verifyDone"} => input \in [r : Scalar, s : Scalar]
  /\ stage \in {"extensions", "certificate", "verify", "sign"} => arr = Array(0, << >>)
  /\ stage = "extensionsDone" => Filled(arr) /\ arr.length \in Nat
  /\ stage = "certificate" => done = 0
  /\ stage \in {"entries", "certificateDone"} =>
       done \in 0..Len(input) /\ Written(input, done, arr)
  /\ stage = "certificateDone" => done = Len(input)
  /\ stage = "signature" => arr = Signature(input.r, input.s)
  /\ stage = "verifyDone" => arr = Verify(Signature(input.r, input.s))
  /\ Filled(signed)

LEMMA EmptyArray == Filled(Array(0, << >>)) /\ Array(0, << >>).length = 0
                    /\ Array(0, << >>).bytes = << >>
BY DEF Filled, Array

LEMMA LaterInitial == LaterInit => LaterInv
BY EmptyArray DEF LaterInit, LaterInv

\* The length of EncryptedExtensions is that of its two bytes and the list.
LEMMA ExtensionsKeep == LaterInv /\ process_encrypted_extensions => LaterInv'
<1> SUFFICES ASSUME LaterInv, process_encrypted_extensions PROVE LaterInv'
  OBVIOUS
<1>1. /\ stage = "extensions" /\ stage' = "extensionsDone" /\ UNCHANGED <<input, signed, done>>
      /\ input \in ExtensionList
  BY MessageAssumption DEF LaterInv, process_encrypted_extensions, ListWithin
<1>2. PICK n \in Nat : n = extensions_length(input)
  BY <1>1, ExtensionsFilled
<1>3. PICK t : t = process_extensions(input).bytes
  OBVIOUS
<1>4. t \in Numbers /\ Len(t) = n
  BY <1>1, <1>2, <1>3, ExtensionsFilled
<1>5. PICK b : b = HostBytes(n)
  OBVIOUS
<1>6. b \in Numbers /\ Len(b) = 2
  BY <1>5, WidthsOfNumbers
<1>7. PICK w : w = b \o t /\ Joins(w, b, t)
  BY DEF Joins
<1>8. w \in Numbers /\ Len(w) = Len(b) + Len(t)
  BY <1>4, <1>6, <1>7, Joined, Zenon
<1>9. arr' = Array(2 + n, w)
  BY <1>2, <1>3, <1>5, <1>7 DEF process_encrypted_extensions
<1>10. Filled(arr') /\ arr'.length \in Nat
  BY <1>4, <1>6, <1>8, <1>9 DEF Filled, Array
<1>11. Filled(arr)' /\ (arr.length \in Nat)' /\ Filled(signed)'
  BY <1>1, <1>10 DEF LaterInv, Filled
<1> QED
  BY <1>1, <1>11 DEF LaterInv

\* The certificates, one by one.
LEMMA CertificatesKeep ==
  LaterInv /\ (process_certificate \/ AddEntry \/ ReturnCertificate) => LaterInv'
<1> SUFFICES ASSUME LaterInv, process_certificate \/ AddEntry \/ ReturnCertificate
             PROVE  LaterInv'
  OBVIOUS
<1>1. /\ stage \in {"certificate", "entries"} /\ UNCHANGED <<input, signed>>
      /\ input \in Chain
  BY DEF LaterInv, process_certificate, AddEntry, ReturnCertificate
<1>2. input \in Seq(CertificateEntry) /\ Len(input) \in Nat
  <2>1. input \in Seq(CertificateEntry)
    BY <1>1, MessageAssumption
  <2> QED
    BY <2>1, ChainFacts
<1>3. stage' \in {"entries", "certificateDone"} /\ done' \in 0..Len(input)
      /\ (stage' = "certificateDone" => done' = Len(input)) /\ Written(input, done', arr')
  <2>1. CASE process_certificate
    <3>1. /\ stage = "certificate" /\ done = 0 /\ done' = done /\ stage' = "entries"
          /\ arr' = Array(1 + 0 + 3 + ListLength(input),
                          << 0 >> \o process_uint24(ListLength(input)))
      BY <2>1 DEF LaterInv, process_certificate
    <3>2. Written(input, 0, arr')
      BY <1>2, <3>1, NothingWritten
    <3> QED
      BY <1>2, <3>1, <3>2
  <2>2. CASE AddEntry
    <3>1. /\ stage = "entries" /\ stage' = stage /\ done \in 0..Len(input) /\ done < Len(input)
          /\ done' = done + 1 /\ Written(input, done, arr)
          /\ arr' = [arr EXCEPT !.bytes = @ \o process_certificate_entry(input[done + 1])]
      BY <2>2 DEF LaterInv, AddEntry, Write
    <3>2. PICK n \in Nat : n = done /\ n < Len(input)
      BY <3>1
    <3>3. PICK a, b : a = arr /\ b = arr'
      OBVIOUS
    <3>4. /\ Written(input, n, a)
          /\ b = [a EXCEPT !.bytes = @ \o process_certificate_entry(input[n + 1])]
      BY <3>1, <3>2, <3>3, Zenon
    <3>5. Written(input, n + 1, b)
      BY <1>2, <3>2, <3>4, EntryAdded
    <3>6. Written(input, done + 1, arr')
      BY <3>2, <3>3, <3>5, Zenon
    <3> QED
      BY <1>2, <3>1, <3>6
  <2>3. CASE ReturnCertificate
    <3>1. /\ stage = "entries" /\ stage' = "certificateDone" /\ done = Len(input)
          /\ done' = done /\ arr' = arr /\ Written(input, done, arr)
      BY <2>3 DEF LaterInv, ReturnCertificate
    <3> QED
      BY <1>2, <3>1
  <2> QED
    BY <2>1, <2>2, <2>3
<1>4. Written(input, done, arr)' /\ Filled(signed)'
  BY <1>1, <1>3 DEF LaterInv, Filled, Written
<1> QED
  BY <1>1, <1>3, <1>4 DEF LaterInv

\* The signature and its message.
LEMMA VerifyKeeps ==
  LaterInv /\ (\/ process_signature_content \/ create_certificate_verify
               \/ process_certificate_verify) => LaterInv'
<1> SUFFICES ASSUME LaterInv,
                    \/ process_signature_content \/ create_certificate_verify
                    \/ process_certificate_verify
             PROVE  LaterInv'
  OBVIOUS
<1>1. CASE process_signature_content
  <2>1. /\ stage = "verify" /\ stage' = "sign" /\ UNCHANGED <<input, arr, done>>
        /\ input \in [r : Scalar, s : Scalar] /\ arr = Array(0, << >>)
    BY <1>1 DEF LaterInv, process_signature_content
  <2>2. PICK q : q = [i \in 1..64 |-> 32]
    OBVIOUS
  <2>3. q \in Seq(Nat) /\ Len(q) = 64
    BY <2>2
  <2>4. /\ ContextString \in Seq(Nat) /\ Len(ContextString) = 33
        /\ SignedHash \in Seq(Nat) /\ Len(SignedHash) = HASH_LENGTH
    BY MessageAssumption, BytesAreNumbers DEF Numbers
  <2>5. << 0 >> \in Seq(Nat) /\ Len(<< 0 >>) = 1
    OBVIOUS
  <2>6. PICK b : b = q \o ContextString \o << 0 >> \o SignedHash
    OBVIOUS
  <2>7. Len(b) = 64 + 33 + 1 + Len(SignedHash)
    <3>1. PICK u, v : u = q \o ContextString /\ v = u \o << 0 >>
      BY Zenon
    <3>2. Joins(u, q, ContextString) /\ Joins(v, u, << 0 >>) /\ Joins(b, v, SignedHash)
      BY <2>6, <3>1, Zenon DEF Joins
    <3>3. q \in Numbers /\ ContextString \in Numbers /\ << 0 >> \in Numbers /\ SignedHash \in Numbers
      BY <2>3, <2>4, <2>5, Zenon DEF Numbers
    <3>4. u \in Numbers /\ Len(u) = Len(q) + Len(ContextString)
      BY <3>2, <3>3, StandsInConcat, Zenon
    <3>5. v \in Numbers /\ Len(v) = Len(u) + Len(<< 0 >>)
      BY <3>2, <3>3, <3>4, StandsInConcat, Zenon
    <3>6. Len(b) = Len(v) + Len(SignedHash)
      BY <3>2, <3>3, <3>5, StandsInConcat, Zenon
    <3> QED
      BY <2>3, <2>4, <2>5, <3>4, <3>5, <3>6
  <2>8. signed' = Array(64 + Len(ContextString) + 1 + HASH_LENGTH, b)
    BY <1>1, <2>2, <2>6 DEF process_signature_content
  <2>9. Filled(signed')
    BY <2>4, <2>7, <2>8 DEF Filled, Array
  <2>10. Filled(signed)'
    BY <2>9 DEF Filled
  <2> QED
    BY <2>1, <2>10 DEF LaterInv
<1>2. CASE create_certificate_verify
  <2>1. /\ stage = "sign" /\ stage' = "signature" /\ UNCHANGED <<input, signed, done>>
        /\ input \in [r : Scalar, s : Scalar] /\ Filled(signed)
    BY <1>2 DEF LaterInv, create_certificate_verify
  <2>2. arr' = Signature(input.r, input.s)
    BY <1>2 DEF create_certificate_verify, Signature
  <2>3. Filled(signed)' /\ (arr = Signature(input.r, input.s))'
    BY <2>1, <2>2 DEF Filled
  <2> QED
    BY <2>1, <2>3 DEF LaterInv
<1>3. CASE process_certificate_verify
  <2>1. /\ stage = "signature" /\ stage' = "verifyDone" /\ UNCHANGED <<input, signed, done>>
        /\ input \in [r : Scalar, s : Scalar] /\ Filled(signed)
        /\ arr = Signature(input.r, input.s)
    BY <1>3 DEF LaterInv, process_certificate_verify
  <2>2. arr' = Verify(arr)
    BY <1>3 DEF process_certificate_verify, Verify
  <2>3. Filled(signed)' /\ (arr = Verify(Signature(input.r, input.s)))'
    BY <2>1, <2>2 DEF Filled
  <2> QED
    BY <2>1, <2>3 DEF LaterInv
<1> QED
  BY <1>1, <1>2, <1>3

LEMMA LaterInvariant == LaterSpec => []LaterInv
<1>1. LaterInv /\ [LaterNext]_laterVars => LaterInv'
  <2> SUFFICES ASSUME LaterInv, [LaterNext]_laterVars PROVE LaterInv'
    OBVIOUS
  <2>1. CASE UNCHANGED laterVars
    BY <2>1 DEF laterVars, LaterInv, Written, Filled
  <2>2. CASE process_encrypted_extensions
    BY <2>2, ExtensionsKeep
  <2>3. CASE process_certificate \/ AddEntry \/ ReturnCertificate
    BY <2>3, CertificatesKeep
  <2>4. CASE \/ process_signature_content \/ create_certificate_verify
             \/ process_certificate_verify
    BY <2>4, VerifyKeeps
  <2> QED
    BY <2>1, <2>2, <2>3, <2>4 DEF LaterNext, LaterTerminated
<1> QED
  BY <1>1, LaterInitial, PTL DEF LaterSpec

\* The halves of the signature that is sent.
LEMMA Halves ==
  ASSUME LaterInv, stage \in {"signature", "verifyDone"}
  PROVE  /\ input.r \in Seq(Byte) /\ Len(input.r) = HASH_LENGTH
         /\ input.s \in Seq(Byte) /\ Len(input.s) = HASH_LENGTH
BY MessageAssumption DEF LaterInv

\* No encoder of the later messages writes behind its buffer, and every message it
\* finishes fills it, for every chain, every list of extensions and every
\* signature: the length computed before malloc is what the writes add up to.
THEOREM LaterBuffersHold == LaterSpec => []BuffersHold
<1>1. LaterInv => BuffersHold
  <2> SUFFICES ASSUME LaterInv PROVE BuffersHold
    OBVIOUS
  <2>1. Len(arr.bytes) <= arr.length /\ (stage # "entries" => Filled(arr))
    <3>1. CASE stage \in {"extensions", "certificate", "verify", "sign"}
      <4>1. arr = Array(0, << >>)
        BY <3>1 DEF LaterInv
      <4>2. Filled(arr) /\ arr.length = 0
        BY <4>1, EmptyArray, Zenon
      <4> QED
        BY <4>2 DEF Filled
    <3>2. CASE stage = "extensionsDone"
      BY <3>2 DEF LaterInv, Filled
    <3>3. CASE stage \in {"entries", "certificateDone"}
      <4>1. input \in Seq(CertificateEntry)
        BY <3>3, MessageAssumption DEF LaterInv
      <4>2. /\ done \in 0..Len(input) /\ Written(input, done, arr)
            /\ (stage = "certificateDone" => done = Len(input))
        BY <3>3 DEF LaterInv
      <4> QED
        BY <3>3, <4>1, <4>2, RoomForEntries
    <3>4. CASE stage \in {"signature", "verifyDone"}
      <4>1. PICK d : d = Signature(input.r, input.s)
        OBVIOUS
      <4>2. d.bytes \in Numbers /\ Filled(d)
        <5>1. PICK r, s : r = input.r /\ s = input.s
          OBVIOUS
        <5>2. /\ r \in Seq(Byte) /\ Len(r) = HASH_LENGTH
              /\ s \in Seq(Byte) /\ Len(s) = HASH_LENGTH
          BY <3>4, <5>1, Halves
        <5>3. d = Signature(r, s)
          BY <4>1, <5>1
        <5>4. PICK k \in 32..33, l \in 32..33 :
                d.bytes \in Numbers /\ d.length = 6 + k + l /\ Len(d.bytes) = 6 + k + l
          BY <5>2, <5>3, SignatureLayout, SMTT(60)
        <5> QED
          BY <5>4 DEF Filled
      <4>3. Filled(Verify(d)) /\ Verify(d).bytes \in Numbers
        BY <4>2, VerifyLayout
      <4>4. arr = d \/ arr = Verify(d)
        BY <3>4, <4>1 DEF LaterInv
      <4> QED
        BY <4>2, <4>3, <4>4, LengthType DEF Filled
    <3> QED
      BY <3>1, <3>2, <3>3, <3>4 DEF LaterInv
  <2> QED
    BY <2>1 DEF BuffersHold, LaterInv
<1> QED
  BY <1>1, LaterInvariant, PTL

\* The peer takes a chain of certificates without extensions apart, whatever the
\* certificates are: the list fills the message, and each of them is where the one
\* before ends, as long as the three bytes of length can say it.
THEOREM PeerTakesChainApart == LaterSpec => []CertificateReadBack
<1>1. LaterInv => CertificateReadBack
  <2> SUFFICES ASSUME LaterInv, stage = "certificateDone", HasNoExtensions(input),
                      certificate_chain_length(input) \in Uint24
               PROVE  /\ arr.bytes[1] = 0
                      /\ IsVector(arr.bytes, 1, 3, Len(arr.bytes))
                      /\ \A i \in DOMAIN input :
                           LET p == EntryPlace(input, i)
                               n == Len(input[i].cert_data)
                           IN  /\ IsVector(arr.bytes, p, 3, p + 3 + n)
                               /\ Part(arr.bytes, p + 3, n) = input[i].cert_data
                               /\ Part(arr.bytes, p + 3 + n, 2) = <<0, 0>>
    BY Zenon DEF CertificateReadBack
  <2>1. input \in Seq(CertificateEntry) /\ Written(input, Len(input), arr)
    BY MessageAssumption DEF LaterInv
  <2> QED
    BY <2>1, ChainRead, Zenon
<1> QED
  BY <1>1, LaterInvariant, PTL

\* The peer reads every signature as the two numbers it is made of, also where the
\* first bit of one is set: the lengths of the sequence and of its integers agree.
THEOREM PeerReadsSignature == LaterSpec => []SignatureReadBack
<1>1. LaterInv => SignatureReadBack
  <2> SUFFICES ASSUME LaterInv, stage = "verifyDone" PROVE SignatureReadBack
    BY DEF SignatureReadBack
  <2>1. PICK r, s : r = input.r /\ s = input.s
    OBVIOUS
  <2>2. r \in Seq(Byte) /\ Len(r) = HASH_LENGTH /\ s \in Seq(Byte) /\ Len(s) = HASH_LENGTH
    BY <2>1, Halves
  <2>3. PICK v : v = arr
    OBVIOUS
  <2>4. v = Verify(Signature(r, s))
    BY <2>1, <2>3 DEF LaterInv
  <2>5. /\ IsVector(v.bytes, 2, 2, Len(v.bytes))
        /\ v.bytes[5] = 48 /\ IsVector(v.bytes, 5, 1, Len(v.bytes))
        /\ IsInteger(v.bytes, 6, VectorEnd(v.bytes, 7, 1), r)
        /\ IsInteger(v.bytes, VectorEnd(v.bytes, 7, 1), Len(v.bytes), s)
    BY <2>2, <2>4, SignatureRead
  <2> QED
    BY <2>1, <2>3, <2>5, Zenon DEF SignatureReadBack
<1> QED
  BY <1>1, LaterInvariant, PTL

-----------------------------------------------------------------------------
(* KeyShareScan.  The extensions of a message and the shares of a list lie *)
(* one behind the other, each in the form of an extension; what the loops  *)
(* have passed is what the pointer says.                                   *)

\* Where each of a list of extensions ends.
EndsOfList(es) == Sums([i \in DOMAIN es |-> 4 + Len(es[i].data)])

\* The list es stands in w behind its first q bytes, up to the end; S are its ends.
LaidOut(w, q, es, S) ==
  /\ w \in Numbers /\ q \in Nat /\ Len(es) \in Nat /\ Len(w) \in Nat
  /\ S[0] = 0 /\ Len(w) = q + S[Len(es)]
  /\ \A i \in 0..Len(es) : S[i] \in Nat /\ i <= S[i] /\ S[i] <= S[Len(es)]
  /\ \A i \in 1..Len(es) :
       /\ Len(es[i].data) \in Nat /\ S[i] = S[i - 1] + 4 + Len(es[i].data)
       /\ Uint16At(w, q + S[i - 1]) = es[i].type
       /\ Uint16At(w, q + S[i - 1] + 2) = Len(es[i].data)
       /\ Part(w, q + S[i - 1] + 4, Len(es[i].data)) = es[i].data

\* A number is read as it was written.
LEMMA WordRead ==
  ASSUME NEW m \in Numbers, NEW p \in Nat, NEW n \in Uint16, Stands(m, p, write_uint16(n))
  PROVE  Uint16At(m, p) = n
<1>1. PICK q : q = write_uint16(n)
  OBVIOUS
<1>2. q = <<n \div 256, n % 256>>
  BY <1>1, HighByteFirst
<1>3. Len(q) = 2 /\ q[1] = n \div 256 /\ q[2] = n % 256
  BY <1>2
<1>4. m[p + 1] = n \div 256 /\ m[p + 2] = n % 256
  BY <1>1, <1>3 DEF Stands
<1> QED
  BY <1>4, Read16AsSent, Zenon DEF Uint16At

\* Type, length and data of one extension are read where they stand.
LEMMA OneExtensionRead ==
  ASSUME NEW e \in [type : Uint16, data : Seq(Byte)], Len(e.data) \in Uint16,
         NEW w \in Numbers, NEW p \in Nat, Stands(w, p, ExtensionBytes(e))
  PROVE  /\ Uint16At(w, p) = e.type /\ Uint16At(w, p + 2) = Len(e.data)
         /\ Part(w, p + 4, Len(e.data)) = e.data
<1>1. PICK x : x = ExtensionBytes(e)
  OBVIOUS
<1>2. PICK d : d = e.data
  OBVIOUS
<1>3. PICK n : n = Len(d)
  OBVIOUS
<1>4. PICK a, b : a = write_uint16(e.type) /\ b = write_uint16(n)
  OBVIOUS
<1>5. PICK h : h = a \o b /\ Joins(h, a, b)
  BY DEF Joins
<1>6. x \in Numbers /\ d \in Numbers /\ n \in Nat /\ Stands(x, 0, h) /\ Stands(x, 4, d)
  BY <1>1, <1>2, <1>3, <1>4, <1>5, ExtensionLayout
<1>7. e.type \in Nat /\ e.type \in Uint16 /\ n \in Uint16
  BY <1>2, <1>3 DEF Uint16
<1>8. a \in Numbers /\ b \in Numbers /\ Len(a) = 2 /\ Len(b) = 2
  BY <1>4, <1>6, <1>7, WidthsOfNumbers
<1>9. h \in Numbers /\ Stands(h, 0, a) /\ Stands(h, 2, b)
  <2>1. h \in Numbers /\ Stands(h, 0, a) /\ Stands(h, Len(a), b)
    BY <1>5, <1>8, StandsInConcat, Zenon
  <2> QED
    BY <1>8, <2>1
<1>10. Stands(w, p, x)
  BY <1>1
<1>11. 0 \in Nat /\ 2 \in Nat /\ 4 \in Nat
  OBVIOUS
<1>12. Stands(w, p + 0, h) /\ Stands(w, p + 4, d)
  BY <1>6, <1>9, <1>10, <1>11, StandsInside, Zenon
<1>13. p + 0 = p /\ p + 2 \in Nat /\ p + 4 \in Nat
  OBVIOUS
<1>14. Stands(w, p, h)
  BY <1>12, <1>13
<1>15. Stands(w, p + 0, a) /\ Stands(w, p + 2, b)
  BY <1>8, <1>9, <1>11, <1>14, StandsInside, Zenon
<1>16. Stands(w, p, a)
  BY <1>13, <1>15
<1>17. Uint16At(w, p) = e.type /\ Uint16At(w, p + 2) = n
  BY <1>4, <1>7, <1>13, <1>15, <1>16, WordRead, Zenon
<1>18. Part(w, p + 4, Len(d)) = d
  BY <1>6, <1>12, <1>13, StandsPart, Zenon
<1> QED
  BY <1>2, <1>3, <1>17, <1>18

\* A list that is written behind q bytes is laid out there.
LEMMA ListLaidOut ==
  ASSUME NEW es \in ExtensionList, \A i \in DOMAIN es : Len(es[i].data) \in Uint16,
         NEW w \in Numbers, NEW q \in Nat,
         Stands(w, q, process_extensions(es).bytes),
         Len(w) = q + Len(process_extensions(es).bytes)
  PROVE  LaidOut(w, q, es, EndsOfList(es))
<1> DEFINE lens == [i \in DOMAIN es |-> 4 + Len(es[i].data)]
<1>1. DOMAIN es = 1..Len(es) /\ Len(es) \in Nat
      /\ \A i \in DOMAIN es : es[i] \in [type : Uint16, data : Seq(Byte)]
  <2>1. PICK E : E = [type : Uint16, data : Seq(Byte)] /\ es \in Seq(E)
    BY DEF ExtensionList
  <2>2. es \in Seq(E)
    BY <2>1
  <2>3. DOMAIN es = 1..Len(es) /\ Len(es) \in Nat /\ \A i \in DOMAIN es : es[i] \in E
    BY <2>2
  <2> QED
    BY <2>1, <2>3
<1>2. \A i \in DOMAIN es : Len(es[i].data) \in Nat
  BY <1>1
<1>3. /\ lens \in Seq(Nat) /\ Len(lens) = Len(es) /\ \A i \in 1..Len(es) : lens[i] = 4 + Len(es[i].data)
  BY <1>1, <1>2
<1>4. PICK S : S = EndsOfList(es) /\ S = Sums(lens)
  BY DEF EndsOfList
<1> HIDE DEF lens
<1>5. /\ S[0] = 0
      /\ \A n \in 1..Len(es) : S[n] = S[n - 1] + lens[n]
      /\ \A n \in 0..Len(es) : S[n] \in Nat
  BY <1>3, <1>4, SumsFacts
<1>6. \A n \in 0..Len(es) : S[n] <= S[Len(es)]
  BY <1>3, <1>4, SumsGrow DEF Total
<1>7. \A n \in 0..Len(es) : n <= S[n]
  <2> DEFINE T == {n \in Nat : n <= Len(es) => n <= S[n]}
  <2>1. 0 \in T
    BY <1>5
  <2>2. ASSUME NEW n \in Nat, n \in T PROVE n + 1 \in T
    <3> SUFFICES ASSUME n + 1 <= Len(es) PROVE n + 1 <= S[n + 1]
      OBVIOUS
    <3>1. n <= S[n] /\ S[n] \in Nat /\ n + 1 \in 1..Len(es) /\ (n + 1) - 1 = n
      BY <1>1, <1>5, <2>2
    <3>2. S[n + 1] = S[n] + lens[n + 1] /\ lens[n + 1] = 4 + Len(es[n + 1].data)
      BY <1>3, <1>5, <3>1
    <3>3. Len(es[n + 1].data) \in Nat
      BY <1>1, <1>2, <3>1
    <3> QED
      BY <3>1, <3>2, <3>3
  <2>3. \A n \in Nat : n \in T
    <3> HIDE DEF T
    <3> QED
      BY <2>1, <2>2, Induct
  <2> QED
    BY <1>1, <2>3
<1>8. PICK v : v = process_extensions(es).bytes
  OBVIOUS
<1>9. /\ v \in Numbers
      /\ Len(v) = extensions_length(es)
      /\ \A i \in DOMAIN es : Stands(v, S[i - 1], ExtensionBytes(es[i]))
  BY <1>4, <1>8, ExtensionsFilled DEF lens
<1>10. extensions_length(es) = S[Len(es)]
  BY <1>3, <1>4 DEF extensions_length, Total, lens
<1>11. Len(w) = q + S[Len(es)] /\ Len(w) \in Nat
  BY <1>1, <1>5, <1>8, <1>9, <1>10
<1>12. ASSUME NEW i \in 1..Len(es)
       PROVE  /\ Len(es[i].data) \in Nat /\ S[i] = S[i - 1] + 4 + Len(es[i].data)
              /\ Uint16At(w, q + S[i - 1]) = es[i].type
              /\ Uint16At(w, q + S[i - 1] + 2) = Len(es[i].data)
              /\ Part(w, q + S[i - 1] + 4, Len(es[i].data)) = es[i].data
  <2>1. PICK e : e = es[i]
    OBVIOUS
  <2>2. PICK r : r = S[i - 1]
    OBVIOUS
  <2>3. e \in [type : Uint16, data : Seq(Byte)] /\ Len(e.data) \in Uint16 /\ Len(e.data) \in Nat
    BY <1>1, <1>2, <2>1
  <2>4. r \in Nat /\ S[i] = r + 4 + Len(e.data)
    <3>1. i - 1 \in 0..Len(es)
      BY <1>1
    <3>2. S[i] = S[i - 1] + lens[i] /\ S[i - 1] \in Nat /\ lens[i] = 4 + Len(es[i].data)
      BY <1>3, <1>5, <3>1
    <3>3. r \in Nat /\ S[i] = r + (4 + Len(e.data))
      BY <2>1, <2>2, <3>2
    <3> QED
      BY <2>3, <3>3
  <2>5. Stands(v, r, ExtensionBytes(e)) /\ ExtensionBytes(e) \in Numbers
    BY <1>1, <1>9, <2>1, <2>2, <2>3, ExtensionLayout
  <2>6. Stands(w, q, v)
    BY <1>8
  <2>7. Stands(w, q + r, ExtensionBytes(e)) /\ q + r \in Nat
    <3>1. q + r \in Nat
      BY <2>4
    <3> QED
      BY <1>9, <2>4, <2>5, <2>6, <3>1, StandsInside, Zenon
  <2>8. /\ Uint16At(w, q + r) = e.type /\ Uint16At(w, (q + r) + 2) = Len(e.data)
        /\ Part(w, (q + r) + 4, Len(e.data)) = e.data
    BY <2>3, <2>7, OneExtensionRead, Zenon
  <2> QED
    BY <2>1, <2>2, <2>3, <2>4, <2>8, Zenon
<1> QED
  BY <1>1, <1>4, <1>5, <1>6, <1>7, <1>11, <1>12 DEF LaidOut

\* Concatenating bytes gives bytes.
LEMMA FlattenBytes ==
  ASSUME NEW ss \in Seq(Seq(Byte))
  PROVE  FlattenSeq(ss) \in Seq(Byte)
<1>1. Len(ss) \in Nat /\ DOMAIN ss = 1..Len(ss) /\ \A i \in DOMAIN ss : ss[i] \in Seq(Byte)
  OBVIOUS
<1>2. \A i \in DOMAIN ss : ss[i] \in Numbers
  BY <1>1, BytesAreNumbers
<1>3. ss \in Seq(Numbers)
  BY <1>1, <1>2
<1>4. PICK lens : lens = [i \in DOMAIN ss |-> Len(ss[i])]
  OBVIOUS
<1>5. lens \in Seq(Nat) /\ Len(lens) = Len(ss) /\ \A i \in 1..Len(ss) : lens[i] = Len(ss[i])
  BY <1>1, <1>2, <1>4, LengthType
<1>6. PICK w : w = FlattenSeq(ss)
  OBVIOUS
<1>7. PICK S : S = Sums(lens)
  OBVIOUS
<1>8. w \in Numbers /\ Len(w) = S[Len(ss)] /\ \A i \in 1..Len(ss) : Stands(w, S[i - 1], ss[i])
  BY <1>1, <1>3, <1>4, <1>5, <1>6, <1>7, FlattenFacts, ZenonT(60) DEF Total
<1>9. /\ S[0] = 0
      /\ \A n \in 1..Len(ss) : S[n] = S[n - 1] + lens[n]
      /\ \A n \in 0..Len(ss) : S[n] \in Nat
  BY <1>5, <1>7, SumsFacts
<1> DEFINE T == {n \in Nat : n <= Len(ss) => \A k \in 1..S[n] : w[k] \in Byte}
<1>10. 0 \in T
  BY <1>9
<1>11. ASSUME NEW n \in Nat, n \in T PROVE n + 1 \in T
  <2> SUFFICES ASSUME n + 1 <= Len(ss), NEW k \in 1..S[n + 1] PROVE w[k] \in Byte
    OBVIOUS
  <2>1. /\ n \in 0..Len(ss) /\ n + 1 \in 1..Len(ss) /\ (n + 1) - 1 = n
        /\ \A j \in 1..S[n] : w[j] \in Byte
    BY <1>1, <1>11
  <2>2. PICK s \in Seq(Byte) : s = ss[n + 1]
    BY <1>1, <2>1
  <2>3. S[n] \in Nat /\ S[n + 1] = S[n] + Len(s) /\ Stands(w, S[n], s)
    BY <1>5, <1>8, <1>9, <2>1, <2>2
  <2>4. CASE k <= S[n]
    <3>1. k \in 1..S[n]
      BY <2>3, <2>4
    <3> QED
      BY <2>1, <3>1
  <2>5. CASE ~(k <= S[n])
    <3>1. Len(s) \in Nat
      OBVIOUS
    <3>2. PICK j \in 1..Len(s) : S[n] + j = k
      <4>1. k - S[n] \in 1..Len(s) /\ S[n] + (k - S[n]) = k
        BY <2>3, <2>5, <3>1
      <4> QED
        BY <4>1
    <3>3. w[k] = s[j]
      BY <2>3, <3>2 DEF Stands
    <3> QED
      BY <3>2, <3>3
  <2> QED
    BY <2>4, <2>5
<1>12. \A n \in Nat : n \in T
  <2> HIDE DEF T
  <2> QED
    BY <1>10, <1>11, Induct
<1>13. \A k \in 1..Len(w) : w[k] \in Byte
  BY <1>1, <1>8, <1>12
<1>14. Len(w) \in Nat /\ w \in Seq(Nat)
  BY <1>8, LengthType DEF Numbers
<1>15. w \in [1..Len(w) -> Byte]
  BY <1>13, <1>14
<1> QED
  BY <1>6, <1>14, <1>15, SeqDef, SMTT(60)

\* What is written of an extension are bytes.
LEMMA WordBytes ==
  ASSUME NEW n \in Uint16
  PROVE  write_uint16(n) \in Seq(Byte) /\ Len(write_uint16(n)) = 2
<1>1. write_uint16(n) = <<n \div 256, n % 256>>
  BY HighByteFirst
<1>2. n \div 256 \in Byte /\ n % 256 \in Byte
  <2>1. n \in Nat /\ n < 65536
    BY SMT DEF Uint16
  <2> QED
    BY <2>1, SMT DEF Byte
<1> QED
  BY <1>1, <1>2

LEMMA ExtensionInBytes ==
  ASSUME NEW e \in [type : Uint16, data : Seq(Byte)], Len(e.data) \in Uint16
  PROVE  ExtensionBytes(e) \in Seq(Byte)
<1>1. PICK a \in Seq(Byte) : a = write_uint16(e.type)
  BY WordBytes
<1>2. PICK b \in Seq(Byte) : b = write_uint16(Len(e.data))
  BY WordBytes
<1>3. PICK d \in Seq(Byte) : d = e.data
  OBVIOUS
<1>4. a \o b \o d \in Seq(Byte)
  OBVIOUS
<1> QED
  BY <1>1, <1>2, <1>3, <1>4 DEF ExtensionBytes

\* A list is written in bytes.
LEMMA ListInBytes ==
  ASSUME NEW es \in ExtensionList, \A i \in DOMAIN es : Len(es[i].data) \in Uint16
  PROVE  process_extensions(es).bytes \in Seq(Byte)
<1> DEFINE ss == [i \in DOMAIN es |-> ExtensionBytes(es[i])]
<1>1. PICK E : E = [type : Uint16, data : Seq(Byte)] /\ es \in Seq(E)
  BY DEF ExtensionList
<1>2. DOMAIN es = 1..Len(es) /\ Len(es) \in Nat /\ \A i \in DOMAIN es : es[i] \in E
  <2>1. es \in Seq(E)
    BY <1>1
  <2> QED
    BY <2>1
<1>3. \A i \in DOMAIN es : ExtensionBytes(es[i]) \in Seq(Byte)
  BY <1>1, <1>2, ExtensionInBytes
<1>4. ss \in Seq(Seq(Byte))
  BY <1>2, <1>3
<1>5. process_extensions(es).bytes = FlattenSeq(ss)
  BY DEF process_extensions, Array
<1> HIDE DEF ss
<1> QED
  BY <1>4, <1>5, FlattenBytes

\* The lists behind the shares of an extension and the extensions of a message.
Given(l) == [j \in DOMAIN l |-> Extension(l[j].group, l[j].key)]
Sent(o)  == [i \in DOMAIN o |-> OnTheWire(o[i])]

LEMMA GivenFacts ==
  ASSUME NEW l \in Seq(Share)
  PROVE  /\ Given(l) \in ExtensionList /\ Len(Given(l)) = Len(l) /\ Len(l) \in Nat
         /\ DOMAIN l = 1..Len(l) /\ DOMAIN Given(l) = 1..Len(l)
         /\ \A j \in 1..Len(l) :
              /\ Given(l)[j].type = l[j].group /\ Given(l)[j].data = l[j].key
              /\ l[j].key \in Seq(Byte) /\ Len(l[j].key) \in Uint16
         /\ SharesBytes(l) = process_extensions(Given(l)).bytes
<1>1. Len(l) \in Nat /\ DOMAIN l = 1..Len(l) /\ \A j \in 1..Len(l) : l[j] \in Share
  OBVIOUS
<1>2. \A j \in 1..Len(l) : /\ l[j].group \in Uint16 /\ l[j].key \in Seq(Byte)
                           /\ Len(l[j].key) \in Uint16
  BY <1>1 DEF Share
<1>3. \A j \in 1..Len(l) : /\ Given(l)[j] = [type |-> l[j].group, data |-> l[j].key]
                           /\ Given(l)[j] \in [type : Uint16, data : Seq(Byte)]
  BY <1>1, <1>2 DEF Given, Extension
<1>4. DOMAIN Given(l) = 1..Len(l)
  BY <1>1 DEF Given
<1>5. Given(l) \in ExtensionList /\ Len(Given(l)) = Len(l)
  <2>1. PICK E : E = [type : Uint16, data : Seq(Byte)]
    OBVIOUS
  <2>2. Given(l) \in [1..Len(l) -> E]
    BY <1>1, <1>3, <2>1 DEF Given
  <2>3. Given(l) \in Seq(E) /\ Len(Given(l)) = Len(l)
    BY <1>1, <2>2, SeqDef
  <2> QED
    BY <2>1, <2>3 DEF ExtensionList
<1>6. [j \in DOMAIN l |-> ShareBytes(l[j])]
        = [j \in DOMAIN Given(l) |-> ExtensionBytes(Given(l)[j])]
  BY <1>1, <1>4 DEF ShareBytes, Given
<1>7. SharesBytes(l) = process_extensions(Given(l)).bytes
  BY <1>6 DEF SharesBytes, process_extensions, Array
<1> QED
  BY <1>1, <1>2, <1>3, <1>4, <1>5, <1>7

\* The length of the list, and behind it the shares.
LEMMA SharesLaidOut ==
  ASSUME NEW l \in Seq(Share), Len(SharesData(l)) \in Uint16
  PROVE  /\ SharesData(l) \in Seq(Byte)
         /\ LaidOut(SharesData(l), 2, Given(l), EndsOfList(Given(l)))
         /\ Uint16At(SharesData(l), 0) \in Nat
         /\ Uint16At(SharesData(l), 0) + 2 = Len(SharesData(l))
<1>1. PICK b \in Seq(Byte) : b = SharesBytes(l) /\ b = process_extensions(Given(l)).bytes
  BY GivenFacts, ListInBytes
<1>2. PICK n : n = Len(b) /\ n \in Nat
  OBVIOUS
<1>3. PICK a : a = write_uint16(n)
  OBVIOUS
<1>4. a \in Numbers /\ Len(a) = 2
  BY <1>2, <1>3, WidthsOfNumbers
<1>5. PICK x : x = a \o b /\ Joins(x, a, b) /\ x = SharesData(l)
  BY <1>1, <1>2, <1>3 DEF Joins, SharesData
<1>6. b \in Numbers
  BY BytesAreNumbers
<1>7. /\ x \in Numbers /\ Len(x) = Len(a) + Len(b)
      /\ Stands(x, 0, a) /\ Stands(x, Len(a), b)
  BY <1>4, <1>5, <1>6, StandsInConcat, Zenon
<1>8. Len(x) = 2 + n /\ Stands(x, 2, b)
  BY <1>2, <1>4, <1>7
<1>9. n \in Uint16
  BY <1>2, <1>5, <1>8 DEF Uint16
<1>10. Uint16At(x, 0) = n
  BY <1>3, <1>7, <1>9, WordRead
<1>11. a \in Seq(Byte)
  BY <1>3, <1>9, WordBytes
<1>12. x \in Seq(Byte)
  <2>1. a \o b \in Seq(Byte)
    BY <1>11, Concat, Zenon
  <2> QED
    BY <1>5, <2>1, Zenon
<1>13. LaidOut(x, 2, Given(l), EndsOfList(Given(l)))
  <2>1. Given(l) \in ExtensionList /\ \A j \in DOMAIN Given(l) : Len(Given(l)[j].data) \in Uint16
    BY GivenFacts
  <2>2. /\ Stands(x, 2, process_extensions(Given(l)).bytes)
        /\ Len(x) = 2 + Len(process_extensions(Given(l)).bytes) /\ 2 \in Nat
    BY <1>1, <1>2, <1>8
  <2> QED
    BY <1>7, <2>1, <2>2, ListLaidOut
<1> QED
  BY <1>2, <1>5, <1>8, <1>10, <1>12, <1>13

\* What an extension carries are bytes, in a key_share those of its list.
LEMMA OfferedData ==
  ASSUME NEW e \in OfferedExtension
  PROVE  /\ e.type \in Uint16 /\ DataOf(e) \in Seq(Byte) /\ Len(DataOf(e)) \in Uint16
         /\ e.type = KEY_SHARE_EXTENSION_TYPE =>
              /\ DataOf(e) = SharesData(e.shares)
              /\ e.shares \in Seq(Share) /\ Len(SharesData(e.shares)) \in Uint16
<1>1. KEY_SHARE_EXTENSION_TYPE \in Uint16
  BY SMT DEF KEY_SHARE_EXTENSION_TYPE, Uint16
<1>2. CASE e.type = KEY_SHARE_EXTENSION_TYPE
  <2>1. e.shares \in {l \in Seq(Share) : Len(SharesData(l)) \in Uint16}
    BY <1>2 DEF OfferedExtension
  <2>2. e.shares \in Seq(Share) /\ Len(SharesData(e.shares)) \in Uint16
    BY <2>1
  <2>3. DataOf(e) = SharesData(e.shares)
    BY <1>2 DEF DataOf
  <2> QED
    BY <1>1, <1>2, <2>2, <2>3, SharesLaidOut
<1>3. CASE e.type # KEY_SHARE_EXTENSION_TYPE
  <2>1. e.type \in Uint16 /\ e.data \in {d \in Seq(Byte) : Len(d) \in Uint16}
    BY <1>3 DEF OfferedExtension
  <2>2. DataOf(e) = e.data
    BY <1>3 DEF DataOf
  <2> QED
    BY <1>3, <2>1, <2>2
<1> QED
  BY <1>2, <1>3

\* The extensions of a message.
LEMMA MessageLaidOut ==
  ASSUME NEW o \in Offer
  PROVE  /\ o \in Seq(OfferedExtension) /\ Len(o) \in Nat /\ DOMAIN o = 1..Len(o)
         /\ Sent(o) \in ExtensionList /\ Len(Sent(o)) = Len(o) /\ DOMAIN Sent(o) = 1..Len(o)
         /\ \A i \in 1..Len(o) :
              /\ o[i] \in OfferedExtension
              /\ Sent(o)[i] = OnTheWire(o[i]) /\ Sent(o)[i].type = o[i].type
              /\ Sent(o)[i].data = DataOf(o[i])
         /\ LaidOut(Message(o), 0, Sent(o), EndsOfList(Sent(o)))
<1>1. o \in Seq(OfferedExtension)
  BY OfferAssumption
<1>2. Len(o) \in Nat /\ DOMAIN o = 1..Len(o) /\ \A i \in 1..Len(o) : o[i] \in OfferedExtension
  BY <1>1
<1>3. \A i \in 1..Len(o) : o[i].type \in Uint16 /\ Len(DataOf(o[i])) \in Uint16
  BY <1>2, OfferedData
<1>4. \A i \in 1..Len(o) : DataOf(o[i]) \in Seq(Byte)
  BY <1>2, OfferedData
<1>5. \A i \in 1..Len(o) :
        /\ Sent(o)[i] = OnTheWire(o[i])
        /\ Sent(o)[i] = [type |-> o[i].type, data |-> DataOf(o[i])]
        /\ Sent(o)[i] \in [type : Uint16, data : Seq(Byte)]
  BY <1>2, <1>3, <1>4 DEF Sent, OnTheWire, Extension
<1>6. DOMAIN Sent(o) = 1..Len(o)
  BY <1>2 DEF Sent
<1>7. Sent(o) \in ExtensionList /\ Len(Sent(o)) = Len(o)
  BY <1>2, <1>5, <1>6 DEF ExtensionList, Sent
<1>8. \A i \in DOMAIN Sent(o) : Len(Sent(o)[i].data) \in Uint16
  BY <1>3, <1>5, <1>6
<1>9. [i \in DOMAIN o |-> ExtensionBytes(OnTheWire(o[i]))]
        = [i \in DOMAIN Sent(o) |-> ExtensionBytes(Sent(o)[i])]
  BY <1>2, <1>6 DEF Sent
<1>10. PICK m : m = Message(o) /\ m = process_extensions(Sent(o)).bytes
  BY <1>9 DEF Message, process_extensions, Array
<1>11. m \in Numbers
  BY <1>7, <1>10, ExtensionsFilled
<1>12. Len(m) \in Nat /\ Len(m) = 0 + Len(m) /\ 0 \in Nat
  BY <1>11, LengthType
<1>13. Stands(m, 0, m)
  BY <1>12 DEF Stands
<1>14. LaidOut(m, 0, Sent(o), EndsOfList(Sent(o)))
  BY <1>7, <1>8, <1>10, <1>11, <1>12, <1>13, ListLaidOut, Zenon
<1> QED
  BY <1>1, <1>2, <1>3, <1>5, <1>6, <1>7, <1>10, <1>14

\* Where the extensions end, and where the shares do among which the key is sought.
Places      == EndsOfList(Sent(offer))
SharePlaces == EndsOfList(Given(SharesOffered))

\* The pointer is where as many extensions end as have been counted,
CountedSoFar ==
  loop = "count" =>
    /\ place = Places[count] /\ array = << >>
    /\ count < Len(offer) \/ Len(offer) = 0

\* and then copied; the two loops make the same number of steps.
CopiedSoFar ==
  /\ loop = "copy" => Len(array) < count /\ place = Places[Len(array)]
  /\ loop \in {"copy", "lookup", "list", "share"} => count = Len(offer)

\* No extension before the index is a key_share.
LookedUpSoFar ==
  loop = "lookup" =>
    place <= Len(offer) /\ \A i \in 1..place : offer[i].type # KEY_SHARE_EXTENSION_TYPE

\* The extension found is the first key_share.
FirstIsFound ==
  loop \in {"list", "share"} =>
    count % CountSize # 0 /\ KeyShares # {} /\ ex = SharesData(SharesOffered)

\* The pointer is where a share ends, and no share up to there is for X25519.
ScannedSoFar ==
  loop = "share" =>
    \E n \in 0..Len(SharesOffered) :
      /\ place = 2 + SharePlaces[n]
      /\ \A j \in 1..n : SharesOffered[j].group # NAMED_GROUP_X25519

ScanInv ==
  /\ TypeOK /\ ExtensionsParsed
  /\ CountedSoFar /\ CopiedSoFar /\ LookedUpSoFar /\ FirstIsFound /\ ScannedSoFar

\* The least of a set of numbers.
LEMMA LeastOne ==
  ASSUME NEW T \in SUBSET Nat, T # {}
  PROVE  Min(T) \in T /\ \A m \in T : Min(T) <= m
<1>1. \E n \in T : \A m \in T : n <= m
  BY Least
<1> QED
  BY <1>1 DEF Min

\* Entry n + 1 stands where entry n ends, and only the last one ends where the bytes do.
NextStands(w, q, es, S, n) ==
  /\ S[0] = 0 /\ S[n] \in Nat /\ q + S[n] <= Len(w) /\ q + n <= Len(w) /\ Len(w) \in Nat
  /\ n = Len(es) => q + S[n] = Len(w)
  /\ n < Len(es) =>
       /\ q + S[n] + 4 <= Len(w)
       /\ Uint16At(w, q + S[n]) = es[n + 1].type
       /\ Uint16At(w, q + S[n] + 2) = Len(es[n + 1].data)
       /\ Part(w, q + S[n] + 4, Len(es[n + 1].data)) = es[n + 1].data
       /\ S[n + 1] = S[n] + 4 + Len(es[n + 1].data) /\ Len(es[n + 1].data) \in Nat
       /\ q + S[n + 1] <= Len(w)
       /\ q + S[n + 1] >= Len(w) => n + 1 = Len(es)

LEMMA EntryAt ==
  ASSUME NEW w, NEW q, NEW es, NEW S, LaidOut(w, q, es, S), NEW n \in 0..Len(es)
  PROVE  NextStands(w, q, es, S, n)
<1>1. /\ w \in Numbers /\ q \in Nat /\ Len(es) \in Nat /\ Len(w) \in Nat
      /\ S[0] = 0 /\ Len(w) = q + S[Len(es)]
      /\ \A i \in 0..Len(es) : S[i] \in Nat /\ i <= S[i] /\ S[i] <= S[Len(es)]
      /\ \A i \in 1..Len(es) :
           /\ Len(es[i].data) \in Nat /\ S[i] = S[i - 1] + 4 + Len(es[i].data)
           /\ Uint16At(w, q + S[i - 1]) = es[i].type
           /\ Uint16At(w, q + S[i - 1] + 2) = Len(es[i].data)
           /\ Part(w, q + S[i - 1] + 4, Len(es[i].data)) = es[i].data
  BY DEF LaidOut
<1>2. S[n] \in Nat /\ n <= S[n] /\ S[n] <= S[Len(es)] /\ S[Len(es)] \in Nat
  BY <1>1
<1>3. q + S[n] <= Len(w) /\ q + n <= Len(w) /\ (n = Len(es) => q + S[n] = Len(w))
  BY <1>1, <1>2
<1>4. ASSUME n < Len(es)
      PROVE  /\ q + S[n] + 4 <= Len(w)
             /\ Uint16At(w, q + S[n]) = es[n + 1].type
             /\ Uint16At(w, q + S[n] + 2) = Len(es[n + 1].data)
             /\ Part(w, q + S[n] + 4, Len(es[n + 1].data)) = es[n + 1].data
             /\ S[n + 1] = S[n] + 4 + Len(es[n + 1].data) /\ Len(es[n + 1].data) \in Nat
             /\ q + S[n + 1] <= Len(w)
             /\ q + S[n + 1] >= Len(w) => n + 1 = Len(es)
  <2>1. PICK i \in 1..Len(es) : i = n + 1 /\ i - 1 = n
    <3>1. n + 1 \in 1..Len(es) /\ (n + 1) - 1 = n
      BY <1>1, <1>4
    <3> QED
      BY <3>1
  <2>2. /\ Len(es[i].data) \in Nat /\ S[i] = S[n] + 4 + Len(es[i].data)
        /\ Uint16At(w, q + S[n]) = es[i].type
        /\ Uint16At(w, q + S[n] + 2) = Len(es[i].data)
        /\ Part(w, q + S[n] + 4, Len(es[i].data)) = es[i].data
    <3>1. i - 1 = n
      BY <2>1
    <3> QED
      BY <1>1, <3>1, Zenon
  <2>3. S[i] \in Nat /\ S[i] <= S[Len(es)]
    BY <1>1
  <2>4. q + S[n] + 4 <= Len(w) /\ q + S[i] <= Len(w)
    <3>1. PICK a \in Nat, b \in Nat, c \in Nat, d \in Nat, p \in Nat :
            a = S[n] /\ b = S[i] /\ c = Len(es[i].data) /\ d = S[Len(es)] /\ p = q
      BY <1>1, <1>2, <2>2, <2>3, Zenon
    <3>2. b = a + 4 + c /\ b <= d
      BY <2>2, <2>3, <3>1, Zenon
    <3>3. p + a + 4 <= p + d /\ p + b <= p + d
      BY <3>2
    <3> QED
      BY <1>1, <3>1, <3>3, Zenon
  <2>5. q + S[i] >= Len(w) => i = Len(es)
    <3> SUFFICES ASSUME i < Len(es) PROVE q + S[i] < Len(w)
      BY <1>1, <1>2, <2>3
    <3>1. PICK j \in 1..Len(es) : j = i + 1 /\ j - 1 = i
      <4>1. i + 1 \in 1..Len(es) /\ (i + 1) - 1 = i
        BY <1>1
      <4> QED
        BY <4>1
    <3>2. Len(es[j].data) \in Nat /\ S[j] = S[i] + 4 + Len(es[j].data)
      <4>1. j - 1 = i
        BY <3>1
      <4> QED
        BY <1>1, <4>1, Zenon
    <3>3. S[j] \in Nat /\ S[j] <= S[Len(es)]
      BY <1>1
    <3>4. PICK b \in Nat, c \in Nat, d \in Nat, p \in Nat :
            b = S[i] /\ c = Len(es[j].data) /\ d = S[Len(es)] /\ p = q
      BY <1>1, <1>2, <2>3, <3>2, Zenon
    <3>5. b + 4 + c <= d
      BY <3>2, <3>3, <3>4, Zenon
    <3>6. p + b < p + d
      BY <3>5
    <3> QED
      BY <1>1, <3>4, <3>6, Zenon
  <2> QED
    BY <2>1, <2>2, <2>4, <2>5, Zenon
<1> QED
  BY <1>1, <1>2, <1>3, <1>4 DEF NextStands

\* The extensions in the message.
LEMMA MessageEntry ==
  ASSUME offer \in Offer, data = Message(offer), NEW n \in 0..Len(offer)
  PROVE  /\ Places[0] = 0 /\ Places[n] \in Nat /\ Places[n] <= Len(data) /\ n <= Len(data)
         /\ Len(data) \in Nat
         /\ n = Len(offer) => Places[n] = Len(data) /\ ~Inside(data, Places[n], 4)
         /\ n < Len(offer) =>
              LET bytes == DataOf(offer[n + 1]) IN
              /\ Inside(data, Places[n], 4)
              /\ Uint16At(data, Places[n]) = offer[n + 1].type
              /\ Uint16At(data, Places[n] + 2) = Len(bytes)
              /\ Part(data, Places[n] + 4, Len(bytes)) = bytes
              /\ Places[n + 1] = Places[n] + 4 + Len(bytes) /\ Len(bytes) \in Nat
              /\ Places[n + 1] <= Len(data)
              /\ Places[n + 1] >= Len(data) => n + 1 = Len(offer)
<1>1. /\ LaidOut(data, 0, Sent(offer), Places) /\ Len(offer) \in Nat
      /\ Len(Sent(offer)) = Len(offer)
      /\ \A i \in 1..Len(offer) : /\ Sent(offer)[i].type = offer[i].type
                                  /\ Sent(offer)[i].data = DataOf(offer[i])
  BY MessageLaidOut DEF Places
<1>2. PICK w, S, es : w = data /\ S = Places /\ es = Sent(offer)
  OBVIOUS
<1>3. LaidOut(w, 0, es, S) /\ n \in 0..Len(es) /\ Len(es) = Len(offer)
  BY <1>1, <1>2
<1>4. /\ S[0] = 0 /\ S[n] \in Nat /\ 0 + S[n] <= Len(w) /\ 0 + n <= Len(w) /\ Len(w) \in Nat
      /\ n = Len(es) => 0 + S[n] = Len(w)
      /\ n < Len(es) =>
           /\ 0 + S[n] + 4 <= Len(w)
           /\ Uint16At(w, 0 + S[n]) = es[n + 1].type
           /\ Uint16At(w, 0 + S[n] + 2) = Len(es[n + 1].data)
           /\ Part(w, 0 + S[n] + 4, Len(es[n + 1].data)) = es[n + 1].data
           /\ S[n + 1] = S[n] + 4 + Len(es[n + 1].data) /\ Len(es[n + 1].data) \in Nat
           /\ 0 + S[n + 1] <= Len(w)
           /\ 0 + S[n + 1] >= Len(w) => n + 1 = Len(es)
  <2>1. NextStands(w, 0, es, S, n)
    BY <1>3, EntryAt, Zenon
  <2> QED
    BY <2>1, Zenon DEF NextStands
<1>5. 0 + S[n] = S[n]
  BY <1>4
<1>6. S[n] <= Len(w) /\ n <= Len(w) /\ (n = Len(es) => S[n] = Len(w) /\ ~(S[n] + 4 <= Len(w)))
  BY <1>1, <1>4
<1>7. ASSUME n < Len(es)
      PROVE  LET bytes == DataOf(offer[n + 1]) IN
             /\ S[n] + 4 <= Len(w)
             /\ Uint16At(w, S[n]) = offer[n + 1].type
             /\ Uint16At(w, S[n] + 2) = Len(bytes)
             /\ Part(w, S[n] + 4, Len(bytes)) = bytes
             /\ S[n + 1] = S[n] + 4 + Len(bytes) /\ Len(bytes) \in Nat
             /\ S[n + 1] <= Len(w)
             /\ S[n + 1] >= Len(w) => n + 1 = Len(offer)
  <2>1. n + 1 \in 1..Len(offer)
    BY <1>1, <1>3, <1>7
  <2>2. PICK bytes : bytes = DataOf(offer[n + 1])
    OBVIOUS
  <2>3. es[n + 1].type = offer[n + 1].type /\ es[n + 1].data = bytes
    BY <1>1, <1>2, <2>1, <2>2
  <2>4. /\ S[n] + 4 <= Len(w)
        /\ Uint16At(w, S[n]) = offer[n + 1].type
        /\ Uint16At(w, S[n] + 2) = Len(bytes)
        /\ Part(w, S[n] + 4, Len(bytes)) = bytes
        /\ S[n + 1] = S[n] + 4 + Len(bytes) /\ Len(bytes) \in Nat
    BY <1>4, <1>5, <1>7, <2>3, Zenon
  <2>5. S[n + 1] \in Nat
    BY <1>4, <2>4
  <2>6. S[n + 1] <= Len(w) /\ (S[n + 1] >= Len(w) => n + 1 = Len(offer))
    BY <1>3, <1>4, <1>7, <2>5
  <2> QED
    BY <2>2, <2>4, <2>6
<1> QED
  BY <1>2, <1>3, <1>4, <1>6, <1>7 DEF Inside

\* The first key_share extension.
LEMMA FirstKeyShare ==
  ASSUME offer \in Offer, KeyShares # {}
  PROVE  /\ Min(KeyShares) \in 1..Len(offer)
         /\ offer[Min(KeyShares)].type = KEY_SHARE_EXTENSION_TYPE
         /\ SharesOffered = offer[Min(KeyShares)].shares
         /\ \A i \in 1..Len(offer) :
              offer[i].type = KEY_SHARE_EXTENSION_TYPE => Min(KeyShares) <= i
         /\ SharesOffered \in Seq(Share) /\ Len(SharesData(SharesOffered)) \in Uint16
<1>1. /\ Len(offer) \in Nat /\ DOMAIN offer = 1..Len(offer)
      /\ \A i \in 1..Len(offer) : offer[i] \in OfferedExtension
  BY MessageLaidOut
<1>2. KeyShares = {i \in 1..Len(offer) : offer[i].type = KEY_SHARE_EXTENSION_TYPE}
  BY <1>1 DEF KeyShares
<1>3. KeyShares \in SUBSET Nat
  BY <1>1, <1>2
<1>4. PICK k : k = Min(KeyShares)
  OBVIOUS
<1>5. k \in KeyShares /\ \A i \in KeyShares : k <= i
  BY <1>3, <1>4, LeastOne
<1>6. SharesOffered = offer[k].shares
  BY <1>4 DEF SharesOffered
<1>7. offer[k] \in OfferedExtension /\ offer[k].type = KEY_SHARE_EXTENSION_TYPE
  BY <1>1, <1>2, <1>5
<1>8. offer[k].shares \in Seq(Share) /\ Len(SharesData(offer[k].shares)) \in Uint16
  BY <1>7, OfferedData, Zenon
<1> QED
  BY <1>1, <1>2, <1>4, <1>5, <1>6, <1>8, Zenon

\* The shares in it.
LEMMA ShareEntry ==
  ASSUME offer \in Offer, KeyShares # {}, NEW n \in 0..Len(SharesOffered)
  PROVE  LET bytes == SharesData(SharesOffered) IN
         /\ SharePlaces[0] = 0 /\ SharePlaces[n] \in Nat /\ 2 + SharePlaces[n] <= Len(bytes)
         /\ bytes \in Seq(Byte) /\ Len(bytes) \in Nat /\ Len(SharesOffered) \in Nat
         /\ Uint16At(bytes, 0) \in Nat /\ Uint16At(bytes, 0) + 2 = Len(bytes)
         /\ n = Len(SharesOffered) => ~Inside(bytes, 2 + SharePlaces[n], 4)
         /\ n < Len(SharesOffered) =>
              LET k == SharesOffered[n + 1].key IN
              /\ Inside(bytes, 2 + SharePlaces[n], 4)
              /\ Uint16At(bytes, 2 + SharePlaces[n]) = SharesOffered[n + 1].group
              /\ Uint16At(bytes, 2 + SharePlaces[n] + 2) = Len(k)
              /\ Part(bytes, 2 + SharePlaces[n] + 4, Len(k)) = k /\ k \in Seq(Byte)
              /\ SharePlaces[n + 1] = SharePlaces[n] + 4 + Len(k) /\ Len(k) \in Nat
              /\ 2 + SharePlaces[n + 1] >= Len(bytes) => n + 1 = Len(SharesOffered)
<1>1. SharesOffered \in Seq(Share) /\ Len(SharesData(SharesOffered)) \in Uint16
  BY FirstKeyShare
<1>2. PICK l : l = SharesOffered
  OBVIOUS
<1>3. PICK w, S, es : w = SharesData(l) /\ S = SharePlaces /\ es = Given(l)
  OBVIOUS
<1>4. l \in Seq(Share) /\ Len(SharesData(l)) \in Uint16
  BY <1>1, <1>2
<1>5. /\ w \in Seq(Byte) /\ LaidOut(w, 2, es, EndsOfList(es))
      /\ Uint16At(w, 0) \in Nat /\ Uint16At(w, 0) + 2 = Len(w)
  BY <1>3, <1>4, SharesLaidOut
<1>6. LaidOut(w, 2, es, S)
  BY <1>2, <1>3, <1>5 DEF SharePlaces
<1>7. /\ Len(es) = Len(l) /\ Len(l) \in Nat
      /\ \A j \in 1..Len(l) : /\ es[j].type = l[j].group /\ es[j].data = l[j].key
                              /\ l[j].key \in Seq(Byte)
  BY <1>3, <1>4, GivenFacts
<1>8. n \in 0..Len(es)
  BY <1>2, <1>7
<1>9. /\ S[0] = 0 /\ S[n] \in Nat /\ 2 + S[n] <= Len(w) /\ Len(w) \in Nat
      /\ n = Len(es) => 2 + S[n] = Len(w)
      /\ n < Len(es) =>
           /\ 2 + S[n] + 4 <= Len(w)
           /\ Uint16At(w, 2 + S[n]) = es[n + 1].type
           /\ Uint16At(w, 2 + S[n] + 2) = Len(es[n + 1].data)
           /\ Part(w, 2 + S[n] + 4, Len(es[n + 1].data)) = es[n + 1].data
           /\ S[n + 1] = S[n] + 4 + Len(es[n + 1].data) /\ Len(es[n + 1].data) \in Nat
           /\ 2 + S[n + 1] >= Len(w) => n + 1 = Len(es)
  <2>1. NextStands(w, 2, es, S, n)
    BY <1>6, <1>8, EntryAt, Zenon
  <2> QED
    BY <2>1, Zenon DEF NextStands
<1>10. n = Len(l) => ~(2 + S[n] + 4 <= Len(w))
  BY <1>7, <1>9
<1>11. n < Len(l) => n + 1 \in 1..Len(l)
  BY <1>7, <1>8
<1>12. ASSUME n < Len(l)
       PROVE  LET k == l[n + 1].key IN
              /\ 2 + S[n] + 4 <= Len(w)
              /\ Uint16At(w, 2 + S[n]) = l[n + 1].group
              /\ Uint16At(w, 2 + S[n] + 2) = Len(k)
              /\ Part(w, 2 + S[n] + 4, Len(k)) = k /\ k \in Seq(Byte)
              /\ S[n + 1] = S[n] + 4 + Len(k) /\ Len(k) \in Nat
              /\ 2 + S[n + 1] >= Len(w) => n + 1 = Len(l)
  BY <1>7, <1>9, <1>11, <1>12, Zenon
<1> QED
  BY <1>2, <1>3, <1>5, <1>7, <1>9, <1>10, <1>12 DEF Inside

\* What is said of the offer stays true, as nothing changes it.
LEMMA OfferStays ==
  ASSUME UNCHANGED <<offer, data>>
  PROVE  /\ Places' = Places /\ KeyShares' = KeyShares
         /\ SharesOffered' = SharesOffered /\ SharePlaces' = SharePlaces
<1>1. KeyShares' = KeyShares
  BY DEF KeyShares
<1>2. SharesOffered' = SharesOffered
  BY <1>1 DEF SharesOffered
<1> QED
  BY <1>1, <1>2 DEF Places, SharePlaces, Sent

LEMMA ScanInitial == ScanInit => ScanInv
<1> SUFFICES ASSUME ScanInit PROVE ScanInv
  OBVIOUS
<1>1. /\ offer \in Offer /\ data = Message(offer) /\ loop = "count" /\ place = 0 /\ count = 0
      /\ array = << >> /\ ex = << >> /\ client_public_key = NoShare
  BY DEF ScanInit
<1>2. Len(offer) \in Nat
  BY <1>1, MessageLaidOut
<1>3. 0 \in 0..Len(offer)
  BY <1>2
<1>4. Places[0] = 0 /\ Len(data) \in Nat
  BY <1>1, <1>3, MessageEntry
<1>5. TypeOK
  BY <1>1, <1>2, <1>4 DEF TypeOK, ExtensionList
<1>6. ExtensionsParsed
  BY <1>1 DEF ExtensionsParsed
<1>7. CountedSoFar
  BY <1>1, <1>2, <1>4 DEF CountedSoFar
<1>8. CopiedSoFar /\ LookedUpSoFar /\ FirstIsFound /\ ScannedSoFar
  BY <1>1 DEF CopiedSoFar, LookedUpSoFar, FirstIsFound, ScannedSoFar
<1> QED
  BY <1>5, <1>6, <1>7, <1>8 DEF ScanInv

LEMMA OutsideKeeps == ScanInv /\ ReadsOutside => ScanInv'
<1> SUFFICES ASSUME ScanInv, ReadsOutside PROVE ScanInv'
  OBVIOUS
<1>1. TypeOK /\ ExtensionsParsed
  BY DEF ScanInv
<1>2. /\ loop' \in {"dead", "asserted", "found", "outside"}
      /\ client_public_key' = client_public_key \/ client_public_key' \in Key
      /\ UNCHANGED <<offer, data, place, count, array, ex>>
  BY DEF ReadsOutside
<1>3. TypeOK'
  BY <1>1, <1>2 DEF TypeOK
<1>4. ExtensionsParsed'
  BY <1>1, <1>2 DEF ExtensionsParsed
<1>5. (CountedSoFar /\ CopiedSoFar /\ LookedUpSoFar /\ FirstIsFound /\ ScannedSoFar)'
  BY <1>2 DEF CountedSoFar, CopiedSoFar, LookedUpSoFar, FirstIsFound, ScannedSoFar
<1> QED
  BY <1>3, <1>4, <1>5 DEF ScanInv

LEMMA CountKeeps == ScanInv /\ CountExtension => ScanInv'
<1> SUFFICES ASSUME ScanInv, CountExtension PROVE ScanInv'
  OBVIOUS
<1>1. /\ TypeOK /\ ExtensionsParsed /\ CountedSoFar
  BY DEF ScanInv
<1>2. /\ loop = "count" /\ offer \in Offer /\ data = Message(offer)
      /\ count \in 0..Len(offer) /\ array \in ExtensionList /\ ex \in Seq(Byte)
      /\ client_public_key \in Key \cup {NoShare}
  BY <1>1 DEF TypeOK, CountExtension
<1>3. place = Places[count] /\ array = << >>
  BY <1>1, <1>2 DEF CountedSoFar
<1>4. CASE ~Inside(data, place, 4)
  <2>1. ReadsOutside
    BY <1>4 DEF CountExtension
  <2> QED
    BY <2>1, OutsideKeeps
<1>5. CASE Inside(data, place, 4)
  <2> DEFINE next == place + 4 + Uint16At(data, place + 2)
  <2>1. /\ count' = count + 1
        /\ IF next >= Len(data) THEN loop' = "copy" /\ place' = 0
                                ELSE loop' = loop /\ place' = next
        /\ UNCHANGED <<offer, data, array, ex, client_public_key>>
    BY <1>5 DEF CountExtension
  <2>2. Len(offer) \in Nat
    BY <1>2, MessageLaidOut
  <2>3. count < Len(offer)
    <3>1. count # Len(offer)
      BY <1>2, <1>3, <1>5, MessageEntry
    <3> QED
      BY <1>2, <2>2, <3>1
  <2>4. /\ next = Places[count + 1] /\ next <= Len(data) /\ next \in Nat /\ Len(data) \in Nat
        /\ next >= Len(data) => count + 1 = Len(offer)
        /\ Places[0] = 0
    <3>1. PICK bytes : bytes = DataOf(offer[count + 1])
      OBVIOUS
    <3>2. /\ Places[count] \in Nat /\ Len(data) \in Nat
          /\ Uint16At(data, Places[count] + 2) = Len(bytes)
          /\ Places[count + 1] = Places[count] + 4 + Len(bytes) /\ Len(bytes) \in Nat
          /\ Places[count + 1] <= Len(data)
          /\ Places[count + 1] >= Len(data) => count + 1 = Len(offer)
          /\ Places[0] = 0
      BY <1>2, <2>3, <3>1, MessageEntry, Zenon
    <3>3. next = Places[count + 1]
      BY <1>3, <3>2
    <3> QED
      BY <3>2, <3>3
  <2>5. count + 1 \in 0..Len(offer)
    BY <1>2, <2>2, <2>3
  <2>6. count + 1 = Len(offer) => next >= Len(data)
    <3>1. count + 1 = Len(offer) => Places[count + 1] = Len(data)
      BY <1>2, <2>5, MessageEntry, Zenon
    <3> QED
      BY <2>4, <3>1
  <2>7. Places' = Places
    BY <2>1, OfferStays
  <2> HIDE DEF next
  <2>8. place' \in 0..Len(data') /\ loop' \in {"count", "copy"} /\ count' \in 0..Len(offer')
    BY <1>2, <2>1, <2>4, <2>5
  <2>9. TypeOK'
    BY <1>2, <2>1, <2>8 DEF TypeOK
  <2>10. ExtensionsParsed'
    BY <1>1, <2>1, <2>8 DEF ExtensionsParsed
  <2>11. CountedSoFar'
    <3> SUFFICES ASSUME loop' = "count"
                 PROVE  /\ place' = Places'[count'] /\ array' = << >>
                        /\ count' < Len(offer') \/ Len(offer') = 0
      BY DEF CountedSoFar
    <3>1. ~(next >= Len(data)) /\ place' = next
      BY <2>1
    <3>2. count' # Len(offer)
      BY <2>1, <2>6, <3>1
    <3> QED
      BY <1>3, <2>1, <2>2, <2>4, <2>5, <2>7, <3>1, <3>2
  <2>12. CopiedSoFar'
    <3>1. loop' = "copy" => count' = Len(offer) /\ place' = 0
      BY <1>2, <2>1, <2>4
    <3>2. Len(array') = 0 /\ 0 < count'
      BY <1>2, <1>3, <2>1
    <3> QED
      BY <2>1, <2>4, <2>7, <2>8, <3>1, <3>2 DEF CopiedSoFar
  <2>13. (LookedUpSoFar /\ FirstIsFound /\ ScannedSoFar)'
    BY <2>8 DEF LookedUpSoFar, FirstIsFound, ScannedSoFar
  <2> QED
    BY <2>9, <2>10, <2>11, <2>12, <2>13 DEF ScanInv
<1> QED
  BY <1>4, <1>5

LEMMA CopyKeeps == ScanInv /\ CopyExtension => ScanInv'
<1> SUFFICES ASSUME ScanInv, CopyExtension PROVE ScanInv'
  OBVIOUS
<1>1. TypeOK /\ ExtensionsParsed /\ CopiedSoFar
  BY DEF ScanInv
<1>2. /\ loop = "copy" /\ offer \in Offer /\ data = Message(offer)
      /\ count \in 0..Len(offer) /\ array \in ExtensionList /\ ex \in Seq(Byte)
      /\ client_public_key \in Key \cup {NoShare}
  BY <1>1 DEF TypeOK, CopyExtension
<1>3. count = Len(offer) /\ Len(array) < count /\ place = Places[Len(array)]
  BY <1>1, <1>2 DEF CopiedSoFar
<1>4. PICK n : n = Len(array)
  OBVIOUS
<1>5. PICK bytes : bytes = DataOf(offer[n + 1])
  OBVIOUS
<1>6. PICK E : E = [type : Uint16, data : Seq(Byte)]
  OBVIOUS
<1>7. array \in Seq(E)
  BY <1>2, <1>6 DEF ExtensionList
<1>8. /\ Len(offer) \in Nat /\ Sent(offer) \in Seq(E) /\ Len(Sent(offer)) = Len(offer)
      /\ \A i \in 1..Len(offer) : Sent(offer)[i] = OnTheWire(offer[i])
  BY <1>2, <1>6, MessageLaidOut DEF ExtensionList
<1>9. n \in Nat /\ n \in 0..Len(offer) /\ n < Len(offer) /\ n + 1 \in 1..Len(offer)
  BY <1>3, <1>4, <1>7, <1>8
<1>10. /\ Places[n] \in Nat /\ Places[0] = 0 /\ Len(data) \in Nat /\ Len(bytes) \in Nat
       /\ Uint16At(data, Places[n]) = offer[n + 1].type
       /\ Uint16At(data, Places[n] + 2) = Len(bytes)
       /\ Part(data, Places[n] + 4, Len(bytes)) = bytes
       /\ Places[n + 1] = Places[n] + 4 + Len(bytes) /\ Places[n + 1] <= Len(data)
  BY <1>2, <1>5, <1>9, MessageEntry, Zenon
<1>11. PICK copied \in E : copied = OnTheWire(offer[n + 1])
  BY <1>8, <1>9
<1>12. copied = [type |-> offer[n + 1].type, data |-> bytes]
  BY <1>5, <1>11 DEF OnTheWire, Extension
<1>13. /\ array' = Append(array, copied)
       /\ IF Len(array') = count
            THEN loop' = "lookup" /\ place' = 0
            ELSE loop' = loop /\ place' = Places[n] + 4 + Len(bytes)
       /\ UNCHANGED <<offer, data, count, ex, client_public_key>>
  <2>1. place = Places[n]
    BY <1>3, <1>4
  <2> QED
    BY <1>10, <1>12, <2>1 DEF CopyExtension, TypeAt
<1>14. /\ array' \in Seq(E) /\ Len(array') = n + 1 /\ DOMAIN array' = 1..(n + 1)
       /\ array'[n + 1] = copied /\ \A i \in 1..n : array'[i] = array[i]
  BY <1>4, <1>7, <1>13
<1>15. Places' = Places
  BY <1>13, OfferStays
<1>16. loop' \in {"copy", "lookup"} /\ place' \in 0..Len(data')
  BY <1>2, <1>10, <1>13, SMTT(60)
<1>17. TypeOK'
  <2>1. array' \in ExtensionList
    BY <1>6, <1>14 DEF ExtensionList
  <2> QED
    BY <1>2, <1>13, <1>16, <2>1 DEF TypeOK
<1>18. ExtensionsParsed'
  <2>1. ASSUME NEW i \in DOMAIN array' PROVE array'[i] = OnTheWire(offer[i])
    <3>1. CASE i = n + 1
      BY <1>11, <1>14, <3>1
    <3>2. CASE i # n + 1
      <4>1. i \in 1..n /\ i \in DOMAIN array
        BY <1>4, <1>7, <1>9, <1>14, <3>2
      <4> QED
        BY <1>1, <1>14, <4>1 DEF ExtensionsParsed
    <3> QED
      BY <3>1, <3>2
  <2>2. loop' = "lookup" => Len(array') = Len(offer)
    BY <1>2, <1>3, <1>13
  <2> QED
    BY <1>13, <1>16, <2>1, <2>2 DEF ExtensionsParsed
<1>19. CopiedSoFar'
  <2>1. loop' = "copy" => Len(array') < count
    BY <1>3, <1>9, <1>13, <1>14
  <2>2. loop' = "copy" => place' = Places[n + 1]
    BY <1>10, <1>13
  <2> QED
    BY <1>3, <1>13, <1>14, <1>15, <1>16, <2>1, <2>2 DEF CopiedSoFar
<1>20. LookedUpSoFar'
  <2>1. loop' = "lookup" => place' = 0
    BY <1>2, <1>13
  <2> QED
    BY <1>8, <1>13, <2>1 DEF LookedUpSoFar
<1>21. (CountedSoFar /\ FirstIsFound /\ ScannedSoFar)'
  BY <1>16 DEF CountedSoFar, FirstIsFound, ScannedSoFar
<1> QED
  BY <1>17, <1>18, <1>19, <1>20, <1>21 DEF ScanInv

LEMMA GetKeeps == ScanInv /\ GetExtension => ScanInv'
<1> SUFFICES ASSUME ScanInv, GetExtension PROVE ScanInv'
  OBVIOUS
<1>1. TypeOK /\ ExtensionsParsed /\ CopiedSoFar /\ LookedUpSoFar
  BY DEF ScanInv
<1>2. /\ loop = "lookup" /\ offer \in Offer /\ data = Message(offer)
      /\ count \in 0..Len(offer) /\ array \in ExtensionList /\ ex \in Seq(Byte)
      /\ client_public_key \in Key \cup {NoShare} /\ place \in 0..Len(data)
  BY <1>1 DEF TypeOK, GetExtension
<1>3. /\ count = Len(offer) /\ Len(array) = Len(offer) /\ place <= Len(offer)
      /\ \A i \in 1..place : offer[i].type # KEY_SHARE_EXTENSION_TYPE
      /\ \A i \in DOMAIN array : array[i] = OnTheWire(offer[i])
  BY <1>1, <1>2 DEF CopiedSoFar, LookedUpSoFar, ExtensionsParsed
<1>4. CASE count % CountSize = 0
  <2>1. loop' = "dead" /\ UNCHANGED <<offer, data, place, count, array, ex, client_public_key>>
    BY <1>4 DEF GetExtension
  <2>2. TypeOK'
    BY <1>1, <2>1 DEF TypeOK
  <2>3. ExtensionsParsed'
    BY <1>1, <2>1 DEF ExtensionsParsed
  <2>4. (CountedSoFar /\ CopiedSoFar /\ LookedUpSoFar /\ FirstIsFound /\ ScannedSoFar)'
    BY <2>1 DEF CountedSoFar, CopiedSoFar, LookedUpSoFar, FirstIsFound, ScannedSoFar
  <2> QED
    BY <2>2, <2>3, <2>4 DEF ScanInv
<1>5. CASE count % CountSize # 0 /\ place >= Len(array)
  <2>1. ReadsOutside
    BY <1>5 DEF GetExtension
  <2> QED
    BY <2>1, OutsideKeeps
<1>6. CASE count % CountSize # 0 /\ ~(place >= Len(array))
  <2>1. /\ IF array[place + 1].type = KEY_SHARE_EXTENSION_TYPE
             THEN loop' = "list" /\ ex' = array[place + 1].data /\ place' = place
             ELSE loop' = loop /\ ex' = ex /\ place' = place + 1
        /\ UNCHANGED <<offer, data, count, array, client_public_key>>
    BY <1>6 DEF GetExtension
  <2>2. /\ Len(offer) \in Nat /\ DOMAIN offer = 1..Len(offer)
        /\ \A i \in 1..Len(offer) : offer[i] \in OfferedExtension
    BY <1>2, MessageLaidOut
  <2>3. PICK i : i = place + 1
    OBVIOUS
  <2>4. place \in Nat /\ i \in 1..Len(offer) /\ place < Len(offer) /\ Len(array) \in Nat
    <3>1. Len(array) \in Nat /\ place \in Nat
      BY <1>2, <1>3, <2>2
    <3> QED
      BY <1>3, <1>6, <2>2, <2>3, <3>1
  <2>5. i \in DOMAIN array
    <3>1. DOMAIN array = 1..Len(array)
      BY <1>2 DEF ExtensionList
    <3> QED
      BY <1>3, <2>4, <3>1
  <2>6. array[i].type = offer[i].type /\ array[i].data = DataOf(offer[i])
    BY <1>3, <2>5 DEF OnTheWire, Extension
  <2>7. Len(data) \in Nat /\ Len(offer) <= Len(data)
    <3>1. Len(offer) \in 0..Len(offer)
      BY <2>2
    <3> QED
      BY <1>2, <3>1, MessageEntry, Zenon
  <2>8. /\ DataOf(offer[i]) \in Seq(Byte)
        /\ offer[i].type = KEY_SHARE_EXTENSION_TYPE => DataOf(offer[i]) = SharesData(offer[i].shares)
    <3>1. offer[i] \in OfferedExtension
      BY <2>2, <2>4
    <3> QED
      BY <3>1, OfferedData, Zenon
  <2>9. KeyShares' = KeyShares /\ SharesOffered' = SharesOffered
    BY <2>1, OfferStays
  <2>10. CASE offer[i].type = KEY_SHARE_EXTENSION_TYPE
    <3>1. /\ loop' = "list" /\ ex' = DataOf(offer[i]) /\ place' = place
          /\ UNCHANGED <<offer, data, count, array, client_public_key>>
      BY <2>1, <2>3, <2>6, <2>10
    <3>2. i \in KeyShares /\ KeyShares # {}
      BY <2>2, <2>4, <2>10 DEF KeyShares
    <3>3. PICK k : k = Min(KeyShares)
      OBVIOUS
    <3>4. /\ k \in 1..Len(offer) /\ offer[k].type = KEY_SHARE_EXTENSION_TYPE
          /\ SharesOffered = offer[k].shares /\ k <= i
      BY <1>2, <2>4, <2>10, <3>2, <3>3, FirstKeyShare, Zenon
    <3>5. k = i
      <4>1. ~(k \in 1..place)
        BY <1>3, <3>4
      <4> QED
        BY <2>2, <2>3, <2>4, <3>4, <4>1
    <3>6. FirstIsFound'
      BY <1>6, <2>8, <2>9, <2>10, <3>1, <3>2, <3>4, <3>5 DEF FirstIsFound
    <3>7. TypeOK'
      BY <1>2, <2>8, <3>1 DEF TypeOK
    <3>8. ExtensionsParsed' /\ CopiedSoFar'
      BY <1>3, <3>1 DEF ExtensionsParsed, CopiedSoFar
    <3>9. (CountedSoFar /\ LookedUpSoFar /\ ScannedSoFar)'
      BY <3>1 DEF CountedSoFar, LookedUpSoFar, ScannedSoFar
    <3> QED
      BY <3>6, <3>7, <3>8, <3>9 DEF ScanInv
  <2>11. CASE offer[i].type # KEY_SHARE_EXTENSION_TYPE
    <3>1. /\ loop' = "lookup" /\ ex' = ex /\ place' = i
          /\ UNCHANGED <<offer, data, count, array, client_public_key>>
      BY <1>2, <2>1, <2>3, <2>6, <2>11
    <3>2. i \in 0..Len(data)
      BY <2>2, <2>4, <2>7
    <3>3. TypeOK'
      BY <1>2, <3>1, <3>2 DEF TypeOK
    <3>4. ExtensionsParsed' /\ CopiedSoFar'
      BY <1>3, <3>1 DEF ExtensionsParsed, CopiedSoFar
    <3>5. LookedUpSoFar'
      <4>1. ASSUME NEW j \in 1..i PROVE offer[j].type # KEY_SHARE_EXTENSION_TYPE
        <5>1. CASE j = i
          BY <2>11, <5>1
        <5>2. CASE j # i
          <6>1. j \in 1..place
            BY <2>3, <2>4, <5>2
          <6> QED
            BY <1>3, <6>1
        <5> QED
          BY <5>1, <5>2
      <4>2. i <= Len(offer)
        BY <2>4
      <4> QED
        BY <3>1, <4>1, <4>2 DEF LookedUpSoFar
    <3>6. (CountedSoFar /\ FirstIsFound /\ ScannedSoFar)'
      BY <3>1 DEF CountedSoFar, FirstIsFound, ScannedSoFar
    <3> QED
      BY <3>3, <3>4, <3>5, <3>6 DEF ScanInv
  <2> QED
    BY <2>10, <2>11
<1> QED
  BY <1>4, <1>5, <1>6

\* The list that is found lies in the message, so the pointer into it does not go
\* further than the message does.
LEMMA ListFits ==
  ASSUME ScanInv, loop \in {"list", "share"}
  PROVE  /\ offer \in Offer /\ KeyShares # {} /\ ex = SharesData(SharesOffered)
         /\ Len(ex) \in Nat /\ Len(data) \in Nat /\ Len(ex) <= Len(data)
         /\ Len(SharesOffered) \in Nat
<1>1. TypeOK /\ FirstIsFound
  BY DEF ScanInv
<1>2. /\ offer \in Offer /\ data = Message(offer) /\ KeyShares # {}
      /\ ex = SharesData(SharesOffered)
  BY <1>1 DEF TypeOK, FirstIsFound
<1>3. PICK k : k = Min(KeyShares)
  OBVIOUS
<1>4. /\ k \in 1..Len(offer) /\ SharesOffered = offer[k].shares /\ SharesOffered \in Seq(Share)
      /\ offer[k].type = KEY_SHARE_EXTENSION_TYPE
  BY <1>2, <1>3, FirstKeyShare, Zenon
<1>5. Len(offer) \in Nat /\ \A i \in 1..Len(offer) : offer[i] \in OfferedExtension
  BY <1>2, MessageLaidOut
<1>6. PICK n \in 0..Len(offer) : n + 1 = k /\ n < Len(offer)
  <2>1. k - 1 \in 0..Len(offer) /\ (k - 1) + 1 = k /\ k - 1 < Len(offer)
    BY <1>4, <1>5
  <2> QED
    BY <2>1
<1>7. ex = DataOf(offer[n + 1])
  <2>1. DataOf(offer[k]) = SharesData(offer[k].shares)
    BY <1>4, <1>5, OfferedData, Zenon
  <2> QED
    BY <1>2, <1>4, <1>6, <2>1
<1>8. /\ Places[n] \in Nat /\ Len(data) \in Nat /\ Len(ex) \in Nat
      /\ Places[n + 1] = Places[n] + 4 + Len(ex) /\ Places[n + 1] <= Len(data)
  BY <1>2, <1>6, <1>7, MessageEntry, Zenon
<1> QED
  BY <1>2, <1>4, <1>8, SMTT(60)

LEMMA EnterKeeps == ScanInv /\ EnterList => ScanInv'
<1> SUFFICES ASSUME ScanInv, EnterList PROVE ScanInv'
  OBVIOUS
<1>1. TypeOK /\ ExtensionsParsed /\ CopiedSoFar /\ FirstIsFound
  BY DEF ScanInv
<1>2. /\ loop = "list" /\ loop' = "share" /\ place' = 2
      /\ UNCHANGED <<offer, data, count, array, ex, client_public_key>>
  BY DEF EnterList
<1>3. /\ offer \in Offer /\ KeyShares # {} /\ ex = SharesData(SharesOffered)
      /\ Len(ex) \in Nat /\ Len(data) \in Nat /\ Len(ex) <= Len(data)
      /\ Len(SharesOffered) \in Nat
  BY <1>2, ListFits
<1>4. 0 \in 0..Len(SharesOffered)
  BY <1>3
<1>5. SharePlaces[0] = 0 /\ 2 + SharePlaces[0] <= Len(ex)
  BY <1>3, <1>4, ShareEntry
<1>6. 2 \in 0..Len(data)
  BY <1>3, <1>5
<1>7. /\ KeyShares' = KeyShares /\ SharesOffered' = SharesOffered
      /\ SharePlaces' = SharePlaces
  BY <1>2, OfferStays
<1>8. TypeOK'
  BY <1>1, <1>2, <1>6 DEF TypeOK
<1>9. (ExtensionsParsed /\ CopiedSoFar /\ FirstIsFound)'
  BY <1>1, <1>2, <1>7 DEF ExtensionsParsed, CopiedSoFar, FirstIsFound
<1>10. ScannedSoFar'
  <2>1. place' = 2 + SharePlaces[0] /\ \A j \in 1..0 : FALSE
    BY <1>2, <1>5
  <2> QED
    BY <1>4, <1>7, <2>1 DEF ScannedSoFar
<1>11. (CountedSoFar /\ LookedUpSoFar)'
  BY <1>2 DEF CountedSoFar, LookedUpSoFar
<1> QED
  BY <1>8, <1>9, <1>10, <1>11 DEF ScanInv

\* One turn of the scan, at the share behind the first n: none of those was for
\* X25519.  Behind the last it reads outside the list; else it decides by the
\* group and the length of this one.
Turn(n) ==
  /\ place = 2 + SharePlaces[n] /\ Len(SharesOffered) \in Nat
  /\ \A j \in 1..n : SharesOffered[j].group # NAMED_GROUP_X25519
  /\ n = Len(SharesOffered) => ReadsOutside
  /\ n < Len(SharesOffered) =>
       LET k == SharesOffered[n + 1].key IN
       /\ k \in Seq(Byte) /\ Len(k) \in Nat
       /\ IF SharesOffered[n + 1].group # NAMED_GROUP_X25519
            THEN /\ \/ /\ loop' = "asserted" /\ place' = place
                       /\ n + 1 = Len(SharesOffered)
                    \/ loop' = "share" /\ place' = 2 + SharePlaces[n + 1]
                 /\ client_public_key' = client_public_key
            ELSE /\ \/ loop' = "found" /\ Len(k) = KeyLength /\ client_public_key' = k
                    \/ /\ loop' = "asserted" /\ Len(k) # KeyLength
                       /\ client_public_key' = client_public_key
                 /\ place' = place
       /\ UNCHANGED <<offer, data, count, array, ex>>

\* Every turn is of that form.
LEMMA ShareSeen ==
  ASSUME ScanInv, ScanShare
  PROVE  \E n \in 0..Len(SharesOffered) : Turn(n)
<1>1. loop = "share" /\ TypeOK /\ ScannedSoFar
  BY DEF ScanInv, ScanShare
<1>2. PICK n \in 0..Len(SharesOffered) :
        /\ place = 2 + SharePlaces[n]
        /\ \A j \in 1..n : SharesOffered[j].group # NAMED_GROUP_X25519
  BY <1>1 DEF ScannedSoFar
<1>3. /\ offer \in Offer /\ KeyShares # {} /\ ex = SharesData(SharesOffered)
      /\ Len(SharesOffered) \in Nat
  BY <1>1, ListFits
<1>4. PICK p : p = SharePlaces[n]
  OBVIOUS
<1>5. /\ p \in Nat /\ Len(ex) \in Nat
      /\ Uint16At(ex, 0) \in Nat /\ Uint16At(ex, 0) + 2 = Len(ex)
      /\ n = Len(SharesOffered) => ~Inside(ex, 2 + p, 4)
  BY <1>3, <1>4, ShareEntry, Zenon
<1>6. n = Len(SharesOffered) => ReadsOutside
  BY <1>2, <1>4, <1>5 DEF ScanShare
<1>7. ASSUME n < Len(SharesOffered)
      PROVE  LET k == SharesOffered[n + 1].key IN
             /\ k \in Seq(Byte) /\ Len(k) \in Nat
             /\ IF SharesOffered[n + 1].group # NAMED_GROUP_X25519
                  THEN /\ \/ /\ loop' = "asserted" /\ place' = place
                             /\ n + 1 = Len(SharesOffered)
                          \/ loop' = "share" /\ place' = 2 + SharePlaces[n + 1]
                       /\ client_public_key' = client_public_key
                  ELSE /\ \/ loop' = "found" /\ Len(k) = KeyLength /\ client_public_key' = k
                          \/ /\ loop' = "asserted" /\ Len(k) # KeyLength
                             /\ client_public_key' = client_public_key
                       /\ place' = place
             /\ UNCHANGED <<offer, data, count, array, ex>>
  <2>1. PICK k : k = SharesOffered[n + 1].key
    OBVIOUS
  <2>2. PICK r : r = SharePlaces[n + 1]
    OBVIOUS
  <2>3. /\ Inside(ex, 2 + p, 4)
        /\ Uint16At(ex, 2 + p) = SharesOffered[n + 1].group
        /\ Uint16At(ex, 2 + p + 2) = Len(k)
        /\ Part(ex, 2 + p + 4, Len(k)) = k /\ k \in Seq(Byte)
        /\ r = p + 4 + Len(k) /\ Len(k) \in Nat
        /\ 2 + r >= Len(ex) => n + 1 = Len(SharesOffered)
    BY <1>3, <1>4, <1>7, <2>1, <2>2, ShareEntry, Zenon
  <2>4. place = 2 + p
    BY <1>2, <1>4
  <2>5. /\ IF SharesOffered[n + 1].group # NAMED_GROUP_X25519
             THEN /\ IF ListIsOver
                       THEN loop' = "asserted" /\ place' = place
                       ELSE loop' = loop /\ place' = NextShare(Len(k))
                  /\ client_public_key' = client_public_key
             ELSE /\ IF WholeKey(Len(k))
                       THEN loop' = "found" /\ client_public_key' = k
                       ELSE loop' = "asserted" /\ client_public_key' = client_public_key
                  /\ place' = place
        /\ UNCHANGED <<offer, data, count, array, ex>>
    BY <2>3, <2>4, Zenon DEF ScanShare
  <2>6. NextShare(Len(k)) = 2 + r
    <3>1. PICK i \in Nat, j \in Nat : i = p /\ j = Len(k)
      BY <1>5, <2>3
    <3>2. NextShare(Len(k)) = (2 + i) + 4 + j
      BY <2>4, <3>1 DEF NextShare
    <3>3. r = i + 4 + j
      BY <2>3, <3>1
    <3> QED
      BY <3>2, <3>3
  <2>7. ListIsOver => n + 1 = Len(SharesOffered)
    <3> SUFFICES ASSUME ListIsOver PROVE 2 + r >= Len(ex)
      BY <2>3
    <3>1. PICK u : u = Uint16At(ex, 0)
      OBVIOUS
    <3>2. (2 + p) + 4 - 2 >= u
      BY <2>4, <3>1 DEF ListIsOver
    <3>3. u \in Nat /\ u + 2 = Len(ex)
      BY <1>5, <3>1
    <3> QED
      BY <1>5, <2>3, <3>2, <3>3
  <2> QED
    BY <1>1, <2>1, <2>2, <2>3, <2>5, <2>6, <2>7, Zenon DEF WholeKey
<1> QED
  BY <1>2, <1>3, <1>6, <1>7, Zenon DEF Turn

LEMMA ScanKeeps == ScanInv /\ ScanShare => ScanInv'
<1> SUFFICES ASSUME ScanInv, ScanShare PROVE ScanInv'
  OBVIOUS
<1>1. loop = "share" /\ TypeOK /\ ExtensionsParsed /\ CopiedSoFar /\ FirstIsFound
  BY DEF ScanInv, ScanShare
<1>2. PICK n \in 0..Len(SharesOffered) : Turn(n)
  BY ShareSeen
<1>3. CASE n = Len(SharesOffered)
  BY <1>2, <1>3, OutsideKeeps DEF Turn
<1>4. CASE n < Len(SharesOffered)
  <2>1. PICK k \in Seq(Byte) : k = SharesOffered[n + 1].key
    BY <1>2, <1>4 DEF Turn
  <2>2. UNCHANGED <<offer, data, count, array, ex>>
    BY <1>2, <1>4 DEF Turn
  <2>3. /\ KeyShares' = KeyShares /\ SharesOffered' = SharesOffered
        /\ SharePlaces' = SharePlaces
    BY <2>2, OfferStays
  <2>4. (ExtensionsParsed /\ CopiedSoFar /\ FirstIsFound)'
    <3>1. loop' \in {"asserted", "share", "found"}
      BY <1>2, <1>4 DEF Turn
    <3> QED
      BY <1>1, <2>2, <2>3, <3>1 DEF ExtensionsParsed, CopiedSoFar, FirstIsFound
  <2>5. CASE loop' = "share"
    <3>1. /\ SharesOffered[n + 1].group # NAMED_GROUP_X25519
          /\ place' = 2 + SharePlaces[n + 1] /\ client_public_key' = client_public_key
      BY <1>2, <1>4, <2>5 DEF Turn
    <3>2. n + 1 \in 0..Len(SharesOffered)
      BY <1>2, <1>4 DEF Turn
    <3>3. \A j \in 1..(n + 1) : SharesOffered[j].group # NAMED_GROUP_X25519
      <4> SUFFICES ASSUME NEW j \in 1..(n + 1)
                   PROVE  SharesOffered[j].group # NAMED_GROUP_X25519
        OBVIOUS
      <4>1. j \in 1..n \/ j = n + 1
        BY <1>2 DEF Turn
      <4> QED
        BY <1>2, <3>1, <4>1 DEF Turn
    <3>4. ScannedSoFar'
      BY <2>3, <3>1, <3>2, <3>3 DEF ScannedSoFar
    <3>5. place' \in 0..Len(data)
      <4>1. /\ offer \in Offer /\ KeyShares # {} /\ ex = SharesData(SharesOffered)
            /\ Len(ex) \in Nat /\ Len(data) \in Nat /\ Len(ex) <= Len(data)
        BY <1>1, ListFits
      <4>2. SharePlaces[n + 1] \in Nat /\ 2 + SharePlaces[n + 1] <= Len(ex)
        BY <3>2, <4>1, ShareEntry
      <4> QED
        BY <3>1, <4>1, <4>2
    <3>6. TypeOK'
      BY <1>1, <2>2, <2>5, <3>1, <3>5 DEF TypeOK
    <3>7. (CountedSoFar /\ LookedUpSoFar)'
      BY <2>5 DEF CountedSoFar, LookedUpSoFar
    <3> QED
      BY <2>4, <3>4, <3>6, <3>7 DEF ScanInv
  <2>6. CASE loop' # "share"
    <3>1. loop' \in {"asserted", "found"} /\ place' = place
      BY <1>2, <1>4, <2>6 DEF Turn
    <3>2. client_public_key' \in Key \cup {NoShare}
      <4>1. client_public_key' = client_public_key
            \/ (Len(k) = KeyLength /\ client_public_key' = k)
        BY <1>2, <1>4, <2>1, <2>6 DEF Turn
      <4>2. Len(k) = KeyLength => k \in Key
        BY DEF Key
      <4> QED
        BY <1>1, <4>1, <4>2 DEF TypeOK
    <3>3. TypeOK'
      BY <1>1, <2>2, <3>1, <3>2 DEF TypeOK
    <3>4. (CountedSoFar /\ LookedUpSoFar /\ ScannedSoFar)'
      BY <3>1 DEF CountedSoFar, LookedUpSoFar, ScannedSoFar
    <3> QED
      BY <2>4, <3>3, <3>4 DEF ScanInv
  <2> QED
    BY <2>5, <2>6
<1> QED
  BY <1>2, <1>3, <1>4 DEF Turn

LEMMA ScanInvariant == ScanSpec => []ScanInv
<1>1. ScanInit => ScanInv
  BY ScanInitial
<1>2. ScanInv /\ [ScanNext]_scanVars => ScanInv'
  <2> SUFFICES ASSUME ScanInv, [ScanNext]_scanVars PROVE ScanInv'
    OBVIOUS
  <2>1. CASE ScanStep
    BY <2>1, CountKeeps, CopyKeeps, GetKeeps, EnterKeeps, ScanKeeps DEF ScanStep
  <2>2. CASE ScanOutside
    BY <2>2, OutsideKeeps DEF ScanOutside
  <2>3. CASE UNCHANGED scanVars
    <3>1. UNCHANGED <<offer, data, loop, place, count, array, ex, client_public_key>>
      BY <2>3 DEF scanVars
    <3>2. /\ Places' = Places /\ KeyShares' = KeyShares /\ SharesOffered' = SharesOffered
          /\ SharePlaces' = SharePlaces
      BY <3>1, OfferStays
    <3>3. (TypeOK /\ ExtensionsParsed)'
      BY <3>1 DEF ScanInv, TypeOK, ExtensionsParsed
    <3>4. (CountedSoFar /\ CopiedSoFar /\ LookedUpSoFar)'
      BY <3>1, <3>2 DEF ScanInv, CountedSoFar, CopiedSoFar, LookedUpSoFar
    <3>5. (FirstIsFound /\ ScannedSoFar)'
      BY <3>1, <3>2 DEF ScanInv, FirstIsFound, ScannedSoFar
    <3> QED
      BY <3>3, <3>4, <3>5 DEF ScanInv
  <2> QED
    BY <2>1, <2>2, <2>3 DEF ScanNext, ScanTerminated
<1> QED
  BY <1>1, <1>2, PTL DEF ScanSpec

\* The pointer never leaves the message and no count exceeds what was offered,
\* whatever the two loops of parse_extensions and the two scans come upon.
THEOREM ScanTypeCorrect == ScanSpec => []TypeOK
<1>1. ScanInv => TypeOK
  BY DEF ScanInv
<1> QED
  BY <1>1, ScanInvariant, PTL

\* parse_extensions takes every message apart into the extensions the peer put
\* in, and hands on all of them.
THEOREM ExtensionsComeApart == ScanSpec => []ExtensionsParsed
<1>1. ScanInv => ExtensionsParsed
  BY DEF ScanInv
<1> QED
  BY <1>1, ScanInvariant, PTL

-----------------------------------------------------------------------------
(* The share that is found is the one KeyShareChoice promises.              *)

\* The offer does not change, and with it neither does what is offered.
LEMMA OfferedStays ==
  ASSUME UNCHANGED <<offer, data>>
  PROVE  Offered' = Offered
<1>1. KeyShares' = KeyShares /\ SharesOffered' = SharesOffered
  BY OfferStays
<1>2. X25519Shares' = X25519Shares
  BY <1>1 DEF X25519Shares
<1>3. FirstShare' = FirstShare
  BY <1>1, <1>2 DEF FirstShare
<1> QED
  BY <1>1, <1>2, <1>3 DEF Offered

\* The loops leave the message only when nothing is offered.
OutsideUnoffered == loop = "outside" => Offered = NoShare

\* A step makes the choice, or goes on towards it.
Chooses == (Choice!Next \/ UNCHANGED Choice!vars) /\ OutsideUnoffered'

\* A step within the loops is none of the choice;
LEMMA LoopsGoOn ==
  ASSUME ~Ended, loop' \notin {"found", "asserted", "dead", "outside"},
         UNCHANGED <<offer, data, client_public_key>>
  PROVE  Chooses
<1>1. Offered' = Offered
  BY OfferedStays
<1> QED
  BY <1>1 DEF Choice!vars, Ended, Chooses, OutsideUnoffered

\* a read outside the message is a choice of what was not offered,
LEMMA OutsideIsAllowed ==
  ASSUME ~Ended, ReadsOutside, Offered = NoShare
  PROVE  Chooses
<1>1. Offered' = Offered
  BY OfferedStays DEF ReadsOutside
<1>2. OutsideUnoffered'
  BY <1>1 DEF OutsideUnoffered
<1>3. CASE loop' = "outside"
  BY <1>1, <1>2, <1>3 DEF ReadsOutside, Ended, Chooses, Choice!vars
<1>4. CASE loop' # "outside"
  <2>1. Choice!Next
    BY <1>1, <1>4 DEF ReadsOutside, Ended, Choice!Next, Choice!Take, Choice!Die
  <2> QED
    BY <1>2, <2>1 DEF Chooses
<1> QED
  BY <1>3, <1>4

\* and so is the death of the process.
LEMMA DeathIsAllowed ==
  ASSUME ~Ended, loop' \in {"asserted", "dead"}, Offered = NoShare,
         UNCHANGED <<offer, data, client_public_key>>
  PROVE  Chooses
<1>1. Offered' = Offered
  BY OfferedStays
<1> QED
  BY <1>1 DEF Ended, Choice!Next, Choice!Die, Chooses, OutsideUnoffered

\* Without a key_share extension nothing is offered.
LEMMA NothingToFind ==
  ASSUME offer \in Offer, \A i \in 1..Len(offer) : offer[i].type # KEY_SHARE_EXTENSION_TYPE
  PROVE  Offered = NoShare
<1>1. KeyShares = {}
  BY MessageLaidOut DEF KeyShares
<1> QED
  BY <1>1 DEF Offered

\* The first share for X25519 that the scan comes to is the one that is offered.
LEMMA FirstOfGroup ==
  ASSUME NEW n \in Nat, Len(SharesOffered) \in Nat, n < Len(SharesOffered),
         DOMAIN SharesOffered = 1..Len(SharesOffered),
         \A j \in 1..n : SharesOffered[j].group # NAMED_GROUP_X25519,
         SharesOffered[n + 1].group = NAMED_GROUP_X25519
  PROVE  X25519Shares # {} /\ FirstShare = SharesOffered[n + 1].key
<1>1. n + 1 \in X25519Shares /\ X25519Shares \in SUBSET Nat
  BY DEF X25519Shares
<1>2. PICK m : m = Min(X25519Shares)
  OBVIOUS
<1>3. m \in X25519Shares /\ m <= n + 1
  BY <1>1, <1>2, LeastOne
<1>4. m \in 1..Len(SharesOffered) /\ SharesOffered[m].group = NAMED_GROUP_X25519
  BY <1>3 DEF X25519Shares
<1>5. m = n + 1
  <2>1. ~(m \in 1..n)
    BY <1>4
  <2> QED
    BY <1>3, <1>4, <2>1
<1> QED
  BY <1>1, <1>2, <1>5 DEF FirstShare

LEMMA CountChooses == ScanInv /\ CountExtension => Chooses
<1> SUFFICES ASSUME ScanInv, CountExtension PROVE Chooses
  OBVIOUS
<1>1. /\ loop = "count" /\ offer \in Offer /\ data = Message(offer) /\ count \in 0..Len(offer)
      /\ place = Places[count] /\ (count < Len(offer) \/ Len(offer) = 0)
  BY DEF ScanInv, TypeOK, CountedSoFar, CountExtension
<1>2. ~Ended
  BY <1>1 DEF Ended
<1>3. CASE Inside(data, place, 4)
  <2>1. loop' \in {"copy", loop} /\ UNCHANGED <<offer, data, client_public_key>>
    BY <1>3 DEF CountExtension
  <2> QED
    BY <1>1, <1>2, <2>1, LoopsGoOn
<1>4. CASE ~Inside(data, place, 4)
  <2>1. ReadsOutside
    BY <1>4 DEF CountExtension
  <2>2. ~(count < Len(offer))
    BY <1>1, <1>4, MessageEntry
  <2>3. Offered = NoShare
    BY <1>1, <2>2, NothingToFind
  <2> QED
    BY <1>2, <2>1, <2>3, OutsideIsAllowed
<1> QED
  BY <1>3, <1>4

LEMMA GetChooses == ScanInv /\ GetExtension => Chooses
<1> SUFFICES ASSUME ScanInv, GetExtension PROVE Chooses
  OBVIOUS
<1>1. /\ loop = "lookup" /\ offer \in Offer /\ count = Len(offer) /\ Len(array) = Len(offer)
      /\ place \in 0..Len(data)
      /\ \A i \in 1..place : offer[i].type # KEY_SHARE_EXTENSION_TYPE
  BY DEF ScanInv, TypeOK, ExtensionsParsed, CopiedSoFar, LookedUpSoFar, GetExtension
<1>2. ~Ended
  BY <1>1 DEF Ended
<1>3. CASE count % CountSize = 0
  <2>1. loop' = "dead" /\ UNCHANGED <<offer, data, client_public_key>>
    BY <1>3 DEF GetExtension
  <2>2. Offered = NoShare
    BY <1>1, <1>3 DEF Offered
  <2> QED
    BY <1>2, <2>1, <2>2, DeathIsAllowed
<1>4. CASE count % CountSize # 0 /\ place >= Len(array)
  <2>1. ReadsOutside
    BY <1>4 DEF GetExtension
  <2>2. \A i \in 1..Len(offer) : offer[i].type # KEY_SHARE_EXTENSION_TYPE
    <3>1. place >= Len(offer) /\ place \in Nat /\ Len(offer) \in Nat
      BY <1>1, <1>4, MessageLaidOut
    <3>2. \A i \in 1..Len(offer) : i \in 1..place
      BY <3>1
    <3> QED
      BY <1>1, <3>2
  <2>3. Offered = NoShare
    BY <1>1, <2>2, NothingToFind
  <2> QED
    BY <1>2, <2>1, <2>3, OutsideIsAllowed
<1>5. CASE count % CountSize # 0 /\ ~(place >= Len(array))
  <2>1. loop' \in {"list", loop} /\ UNCHANGED <<offer, data, client_public_key>>
    BY <1>5 DEF GetExtension
  <2> QED
    BY <1>1, <1>2, <2>1, LoopsGoOn
<1> QED
  BY <1>3, <1>4, <1>5

LEMMA ScanChooses == ScanInv /\ ScanShare => Chooses
<1> SUFFICES ASSUME ScanInv, ScanShare PROVE Chooses
  OBVIOUS
<1>1. /\ loop = "share" /\ offer \in Offer /\ KeyShares # {} /\ count = Len(offer)
      /\ count % CountSize # 0
  BY DEF ScanInv, TypeOK, FirstIsFound, CopiedSoFar, ScanShare
<1>2. ~Ended
  BY <1>1 DEF Ended
<1>3. PICK n \in 0..Len(SharesOffered) : Turn(n)
  BY ShareSeen
<1>4. DOMAIN SharesOffered = 1..Len(SharesOffered)
  BY <1>1, FirstKeyShare
<1>5. (\A j \in 1..Len(SharesOffered) : SharesOffered[j].group # NAMED_GROUP_X25519)
        => Offered = NoShare
  <2>1. (\A j \in 1..Len(SharesOffered) : SharesOffered[j].group # NAMED_GROUP_X25519)
          => X25519Shares = {}
    BY <1>4 DEF X25519Shares
  <2> QED
    BY <2>1 DEF Offered
<1>6. CASE n = Len(SharesOffered)
  BY <1>2, <1>3, <1>5, <1>6, OutsideIsAllowed DEF Turn
<1>7. CASE n < Len(SharesOffered) /\ SharesOffered[n + 1].group # NAMED_GROUP_X25519
  <2>1. UNCHANGED <<offer, data, client_public_key>>
    BY <1>3, <1>7 DEF Turn
  <2>2. CASE loop' = "share"
    BY <1>2, <2>1, <2>2, LoopsGoOn
  <2>3. CASE loop' # "share"
    <3>1. loop' = "asserted" /\ n + 1 = Len(SharesOffered)
      BY <1>3, <1>7, <2>3 DEF Turn
    <3>2. \A j \in 1..Len(SharesOffered) : SharesOffered[j].group # NAMED_GROUP_X25519
      <4>1. \A j \in 1..Len(SharesOffered) : j \in 1..n \/ j = n + 1
        BY <1>3, <3>1 DEF Turn
      <4> QED
        BY <1>3, <1>7, <4>1 DEF Turn
    <3> QED
      BY <1>2, <1>5, <2>1, <3>1, <3>2, DeathIsAllowed
  <2> QED
    BY <2>2, <2>3
<1>8. CASE n < Len(SharesOffered) /\ SharesOffered[n + 1].group = NAMED_GROUP_X25519
  <2>1. PICK k \in Seq(Byte) : k = SharesOffered[n + 1].key
    BY <1>3, <1>8 DEF Turn
  <2>2. /\ \/ loop' = "found" /\ Len(k) = KeyLength /\ client_public_key' = k
           \/ /\ loop' = "asserted" /\ Len(k) # KeyLength
              /\ client_public_key' = client_public_key
        /\ UNCHANGED <<offer, data>>
    BY <1>3, <1>8, <2>1 DEF Turn
  <2>3. X25519Shares # {} /\ FirstShare = k
    <3>1. n \in Nat
      BY <1>3 DEF Turn
    <3>2. X25519Shares # {} /\ FirstShare = SharesOffered[n + 1].key
      BY <1>3, <1>4, <1>8, <3>1, FirstOfGroup, Zenon DEF Turn
    <3> QED
      BY <2>1, <3>2
  <2>4. k \in Key <=> Len(k) = KeyLength
    <3>1. k \in [1..Len(k) -> Byte] /\ Len(k) \in Nat
      BY <2>1, SMTT(60)
    <3>2. k \in [1..KeyLength -> Byte] => DOMAIN k = 1..KeyLength
      OBVIOUS
    <3>3. 1..Len(k) = 1..KeyLength => Len(k) = KeyLength
      <4>1. PICK a \in Nat, b \in Nat : a = Len(k) /\ b = KeyLength
        BY <3>1, SizeAssumption
      <4>2. (a # 0 => a \in 1..a) /\ (b # 0 => b \in 1..b)
        OBVIOUS
      <4>3. 1..a = 1..b => a = b
        BY <4>2
      <4> QED
        BY <4>1, <4>3
    <3> QED
      BY <3>1, <3>2, <3>3 DEF Key
  <2>5. Offered' = Offered
    BY <2>2, OfferedStays
  <2>6. CASE loop' = "found"
    <3>1. k \in Key /\ client_public_key' = k
      BY <2>2, <2>4, <2>6
    <3>2. Offered = k
      BY <1>1, <2>3, <3>1 DEF Offered
    <3> QED
      BY <1>2, <2>5, <2>6, <3>1, <3>2, SizeAssumption
         DEF Ended, Choice!Next, Choice!Take, Chooses, OutsideUnoffered
  <2>7. CASE loop' # "found"
    <3>1. loop' = "asserted" /\ UNCHANGED <<offer, data, client_public_key>> /\ k \notin Key
      BY <2>2, <2>4, <2>7
    <3>2. Offered = NoShare
      BY <2>3, <3>1 DEF Offered
    <3> QED
      BY <1>2, <3>1, <3>2, DeathIsAllowed
  <2> QED
    BY <2>6, <2>7
<1> QED
  BY <1>3, <1>6, <1>7, <1>8 DEF Turn

\* The share a well-formed ClientHello offers is the one the handshake computes
\* with: wherever it stands, nothing is found in its place, no assertion is in its
\* way, and only a message without one can kill the process or be read past its end.
THEOREM OfferedShareIsChosen == ScanSpec => MakesChoice
<1>1. ScanInit => Choice!Init
  <2>1. Offered \in Key \cup {NoShare}
    BY DEF Offered
  <2> QED
    BY <2>1 DEF ScanInit, Ended, Choice!Init
<1>2. ScanInit => OutsideUnoffered
  BY DEF ScanInit, OutsideUnoffered
<1>3. ScanInv /\ OutsideUnoffered /\ [ScanNext]_scanVars => Chooses
  <2> SUFFICES ASSUME ScanInv, OutsideUnoffered, [ScanNext]_scanVars PROVE Chooses
    OBVIOUS
  <2>1. CASE CopyExtension \/ EnterList
    <3>1. /\ loop \in {"copy", "list"} /\ loop' \in {"lookup", "copy", "share"}
          /\ UNCHANGED <<offer, data, client_public_key>>
      BY <2>1 DEF CopyExtension, EnterList
    <3> QED
      BY <3>1, LoopsGoOn DEF Ended
  <2>2. CASE UNCHANGED scanVars
    <3>1. UNCHANGED <<offer, data, loop, client_public_key>>
      BY <2>2 DEF scanVars
    <3>2. Offered' = Offered
      BY <3>1, OfferedStays
    <3> QED
      BY <3>1, <3>2 DEF Choice!vars, Ended, Chooses, OutsideUnoffered
  <2>3. CASE ScanOutside
    <3>1. ReadsOutside /\ Offered = NoShare /\ ~Ended
      BY <2>3 DEF ScanOutside, OutsideUnoffered, Ended
    <3> QED
      BY <3>1, OutsideIsAllowed
  <2> QED
    BY <2>1, <2>2, <2>3, CountChooses, GetChooses, ScanChooses
       DEF ScanNext, ScanStep, ScanTerminated
<1>4. Chooses => [Choice!Next]_(Choice!vars) /\ OutsideUnoffered'
  BY DEF Chooses
<1> QED
  BY <1>1, <1>2, <1>3, <1>4, ScanInvariant, PTL DEF ScanSpec, MakesChoice, Choice!Spec
=============================================================================
