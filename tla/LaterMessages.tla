--------------------------- MODULE LaterMessages ---------------------------
(***************************************************************************)
(* The messages that would complete the server's flight: the encoders of   *)
(* EncryptedExtensions, Certificate and CertificateVerify, which are       *)
(* written and not called yet.  Each allocates by one computation and      *)
(* writes by another; the peer takes what comes out apart.                 *)
(***************************************************************************)
EXTENDS WireFormat

CONSTANTS
  Chain,            \* the certificate chains: sequences of data and extensions
  Extensions,       \* the lists for EncryptedExtensions
  Scalar,           \* what the two halves of a signature may be
  ContextString,    \* CERT_VERIFY_CONTEXT_STRING, without its last zero
  SignedHash        \* and the hash of the transcript

HASH_LENGTH == 32
ECDSA_SECP256R1_SHA256 == 1027              \* 0x0403

\* An extension list is at most as long as its two bytes of length can say.
ListWithin == {ea \in ExtensionList : extensions_length(ea) \in Uint16}
CertificateEntry == [cert_data : Seq(Byte), extensions : ListWithin]

ASSUME MessageAssumption ==
  /\ Chain \subseteq Seq(CertificateEntry)
  /\ Extensions \subseteq ListWithin
  /\ Scalar \subseteq Seq(Byte) /\ \A x \in Scalar : Len(x) = HASH_LENGTH
  /\ ContextString \in Seq(Byte) /\ Len(ContextString) = 33
  /\ SignedHash \in Seq(Byte) /\ Len(SignedHash) = HASH_LENGTH

VARIABLES
  stage,
  input,            \* what the message is made from
  signed,           \* the buffer that is hashed and signed
  arr,              \* the buffer of the message
  done              \* how many certificates are in it

laterVars == <<stage, input, signed, arr, done>>

LaterInit ==
  /\ \/ stage = "extensions" /\ input \in Extensions
     \/ stage = "certificate" /\ input \in Chain
     \/ stage = "verify" /\ input \in [r : Scalar, s : Scalar]
  /\ signed = Array(0, << >>) /\ arr = Array(0, << >>) /\ done = 0

Write(bytes) == arr' = [arr EXCEPT !.bytes = @ \o bytes]

-----------------------------------------------------------------------------
(* EncryptedExtensions.c.  The length is copied out of the variable as the *)
(* host keeps it.                                                          *)

process_encrypted_extensions ==
  /\ stage = "extensions"
  /\ LET length == extensions_length(input) IN
       arr' = Array(2 + length, HostBytes(length) \o process_extensions(input).bytes)
  /\ stage' = "extensionsDone"
  /\ UNCHANGED <<input, signed, done>>

-----------------------------------------------------------------------------
(* Certificate.c.                                                          *)

\* Mutant: the two bytes for the length of the extensions are left out.
EntryWithoutExtensionLength(ce) == 3 + Len(ce.cert_data) + extensions_length(ce.extensions)

EntryLength(ce) == 3 + Len(ce.cert_data) + 2 + extensions_length(ce.extensions)

certificate_chain_length(cc) == Total([i \in DOMAIN cc |-> EntryLength(cc[i])])

process_certificate_entry(ce) ==
  LET ex_length == extensions_length(ce.extensions) IN
    process_uint24(Len(ce.cert_data)) \o ce.cert_data \o HostBytes(ex_length)
      \o (IF ex_length # 0 THEN process_extensions(ce.extensions).bytes ELSE << >>)

\* Mutant: the length create_certificate has put into the struct.
CreatedLength(cc) == certificate_chain_length(cc) + 2

\* process_certificate computes it again.
ListLength(cc) == certificate_chain_length(cc)

\* The request context is empty, as create_certificate leaves it.
process_certificate ==
  /\ stage = "certificate"
  /\ arr' = Array(1 + 0 + 3 + ListLength(input), <<0>> \o process_uint24(ListLength(input)))
  /\ stage' = "entries"
  /\ UNCHANGED <<input, signed, done>>

AddEntry ==
  /\ stage = "entries" /\ done < Len(input)
  /\ Write(process_certificate_entry(input[done + 1]))
  /\ done' = done + 1
  /\ UNCHANGED <<stage, input, signed>>

ReturnCertificate ==
  /\ stage = "entries" /\ done = Len(input)
  /\ stage' = "certificateDone"
  /\ UNCHANGED <<input, signed, arr, done>>

-----------------------------------------------------------------------------
(* CertificateVerify.c.                                                    *)

process_signature_content ==
  /\ stage = "verify"
  /\ signed' = Array(64 + Len(ContextString) + 1 + HASH_LENGTH,
                     [i \in 1..64 |-> 32] \o ContextString \o <<0>> \o SignedHash)
  /\ stage' = "sign"
  /\ UNCHANGED <<input, arr, done>>

\* Mutant: off by one.
IsAbove128(b) == b > 128

\* An integer whose first bit is set would read as negative.
NeedsPad(b) == b >= 128

Pad(x) == IF NeedsPad(x[1]) THEN <<0>> ELSE << >>

\* Two integers in a sequence, each the 32 bytes of the signature and its pad.
create_certificate_verify ==
  /\ stage = "sign"
  /\ LET r_len == HASH_LENGTH + Len(Pad(input.r))
         s_len == HASH_LENGTH + Len(Pad(input.s))
         full_der_payload_len == 1 + 1 + 1 + 1 + r_len + 1 + 1 + s_len
     IN  arr' = Array(full_der_payload_len,
                      <<48, full_der_payload_len - 2>>
                        \o <<2, r_len>> \o Pad(input.r) \o input.r
                        \o <<2, s_len>> \o Pad(input.s) \o input.s)
  /\ stage' = "signature"
  /\ UNCHANGED <<input, signed, done>>

process_certificate_verify ==
  /\ stage = "signature"
  /\ arr' = Array(2 + 2 + arr.length,
                  write_uint16(ECDSA_SECP256R1_SHA256) \o write_uint16(arr.length)
                    \o arr.bytes)
  /\ stage' = "verifyDone"
  /\ UNCHANGED <<input, signed, done>>

-----------------------------------------------------------------------------

LaterTerminated ==
  stage \in {"extensionsDone", "certificateDone", "verifyDone"} /\ UNCHANGED laterVars

LaterNext ==
  \/ process_encrypted_extensions
  \/ process_certificate \/ AddEntry \/ ReturnCertificate
  \/ process_signature_content \/ create_certificate_verify \/ process_certificate_verify
  \/ LaterTerminated

LaterSpec == LaterInit /\ [][LaterNext]_laterVars

-----------------------------------------------------------------------------
(* Properties.                                                             *)

\* No write leaves its buffer, and every finished buffer is full: the length that
\* was allocated is the sum of what was written, certificate by certificate.
BuffersHold ==
  /\ Len(arr.bytes) <= arr.length
  /\ stage # "entries" => Filled(arr)
  /\ Filled(signed)

\* What the peer makes of a vector with a length of n bytes at place p: the place
\* behind it, or none if it is not whole.
VectorEnd(bytes, p, n) == p + n + PeerNumber(Part(bytes, p, n))

IsVector(bytes, p, n, end) == p + n <= end /\ VectorEnd(bytes, p, n) = end

\* The place of certificate i in a list of certificates without extensions.
EntryPlace(cc, i) == 4 + Sums([j \in DOMAIN cc |-> 5 + Len(cc[j].cert_data)])[i - 1]

HasNoExtensions(cc) == \A i \in DOMAIN cc : cc[i].extensions = << >>

\* A chain as create_certificate makes it, without extensions, reaches the peer:
\* the list fills the message, each certificate begins where the one before ends
\* and has the length its three bytes say.  It must not be longer than those of the
\* list can say.
CertificateReadBack ==
  /\ stage = "certificateDone"
  /\ HasNoExtensions(input) /\ certificate_chain_length(input) \in Uint24
  =>
    /\ arr.bytes[1] = 0
    /\ IsVector(arr.bytes, 1, 3, Len(arr.bytes))
    /\ \A i \in DOMAIN input :
         LET p == EntryPlace(input, i)
             n == Len(input[i].cert_data)
         IN  /\ IsVector(arr.bytes, p, 3, p + 3 + n)
             /\ Part(arr.bytes, p + 3, n) = input[i].cert_data
             /\ Part(arr.bytes, p + 3 + n, 2) = <<0, 0>>

\* An integer of DER: not negative, and the number that was meant.
IsInteger(bytes, p, end, x) ==
  /\ bytes[p + 1] = 2 /\ IsVector(bytes, p + 1, 1, end)
  /\ bytes[p + 3] < 128
  /\ LET value == Part(bytes, p + 2, end - p - 2) IN
       value \in {x, <<0>> \o x}

\* The signature reaches the peer as two integers that fill the sequence and are
\* the halves of the signature, also when their first bit is set.
SignatureReadBack ==
  stage = "verifyDone" =>
    /\ IsVector(arr.bytes, 2, 2, Len(arr.bytes))
    /\ arr.bytes[5] = 48 /\ IsVector(arr.bytes, 5, 1, Len(arr.bytes))
    /\ LET middle == VectorEnd(arr.bytes, 7, 1) IN
         /\ IsInteger(arr.bytes, 6, middle, input.r)
         /\ IsInteger(arr.bytes, middle, Len(arr.bytes), input.s)
=============================================================================
