---------------------------- MODULE KeySchedule ----------------------------
(***************************************************************************)
(* The key schedule of key_schedule.c as terms.  A secret is the tree of   *)
(* the derivations that produced it, so two secrets are equal exactly when *)
(* they come from the same inputs by the same derivations: the functions   *)
(* of libsodium are taken to be free of collisions, and every choice the   *)
(* code makes (which secret, which label, which context, which length) is  *)
(* kept.                                                                   *)
(***************************************************************************)

SECRET_LENGTH == 32
NONCE_LENGTH  == 12

Zero            == <<"zero">>             \* 32 zero bytes
Uninitialised   == <<"uninitialised">>    \* what malloc returned

Sha256(messages)  == <<"sha256", messages>>
X25519(priv, pub) == <<"x25519", priv, pub>>
HKDF_Extract(salt, ikm) == <<"extract", salt, ikm>>

HKDF_Expand_Label(Secret, Label, Context, length) ==
  <<"expand", Secret, Label, Context, length>>

EmptyHash == Sha256(<< >>)

\* The hash of the running transcript; the transcript itself is not consumed.
get_hash(hash_state) == Sha256(hash_state)

-----------------------------------------------------------------------------

process_base_derived_secret ==
  HKDF_Expand_Label(HKDF_Extract(Zero, Zero), "derived", EmptyHash, SECRET_LENGTH)

process_handshake_secret(shared_secret) ==
  HKDF_Extract(process_base_derived_secret, shared_secret)

process_server_handshake_traffic_secret(shared_secret, hash) ==
  HKDF_Expand_Label(process_handshake_secret(shared_secret), "s hs traffic",
                    hash, SECRET_LENGTH)

process_client_handshake_traffic_secret(shared_secret, hash) ==
  HKDF_Expand_Label(process_handshake_secret(shared_secret), "c hs traffic",
                    hash, SECRET_LENGTH)

generate_write_key(secret) == HKDF_Expand_Label(secret, "key", << >>, SECRET_LENGTH)
generate_write_iv(secret)  == HKDF_Expand_Label(secret, "iv", << >>, NONCE_LENGTH)

\* The iv with the big-endian counter xored into its last eight bytes.
generate_nonce(iv, counter) == <<"xor", iv, counter>>

-----------------------------------------------------------------------------
(* The second half, which nothing calls yet.                               *)

HMAC(key, message) == <<"hmac", key, message>>

generate_finished_key(base_key) ==
  HKDF_Expand_Label(base_key, "finished", << >>, SECRET_LENGTH)

process_verify_data(finished_key, hash) == HMAC(finished_key, hash)

process_client_application_traffic_secret_0(secret, hash) ==
  HKDF_Expand_Label(secret, "c ap traffic", hash, SECRET_LENGTH)

process_server_application_traffic_secret_0(secret, hash) ==
  HKDF_Expand_Label(secret, "s ap traffic", hash, SECRET_LENGTH)

process_master_secret(handshake_secret) ==
  HKDF_Extract(HKDF_Expand_Label(handshake_secret, "derived", EmptyHash, SECRET_LENGTH),
               Zero)
=============================================================================
