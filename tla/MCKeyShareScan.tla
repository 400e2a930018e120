--------------------------- MODULE MCKeyShareScan ---------------------------
(***************************************************************************)
(* An instance of KeyShareScan: keys of one byte, lists of up to two       *)
(* shares among four kinds, up to two extensions, others than key_share    *)
(* empty or with some bytes, and lists of empty extensions that fill the   *)
(* counter exactly and go beyond it.                                       *)
(***************************************************************************)
EXTENDS KeyShareScan

MCShares ==
  {[group |-> NAMED_GROUP_X25519, key |-> <<1>>],      \* what is looked for
   [group |-> NAMED_GROUP_X25519, key |-> <<2, 0>>],   \* of the wrong length
   [group |-> 23, key |-> <<2, 3, 0>>],                \* another group
   [group |-> 23, key |-> << >>]}                      \* with an empty key

\* Nothing, less than a share list has, and what looks like an extension of its own.
MCData == {<< >>, <<0>>, <<0, KEY_SHARE_EXTENSION_TYPE, 0>>,
           <<0, KEY_SHARE_EXTENSION_TYPE, 0, 1, 7>>}

MCExtensions ==
  {[type |-> KEY_SHARE_EXTENSION_TYPE, shares |-> l] : l \in BoundedSeq(MCShares, 2)}
    \cup {[type |-> 10, data |-> d] : d \in MCData}

Other  == [type |-> 10, data |-> << >>]
Wanted == [type |-> KEY_SHARE_EXTENSION_TYPE,
           shares |-> <<[group |-> NAMED_GROUP_X25519, key |-> <<1>>]>>]

MCOffer ==
  BoundedSeq(MCExtensions, 2)
    \cup {[i \in 1..n |-> IF i = k THEN Wanted ELSE Other] :
            n \in (CountSize - 1)..(CountSize + 1), k \in 1..(CountSize + 1)}
=============================================================================
