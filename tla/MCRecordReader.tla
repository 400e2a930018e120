--------------------------- MODULE MCRecordReader ---------------------------
(***************************************************************************)
(* An instance of RecordReader: bytes of three values, so that a fragment  *)
(* of three bytes has a length whose two bytes differ, and records with an *)
(* empty fragment, one byte and three.                                     *)
(***************************************************************************)
EXTENDS RecordReader

MCPeerRecord ==
  {[type |-> 1, version |-> <<2, 0>>, fragment |-> << >>],
   [type |-> 2, version |-> <<0, 1>>, fragment |-> <<1>>],
   [type |-> 0, version |-> <<1, 2>>, fragment |-> <<0, 2, 1>>]}
=============================================================================
