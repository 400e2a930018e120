-------------------------- MODULE MCRecordProtection --------------------------
(***************************************************************************)
(* An instance of RecordProtection: bytes of three values, words of twelve *)
(* (so that sums wrap at fragments of nine bytes and more), fragments with *)
(* zeros at either end, and plaintexts of a peer without a type.           *)
(***************************************************************************)
EXTENDS RecordProtection, SequencesExt

MCFragment ==
  BoundedSeq({0, 1}, 4)
    \cup {[i \in 1..n |-> 1] : n \in 5..(WordSize - 1)}

MCPeerPlaintext == BoundedSeq({0, 2}, 3)
=============================================================================
