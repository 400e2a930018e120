-------------------------- MODULE MCHeapOwnership --------------------------
(***************************************************************************)
(* An instance of HeapOwnership: three records, ClientHellos with one and  *)
(* two extensions, with as many as ea.length can count and with one to two *)
(* more than that.                                                         *)
(***************************************************************************)
EXTENDS HeapOwnership

MCExtensionCount == {1, 2} \cup (CountSize - 1)..(CountSize + 2)
=============================================================================
