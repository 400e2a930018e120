--------------------------- MODULE RecordChannel ---------------------------
(***************************************************************************)
(* What read_record promises the loop of main.c: the records the peer has  *)
(* sent come out whole, once each and in order, until the channel breaks;  *)
(* after that nothing comes out.                                           *)
(***************************************************************************)
EXTENDS Naturals, Sequences

CONSTANT PeerRecord      \* the records a peer sends
VARIABLES sent, delivered, up

vars == <<sent, delivered, up>>

Init == sent = << >> /\ delivered = << >> /\ up = TRUE

Send ==
  /\ \E r \in PeerRecord : sent' = Append(sent, r)
  /\ UNCHANGED <<delivered, up>>

Deliver ==
  /\ up
  /\ Len(delivered) < Len(sent)
  /\ delivered' = Append(delivered, sent[Len(delivered) + 1])
  /\ UNCHANGED <<sent, up>>

Break ==
  /\ up' = FALSE
  /\ UNCHANGED <<sent, delivered>>

Next == Send \/ Deliver \/ Break

Spec == Init /\ [][Next]_vars
=============================================================================
