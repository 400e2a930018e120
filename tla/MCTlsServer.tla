---------------------------- MODULE MCTlsServer ----------------------------
(***************************************************************************)
(* An instance of TlsServer: a peer that offers a good share, a low-order  *)
(* share or none, in a record of its own, split over two or with bytes     *)
(* behind it.                                                              *)
(***************************************************************************)
EXTENDS TlsServer

CONSTANTS good, weak, helloGood, helloWeak, helloNone

MCHello      == {helloGood, helloWeak, helloNone}
MCShare      == {good, weak}
MCLowOrder   == {weak}
MCKeyShareOf == [h \in MCHello |-> CASE h = helloGood -> good
                                     [] h = helloWeak -> weak
                                     [] h = helloNone -> NoShare]
=============================================================================
