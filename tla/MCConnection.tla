---------------------------- MODULE MCConnection ----------------------------
(***************************************************************************)
(* An instance of Connection: records of one byte and of none, for two     *)
(* ClientHellos and application data, in a burst of three and a second one *)
(* that the peer may begin before it has read what answers the first.      *)
(***************************************************************************)
EXTENDS Connection

CONSTANTS good, helloA, helloB

MCHello      == {helloA, helloB}
MCShare      == {good}
MCKeyShareOf == [h \in MCHello |-> good]

Rec(type, fragment) == [type |-> type, version |-> <<1, 1>>, fragment |-> fragment]

MCPeerRecord == {Rec(0, <<0>>), Rec(0, <<1>>), Rec(2, << >>)}

MCMessageOf ==
  [r \in MCPeerRecord |->
     CASE r.type = 0 -> [type   |-> "handshake",
                         hello  |-> IF r.fragment[1] = 0 THEN helloA ELSE helloB,
                         extent |-> "whole"]
       [] r.type = 2 -> [type   |-> "application_data",
                         hello  |-> NoHello,
                         extent |-> "whole"]]
=============================================================================
