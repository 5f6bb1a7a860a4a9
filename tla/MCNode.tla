------------------------------- MODULE MCNode -------------------------------
(* A small instance of Node. *)
EXTENDS Node, TLC

CONSTANTS e1, e2, c1, c2

(* Two listeners of one link type: shutdown visits them in one iteration. *)
MCSchemeOf == e1 :> "tls" @@ e2 :> "tls"

(* The two listeners may be exchanged for each other: where only one is
   configured, let it be e1.  Nothing but the last call of the program depends
   on whether there is a REST server, so that it is enough to leave it out where
   no listener is configured and none is announced. *)
MCInit ==
    /\ Init
    /\ loop[e2] = "accepting" => loop[e1] = "accepting"
    /\ rest_server = "nil" => announcing = "closed" /\ registered = {}

MCSpec == MCInit /\ [][Next]_vars /\ Fairness
=============================================================================
