---------------------------- MODULE MCMulticast ----------------------------
(* A small instance of Multicast. *)
EXTENDS Multicast, Sequences

CONSTANTS eth, a1, a2, m1, m2, m3

(* Two entries match the interface; only one of them calls the nodes heard. *)
TwoEntries == << [match |-> {eth}, beacon |-> TRUE, listen |-> FALSE],
                 [match |-> {eth}, beacon |-> TRUE, listen |-> TRUE] >>
=============================================================================
