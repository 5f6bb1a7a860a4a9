------------------------------ MODULE MCLinks ------------------------------
(***************************************************************************)
(* Small instances of Links: p1 is given by an IP address, so call and     *)
(* dial agree on its linkInfo; p2 by a name, so they do not.               *)
(***************************************************************************)
EXTENDS Links, TLC

CONSTANTS p1, p2, addr1, name2, addr2, t1, t2, t3

MCCallInfo == p1 :> addr1 @@ p2 :> name2
MCDialInfo == p1 :> addr1 @@ p2 :> addr2

(* p1 alone. *)
AddrInfo == p1 :> addr1

(* Every peer and listener is of the usual link type. *)
TlsScheme   == [p \in Peer |-> "tls"]
TlsListener == [i \in InboundInfo |-> "tls"]

Symmetry == Permutations(Task)
=============================================================================
