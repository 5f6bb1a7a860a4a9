------------------------------- MODULE Router -------------------------------
(***************************************************************************)
(* What the key store promises to the host, without objects, timers and    *)
(* callbacks: a table of routes and, for each packet offered to it, one of *)
(* three fates.  It is sent once, to the key its destination is routed to; *)
(* it waits, alone, while there is no route; or it is lost.                *)
(* Routes only ever lead to keys that own the destination.                *)
(***************************************************************************)
EXTENDS Integers

CONSTANTS
    Key,      \* public keys of remote nodes
    Dest,     \* addresses and subnets
    Owned,    \* [Key -> SUBSET Dest]: what a key owns
    Packet,
    Dst,      \* [Packet -> Dest, or something outside]
    Sendable, \* the packets of this node to a destination in Dest
    None

VARIABLES
    route,   \* [Dest -> Key \cup {None}]
    offered, \* packets the host has offered
    pending, \* packets that wait for a route
    sent     \* [Packet \X Key -> Nat]: how often a packet was sent to a key

vars == <<route, offered, pending, sent>>

Init ==
    /\ route = [d \in Dest |-> None]
    /\ offered = {}
    /\ pending = {}
    /\ sent = [w \in Packet \X Key |-> 0]

(* The host offers a packet nobody may send. *)
Refuse(p) ==
    /\ p \notin offered /\ p \notin Sendable
    /\ offered' = offered \cup {p}
    /\ UNCHANGED <<route, pending, sent>>

(* There is a route. *)
Forward(p) ==
    /\ p \in Sendable \ offered
    /\ route[Dst[p]] # None
    /\ offered' = offered \cup {p}
    /\ sent' = [sent EXCEPT ![<<p, route[Dst[p]]>>] = @ + 1]
    /\ UNCHANGED <<route, pending>>

(* There is none: p waits, and whatever waited for this destination is lost. *)
Hold(p) ==
    /\ p \in Sendable \ offered
    /\ route[Dst[p]] = None
    /\ offered' = offered \cup {p}
    /\ pending' = {q \in pending : Dst[q] # Dst[p]} \cup {p}
    /\ UNCHANGED <<route, sent>>

(* Key k becomes known: all it owns is routed to it, and everything that
   waited for that is sent. *)
Learn(k) ==
    LET released == {p \in pending : Dst[p] \in Owned[k]} IN
    /\ route' = [d \in Dest |-> IF d \in Owned[k] THEN k ELSE route[d]]
    /\ pending' = pending \ released
    /\ sent' = [w \in Packet \X Key |->
                  IF w[1] \in released /\ w[2] = k THEN sent[w] + 1 ELSE sent[w]]
    /\ UNCHANGED offered

(* Key k has not been used for a while: all routes to it go, at once. *)
Forget(k) ==
    /\ route' = [d \in Dest |-> IF route[d] = k THEN None ELSE route[d]]
    /\ UNCHANGED <<offered, pending, sent>>

(* A packet has waited long enough. *)
Expire(p) ==
    /\ p \in pending
    /\ pending' = pending \ {p}
    /\ UNCHANGED <<route, offered, sent>>

Next ==
    \/ \E p \in Packet : Refuse(p) \/ Forward(p) \/ Hold(p) \/ Expire(p)
    \/ \E k \in Key : Learn(k) \/ Forget(k)

Spec == Init /\ [][Next]_vars
=============================================================================
