------------------------------ MODULE Requests ------------------------------
(***************************************************************************)
(* Requests to remote nodes: the debug requests of protoHandler            *)
(* (src/src/core/proto.go) and the nodeinfo requests of nodeinfo           *)
(* (src/src/core/nodeinfo.go).  A caller hands a callback to the actor and *)
(* waits six seconds for the callback to fill its channel of capacity one; *)
(* the actor keeps one request per kind and remote key, for a minute.      *)
(*                                                                         *)
(* A slot is a kind of request and a remote key: one entry of selfRequests,*)
(* peersRequests, dhtRequests or nodeinfo.callbacks.  A call is one call   *)
(* of an admin handler together with the reqInfo and the channel it makes; *)
(* its identity is reused when nothing refers to it any more.              *)
(***************************************************************************)
EXTENDS Integers, FiniteSets

CONSTANTS
    Call,         \* identities of calls: the bound on calls that overlap
    Slot,         \* request kind and remote key
    NodeInfoSlot, \* the slots of nodeinfo.callbacks, which have no timers
    Nil

ASSUME RequestsAssumption ==
    /\ NodeInfoSlot \subseteq Slot
    /\ Nil \notin Call /\ Nil \notin Slot

VARIABLES
    requests, \* [Slot -> Call \cup {Nil}]: the actor's tables
    slot,     \* the slot a call asks for
    channel,  \* number of answers waiting in a call's channel
    waiting,  \* calls whose caller is in its select
    queued,   \* calls whose send is in the actor's inbox
    armed,    \* calls whose one-minute timer is running
    fired,    \* calls whose timer has put its cleanup into the inbox
    aged      \* nodeinfo callbacks created more than a minute ago

vars == <<requests, slot, channel, waiting, queued, armed, fired, aged>>

(* The capacity of make(chan []byte, 1). *)
Capacity == 1

Registered == {c \in Call : \E s \in Slot : requests[s] = c}
Free == Call \ (waiting \cup queued \cup armed \cup fired \cup Registered)

Init ==
    /\ requests = [s \in Slot |-> Nil]
    /\ slot     = [c \in Call |-> Nil]
    /\ channel  = [c \in Call |-> 0]
    /\ waiting  = {} /\ queued = {}
    /\ armed    = {} /\ fired = {} /\ aged = {}

(* An admin handler makes its channel, queues the send and starts to wait. *)
ask(c, s) ==
    /\ c \in Free
    /\ slot'    = [slot EXCEPT ![c] = s]
    /\ channel' = [channel EXCEPT ![c] = 0]
    /\ waiting' = waiting \cup {c}
    /\ queued'  = queued \cup {c}
    /\ aged'    = aged \ {c}
    /\ UNCHANGED <<requests, armed, fired>>

(* Mutant: no timer is started. *)
sendRequestNoTimer(c) ==
    /\ c \in queued
    /\ queued'   = queued \ {c}
    /\ requests' = [requests EXCEPT ![slot[c]] = c]
    /\ armed'    = armed \ {requests[slot[c]]}
    /\ UNCHANGED <<slot, channel, waiting, fired, aged>>

(* The actor registers the request, in place of an older one of its slot.  A
   debug request stops the older one's timer and starts its own; a nodeinfo
   callback is only overwritten. *)
sendRequest(c) ==
    /\ c \in queued
    /\ queued'   = queued \ {c}
    /\ requests' = [requests EXCEPT ![slot[c]] = c]
    /\ armed'    = IF slot[c] \in NodeInfoSlot THEN armed
                   ELSE (armed \ {requests[slot[c]]}) \cup {c}
    /\ UNCHANGED <<slot, channel, waiting, fired, aged>>

(* Mutant: the request is not deleted when it is answered. *)
handleResponseKeeps(s) ==
    LET c == requests[s] IN
    /\ c # Nil
    /\ channel' = [channel EXCEPT ![c] = @ + 1]
    /\ UNCHANGED <<requests, slot, waiting, queued, armed, fired, aged>>

(* A response of the slot's kind and key reaches the actor: the answer to
   this request, to one it replaced, a duplicate, or unasked for. *)
handleResponse(s) ==
    LET c == requests[s] IN
    /\ c # Nil
    /\ channel'  = [channel EXCEPT ![c] = @ + 1]
    /\ requests' = [requests EXCEPT ![s] = Nil]
    /\ armed'    = armed \ {c}
    /\ UNCHANGED <<slot, waiting, queued, fired, aged>>

(* Mutant: the caller takes an answer that is not there. *)
receiveEmpty(c) ==
    /\ c \in waiting
    /\ channel' = [channel EXCEPT ![c] = @ - 1]
    /\ waiting' = waiting \ {c}
    /\ UNCHANGED <<requests, slot, queued, armed, fired, aged>>

(* The caller's select: an answer, or the six-second timer. *)
receive(c) ==
    /\ c \in waiting
    /\ channel[c] > 0
    /\ channel' = [channel EXCEPT ![c] = @ - 1]
    /\ waiting' = waiting \ {c}
    /\ UNCHANGED <<requests, slot, queued, armed, fired, aged>>

timeout(c) ==
    /\ c \in waiting
    /\ waiting' = waiting \ {c}
    /\ UNCHANGED <<requests, slot, channel, queued, armed, fired, aged>>

(* A minute passes: the timer queues its cleanup on the actor. *)
timerFires(c) ==
    /\ c \in armed
    /\ armed' = armed \ {c}
    /\ fired' = fired \cup {c}
    /\ UNCHANGED <<requests, slot, channel, waiting, queued, aged>>

(* Mutant: the cleanup does not compare the request. *)
timerCleanupNoCompare(c) ==
    /\ c \in fired
    /\ fired' = fired \ {c}
    /\ requests' = [requests EXCEPT ![slot[c]] = Nil]
    /\ UNCHANGED <<slot, channel, waiting, queued, armed, aged>>

(* The cleanup removes the slot's request only if it is still this one. *)
timerCleanup(c) ==
    /\ c \in fired
    /\ fired' = fired \ {c}
    /\ requests' = [s \in Slot |-> IF s = slot[c] /\ requests[s] = c THEN Nil ELSE requests[s]]
    /\ UNCHANGED <<slot, channel, waiting, queued, armed, aged>>

(* A minute passes for a nodeinfo callback. *)
callbackAges(c) ==
    /\ c \notin aged
    /\ \E s \in NodeInfoSlot : requests[s] = c
    /\ aged' = aged \cup {c}
    /\ UNCHANGED <<requests, slot, channel, waiting, queued, armed, fired>>

(* Mutant: the young callbacks are removed, not the old ones. *)
cleanupInverted ==
    /\ requests' = [s \in Slot |-> IF s \in NodeInfoSlot /\ requests[s] \notin aged
                                     THEN Nil ELSE requests[s]]
    /\ UNCHANGED <<slot, channel, waiting, queued, armed, fired, aged>>

(* nodeinfo._cleanup, every thirty seconds. *)
cleanup ==
    /\ requests' = [s \in Slot |-> IF s \in NodeInfoSlot /\ requests[s] \in aged
                                     THEN Nil ELSE requests[s]]
    /\ UNCHANGED <<slot, channel, waiting, queued, armed, fired, aged>>

Next ==
    \/ \E c \in Call, s \in Slot : ask(c, s)
    \/ \E s \in Slot : handleResponse(s)
    \/ \E c \in Call :
        \/ sendRequest(c) \/ receive(c) \/ timeout(c)
        \/ timerFires(c) \/ timerCleanup(c) \/ callbackAges(c)
    \/ cleanup

Spec == Init /\ [][Next]_vars

(* Timers fire, the actor runs its inbox, time passes. *)
FairSpec ==
    /\ Spec
    /\ \A c \in Call : WF_vars(timerFires(c)) /\ WF_vars(timerCleanup(c)) /\ WF_vars(callbackAges(c))
    /\ WF_vars(cleanup)

-----------------------------------------------------------------------------
(* Every variable has its type. *)
TypeOK ==
    /\ requests \in [Slot -> Call \cup {Nil}]
    /\ slot \in [Call -> Slot \cup {Nil}]
    /\ channel \in [Call -> Nat]
    /\ waiting \subseteq Call /\ queued \subseteq Call
    /\ armed \subseteq Call /\ fired \subseteq Call /\ aged \subseteq Call

(* The callback never blocks the actor on a full channel, although answers
   may be late, repeated or meant for an earlier request of the slot: a
   request that can still be answered has an empty channel. *)
ActorNeverBlocks ==
    /\ \A c \in Call : channel[c] <= Capacity
    /\ \A s \in Slot : requests[s] # Nil => channel[requests[s]] < Capacity

(* A request lasts its full minute unless it is answered or replaced: while
   its own timer runs it stays in the table, whatever cleanups of earlier
   requests of the slot are still queued. *)
LiveRequestKept == \A c \in armed : requests[slot[c]] = c

(* The table answers a call only under the slot it asked for, and every
   debug request in it has a cleanup to come. *)
TableConsistent ==
    \A s \in Slot : requests[s] # Nil =>
        /\ slot[requests[s]] = s
        /\ s \notin NodeInfoSlot => requests[s] \in armed \cup fired

(* A call is in one place at a time: queued, then registered with its timer
   running, then its cleanup queued; its channel is empty until registered,
   and only debug requests have timers. *)
CallPhases ==
    /\ armed \cap fired = {}
    /\ \A c \in queued : /\ slot[c] \in Slot
                         /\ channel[c] = 0
                         /\ c \notin armed \cup fired \cup Registered
    /\ \A c \in armed \cup fired : slot[c] \in Slot \ NodeInfoSlot

(* No request stays in the tables for ever, also when nobody answers and
   its caller has long given up. *)
RequestsExpire ==
    \A c \in Call, s \in Slot : requests[s] = c ~> requests[s] # c
=============================================================================
