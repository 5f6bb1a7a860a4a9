--------------------------- MODULE RequestsProofs ---------------------------
(***************************************************************************)
(* Proofs about Requests for any number of overlapping calls and of slots. *)
(***************************************************************************)
EXTENDS Requests, TLAPS

(* The inductive invariant.  ActorNeverBlocks needs CallPhases (a call that
   is about to be registered has an empty channel and is registered nowhere
   else); LiveRequestKept needs it to tell a request from its own cleanup. *)
IInv ==
    /\ TypeOK
    /\ ActorNeverBlocks
    /\ LiveRequestKept
    /\ TableConsistent
    /\ CallPhases

(* Empty tables satisfy the invariant. *)
LEMMA InitIInv == Init => IInv
<1> SUFFICES ASSUME Init PROVE IInv
    OBVIOUS
<1> USE RequestsAssumption DEF Init
<1>1. TypeOK
    BY DEF TypeOK
<1>2. ActorNeverBlocks
    BY DEF ActorNeverBlocks, Capacity
<1>3. LiveRequestKept /\ TableConsistent /\ CallPhases
    BY DEF LiveRequestKept, TableConsistent, CallPhases
<1> QED
    BY <1>1, <1>2, <1>3 DEF IInv

(* A new call uses an identity that nothing refers to. *)
LEMMA AskIInv ==
    ASSUME IInv, NEW c \in Call, NEW s \in Slot, ask(c, s)
    PROVE  IInv'
<1> USE RequestsAssumption
<1>1. c \notin waiting \cup queued \cup armed \cup fired /\ \A r \in Slot : requests[r] # c
    BY DEF ask, Free, Registered
<1>2. TypeOK'
    BY DEF ask, IInv, TypeOK
<1>3. \A d \in Call : d # c => slot'[d] = slot[d] /\ channel'[d] = channel[d]
    BY DEF ask, IInv, TypeOK
<1>4. slot'[c] = s /\ channel'[c] = 0 /\ UNCHANGED <<requests, armed, fired>>
      /\ queued' = queued \cup {c}
    BY DEF ask, IInv, TypeOK
<1>5. \A r \in Slot : requests[r] # Nil => requests[r] \in Call /\ requests[r] # c
    BY <1>1 DEF IInv, TypeOK
<1>6. ActorNeverBlocks'
    BY <1>3, <1>4, <1>5 DEF IInv, ActorNeverBlocks, Capacity
<1>7. LiveRequestKept'
    BY <1>1, <1>3, <1>4 DEF IInv, TypeOK, LiveRequestKept
<1>8. TableConsistent'
    BY <1>3, <1>4, <1>5 DEF IInv, TableConsistent
<1>9. CallPhases'
    BY <1>1, <1>3, <1>4 DEF IInv, TypeOK, CallPhases, Registered
<1> QED
    BY <1>2, <1>6, <1>7, <1>8, <1>9 DEF IInv

(* Registering a request, possibly over an older one of the slot. *)
LEMMA SendIInv ==
    ASSUME IInv, NEW c \in Call, sendRequest(c)
    PROVE  IInv'
<1> USE RequestsAssumption
<1> DEFINE s == slot[c]
<1>1. /\ s \in Slot /\ channel[c] = 0 /\ c \notin armed \cup fired
      /\ \A r \in Slot : requests[r] # c
    BY DEF sendRequest, IInv, CallPhases, Registered
<1>2. /\ requests'[s] = c
      /\ \A r \in Slot : r # s => requests'[r] = requests[r]
      /\ queued' = queued \ {c}
      /\ UNCHANGED <<slot, channel, waiting, fired, aged>>
    BY <1>1 DEF sendRequest, IInv, TypeOK
<1>3. TypeOK'
    BY <1>1 DEF sendRequest, IInv, TypeOK
<1>4. ActorNeverBlocks'
    BY <1>1, <1>2 DEF IInv, ActorNeverBlocks, Capacity
<1>5. CASE s \in NodeInfoSlot
  <2>1. armed' = armed
      BY <1>5 DEF sendRequest
  <2>2. LiveRequestKept'
      BY <1>2, <1>5, <2>1 DEF IInv, LiveRequestKept, CallPhases
  <2>3. TableConsistent'
      BY <1>1, <1>2, <1>5, <2>1 DEF IInv, TableConsistent
  <2>4. CallPhases'
      BY <1>1, <1>2, <1>3, <2>1 DEF IInv, TypeOK, CallPhases, Registered
  <2> QED
      BY <1>3, <1>4, <2>2, <2>3, <2>4 DEF IInv
<1>6. CASE s \notin NodeInfoSlot
  <2>1. armed' = (armed \ {requests[s]}) \cup {c}
      BY <1>6 DEF sendRequest
  <2>2. LiveRequestKept'
      BY <1>1, <1>2, <2>1 DEF IInv, LiveRequestKept, CallPhases
  <2>3. TableConsistent'
    <3> SUFFICES ASSUME NEW r \in Slot, requests'[r] # Nil
                 PROVE  /\ slot'[requests'[r]] = r
                        /\ r \notin NodeInfoSlot => requests'[r] \in armed' \cup fired'
        BY DEF TableConsistent
    <3>1. CASE r = s
        BY <3>1, <1>2, <2>1
    <3>2. CASE r # s
      <4>1. requests'[r] = requests[r] /\ slot[requests[r]] = r
          BY <3>2, <1>2 DEF IInv, TableConsistent
      <4>2. requests[r] # requests[s]
          BY <3>2, <4>1, <1>1, <1>2 DEF IInv, TableConsistent
      <4> QED
          BY <4>1, <4>2, <1>2, <2>1 DEF IInv, TableConsistent
    <3> QED
        BY <3>1, <3>2
  <2>4. CallPhases'
      BY <1>1, <1>2, <1>3, <1>6, <2>1 DEF IInv, TypeOK, CallPhases, Registered
  <2> QED
      BY <1>3, <1>4, <2>2, <2>3, <2>4 DEF IInv
<1> QED
    BY <1>5, <1>6

(* Answering the request in the slot: its channel was empty. *)
LEMMA ResponseIInv ==
    ASSUME IInv, NEW s \in Slot, handleResponse(s)
    PROVE  IInv'
<1> USE RequestsAssumption
<1> DEFINE c == requests[s]
<1>1. c \in Call /\ slot[c] = s /\ channel[c] = 0
    BY DEF handleResponse, IInv, TypeOK, TableConsistent, ActorNeverBlocks, Capacity
<1>2. /\ requests'[s] = Nil
      /\ \A r \in Slot : r # s => requests'[r] = requests[r] /\ requests[r] # c
      /\ channel'[c] = 1
      /\ \A d \in Call : d # c => channel'[d] = channel[d]
      /\ armed' = armed \ {c}
      /\ UNCHANGED <<slot, waiting, queued, fired, aged>>
    BY <1>1 DEF handleResponse, IInv, TypeOK, TableConsistent
<1>3. TypeOK'
    BY <1>1 DEF handleResponse, IInv, TypeOK
<1>4. ActorNeverBlocks'
  <2>1. \A d \in Call : channel'[d] <= Capacity
      BY <1>2 DEF IInv, ActorNeverBlocks, Capacity
  <2>2. \A r \in Slot : requests'[r] # Nil => channel'[requests'[r]] < Capacity
      BY <1>2, <1>3 DEF IInv, TypeOK, ActorNeverBlocks, Capacity
  <2> QED
      BY <2>1, <2>2 DEF ActorNeverBlocks
<1>5. LiveRequestKept'
    BY <1>1, <1>2 DEF IInv, LiveRequestKept, CallPhases
<1>6. TableConsistent'
    BY <1>2 DEF IInv, TableConsistent
<1>7. c \notin queued
    BY <1>1 DEF IInv, CallPhases, Registered
<1>8. CallPhases'
    BY <1>2, <1>3, <1>7 DEF IInv, TypeOK, CallPhases, Registered
<1> QED
    BY <1>3, <1>4, <1>5, <1>6, <1>8 DEF IInv

(* The caller's side of the channel. *)
LEMMA CallerIInv ==
    ASSUME IInv, NEW c \in Call, receive(c) \/ timeout(c)
    PROVE  IInv'
<1> USE RequestsAssumption
<1>1. CASE receive(c)
  <2>1. channel[c] = 1
      BY <1>1 DEF receive, IInv, TypeOK, ActorNeverBlocks, Capacity
  <2>2. TypeOK'
      BY <1>1, <2>1 DEF receive, IInv, TypeOK
  <2>3. channel'[c] = 0 /\ \A d \in Call : d # c => channel'[d] = channel[d]
      BY <1>1, <2>1 DEF receive, IInv, TypeOK
  <2>4. UNCHANGED <<requests, slot, queued, armed, fired>>
      BY <1>1 DEF receive
  <2>5. ActorNeverBlocks'
      BY <2>3, <2>4 DEF IInv, TypeOK, ActorNeverBlocks, Capacity
  <2>6. LiveRequestKept' /\ TableConsistent'
      BY <2>4 DEF IInv, LiveRequestKept, TableConsistent
  <2>7. CallPhases'
      BY <2>3, <2>4 DEF IInv, TypeOK, CallPhases, Registered
  <2> QED
      BY <2>2, <2>5, <2>6, <2>7 DEF IInv
<1>2. CASE timeout(c)
    BY <1>2 DEF timeout, IInv, TypeOK, ActorNeverBlocks, LiveRequestKept, TableConsistent,
                CallPhases, Registered
<1> QED
    BY <1>1, <1>2

(* A timer fires, its cleanup runs, a nodeinfo callback ages or is removed:
   a cleanup that finds another request in the slot leaves it alone. *)
LEMMA ExpiryIInv ==
    ASSUME IInv,
           \/ \E c \in Call : timerFires(c) \/ timerCleanup(c) \/ callbackAges(c)
           \/ cleanup
    PROVE  IInv'
<1> USE RequestsAssumption
<1>1. ASSUME NEW c \in Call, timerFires(c) PROVE IInv'
    BY <1>1 DEF timerFires, IInv, TypeOK, ActorNeverBlocks, LiveRequestKept, TableConsistent,
                CallPhases, Registered
<1>2. ASSUME NEW c \in Call, timerCleanup(c) PROVE IInv'
  <2>1. TypeOK'
      BY <1>2 DEF timerCleanup, IInv, TypeOK
  <2>2. /\ \A s \in Slot : requests'[s] # Nil => requests'[s] = requests[s] /\ requests[s] # c
        /\ \A s \in Slot : requests[s] # c => requests'[s] = requests[s]
        /\ c \in fired /\ c \notin armed /\ fired' = fired \ {c}
        /\ UNCHANGED <<slot, channel, waiting, queued, armed, aged>>
      BY <1>2 DEF timerCleanup, IInv, TypeOK, TableConsistent, CallPhases
  <2>3. ActorNeverBlocks'
      BY <2>2 DEF IInv, ActorNeverBlocks
  <2>4. LiveRequestKept'
      BY <2>2 DEF IInv, LiveRequestKept, CallPhases
  <2>5. TableConsistent'
      BY <2>2 DEF IInv, TableConsistent
  <2>6. CallPhases'
      BY <2>2 DEF IInv, TypeOK, CallPhases, Registered
  <2> QED
      BY <2>1, <2>3, <2>4, <2>5, <2>6 DEF IInv
<1>3. ASSUME NEW c \in Call, callbackAges(c) PROVE IInv'
    BY <1>3 DEF callbackAges, IInv, TypeOK, ActorNeverBlocks, LiveRequestKept, TableConsistent,
                CallPhases, Registered
<1>4. CASE cleanup
  <2>1. TypeOK'
      BY <1>4 DEF cleanup, IInv, TypeOK
  <2>2. /\ \A s \in Slot : requests'[s] # Nil => requests'[s] = requests[s]
        /\ \A s \in Slot \ NodeInfoSlot : requests'[s] = requests[s]
        /\ UNCHANGED <<slot, channel, waiting, queued, armed, fired, aged>>
      BY <1>4 DEF cleanup
  <2>3. ActorNeverBlocks' /\ TableConsistent'
      BY <2>2 DEF IInv, ActorNeverBlocks, TableConsistent
  <2>4. LiveRequestKept'
      BY <2>2 DEF IInv, LiveRequestKept, CallPhases
  <2>5. CallPhases'
      BY <2>2 DEF IInv, TypeOK, CallPhases, Registered
  <2> QED
      BY <2>1, <2>3, <2>4, <2>5 DEF IInv
<1> QED
    BY <1>1, <1>2, <1>3, <1>4

(* Every step preserves the invariant. *)
LEMMA NextIInv == IInv /\ [Next]_vars => IInv'
<1> SUFFICES ASSUME IInv, [Next]_vars PROVE IInv'
    OBVIOUS
<1>1. CASE UNCHANGED vars
    BY <1>1 DEF vars, IInv, TypeOK, ActorNeverBlocks, LiveRequestKept, TableConsistent,
                CallPhases, Registered
<1>2. CASE Next
    BY <1>2, AskIInv, SendIInv, ResponseIInv, CallerIInv, ExpiryIInv DEF Next
<1> QED
    BY <1>1, <1>2

(* The inductive invariant holds in every reachable state. *)
THEOREM Invariance == Spec => []IInv
BY InitIInv, NextIInv, PTL DEF Spec

(* An answer never blocks the actor of protoHandler or of nodeinfo, for any
   number of overlapping calls, late answers and repeated answers. *)
THEOREM NonBlocking == Spec => []ActorNeverBlocks
<1>1. IInv => ActorNeverBlocks
    BY DEF IInv
<1> QED
    BY <1>1, Invariance, PTL

(* A superseded request's cleanup never removes its successor. *)
THEOREM FullMinute == Spec => []LiveRequestKept
<1>1. IInv => LiveRequestKept
    BY DEF IInv
<1> QED
    BY <1>1, Invariance, PTL

(* The tables of protoHandler and nodeinfo answer a call only for the slot it
   asked for, and every debug request in them has a cleanup to come, for any
   number of callers that replace each other. *)
THEOREM Consistency == Spec => []TableConsistent
<1>1. IInv => TableConsistent
    BY DEF IInv
<1> QED
    BY <1>1, Invariance, PTL

(* Every variable of the model of proto.go and nodeinfo.go keeps its type. *)
THEOREM TypeCorrect == Spec => []TypeOK
<1>1. IInv => TypeOK
    BY DEF IInv
<1> QED
    BY <1>1, Invariance, PTL
=============================================================================
