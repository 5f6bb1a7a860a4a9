----------------------------- MODULE NodeProofs -----------------------------
(***************************************************************************)
(* Proofs about the program (Node): its type invariant, that the peer loop *)
(* is never lost before Core.Stop and no listener is left after it, and    *)
(* that nobody waits in Listener.Close for somebody who waits for an       *)
(* actor, for any number of listeners and of callers of RetryPeersNow.     *)
(***************************************************************************)
EXTENDS Node, TLAPS

(* The loops that are queued or will be, in PeerLoop, stay within the bound. *)
LoopBound == queued + P!Running <= MaxLoops

TypeInv == TypeOK /\ LoopBound

(* The three link types that shutdown goes through, in its order. *)
LEMMA Order ==
    /\ Len(shutdownOrder) = 3
    /\ shutdownOrder[1] = "tcp" /\ shutdownOrder[2] = "tls" /\ shutdownOrder[3] = "unix"
  BY DEF shutdownOrder

(* Listeners and the program speak of the same link types. *)
LEMMA SameLinkTypes ==
    /\ L!shutdownOrder = shutdownOrder
    /\ L!links_init = links_init
  BY DEF L!shutdownOrder, shutdownOrder, L!links_init, links_init,
         L!linkTCP, L!linkTLS, L!linkUNIX, L!linkSOCKS, L!linkSCTP, L!linkMPATH,
         linkTCP, linkTLS, linkUNIX, linkSOCKS, linkSCTP, linkMPATH

LEMMA PeerLoopInit ==
    ASSUME P!Init, MaxLoops \in Nat \ {0} PROVE P!TypeOK /\ LoopBound
<1>1. P!Running = 0
  BY DEF P!Init, P!Running
<1>2. LoopBound
  BY <1>1 DEF P!Init, LoopBound
<1>3. queued \in 0..MaxLoops /\ orphans \in 0..MaxLoops
  BY DEF P!Init
<1> QED  BY <1>2, <1>3 DEF P!Init, P!TypeOK

LEMMA TypeInvInit == Init => TypeInv
<1> SUFFICES ASSUME Init PROVE TypeInv
  OBVIOUS
<1> USE DEF Init, run, StartJSON, startCore, startMulticast, startTun, startRest
<1>1. L!TypeOK
  <2>1. PICK configured \in SUBSET Entry :
          /\ loop = [e \in Entry |-> IF e \in configured THEN "accepting" ELSE "none"]
          /\ registered = {e \in configured : links_init[SchemeOf[e]].registers}
    OBVIOUS
  <2> QED  BY <2>1 DEF L!TypeOK
<1>2. P!TypeOK /\ LoopBound
  <2>1. P!Init
    OBVIOUS
  <2>2. MaxLoops \in Nat \ {0}
    BY NodeAssumption DEF P!PeerLoopConstants
  <2> QED  BY <2>1, <2>2, PeerLoopInit
<1> QED  BY <1>1, <1>2 DEF TypeInv, TypeOK

(* The steps of Listeners keep the types of its variables. *)
LEMMA ListenersType ==
    ASSUME L!TypeOK, NEW e \in Entry,
           \/ L!listen(e) \/ L!register(e) \/ L!acceptFails(e) \/ L!closeChannel(e)
           \/ L!unregister(e) \/ L!Close(e) \/ L!CloseReturns(e) \/ L!Stop \/ L!Shutdown
    PROVE  L!TypeOK'
<1> USE DEF L!TypeOK
<1>1. CASE L!listen(e)  BY <1>1 DEF L!listen
<1>2. CASE L!register(e)  BY <1>2 DEF L!register
<1>3. CASE L!acceptFails(e)  BY <1>3 DEF L!acceptFails
<1>4. CASE L!closeChannel(e)  BY <1>4 DEF L!closeChannel
<1>5. CASE L!unregister(e)  BY <1>5 DEF L!unregister
<1>6. CASE L!Close(e)  BY <1>6 DEF L!Close
<1>7. CASE L!CloseReturns(e)  BY <1>7 DEF L!CloseReturns
<1>8. CASE L!Stop  BY <1>8 DEF L!Stop
<1>9. CASE L!shutdownNext  BY <1>9 DEF L!shutdownNext
<1>10. ASSUME NEW f \in Entry, L!shutdownClose(f) \/ L!shutdownClosed(f) PROVE L!TypeOK'
  BY <1>10 DEF L!shutdownClose, L!shutdownClosed
<1> QED  BY <1>1, <1>2, <1>3, <1>4, <1>5, <1>6, <1>7, <1>8, <1>9, <1>10 DEF L!Shutdown

LEMMA ListenersSame ==
    ASSUME L!TypeOK, UNCHANGED listeners PROVE L!TypeOK'
  BY DEF L!TypeOK, listeners

LEMMA PeerLoopSame ==
    ASSUME P!TypeOK, LoopBound, UNCHANGED peerLoop PROVE P!TypeOK' /\ LoopBound'
  BY DEF P!TypeOK, LoopBound, P!Running, peerLoop

(* The steps of PeerLoop keep the types of its variables and the bound: a run
   takes a queued loop for a running timer, a timer that fires the other way
   round, and only RetryPeersNow adds one. *)
LEMMA PeerLoopType ==
    ASSUME P!TypeOK, LoopBound, MaxLoops \in Nat,
           \/ P!addPeerLoop \/ P!timerFires \/ P!Stop
           \/ \E c \in Caller : P!RetryPeersNow(c) \/ P!retryStop(c) \/ P!retryReceive(c) \/ P!retryAct(c)
    PROVE  P!TypeOK' /\ LoopBound'
<1> USE DEF P!TypeOK, LoopBound, P!Running
<1>1. CASE P!addPeerLoop  BY <1>1 DEF P!addPeerLoop
<1>2. CASE P!timerFires  BY <1>2 DEF P!timerFires
<1>3. CASE P!Stop  BY <1>3 DEF P!Stop
<1>4. ASSUME NEW c \in Caller, P!RetryPeersNow(c) PROVE P!TypeOK' /\ LoopBound'
  BY <1>4 DEF P!RetryPeersNow
<1>5. ASSUME NEW c \in Caller, P!retryStop(c) PROVE P!TypeOK' /\ LoopBound'
  <2>1. CASE addPeerTimer = "nil"  BY <1>5, <2>1 DEF P!retryStop
  <2>2. CASE addPeerTimer = "running"  BY <1>5, <2>2 DEF P!retryStop
  <2>3. CASE addPeerTimer = "expired"  BY <1>5, <2>3 DEF P!retryStop
  <2> QED  BY <2>1, <2>2, <2>3
<1>6. ASSUME NEW c \in Caller, P!retryReceive(c) PROVE P!TypeOK' /\ LoopBound'
  BY <1>6 DEF P!retryReceive
<1>7. ASSUME NEW c \in Caller, P!retryAct(c) PROVE P!TypeOK' /\ LoopBound'
  BY <1>7 DEF P!retryAct
<1> QED  BY <1>1, <1>2, <1>3, <1>4, <1>5, <1>6, <1>7

(* The types of the program's own variables. *)
ProgramType ==
    /\ phase \in {"up", "multicast", "tun", "core", "rest", "requests",
                  "done", "panicMulticast", "panicRest"}
    /\ announcing \in {"open", "closed", "nil"}
    /\ announced \subseteq Entry
    /\ device \in {"open", "closed", "none"}
    /\ reader \in {"running", "ended", "none"}
    /\ writer \in {"running", "ended", "none"}
    /\ rest_server \in {"nil", "idle", "busy"}

(* The steps that touch the program's own variables only. *)
ProgramAlone ==
    \/ read \/ write \/ requestBegins \/ requestEnds
    \/ Interrupt \/ stopMulticast \/ stopTun \/ stopRest \/ restStopped

LEMMA TypeInvNext == TypeInv /\ [Next]_vars => TypeInv'
<1> SUFFICES ASSUME TypeInv, [Next]_vars PROVE TypeInv'
  OBVIOUS
<1> USE DEF TypeInv
<1>a. L!TypeOK /\ P!TypeOK /\ LoopBound /\ ProgramType /\ MaxLoops \in Nat
  BY NodeAssumption DEF TypeOK, ProgramType, P!PeerLoopConstants
<1>b. ASSUME L!TypeOK', P!TypeOK', LoopBound', ProgramType' PROVE TypeInv'
  BY <1>b DEF TypeOK, ProgramType
<1>1. ASSUME NEW e \in Entry, announceListens(e) \/ announceCloses(e) PROVE TypeInv'
  <2>1. L!TypeOK'  BY <1>1, <1>a, ListenersType DEF announceListens, announceCloses
  <2>2. P!TypeOK' /\ LoopBound'  BY <1>1, <1>a, PeerLoopSame DEF announceListens, announceCloses
  <2>3. ProgramType'  BY <1>1, <1>a DEF announceListens, announceCloses, ProgramType
  <2> QED  BY <2>1, <2>2, <2>3, <1>b
<1>2. ASSUME NEW e \in Entry, Listening(e) PROVE TypeInv'
  <2>1. L!TypeOK'  BY <1>2, <1>a, ListenersType DEF Listening
  <2>2. P!TypeOK' /\ LoopBound'  BY <1>2, <1>a, PeerLoopSame DEF Listening
  <2>3. ProgramType'  BY <1>2, <1>a DEF Listening, ProgramType, program
  <2> QED  BY <2>1, <2>2, <2>3, <1>b
<1>3. ASSUME AddPeerLoop \/ Timer \/ \E c \in Caller : Retry(c) PROVE TypeInv'
  <2>1. P!TypeOK' /\ LoopBound'  BY <1>3, <1>a, PeerLoopType DEF AddPeerLoop, Timer, Retry
  <2>2. L!TypeOK'  BY <1>3, <1>a, ListenersSame DEF AddPeerLoop, Timer, Retry
  <2>3. ProgramType'  BY <1>3, <1>a DEF AddPeerLoop, Timer, Retry, ProgramType, program
  <2> QED  BY <2>1, <2>2, <2>3, <1>b
<1>4. ASSUME ProgramAlone PROVE TypeInv'
  <2>1. UNCHANGED <<listeners, peerLoop>>
    BY <1>4 DEF ProgramAlone, read, write, requestBegins, requestEnds,
                Interrupt, stopMulticast, stopTun, stopRest, restStopped
  <2>2. ProgramType'
    BY <1>4, <1>a DEF ProgramAlone, read, write, requestBegins, requestEnds,
                      Interrupt, stopMulticast, stopTun, stopRest, restStopped, ProgramType
  <2> QED  BY <2>1, <2>2, <1>a, <1>b, ListenersSame, PeerLoopSame
<1>5. ASSUME stopCore \/ shutdownLinks PROVE TypeInv'
  <2>1. L!TypeOK'
    <3>1. CASE L!Stop  BY <3>1, <1>a DEF L!Stop, L!TypeOK
    <3>2. CASE L!shutdownNext  BY <3>2, <1>a DEF L!shutdownNext, L!TypeOK
    <3>3. ASSUME NEW e \in Entry, L!shutdownClose(e) \/ L!shutdownClosed(e) PROVE L!TypeOK'
      BY <3>3, <1>a DEF L!shutdownClose, L!shutdownClosed, L!TypeOK
    <3> QED  BY <1>5, <3>1, <3>2, <3>3 DEF stopCore, shutdownLinks, L!Shutdown
  <2>2. P!TypeOK' /\ LoopBound'  BY <1>5, <1>a, PeerLoopSame DEF stopCore, shutdownLinks
  <2>3. ProgramType'  BY <1>5, <1>a DEF stopCore, shutdownLinks, ProgramType, program
  <2> QED  BY <2>1, <2>2, <2>3, <1>b
<1>6. ASSUME coreClosed PROVE TypeInv'
  <2>1. P!TypeOK' /\ LoopBound'  BY <1>6, <1>a, PeerLoopType DEF coreClosed
  <2>2. L!TypeOK'  BY <1>6, <1>a, ListenersSame DEF coreClosed
  <2>3. ProgramType'  BY <1>6, <1>a DEF coreClosed, ProgramType
  <2> QED  BY <2>1, <2>2, <2>3, <1>b
<1>7. CASE UNCHANGED vars
  <2>1. ProgramType'  BY <1>7, <1>a DEF vars, program, ProgramType
  <2> QED  BY <2>1, <1>7, <1>a, <1>b, ListenersSame, PeerLoopSame DEF vars
<1> QED  BY <1>1, <1>2, <1>3, <1>4, <1>5, <1>6, <1>7 DEF Next, StopProgram, ProgramAlone

(* Every variable of the program keeps its type, and the loops of the core
   their bound, for any number of listeners and of callers of RetryPeersNow. *)
THEOREM TypeCorrect == Spec => []TypeOK
<1>1. TypeInv => TypeOK  BY DEF TypeInv
<1> QED  BY <1>1, TypeInvInit, TypeInvNext, PTL DEF Spec

-----------------------------------------------------------------------------
(* The peer loop *)

(* A run of the loop is queued, or a timer will queue it, or a caller of
   RetryPeersNow that has stopped the timer is about to. *)
LoopPending == queued > 0 \/ P!Running > 0 \/ \E c \in Caller : pc[c] = "act"

(* Until the core stops the field goes from nil to a timer and never back, so
   the timer a caller has seen is still there when it stops it and when it reads
   its C. *)
TimerSeen == ~stopped => \A c \in Caller : pc[c] \in {"stop", "read"} => addPeerTimer # "nil"

PanicsAfterStop == \A c \in Caller : pc[c] = "panic" => stopped

LoopInv ==
    /\ P!TypeOK
    /\ ~stopped => LoopPending
    /\ TimerSeen /\ PanicsAfterStop

PeerLoopStep ==
    \/ P!addPeerLoop \/ P!timerFires \/ P!Stop
    \/ \E c \in Caller : P!RetryPeersNow(c) \/ P!retryStop(c) \/ P!retryReceive(c) \/ P!retryAct(c)

(* The program takes the steps of PeerLoop and no other step touches its
   variables. *)
LEMMA ProgramStepsLoop == [Next]_vars => PeerLoopStep \/ UNCHANGED peerLoop
  BY DEF Next, vars, StopProgram, announceListens, announceCloses, Listening, AddPeerLoop,
         Timer, Retry, read, write, requestBegins, requestEnds, Interrupt, stopMulticast,
         stopTun, stopCore, shutdownLinks, coreClosed, stopRest, restStopped, PeerLoopStep

LEMMA LoopInvInit == P!Init => LoopInv
<1> SUFFICES ASSUME P!Init PROVE LoopInv
  OBVIOUS
<1>1. P!TypeOK
  BY PeerLoopInit, NodeAssumption DEF P!PeerLoopConstants
<1>2. LoopPending
  BY DEF P!Init, LoopPending
<1>3. \A c \in Caller : pc[c] = "idle"
  BY DEF P!Init
<1> QED  BY <1>1, <1>2, <1>3 DEF LoopInv, TimerSeen, PanicsAfterStop

LEMMA LoopInvNext ==
    ASSUME LoopInv, P!TypeOK', PeerLoopStep
    PROVE  LoopInv'
<1>a. queued \in Nat /\ orphans \in Nat
  BY NodeAssumption DEF LoopInv, P!TypeOK, P!PeerLoopConstants
<1> USE DEF LoopInv, LoopPending, TimerSeen, PanicsAfterStop, P!Running, P!TypeOK
<1>1. CASE P!addPeerLoop
  <2>1. UNCHANGED <<pc, stopped>>
    BY <1>1 DEF P!addPeerLoop
  <2>2. ~stopped => addPeerTimer' = "running" /\ P!Running' > 0
    <3> SUFFICES ASSUME ~stopped PROVE addPeerTimer' = "running" /\ P!Running' > 0
      OBVIOUS
    <3>1. P!Running \in Nat
      BY <1>a
    <3>2. addPeerTimer' = "running" /\ orphans' = P!Running
      BY <1>1 DEF P!addPeerLoop
    <3>3. P!Running' = orphans' + 1
      BY <3>2
    <3>4. orphans' \in Nat
      BY <3>1, <3>2
    <3> QED  BY <3>2, <3>3, <3>4
  <2> QED  BY <2>1, <2>2
<1>2. CASE P!timerFires
  <2>1. queued' > 0 /\ UNCHANGED <<pc, stopped>>
    BY <1>2, <1>a DEF P!timerFires
  <2>2. addPeerTimer' = addPeerTimer \/ addPeerTimer' = "expired"
    BY <1>2 DEF P!timerFires
  <2> QED  BY <2>1, <2>2
<1>3. CASE P!Stop
  BY <1>3 DEF P!Stop
<1>4. ASSUME NEW c \in Caller, P!RetryPeersNow(c) PROVE LoopInv'
  BY <1>4 DEF P!RetryPeersNow
<1>5. ASSUME NEW c \in Caller, P!retryStop(c) PROVE LoopInv'
  <2>1. CASE addPeerTimer = "nil"
    <3>1. stopped
      BY <1>5, <2>1 DEF P!retryStop
    <3> QED  BY <1>5, <2>1, <3>1 DEF P!retryStop
  <2>2. CASE addPeerTimer = "running"
    <3>1. pc'[c] = "act" /\ \A d \in Caller \ {c} : pc'[d] = pc[d]
      BY <1>5, <2>2 DEF P!retryStop
    <3> QED  BY <1>5, <2>2, <3>1 DEF P!retryStop
  <2>3. CASE addPeerTimer = "expired"
    <3>1. pc'[c] = "read" /\ \A d \in Caller \ {c} : pc'[d] = pc[d]
      BY <1>5, <2>3 DEF P!retryStop
    <3> QED  BY <1>5, <2>3, <3>1 DEF P!retryStop
  <2> QED  BY <2>1, <2>2, <2>3
<1>6. ASSUME NEW c \in Caller, P!retryReceive(c) PROVE LoopInv'
  <2>1. pc[c] = "read" /\ (addPeerTimer = "nil" => stopped)
    BY <1>6 DEF P!retryReceive
  <2>2. UNCHANGED <<addPeerTimer, orphans, queued, stopped>>
    BY <1>6 DEF P!retryReceive
  <2>3. /\ pc'[c] = IF addPeerTimer = "nil" THEN "panic" ELSE "receive"
        /\ \A d \in Caller \ {c} : pc'[d] = pc[d]
    BY <1>6 DEF P!retryReceive
  <2> QED  BY <2>1, <2>2, <2>3
<1>7. ASSUME NEW c \in Caller, P!retryAct(c) PROVE LoopInv'
  BY <1>7 DEF P!retryAct
<1> QED  BY <1>1, <1>2, <1>3, <1>4, <1>5, <1>6, <1>7 DEF PeerLoopStep

LEMMA LoopInvariance == Spec => []LoopInv
<1>1. Init => LoopInv
  BY LoopInvInit DEF Init, run, StartJSON, startCore
<1>2. LoopInv /\ TypeOK' /\ [Next]_vars => LoopInv'
  <2> SUFFICES ASSUME LoopInv, TypeOK', [Next]_vars PROVE LoopInv'
    OBVIOUS
  <2>1. CASE PeerLoopStep
    BY <2>1, LoopInvNext DEF TypeOK
  <2>2. CASE UNCHANGED peerLoop
    BY <2>2 DEF peerLoop, LoopInv, LoopPending, TimerSeen, PanicsAfterStop, P!Running, P!TypeOK
  <2> QED  BY <2>1, <2>2, ProgramStepsLoop
<1> QED  BY <1>1, <1>2, TypeCorrect, PTL DEF Spec

(* The loop that reconnects peers is never lost before Core.Stop, however
   often RetryPeersNow stops its timer and wherever a caller is left hanging:
   what LoopKeepsRunning needs besides fairness. *)
THEOREM LoopNeverLost == Spec => [](~stopped => LoopPending)
BY LoopInvariance, PTL DEF LoopInv

(* RetryPeersNow finds no timer, and panics, only after Core.Stop. *)
THEOREM RetryPanicsAfterStop == Spec => []PanicsAfterStop
BY LoopInvariance, PTL DEF LoopInv

(* Nothing adds to the timers that run when the core has stopped. *)
TimersRunOut == stopped => stopped' /\ P!Running' <= P!Running

(* After Core.Stop no timer is started, neither by a run of the loop that was
   queued before nor by RetryPeersNow: those that are left run out, which is
   what StopEndsLoop needs besides fairness. *)
THEOREM NoTimerAfterStop == Spec => [][TimersRunOut]_vars
<1>1. TypeOK /\ [Next]_vars => [TimersRunOut]_vars
  <2> SUFFICES ASSUME TypeOK, [Next]_vars, stopped
               PROVE  stopped' /\ P!Running' <= P!Running
    BY DEF TimersRunOut
  <2>1. orphans \in Nat
    BY NodeAssumption DEF TypeOK, P!TypeOK, P!PeerLoopConstants
  <2>2. CASE PeerLoopStep
    <3>1. /\ stopped'
          /\ \/ orphans' = orphans /\ (addPeerTimer' = "running" => addPeerTimer = "running")
             \/ orphans' = orphans - 1 /\ addPeerTimer' = addPeerTimer
      BY <2>2 DEF PeerLoopStep, P!addPeerLoop, P!timerFires, P!Stop,
                  P!RetryPeersNow, P!retryStop, P!retryReceive, P!retryAct
    <3> QED  BY <2>1, <3>1 DEF P!Running
  <2>3. CASE UNCHANGED peerLoop
    BY <2>1, <2>3 DEF peerLoop, P!Running
  <2> QED  BY <2>2, <2>3, ProgramStepsLoop
<1> QED  BY <1>1, TypeCorrect, PTL DEF Spec

-----------------------------------------------------------------------------
(* Whoever waits in Listener.Close *)

(* Listeners that are registered, or that somebody visits or waits for, have
   had an accept goroutine, and a socket somebody waits for is closed. *)
CloseInv ==
    /\ \A e \in registered \cup todo \cup current \cup closing : loop[e] \notin {"none", "bound"}
    /\ current \cup closing \subseteq shut

ListenersStep ==
    \/ L!Stop \/ L!Shutdown
    \/ \E e \in Entry :
        \/ L!listen(e) \/ L!register(e) \/ L!acceptFails(e) \/ L!closeChannel(e)
        \/ L!unregister(e) \/ L!Close(e) \/ L!CloseReturns(e)

LEMMA ProgramStepsListeners == [Next]_vars => ListenersStep \/ UNCHANGED listeners
  BY DEF Next, vars, StopProgram, announceListens, announceCloses, Listening, AddPeerLoop,
         Timer, Retry, read, write, requestBegins, requestEnds, Interrupt, stopMulticast,
         stopTun, stopCore, shutdownLinks, coreClosed, stopRest, restStopped, ListenersStep

LEMMA CloseInvNext ==
    ASSUME L!TypeOK, CloseInv, ListenersStep
    PROVE  CloseInv'
<1> USE DEF CloseInv, L!TypeOK
<1>1. CASE L!Stop
  BY <1>1 DEF L!Stop
<1>2. CASE L!shutdownNext
  BY <1>2 DEF L!shutdownNext
<1>3. ASSUME NEW e \in Entry, L!shutdownClose(e) \/ L!shutdownClosed(e) PROVE CloseInv'
  BY <1>3 DEF L!shutdownClose, L!shutdownClosed
<1>4. ASSUME NEW e \in Entry, L!listen(e) \/ L!register(e) PROVE CloseInv'
  <2>1. PICK where \in {"bound", "accepting"} : loop' = [loop EXCEPT ![e] = where]
    BY <1>4 DEF L!listen, L!register
  <2>2. loop[e] \in {"none", "bound"} /\ UNCHANGED <<todo, current, closing, shut>>
    BY <1>4 DEF L!listen, L!register
  <2>3. registered' \in {registered, registered \cup {e}} /\ (where = "bound" => registered' = registered)
    BY <1>4, <2>1 DEF L!listen, L!register
  <2> QED  BY <2>1, <2>2, <2>3
<1>5. ASSUME NEW e \in Entry, L!acceptFails(e) \/ L!closeChannel(e) \/ L!unregister(e) PROVE CloseInv'
  BY <1>5 DEF L!acceptFails, L!closeChannel, L!unregister
<1>6. ASSUME NEW e \in Entry, L!Close(e) \/ L!CloseReturns(e) PROVE CloseInv'
  BY <1>6 DEF L!Close, L!CloseReturns
<1> QED  BY <1>1, <1>2, <1>3, <1>4, <1>5, <1>6 DEF ListenersStep, L!Shutdown

(* Whoever Core.Stop or the multicast actor visits or waits for, its accept
   goroutine has been started and its socket closed, in every state of the
   program. *)
LEMMA CloseInvariance == Spec => []CloseInv
<1>1. Init => CloseInv
  <2> SUFFICES ASSUME Init PROVE CloseInv
    OBVIOUS
  <2>1. startCore
    BY DEF Init, run, StartJSON
  <2> QED  BY <2>1 DEF startCore, CloseInv
<1>2. TypeOK /\ CloseInv /\ [Next]_vars => CloseInv'
  <2> SUFFICES ASSUME TypeOK, CloseInv, [Next]_vars PROVE CloseInv'
    OBVIOUS
  <2>1. CASE ListenersStep
    BY <2>1, CloseInvNext DEF TypeOK
  <2>2. CASE UNCHANGED listeners
    BY <2>2 DEF listeners, CloseInv
  <2> QED  BY <2>1, <2>2, ProgramStepsListeners
<1> QED  BY <1>1, <1>2, TypeCorrect, PTL DEF Spec

(* The accept goroutine goes one step further to the closing of its channel,
   and nothing else happens. *)
GoesOn(e) ==
    /\ loop' = [loop EXCEPT ![e] = IF loop[e] = "accepting" THEN "ending" ELSE "leaving"]
    /\ UNCHANGED <<registered, shut, closing, stopping, todo, current, peerLoop, program>>

(* Whoever waits in Listener.Close, be it Core.Stop or the multicast actor,
   waits for a goroutine that can go on by itself: whatever actors are held,
   its next step is one of those that FairSpec promises, until the channel is
   closed (CloseInvariance says that CloseInv holds in every state).  If the
   channel were closed on the actor of the link type, which shutdown holds,
   this would be false. *)
THEOREM CloseGoesOn ==
    ASSUME TypeOK, CloseInv, Alive,
           NEW e \in current \cup closing, ~L!Ended(e), GoesOn(e)
    PROVE  Listening(e) /\ L!Accept(e)
<1>1. e \in Entry /\ e \in shut /\ shut \subseteq Entry
  BY DEF TypeOK, L!TypeOK, CloseInv
<1>2. loop[e] \in {"accepting", "ending"}
  BY <1>1 DEF TypeOK, L!TypeOK, CloseInv, L!Ended
<1>3. CASE loop[e] = "accepting"
  <2>1. shut = shut \cup {e}
    BY <1>1
  <2>2. L!acceptFails(e)
    BY <1>3, <2>1 DEF GoesOn, L!acceptFails
  <2> QED  BY <1>1, <2>2 DEF GoesOn, Listening, L!Accept
<1>4. CASE loop[e] = "ending"
  <2>1. L!closeChannel(e)
    BY <1>4 DEF GoesOn, L!closeChannel
  <2> QED  BY <2>1 DEF GoesOn, Listening, L!Accept
<1> QED  BY <1>2, <1>3, <1>4

-----------------------------------------------------------------------------
(* What makes the listeners go.  Once the multicast module has been stopped
   nobody opens a listener or is about to, and the core stops later only. *)
MulticastQuiet ==
    /\ phase \in {"tun", "core", "rest", "requests", "done", "panicRest"} =>
        announcing # "open" /\ \A e \in Entry : loop[e] # "bound"
    /\ stopping > 0 => phase \in {"core", "rest", "requests", "done", "panicRest"}
    /\ stopped => stopping > Len(shutdownOrder)

(* A listener that accepts is registered, its link type has not been passed,
   and shutdown will still visit it if it is at its link type. *)
NotPassed ==
    \A e \in Entry : loop[e] = "accepting" =>
        /\ e \in registered
        /\ \A n \in 1..Len(shutdownOrder) : shutdownOrder[n] = SchemeOf[e] =>
            n >= stopping /\ (n = stopping => e \in todo \cup current)

(* The link types that are shut down register their listeners. *)
Registering == \A e \in Entry : links_init[SchemeOf[e]].registers

StopInv == TypeInv /\ MulticastQuiet /\ NotPassed

LEMMA ShutDownRegisters ==
    ASSUME NEW s, ShutDown(s) PROVE links_init[s].registers
<1>1. s \in {"tcp", "tls", "unix"}
  BY DEF ShutDown, shutdownOrder
<1> QED  BY <1>1 DEF links_init, linkTCP, linkTLS, linkUNIX

LEMMA StopInvInit == Registering /\ Init => StopInv
<1> SUFFICES ASSUME Registering, Init PROVE StopInv
  OBVIOUS
<1>1. startCore /\ phase = "up"
  BY DEF Init, run, StartJSON
<1>2. stopping = 0 /\ ~stopped
  BY <1>1 DEF startCore, P!Init
<1>3. MulticastQuiet
  BY <1>1, <1>2 DEF MulticastQuiet
<1>4. NotPassed
  <2>1. PICK configured \in SUBSET Entry :
          /\ loop = [e \in Entry |-> IF e \in configured THEN "accepting" ELSE "none"]
          /\ registered = {e \in configured : links_init[SchemeOf[e]].registers}
    BY <1>1 DEF startCore
  <2> QED  BY <2>1, <1>2, Order DEF NotPassed, Registering
<1> QED  BY <1>3, <1>4, TypeInvInit DEF StopInv

(* Most steps let no further listener accept, and none slip from shutdown. *)
LEMMA StillNotPassed ==
    ASSUME NotPassed, stopping' = stopping,
           \A e \in Entry : loop'[e] = "accepting" =>
               /\ loop[e] = "accepting"
               /\ e \in registered => e \in registered'
               /\ e \in todo \cup current => e \in todo' \cup current'
    PROVE  NotPassed'
  BY DEF NotPassed

LEMMA StillQuiet ==
    ASSUME MulticastQuiet, UNCHANGED <<phase, announcing, stopping, stopped>>,
           \A e \in Entry : loop'[e] = "bound" => loop[e] = "bound"
    PROVE  MulticastQuiet'
  BY DEF MulticastQuiet

(* The multicast actor, as long as it is not stopped, opens and closes. *)
LEMMA AnnounceKeepsStopInv ==
    ASSUME StopInv, TypeInv', NEW e \in Entry, announceListens(e) \/ announceCloses(e)
    PROVE  StopInv'
<1>1. loop \in [Entry -> {"none", "bound", "accepting", "ending", "leaving", "done"}]
  BY DEF StopInv, TypeInv, TypeOK, L!TypeOK
<1>2. UNCHANGED <<phase, announcing, stopping, stopped, todo, current, registered>>
  BY DEF announceListens, announceCloses, L!listen, L!Close, peerLoop
<1>3. loop' = [loop EXCEPT ![e] = "bound"] \/ loop' = loop
  BY DEF announceListens, announceCloses, L!listen, L!Close
<1>4. announcing = "open"
  BY DEF announceListens, announceCloses
<1>5. MulticastQuiet'
  BY <1>2, <1>4 DEF StopInv, MulticastQuiet
<1>6. NotPassed'
  BY <1>1, <1>2, <1>3, StillNotPassed DEF StopInv
<1> QED  BY <1>5, <1>6 DEF StopInv

(* A listener that starts to accept does so before the core stops; the other
   steps of accept goroutines only end it. *)
LEMMA ListeningKeepsStopInv ==
    ASSUME StopInv, Registering, TypeInv', NEW e \in Entry, Listening(e)
    PROVE  StopInv'
<1>1. loop \in [Entry -> {"none", "bound", "accepting", "ending", "leaving", "done"}]
  BY DEF StopInv, TypeInv, TypeOK, L!TypeOK
<1>2. stopping \in Nat
  BY DEF StopInv, TypeInv, TypeOK, L!TypeOK
<1>3. UNCHANGED <<phase, announcing, stopped>>
  BY DEF Listening, program, peerLoop
<1>4. UNCHANGED <<stopping, todo, current>>
  BY DEF Listening, L!register, L!CloseReturns, L!acceptFails, L!closeChannel, L!unregister
<1>5. MulticastQuiet'
  <2>1. \A f \in Entry : loop'[f] = "bound" => loop[f] = "bound"
    BY <1>1 DEF Listening, L!register, L!CloseReturns, L!acceptFails, L!closeChannel, L!unregister
  <2> QED  BY <2>1, <1>3, <1>4, StillQuiet DEF StopInv
<1>6. NotPassed'
  <2>1. CASE L!register(e)
    <3>1. stopping = 0 /\ loop[e] = "bound"
      BY <1>2, <2>1 DEF L!register, StopInv, MulticastQuiet
    <3>2. loop' = [loop EXCEPT ![e] = "accepting"] /\ registered' = registered \cup {e}
      BY <2>1, SameLinkTypes DEF L!register, Registering
    <3>3. \A n \in 1..Len(shutdownOrder) : n >= stopping /\ n # stopping
      BY <3>1, Order
    <3> QED  BY <1>1, <1>4, <3>2, <3>3 DEF StopInv, NotPassed
  <2>2. CASE L!CloseReturns(e)
    BY <2>2, <1>4, StillNotPassed DEF L!CloseReturns, StopInv
  <2>3. CASE L!acceptFails(e)
    BY <2>3, <1>1, <1>4, StillNotPassed DEF L!acceptFails, StopInv
  <2>4. CASE L!closeChannel(e)
    BY <2>4, <1>1, <1>4, StillNotPassed DEF L!closeChannel, StopInv
  <2>5. CASE L!unregister(e)
    BY <2>5, <1>1, <1>4, StillNotPassed DEF L!unregister, StopInv
  <2> QED  BY <2>1, <2>2, <2>3, <2>4, <2>5 DEF Listening
<1> QED  BY <1>5, <1>6 DEF StopInv

(* Shutdown starts with the first link type, waits for each of its listeners
   and goes on only when none is left. *)
LEMMA ShutdownKeepsStopInv ==
    ASSUME StopInv, TypeInv', stopCore \/ shutdownLinks
    PROVE  StopInv'
<1>1. stopping \in Nat
  BY DEF StopInv, TypeInv, TypeOK, L!TypeOK
<1>2. UNCHANGED <<phase, announcing, stopped, loop, registered>>
  BY DEF stopCore, shutdownLinks, L!Stop, L!Shutdown, L!shutdownNext,
         L!shutdownClose, L!shutdownClosed, program, peerLoop
<1>3. CASE stopCore
  <2>1. phase = "core" /\ stopping = 0 /\ stopping' = 1
    BY <1>3 DEF stopCore, L!Stop
  <2>2. \A e \in registered : SchemeOf[e] = shutdownOrder[1] => e \in todo'
    BY <1>3, Order, SameLinkTypes DEF stopCore, L!Stop
  <2>3. MulticastQuiet'
    BY <1>2, <2>1, Order DEF StopInv, MulticastQuiet
  <2>4. NotPassed'
    BY <1>2, <2>1, <2>2, Order DEF StopInv, NotPassed
  <2> QED  BY <2>3, <2>4 DEF StopInv
<1>4. CASE L!shutdownNext
  <2>1. stopping \in 1..3 /\ stopping' = stopping + 1 /\ todo = {} /\ current = {}
    BY <1>4, Order, SameLinkTypes DEF L!shutdownNext
  <2>2. \A e \in registered : stopping < 3 /\ SchemeOf[e] = shutdownOrder[stopping + 1] => e \in todo'
    BY <1>4, Order, SameLinkTypes DEF L!shutdownNext
  <2>3. MulticastQuiet'
    BY <1>2, <2>1 DEF StopInv, MulticastQuiet
  <2>4. NotPassed'
    <3> SUFFICES ASSUME NEW e \in Entry, loop[e] = "accepting",
                        NEW n \in 1..3, shutdownOrder[n] = SchemeOf[e]
                 PROVE  /\ e \in registered
                        /\ n >= stopping + 1
                        /\ n = stopping + 1 => e \in todo'
      BY <1>2, <2>1, Order DEF NotPassed, StopInv
    <3>1. e \in registered /\ n >= stopping /\ n # stopping
      BY <2>1, Order DEF StopInv, NotPassed
    <3> QED  BY <2>1, <2>2, <3>1
  <2> QED  BY <2>3, <2>4 DEF StopInv
<1>5. ASSUME NEW e \in Entry, L!shutdownClose(e) PROVE StopInv'
  <2>1. stopping' = stopping /\ todo \cup current \subseteq todo' \cup current'
    BY <1>5 DEF L!shutdownClose
  <2> QED  BY <1>2, <2>1, StillNotPassed, StillQuiet DEF StopInv
<1>6. ASSUME NEW e \in Entry, L!shutdownClosed(e) PROVE StopInv'
  <2>1. stopping' = stopping /\ todo' = todo /\ current' = current \ {e}
    BY <1>6 DEF L!shutdownClosed
  <2>2. loop[e] # "accepting"
    BY <1>6 DEF L!shutdownClosed, L!Ended
  <2> QED  BY <1>2, <2>1, <2>2, StillNotPassed, StillQuiet DEF StopInv
<1> QED  BY <1>3, <1>4, <1>5, <1>6 DEF shutdownLinks, L!Shutdown

LEMMA StopInvNext == Registering /\ StopInv /\ [Next]_vars => StopInv'
<1> SUFFICES ASSUME Registering, StopInv, [Next]_vars PROVE StopInv'
  OBVIOUS
<1>0. TypeInv'
  BY TypeInvNext DEF StopInv
<1>1. ASSUME NEW e \in Entry, announceListens(e) \/ announceCloses(e) PROVE StopInv'
  BY <1>0, <1>1, AnnounceKeepsStopInv
<1>2. ASSUME NEW e \in Entry, Listening(e) PROVE StopInv'
  BY <1>0, <1>2, ListeningKeepsStopInv
<1>3. CASE stopCore \/ shutdownLinks
  BY <1>0, <1>3, ShutdownKeepsStopInv
<1>4. ASSUME UNCHANGED listeners, MulticastQuiet' PROVE StopInv'
  BY <1>0, <1>4, StillNotPassed DEF StopInv, listeners
<1> USE DEF StopInv, MulticastQuiet, listeners, peerLoop, program
<1>5. CASE AddPeerLoop \/ Timer \/ \E c \in Caller : Retry(c)
  <2>1. stopped' = stopped
    BY <1>5 DEF AddPeerLoop, Timer, Retry, P!addPeerLoop, P!timerFires,
                P!RetryPeersNow, P!retryStop, P!retryReceive, P!retryAct
  <2> QED  BY <1>4, <1>5, <2>1 DEF AddPeerLoop, Timer, Retry
<1>6. CASE read \/ write \/ requestBegins \/ requestEnds \/ Interrupt
  BY <1>4, <1>6 DEF read, write, requestBegins, requestEnds, Interrupt
<1>7. CASE stopMulticast
  BY <1>4, <1>7 DEF stopMulticast, MulticastBusy
<1>8. CASE stopTun
  BY <1>4, <1>8 DEF stopTun
<1>9. CASE coreClosed
  BY <1>4, <1>9, SameLinkTypes DEF coreClosed, L!Stopped, P!Stop
<1>10. CASE stopRest \/ restStopped
  BY <1>4, <1>10 DEF stopRest, restStopped
<1>11. CASE UNCHANGED vars
  BY <1>4, <1>11 DEF vars
<1> QED
  BY <1>1, <1>2, <1>3, <1>5, <1>6, <1>7, <1>8, <1>9, <1>10, <1>11 DEF Next, StopProgram

(* "Stop shuts down the Mesh node.": where all listeners are of the link types
   that links.shutdown goes through, none accepts connections once the core
   has stopped, for any number of them, whoever opened them and whenever. *)
THEOREM ListenersClosed ==
    ASSUME \A e \in Entry : ShutDown(SchemeOf[e])
    PROVE  Spec => []StopClosesListeners
<1>1. Registering
  BY ShutDownRegisters DEF Registering
<1>2. Init => StopInv
  BY <1>1, StopInvInit
<1>3. StopInv /\ [Next]_vars => StopInv'
  BY <1>1, StopInvNext
<1>4. StopInv => StopClosesListeners
  <2> SUFFICES ASSUME StopInv, stopped, NEW e \in Entry
               PROVE  loop[e] \notin {"bound", "accepting"}
    BY DEF StopClosesListeners
  <2>1. stopping > 3
    BY Order DEF StopInv, MulticastQuiet
  <2>2. stopping \in Nat
    BY DEF StopInv, TypeInv, TypeOK, L!TypeOK
  <2>3. loop[e] # "bound"
    BY <2>1, <2>2 DEF StopInv, MulticastQuiet
  <2>4. PICK n \in 1..3 : shutdownOrder[n] = SchemeOf[e]
    BY Order DEF ShutDown
  <2>5. loop[e] # "accepting"
    BY <2>1, <2>2, <2>4, Order DEF StopInv, NotPassed
  <2> QED  BY <2>3, <2>5
<1> QED  BY <1>2, <1>3, <1>4, PTL DEF Spec
=============================================================================
