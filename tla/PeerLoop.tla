------------------------------ MODULE PeerLoop ------------------------------
(***************************************************************************)
(* The timer behind the peer loop (src/src/core/core.go): _addPeerLoop     *)
(* restarts itself every minute, RetryPeersNow stops the timer and runs    *)
(* the loop at once, Stop ends it.  The loop runs on the core actor;       *)
(* RetryPeersNow runs on the goroutine of its caller and reads             *)
(* c.addPeerTimer three times without synchronisation.                     *)
(*                                                                         *)
(* time.AfterFunc leaves the field C of its Timer nil, so the receive from *)
(* addPeerTimer.C never returns.  What the loop does with the peers is in  *)
(* Links; Node composes these actions with the rest of the program.        *)
(***************************************************************************)
EXTENDS Integers, FiniteSets

CONSTANTS
    Caller,    \* goroutines that call RetryPeersNow
    MaxLoops   \* bound on timers and queued loops together

(* What a module that instantiates this one assumes of the constants. *)
PeerLoopConstants == MaxLoops \in Nat \ {0}

VARIABLES
    addPeerTimer, \* nil, or whether the timer in the field is running
    orphans,      \* timers that are running and not in the field any more
    queued,       \* runs of _addPeerLoop in the inbox of the core actor
    pc,           \* where each caller of RetryPeersNow is
    stopped       \* Core.Stop has run

vars == <<addPeerTimer, orphans, queued, pc, stopped>>

Running == orphans + (IF addPeerTimer = "running" THEN 1 ELSE 0)

(* New queues the first run. *)
Init ==
    /\ addPeerTimer = "nil"
    /\ orphans = 0
    /\ queued = 1
    /\ pc = [c \in Caller |-> "idle"]
    /\ stopped = FALSE

(* Mutant: the context is not consulted. *)
addPeerLoopForever ==
    /\ queued > 0
    /\ queued' = queued - 1
    /\ addPeerTimer' = "running"
    /\ orphans' = Running
    /\ UNCHANGED <<pc, stopped>>

(* A run of _addPeerLoop: nothing after Stop; otherwise the peers are called
   and a new timer takes the place of the old one, running or not. *)
addPeerLoop ==
    /\ queued > 0
    /\ queued' = queued - 1
    /\ IF stopped
         THEN UNCHANGED <<addPeerTimer, orphans>>
         ELSE addPeerTimer' = "running" /\ orphans' = Running
    /\ UNCHANGED <<pc, stopped>>

(* Mutant: the timer keeps running, as a ticker would. *)
timerTicks ==
    /\ Running > 0
    /\ queued' = queued + 1
    /\ UNCHANGED <<addPeerTimer, orphans, pc, stopped>>

(* A timer fires, the one in the field or an earlier one. *)
timerFires ==
    /\ \/ addPeerTimer = "running" /\ addPeerTimer' = "expired" /\ UNCHANGED orphans
       \/ orphans > 0 /\ orphans' = orphans - 1 /\ UNCHANGED addPeerTimer
    /\ queued' = queued + 1
    /\ UNCHANGED <<pc, stopped>>

(* RetryPeersNow: the comparison of addPeerTimer with nil ... *)
RetryPeersNow(c) ==
    /\ pc[c] = "idle"
    /\ pc' = [pc EXCEPT ![c] = IF addPeerTimer = "nil" THEN "act" ELSE "stop"]
    /\ UNCHANGED <<addPeerTimer, orphans, queued, stopped>>

(* ... addPeerTimer.Stop(), on whatever the field holds by now: a timer that
   is not running any more sends the caller on to the receive, nil is a
   panic ... *)
retryStop(c) ==
    /\ pc[c] = "stop"
    /\ addPeerTimer' = IF addPeerTimer = "running" THEN "expired" ELSE addPeerTimer
    /\ pc' = [pc EXCEPT ![c] = CASE addPeerTimer = "nil"     -> "panic"
                                [] addPeerTimer = "running" -> "act"
                                [] addPeerTimer = "expired" -> "read"]
    /\ UNCHANGED <<orphans, queued, stopped>>

(* ... or <-addPeerTimer.C, which reads the field once more: nil is a panic,
   and from the C of any timer nothing ever comes ... *)
retryReceive(c) ==
    /\ pc[c] = "read"
    /\ pc' = [pc EXCEPT ![c] = IF addPeerTimer = "nil" THEN "panic" ELSE "receive"]
    /\ UNCHANGED <<addPeerTimer, orphans, queued, stopped>>

(* Mutant: the loop is not queued. *)
retryActNothing(c) ==
    /\ pc[c] = "act"
    /\ pc' = [pc EXCEPT ![c] = "idle"]
    /\ UNCHANGED <<addPeerTimer, orphans, queued, stopped>>

(* ... and the loop is queued. *)
retryAct(c) ==
    /\ pc[c] = "act"
    /\ queued + Running < MaxLoops
    /\ queued' = queued + 1
    /\ pc' = [pc EXCEPT ![c] = "idle"]
    /\ UNCHANGED <<addPeerTimer, orphans, stopped>>

(* Core._close stops the timer in the field. *)
Stop ==
    /\ ~stopped
    /\ stopped' = TRUE
    /\ addPeerTimer' = "nil"
    /\ UNCHANGED <<orphans, queued, pc>>

Next ==
    \/ addPeerLoop
    \/ timerFires
    \/ \E c \in Caller : RetryPeersNow(c) \/ retryStop(c) \/ retryReceive(c) \/ retryAct(c)
    \/ Stop

-----------------------------------------------------------------------------
(* Every variable has its type, and the bound on loops holds. *)
TypeOK ==
    /\ addPeerTimer \in {"nil", "running", "expired"}
    /\ queued \in 0..MaxLoops
    /\ orphans \in 0..MaxLoops
    /\ pc \in [Caller -> {"idle", "stop", "read", "act", "receive", "panic"}]
    /\ stopped \in BOOLEAN
=============================================================================
