---------------------------- MODULE ServerEvents ----------------------------
(***************************************************************************)
(* The server events of the REST server (src/src/restapi/rest_server.go):  *)
(* a channel that the link handlers, the health tests and the update       *)
(* goroutines write to, and that is drained only while a client polls      *)
(* GET /api/sse.  Polls run side by side and share the update timer, which *)
(* nothing protects.                                                       *)
(*                                                                         *)
(* A channel of Go is a queue here: its first Capacity events are in the   *)
(* buffer, each further one belongs to a goroutine that is blocked in its  *)
(* send; the goroutines go on in the order in which they came.             *)
(***************************************************************************)
EXTENDS Integers, Sequences, FiniteSets

CONSTANTS
    Capacity,   \* of the channel; 10 in NewRestServer
    Handler,    \* goroutines that emit PeersChangedSignal
    Test,       \* peers whose health is asked for
    Poller,     \* goroutines that serve GET /api/sse
    MaxUpdates  \* bound on the goroutines of sendSseUpdate

ASSUME ServerEventsAssumption ==
    Capacity \in Nat \ {0} /\ MaxUpdates \in Nat \ {0}

Peers == [event |-> "peers"]
Rxtx  == [event |-> "rxtx"]
Coord == [event |-> "coord"]
Health(t) == [event |-> "health", peer |-> t]

VARIABLES
    serverEvents, \* the channel
    emitting,     \* handlers that are inside the callback of the signal
    health,       \* what has become of the test of each peer
    starting,     \* goroutines of sendSseUpdate before their first send
    between,      \* those that have come to the first send and not to the second
    updateTimer,  \* empty for nil; whether it is running and whether its tick is in C
    pc            \* where each poll is

vars == <<serverEvents, emitting, health, starting, between, updateTimer, pc>>

Full == Len(serverEvents) >= Capacity

(* Goroutines of sendSseUpdate that are blocked in their first send. *)
Blocked ==
    Cardinality({n \in DOMAIN serverEvents : n > Capacity /\ serverEvents[n] = Rxtx})

Init ==
    /\ serverEvents = <<>>
    /\ emitting = {}
    /\ health = [t \in Test |-> "none"]
    /\ starting = 0 /\ between = 0
    /\ updateTimer = {}
    /\ pc = [p \in Poller |-> "idle"]

-----------------------------------------------------------------------------
(* A link has come up or has gone: the handler's goroutine, or that of its
   timer, enters the callback, which looks the peers up ... *)
Emit(h) ==
    /\ h \notin emitting
    /\ emitting' = emitting \cup {h}
    /\ UNCHANGED <<serverEvents, health, starting, between, updateTimer, pc>>

(* Mutant: the callback waits for room in the channel. *)
peersChangedBlocks(h) ==
    /\ h \in emitting
    /\ ~Full
    /\ serverEvents' = Append(serverEvents, Peers)
    /\ emitting' = emitting \ {h}
    /\ UNCHANGED <<health, starting, between, updateTimer, pc>>

(* ... and sends them, or drops them if the channel is full. *)
peersChanged(h) ==
    /\ h \in emitting
    /\ serverEvents' = IF Full THEN serverEvents ELSE Append(serverEvents, Peers)
    /\ emitting' = emitting \ {h}
    /\ UNCHANGED <<health, starting, between, updateTimer, pc>>

(* postApiHealthHandler starts a goroutine that starts one for each peer. *)
postApiHealthHandler(tests) ==
    /\ \A t \in tests : health[t] = "none"
    /\ health' = [t \in Test |-> IF t \in tests THEN "testing" ELSE health[t]]
    /\ UNCHANGED <<serverEvents, emitting, starting, between, updateTimer, pc>>

(* Mutant: the result of a test is dropped if the channel is full. *)
testAllHealthDrops(t) ==
    /\ health[t] = "testing"
    /\ serverEvents' = IF Full THEN serverEvents ELSE Append(serverEvents, Health(t))
    /\ health' = [health EXCEPT ![t] = "sent"]
    /\ UNCHANGED <<emitting, starting, between, updateTimer, pc>>

(* The goroutine of testAllHealth sends the result, whatever it is. *)
testAllHealth(t) ==
    /\ health[t] = "testing"
    /\ serverEvents' = Append(serverEvents, Health(t))
    /\ health' = [health EXCEPT ![t] = "sent"]
    /\ UNCHANGED <<emitting, starting, between, updateTimer, pc>>

(* sendSseUpdate: the traffic ... *)
sendRxtx ==
    /\ starting > 0
    /\ serverEvents' = Append(serverEvents, Rxtx)
    /\ starting' = starting - 1
    /\ between' = between + 1
    /\ UNCHANGED <<emitting, health, updateTimer, pc>>

(* ... and the coordinates, once the first send is through. *)
sendCoord ==
    /\ between > Blocked
    /\ serverEvents' = Append(serverEvents, Coord)
    /\ between' = between - 1
    /\ UNCHANGED <<emitting, health, starting, updateTimer, pc>>

-----------------------------------------------------------------------------
Goto(p, l) == pc' = [pc EXCEPT ![p] = l]

(* A client polls. *)
getApiSseHandler(p) ==
    /\ pc[p] = "idle"
    /\ Goto(p, "drain")
    /\ UNCHANGED <<serverEvents, emitting, health, starting, between, updateTimer>>

(* The loop takes an event and prints it, ... *)
receive(p) ==
    /\ pc[p] = "drain"
    /\ serverEvents # <<>>
    /\ LET v == Head(serverEvents) IN
         health' = [t \in Test |-> IF v = Health(t) THEN "printed" ELSE health[t]]
    /\ serverEvents' = Tail(serverEvents)
    /\ UNCHANGED <<emitting, starting, between, updateTimer, pc>>

(* ... and ends when there is none; then the field updateTimer is read. *)
drained(p) ==
    /\ pc[p] = "drain"
    /\ serverEvents = <<>>
    /\ Goto(p, IF updateTimer = {} THEN "create" ELSE "tick")
    /\ UNCHANGED <<serverEvents, emitting, health, starting, between, updateTimer>>

(* The first poll creates the timer; so do others that were as early. *)
create(p) ==
    /\ pc[p] = "create"
    /\ updateTimer' = {"created", "running"}
    /\ Goto(p, "idle")
    /\ UNCHANGED <<serverEvents, emitting, health, starting, between>>

(* Mutant: the tick stays where it is. *)
takeTickKeeps(p) ==
    /\ pc[p] = "tick"
    /\ IF "tick" \in updateTimer
         THEN starting' = starting + 1 /\ Goto(p, "reset")
         ELSE UNCHANGED starting /\ Goto(p, "idle")
    /\ UNCHANGED <<serverEvents, emitting, health, between, updateTimer>>

(* A later one takes the tick, if it is there, and starts an update ... *)
takeTick(p) ==
    /\ pc[p] = "tick"
    /\ IF "tick" \in updateTimer
         THEN /\ updateTimer' = updateTimer \ {"tick"}
              /\ starting' = starting + 1
              /\ Goto(p, "reset")
         ELSE /\ Goto(p, "idle")
              /\ UNCHANGED <<starting, updateTimer>>
    /\ UNCHANGED <<serverEvents, emitting, health, between>>

(* Mutant: the timer is not started again. *)
resetNothing(p) ==
    /\ pc[p] = "reset"
    /\ Goto(p, "idle")
    /\ UNCHANGED <<serverEvents, emitting, health, starting, between, updateTimer>>

(* ... and starts the timer of the field again, perhaps another one by now.
   A tick that is in C stays there. *)
reset(p) ==
    /\ pc[p] = "reset"
    /\ updateTimer' = updateTimer \cup {"running"}
    /\ Goto(p, "idle")
    /\ UNCHANGED <<serverEvents, emitting, health, starting, between>>

(* The five seconds are over.  C has room for one tick. *)
updateTimerFires ==
    /\ "running" \in updateTimer
    /\ starting + between < MaxUpdates
    /\ updateTimer' = {"created", "tick"}
    /\ UNCHANGED <<serverEvents, emitting, health, starting, between, pc>>

-----------------------------------------------------------------------------
(* A poll goes on. *)
Serve(p) == receive(p) \/ drained(p) \/ create(p) \/ takeTick(p) \/ reset(p)

Next ==
    \/ \E h \in Handler : Emit(h) \/ peersChanged(h)
    \/ \E tests \in SUBSET Test \ {{}} : postApiHealthHandler(tests)
    \/ \E t \in Test : testAllHealth(t)
    \/ sendRxtx \/ sendCoord
    \/ \E p \in Poller : getApiSseHandler(p) \/ Serve(p)
    \/ updateTimerFires

Spec == Init /\ [][Next]_vars

(* Goroutines run and timers fire.  No client need ever poll. *)
FairSpec ==
    /\ Spec
    /\ \A h \in Handler : WF_vars(peersChanged(h))
    /\ \A t \in Test : WF_vars(testAllHealth(t))
    /\ WF_vars(sendRxtx) /\ WF_vars(sendCoord)
    /\ \A p \in Poller : WF_vars(Serve(p))
    /\ WF_vars(updateTimerFires)

-----------------------------------------------------------------------------
(* Every variable has its type, and no more updates are under way than ticks
   of the timer allow, whichever polls take them. *)
TypeOK ==
    /\ serverEvents \in Seq({Peers, Rxtx, Coord} \cup {Health(t) : t \in Test})
    /\ emitting \subseteq Handler
    /\ health \in [Test -> {"none", "testing", "sent", "printed"}]
    /\ starting \in Nat /\ between \in Nat
    /\ starting + between + (IF "tick" \in updateTimer THEN 1 ELSE 0) <= MaxUpdates
    /\ updateTimer \subseteq {"created", "running", "tick"}
    /\ pc \in [Poller -> {"idle", "drain", "create", "tick", "reset"}]

Polled == []<><<\E p \in Poller : getApiSseHandler(p)>>_vars

(* The handler of a link is never held up by the REST server: the callback
   returns also when no client polls and the channel is full of the results
   of health tests. *)
HandlerNotHeld == \A h \in Handler : h \in emitting ~> h \notin emitting

(* The result of every health test that was accepted reaches a client that
   keeps polling, though link events fill the channel and updates queue for
   it as well. *)
HealthPrinted == Polled => \A t \in Test : health[t] = "testing" ~> health[t] = "printed"

(* A client that keeps polling gets updates again and again, to their last
   event, whichever polls at the same time create the timer twice, take its
   tick or start it again. *)
UpdatesPrinted ==
    Polled => []<><<\E p \in Poller : receive(p) /\ Head(serverEvents) = Coord>>_vars
=============================================================================
