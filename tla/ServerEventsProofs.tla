------------------------- MODULE ServerEventsProofs -------------------------
(***************************************************************************)
(* Proofs about ServerEvents for any capacity of the channel and any       *)
(* number of handlers, tests, polls and updates.                           *)
(***************************************************************************)
EXTENDS ServerEvents, FiniteSetTheorems, TLAPS

Event == {Peers, Rxtx, Coord} \cup {Health(t) : t \in Test}

(* The result of a test that has been sent and not printed is in the channel,
   or with a goroutine that waits for room in it, and it is there once. *)
ResultsKept ==
    \A t \in Test :
        /\ health[t] = "sent" <=> \E n \in DOMAIN serverEvents : serverEvents[n] = Health(t)
        /\ \A m, n \in DOMAIN serverEvents :
             serverEvents[m] = Health(t) /\ serverEvents[n] = Health(t) => m = n

(* Once there is an update timer it runs, its tick waits in C, or the poll that
   took the tick is about to start it again: only a poll that has found a timer
   gets so far, and none takes the timer away. *)
TimerKept ==
    /\ updateTimer # {} => "created" \in updateTimer
    /\ \A p \in Poller : pc[p] \in {"tick", "reset"} => updateTimer # {}
    /\ updateTimer # {} =>
         \/ "running" \in updateTimer \/ "tick" \in updateTimer
         \/ \E p \in Poller : pc[p] = "reset"

(* TypeOK, with a name for the events. *)
Types ==
    /\ serverEvents \in Seq(Event)
    /\ emitting \subseteq Handler
    /\ health \in [Test -> {"none", "testing", "sent", "printed"}]
    /\ starting \in Nat /\ between \in Nat
    /\ starting + between + (IF "tick" \in updateTimer THEN 1 ELSE 0) <= MaxUpdates
    /\ updateTimer \subseteq {"created", "running", "tick"}
    /\ pc \in [Poller -> {"idle", "drain", "create", "tick", "reset"}]

IInv == Types /\ ResultsKept /\ TimerKept

-----------------------------------------------------------------------------
(* The channel *)

(* Results differ from the other events and from each other. *)
LEMMA EventsDiffer ==
    /\ \A t \in Test : Health(t) \notin {Peers, Rxtx, Coord}
    /\ \A t, u \in Test : Health(t) = Health(u) => t = u
<1>1. ASSUME NEW t \in Test PROVE Health(t) \notin {Peers, Rxtx, Coord}
  <2>1. Health(t).event = "health"
    BY DEF Health
  <2>2. Peers.event # "health" /\ Rxtx.event # "health" /\ Coord.event # "health"
    BY DEF Peers, Rxtx, Coord
  <2> QED  BY <2>1, <2>2
<1>2. ASSUME NEW t \in Test, NEW u \in Test, Health(t) = Health(u) PROVE t = u
  <2>1. Health(t).peer = t /\ Health(u).peer = u
    BY DEF Health
  <2> QED  BY <1>2, <2>1
<1> QED  BY <1>1, <1>2

LEMMA Appended ==
    ASSUME serverEvents \in Seq(Event), NEW v \in Event,
           serverEvents' = Append(serverEvents, v)
    PROVE  /\ serverEvents' \in Seq(Event)
           /\ DOMAIN serverEvents' = DOMAIN serverEvents \cup {Len(serverEvents) + 1}
           /\ Len(serverEvents) + 1 \notin DOMAIN serverEvents
           /\ \A n \in DOMAIN serverEvents : serverEvents'[n] = serverEvents[n]
           /\ serverEvents'[Len(serverEvents) + 1] = v
<1>1. Len(serverEvents) \in Nat /\ DOMAIN serverEvents = 1..Len(serverEvents)
  OBVIOUS
<1>2. serverEvents' \in Seq(Event) /\ Len(serverEvents') = Len(serverEvents) + 1
  OBVIOUS
<1>3. DOMAIN serverEvents' = 1..(Len(serverEvents) + 1)
  BY <1>2
<1>4. 1..(Len(serverEvents) + 1) = (1..Len(serverEvents)) \cup {Len(serverEvents) + 1}
  BY <1>1
<1> QED  BY <1>1, <1>2, <1>3, <1>4

LEMMA Received ==
    ASSUME serverEvents \in Seq(Event), serverEvents # <<>>,
           serverEvents' = Tail(serverEvents)
    PROVE  /\ serverEvents' \in Seq(Event) /\ 1 \in DOMAIN serverEvents
           /\ Head(serverEvents) = serverEvents[1] /\ serverEvents[1] \in Event
           /\ \A n : n \in DOMAIN serverEvents' <=> n \in Int /\ n > 0 /\ n + 1 \in DOMAIN serverEvents
           /\ \A n \in DOMAIN serverEvents' : serverEvents'[n] = serverEvents[n + 1]
<1>1. Len(serverEvents) \in Nat \ {0} /\ DOMAIN serverEvents = 1..Len(serverEvents)
  OBVIOUS
<1>2. /\ serverEvents' \in Seq(Event) /\ Len(serverEvents') = Len(serverEvents) - 1
      /\ DOMAIN serverEvents' = 1..(Len(serverEvents) - 1)
  BY <1>1
<1>3. \A n \in DOMAIN serverEvents' : serverEvents'[n] = serverEvents[n + 1]
  BY <1>1, <1>2
<1> QED  BY <1>1, <1>2, <1>3

LEMMA BlockedType ==
    ASSUME serverEvents \in Seq(Event) PROVE Blocked \in Nat
<1> DEFINE S == {n \in DOMAIN serverEvents : n > Capacity /\ serverEvents[n] = Rxtx}
<1>1. IsFiniteSet(1..Len(serverEvents))
  BY FS_Interval
<1>2. S \subseteq 1..Len(serverEvents)
  OBVIOUS
<1>3. IsFiniteSet(S)
  BY <1>1, <1>2, FS_Subset
<1> QED  BY <1>3, FS_CardinalityType DEF Blocked

(* An event that is no result changes nothing for the results. *)
LEMMA OtherEventKeeps ==
    ASSUME serverEvents \in Seq(Event), ResultsKept, NEW v \in {Peers, Rxtx, Coord},
           serverEvents' = Append(serverEvents, v), UNCHANGED health
    PROVE  ResultsKept'
<1>1. v \in Event /\ \A t \in Test : v # Health(t)
  BY EventsDiffer DEF Event
<1>2. /\ DOMAIN serverEvents' = DOMAIN serverEvents \cup {Len(serverEvents) + 1}
      /\ \A n \in DOMAIN serverEvents : serverEvents'[n] = serverEvents[n]
      /\ serverEvents'[Len(serverEvents) + 1] = v
  BY <1>1, Appended
<1>3. ASSUME NEW t \in Test, NEW n \in DOMAIN serverEvents', serverEvents'[n] = Health(t)
      PROVE  n \in DOMAIN serverEvents /\ serverEvents[n] = Health(t)
  BY <1>1, <1>2, <1>3
<1> QED  BY <1>2, <1>3 DEF ResultsKept

(* Nothing that ResultsKept speaks of changes. *)
LEMMA SameResults ==
    ASSUME ResultsKept, UNCHANGED <<serverEvents, health>> PROVE ResultsKept'
  BY DEF ResultsKept

LEMMA SameTimer ==
    ASSUME TimerKept, UNCHANGED <<updateTimer, pc>> PROVE TimerKept'
  BY DEF TimerKept

-----------------------------------------------------------------------------
(* The senders *)

LEMMA InitInv == Init => IInv
<1> SUFFICES ASSUME Init PROVE IInv
  OBVIOUS
<1>1. Types
  <2>1. serverEvents \in Seq(Event)
    BY DEF Init
  <2> QED  BY <2>1, ServerEventsAssumption DEF Init, Types
<1>2. ResultsKept
  <2>1. DOMAIN serverEvents = {}
    BY DEF Init
  <2> QED  BY <2>1 DEF Init, ResultsKept
<1> QED  BY <1>1, <1>2 DEF Init, IInv, TimerKept

LEMMA HandlerSteps ==
    ASSUME IInv, NEW h \in Handler, Emit(h) \/ peersChanged(h)
    PROVE  IInv'
<1> USE DEF IInv, Types
<1>1. CASE Emit(h)
  BY <1>1, SameResults, SameTimer DEF Emit
<1>2. CASE peersChanged(h)
  <2>1. Peers \in Event
    BY DEF Event
  <2>2. TimerKept'
    BY <1>2, SameTimer DEF peersChanged
  <2>3. serverEvents' \in Seq(Event) /\ ResultsKept'
    <3>1. CASE Full
      BY <1>2, <3>1, SameResults DEF peersChanged
    <3>2. CASE ~Full
      <4>1. serverEvents' = Append(serverEvents, Peers) /\ UNCHANGED health
        BY <1>2, <3>2 DEF peersChanged
      <4> QED  BY <2>1, <4>1, Appended, OtherEventKeeps
    <3> QED  BY <3>1, <3>2
  <2> QED  BY <1>2, <2>2, <2>3 DEF peersChanged
<1> QED  BY <1>1, <1>2

LEMMA TestSteps ==
    ASSUME IInv,
           \/ \E tests \in SUBSET Test : postApiHealthHandler(tests)
           \/ \E t \in Test : testAllHealth(t)
    PROVE  IInv'
<1> USE DEF IInv, Types
<1>1. ASSUME NEW tests \in SUBSET Test, postApiHealthHandler(tests) PROVE IInv'
  <2>1. TimerKept'
    BY <1>1, SameTimer DEF postApiHealthHandler
  <2>2. health' \in [Test -> {"none", "testing", "sent", "printed"}]
    BY <1>1 DEF postApiHealthHandler
  <2>3. \A t \in Test : health'[t] = "sent" <=> health[t] = "sent"
    BY <1>1 DEF postApiHealthHandler
  <2>4. ResultsKept'
    BY <1>1, <2>3 DEF postApiHealthHandler, ResultsKept
  <2> QED  BY <1>1, <2>1, <2>2, <2>4 DEF postApiHealthHandler
<1>2. ASSUME NEW u \in Test, testAllHealth(u) PROVE IInv'
  <2> DEFINE last == Len(serverEvents) + 1
  <2>1. Health(u) \in Event /\ serverEvents' = Append(serverEvents, Health(u))
    BY <1>2 DEF testAllHealth, Event
  <2>2. /\ serverEvents' \in Seq(Event)
        /\ DOMAIN serverEvents' = DOMAIN serverEvents \cup {last}
        /\ last \notin DOMAIN serverEvents
        /\ \A n \in DOMAIN serverEvents : serverEvents'[n] = serverEvents[n]
        /\ serverEvents'[last] = Health(u)
    BY <2>1, Appended
  <2>3. TimerKept'
    BY <1>2, SameTimer DEF testAllHealth
  <2>4. health' = [health EXCEPT ![u] = "sent"] /\ health[u] = "testing"
    BY <1>2 DEF testAllHealth
  <2>5. \A n \in DOMAIN serverEvents : serverEvents[n] # Health(u)
    BY <2>4 DEF ResultsKept
  <2>6. ASSUME NEW t \in Test
        PROVE  /\ health'[t] = "sent" <=>
                    \E n \in DOMAIN serverEvents' : serverEvents'[n] = Health(t)
               /\ \A m, n \in DOMAIN serverEvents' :
                    serverEvents'[m] = Health(t) /\ serverEvents'[n] = Health(t) => m = n
    <3>1. CASE t = u
      BY <2>2, <2>4, <2>5, <3>1
    <3>2. CASE t # u
      <4>1. Health(t) # Health(u) /\ health'[t] = health[t]
        BY <2>4, <3>2, EventsDiffer
      <4>2. ASSUME NEW n \in DOMAIN serverEvents', serverEvents'[n] = Health(t)
            PROVE  n \in DOMAIN serverEvents /\ serverEvents[n] = Health(t)
        BY <2>2, <4>1, <4>2
      <4> QED  BY <2>2, <4>1, <4>2 DEF ResultsKept
    <3> QED  BY <3>1, <3>2
  <2>7. ResultsKept'
    BY <2>6 DEF ResultsKept
  <2> QED  BY <1>2, <2>2, <2>3, <2>4, <2>7 DEF testAllHealth
<1> QED  BY <1>1, <1>2

(* What fits beside k under a bound still fits when it becomes less. *)
LEMMA FewerFit ==
    /\ \A m, n \in Nat : m + n \in Nat
    /\ \A m, n, k, bound \in Nat : m <= n /\ n + k <= bound => m + k <= bound
  OBVIOUS

(* An update is counted from the tick that starts it to its last event. *)
LEMMA UpdateSteps ==
    ASSUME IInv, sendRxtx \/ sendCoord
    PROVE  IInv'
<1> USE DEF IInv, Types
<1>1. PICK v \in {Rxtx, Coord} : serverEvents' = Append(serverEvents, v)
  BY DEF sendRxtx, sendCoord
<1>2. serverEvents' \in Seq(Event) /\ ResultsKept'
  <2>1. v \in Event
    BY DEF Event
  <2> QED  BY <1>1, <2>1, Appended, OtherEventKeeps DEF sendRxtx, sendCoord
<1>3. TimerKept'
  BY SameTimer DEF sendRxtx, sendCoord
<1>4. /\ starting' \in Nat /\ between' \in Nat
      /\ starting' + between' <= starting + between
  BY BlockedType DEF sendRxtx, sendCoord
<1>5. starting' + between' + (IF "tick" \in updateTimer' THEN 1 ELSE 0) <= MaxUpdates
  <2>1. updateTimer' = updateTimer
    BY DEF sendRxtx, sendCoord
  <2>2. /\ starting \in Nat /\ between \in Nat /\ MaxUpdates \in Nat
        /\ (IF "tick" \in updateTimer THEN 1 ELSE 0) \in Nat
    BY ServerEventsAssumption
  <2>3. starting' + between' \in Nat /\ starting + between \in Nat
    BY <1>4, <2>2, FewerFit
  <2>4. starting' + between' <= starting + between
    BY <1>4
  <2>5. starting + between + (IF "tick" \in updateTimer THEN 1 ELSE 0) <= MaxUpdates
    OBVIOUS
  <2>6. starting' + between' + (IF "tick" \in updateTimer THEN 1 ELSE 0) <= MaxUpdates
    BY <2>2, <2>3, <2>4, <2>5, FewerFit
  <2> QED  BY <2>1, <2>6
<1>6. UNCHANGED <<emitting, health, updateTimer, pc>>
  BY DEF sendRxtx, sendCoord
<1> QED  BY <1>2, <1>3, <1>4, <1>5, <1>6

-----------------------------------------------------------------------------
(* The polls *)

(* The first result goes, and with it the only one of its test. *)
LEMMA ReceiveStep ==
    ASSUME IInv, NEW p \in Poller, receive(p)
    PROVE  IInv'
<1> USE DEF IInv, Types
<1> DEFINE v == Head(serverEvents)
<1>1. /\ serverEvents # <<>> /\ serverEvents' = Tail(serverEvents)
      /\ health' = [t \in Test |-> IF v = Health(t) THEN "printed" ELSE health[t]]
      /\ UNCHANGED <<emitting, starting, between, updateTimer, pc>>
  BY DEF receive
<1>2. /\ serverEvents' \in Seq(Event) /\ 1 \in DOMAIN serverEvents
      /\ v = serverEvents[1]
      /\ \A n : n \in DOMAIN serverEvents' <=> n \in Int /\ n > 0 /\ n + 1 \in DOMAIN serverEvents
      /\ \A n \in DOMAIN serverEvents' : serverEvents'[n] = serverEvents[n + 1]
  BY <1>1, Received
<1>3. \A m \in DOMAIN serverEvents : m \in Int /\ m > 0
  OBVIOUS
<1>4. ASSUME NEW t \in Test
      PROVE  /\ health'[t] = "sent" <=>
                  \E n \in DOMAIN serverEvents' : serverEvents'[n] = Health(t)
             /\ \A m, n \in DOMAIN serverEvents' :
                  serverEvents'[m] = Health(t) /\ serverEvents'[n] = Health(t) => m = n
  <2>1. \A m, n \in DOMAIN serverEvents' :
          serverEvents'[m] = Health(t) /\ serverEvents'[n] = Health(t) => m = n
    <3> SUFFICES ASSUME NEW m \in DOMAIN serverEvents', NEW n \in DOMAIN serverEvents',
                        serverEvents'[m] = Health(t), serverEvents'[n] = Health(t)
                 PROVE  m = n
      OBVIOUS
    <3>1. m + 1 = n + 1
      BY <1>2 DEF ResultsKept
    <3> QED  BY <1>2, <3>1
  <2>2. CASE v = Health(t)
    <3>1. health'[t] = "printed"
      BY <1>1, <2>2
    <3>2. ASSUME NEW n \in DOMAIN serverEvents', serverEvents'[n] = Health(t) PROVE FALSE
      <4>1. n + 1 = 1
        BY <1>2, <2>2, <3>2 DEF ResultsKept
      <4> QED  BY <1>2, <4>1
    <3> QED  BY <2>1, <3>1, <3>2
  <2>3. CASE v # Health(t)
    <3>1. health'[t] = health[t]
      BY <1>1, <2>3
    <3>2. ASSUME NEW m \in DOMAIN serverEvents, serverEvents[m] = Health(t)
          PROVE  \E n \in DOMAIN serverEvents' : serverEvents'[n] = Health(t)
      <4>1. m # 1 /\ m \in Int /\ m > 0
        BY <1>2, <1>3, <2>3, <3>2
      <4>2. m - 1 \in DOMAIN serverEvents'
        BY <1>2, <4>1
      <4>3. serverEvents'[m - 1] = serverEvents[m]
        BY <1>2, <4>1, <4>2
      <4> QED  BY <3>2, <4>2, <4>3
    <3>3. ASSUME NEW n \in DOMAIN serverEvents', serverEvents'[n] = Health(t)
          PROVE  \E m \in DOMAIN serverEvents : serverEvents[m] = Health(t)
      BY <1>2, <3>3
    <3> QED  BY <2>1, <3>1, <3>2, <3>3 DEF ResultsKept
  <2> QED  BY <2>2, <2>3
<1>5. ResultsKept'
  BY <1>4 DEF ResultsKept
<1>6. health' \in [Test -> {"none", "testing", "sent", "printed"}]
  BY <1>1
<1>7. TimerKept'
  BY <1>1, SameTimer
<1> QED  BY <1>1, <1>2, <1>5, <1>6, <1>7

LEMMA TimerSteps ==
    ASSUME IInv, NEW p \in Poller,
           getApiSseHandler(p) \/ drained(p) \/ create(p) \/ takeTick(p) \/ reset(p)
    PROVE  IInv'
<1> USE DEF IInv, Types
<1>1. UNCHANGED <<serverEvents, emitting, health, between>> /\ ResultsKept'
  BY SameResults DEF getApiSseHandler, drained, create, takeTick, reset
<1>2. CASE getApiSseHandler(p)
  BY <1>1, <1>2 DEF getApiSseHandler, Goto, TimerKept
<1>3. CASE drained(p)
  BY <1>1, <1>3 DEF drained, Goto, TimerKept
<1>4. CASE create(p)
  <2>1. updateTimer' = {"created", "running"} /\ starting' = starting
    BY <1>4 DEF create
  <2>2. pc' = [pc EXCEPT ![p] = "idle"]
    BY <1>4 DEF create, Goto
  <2>3. TimerKept'
    BY <2>1, <2>2 DEF TimerKept
  <2>4. starting' + between' + (IF "tick" \in updateTimer' THEN 1 ELSE 0) <= MaxUpdates
    <3>1. MaxUpdates \in Nat /\ starting + between <= MaxUpdates
      BY ServerEventsAssumption
    <3> QED  BY <1>1, <2>1, <3>1
  <2> QED  BY <1>1, <2>1, <2>2, <2>3, <2>4
<1>5. CASE takeTick(p)
  <2>1. CASE "tick" \in updateTimer
    <3>1. /\ updateTimer' = updateTimer \ {"tick"} /\ starting' = starting + 1
          /\ pc' = [pc EXCEPT ![p] = "reset"]
      BY <1>5, <2>1 DEF takeTick, Goto
    <3>2. TimerKept'
      BY <2>1, <3>1 DEF TimerKept
    <3> QED  BY <1>1, <2>1, <3>1, <3>2
  <2>2. CASE "tick" \notin updateTimer
    BY <1>1, <1>5, <2>2 DEF takeTick, Goto, TimerKept
  <2> QED  BY <2>1, <2>2
<1>6. CASE reset(p)
  BY <1>1, <1>6 DEF reset, Goto, TimerKept
<1> QED  BY <1>2, <1>3, <1>4, <1>5, <1>6

LEMMA TimerFiresStep ==
    ASSUME IInv, updateTimerFires
    PROVE  IInv'
<1> USE DEF IInv, Types
<1>1. UNCHANGED <<serverEvents, emitting, health, starting, between, pc>> /\ ResultsKept'
  BY SameResults DEF updateTimerFires
<1>2. updateTimer' = {"created", "tick"} /\ starting + between < MaxUpdates
  BY DEF updateTimerFires
<1>3. TimerKept'
  BY <1>1, <1>2 DEF TimerKept
<1>4. starting' + between' + (IF "tick" \in updateTimer' THEN 1 ELSE 0) <= MaxUpdates
  BY <1>1, <1>2, ServerEventsAssumption
<1> QED  BY <1>1, <1>2, <1>3, <1>4

LEMMA NextInv == IInv /\ [Next]_vars => IInv'
<1> SUFFICES ASSUME IInv, [Next]_vars PROVE IInv'
  OBVIOUS
<1>1. CASE UNCHANGED vars
  BY <1>1, SameResults, SameTimer DEF vars, IInv, Types
<1> QED
  BY <1>1, HandlerSteps, TestSteps, UpdateSteps, ReceiveStep, TimerSteps, TimerFiresStep
     DEF Next, Serve

-----------------------------------------------------------------------------
LEMMA Invariance == Spec => []IInv
BY InitInv, NextInv, PTL DEF Spec

(* No more updates are under way than ticks of the timer allow, and the events
   are those the server knows, for any number of polls and of tests. *)
THEOREM TypeCorrect == Spec => []TypeOK
<1>1. IInv => TypeOK
  BY DEF IInv, Types, TypeOK, Event
<1> QED  BY <1>1, Invariance, PTL

(* The result of a health test is never lost, however full the channel is,
   and is printed once: what HealthPrinted needs besides fairness. *)
THEOREM NoResultLost == Spec => []ResultsKept
BY Invariance, PTL DEF IInv

(* The update timer is never lost, however many polls race for its field:
   what UpdatesPrinted needs besides fairness. *)
THEOREM TimerNeverLost == Spec => []TimerKept
BY Invariance, PTL DEF IInv
=============================================================================
