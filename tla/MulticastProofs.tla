-------------------------- MODULE MulticastProofs --------------------------
(***************************************************************************)
(* Proofs about Multicast for any interfaces, addresses, configured        *)
(* entries and timers.                                                     *)
(***************************************************************************)
EXTENDS Multicast, FiniteSetTheorems, TLAPS

(* Timers and queued announcements together keep the bound, and there are
   none before the start. *)
LoopBound ==
    /\ queued + Cardinality(armed) <= MaxLoops
    /\ mode = "new" => queued = 0 /\ armed = {}

(* The socket is open exactly as long as the module is, and the reader has
   found it closed only if the module will never be open again. *)
SocketFollows ==
    /\ sock <=> mode = "open"
    /\ mode = "new" => reader = "none"
    /\ reader = "error" => mode = "closed"

(* While the module announces, the next announcement is queued or its timer
   runs: neither AnnounceNow, which stops a timer, nor a run without
   interfaces ends the chain. *)
LoopLives == Announcing => queued > 0 \/ armed # {}

IInv == TypeOK /\ LoopBound /\ SocketFollows /\ ReaderEndsQuietly /\ LoopLives

-----------------------------------------------------------------------------
(* Timers *)

LEMMA TimersFinite ==
    ASSUME NEW S \in SUBSET Timer
    PROVE  IsFiniteSet(S) /\ Cardinality(S) \in Nat /\ (Cardinality(S) = 0 <=> S = {})
  BY MulticastAssumption, FS_Subset, FS_CardinalityType, FS_EmptySet

LEMMA TimersGrow ==
    ASSUME NEW S \in SUBSET Timer, NEW t \in Timer \ S
    PROVE  Cardinality(S \cup {t}) = Cardinality(S) + 1
  BY TimersFinite, FS_AddElement

LEMMA TimersShrink ==
    ASSUME NEW S \in SUBSET Timer, NEW t \in S
    PROVE  Cardinality(S \ {t}) = Cardinality(S) - 1
  BY TimersFinite, FS_RemoveElement

-----------------------------------------------------------------------------
(* The announcement *)

(* The first loop leaves listeners, the second one adds listeners on addresses
   of the snapshot, and a beacon raises an interval up to its limit. *)
LEMMA KeptType ==
    ASSUME TypeOK, NEW s, NEW i \in Iface
    PROVE  Kept(s)[i] \in {Absent} \cup Listener
  BY DEF TypeOK, Kept

LEMMA ListenType ==
    ASSUME TypeOK, NEW s \in Snapshots, NEW i \in Iface, NEW x \in Listen(s, Kept(s), i)
    PROVE  x \in {Absent} \cup Listener
<1>1. 0 \in 0..MaxInterval
  BY MulticastAssumption
<1>2. s[i] # Absent => s[i].addrs \in SUBSET Addr
  BY DEF Snapshots
<1>3. CASE s[i] = Absent \/ Kept(s)[i] # Absent
  BY <1>3, KeptType DEF Listen
<1>4. CASE ~(s[i] = Absent \/ Kept(s)[i] # Absent)
  <2>1. x \in {Absent} \cup [addr : s[i].addrs, age : {0}, interval : {0}]
    BY <1>4 DEF Listen
  <2> QED  BY <1>1, <1>2, <1>4, <2>1 DEF Listener
<1> QED  BY <1>3, <1>4

LEMMA SentType ==
    ASSUME NEW s, NEW l, \A i \in Iface : l[i] \in {Absent} \cup Listener
    PROVE  Sent(l, {i \in Iface : Due(s, l, i)}) \in [Iface -> {Absent} \cup Listener]
<1> DEFINE due == {i \in Iface : Due(s, l, i)}
<1> SUFFICES ASSUME NEW i \in Iface PROVE Sent(l, due)[i] \in {Absent} \cup Listener
  BY DEF Sent
<1>1. CASE i \in due /\ l[i].interval < MaxInterval
  <2>1. l[i] \in Listener
    BY <1>1 DEF Due
  <2>2. l[i].interval + 1 \in 0..MaxInterval
    BY <1>1, <2>1, MulticastAssumption DEF Listener
  <2>3. [l[i] EXCEPT !.interval = @ + 1] \in Listener
    BY <2>1, <2>2 DEF Listener
  <2> QED  BY <1>1, <2>3 DEF Sent
<1>2. CASE ~(i \in due /\ l[i].interval < MaxInterval)
  BY <1>2 DEF Sent
<1> QED  BY <1>1, <1>2

LEMMA AnnounceStep ==
    ASSUME IInv, NEW ok, announce(ok)
    PROVE  IInv'
<1>1. CASE mode # "open"
  <2>1. /\ queued' = queued - 1 /\ queued > 0
        /\ UNCHANGED <<mode, os, blocked, sock, reader, ifaces, listeners, timer, armed, beacons>>
    BY <1>1 DEF announce
  <2>2. queued' \in 0..MaxLoops
    BY <2>1, MulticastAssumption DEF IInv, TypeOK
  <2>3. queued' + Cardinality(armed') <= MaxLoops
    BY <2>1, <2>2, TimersFinite, MulticastAssumption DEF IInv, TypeOK, LoopBound
  <2> QED
    BY <1>1, <2>1, <2>2, <2>3
       DEF IInv, TypeOK, LoopBound, SocketFollows, ReaderEndsQuietly, LoopLives, Announcing
<1>2. CASE mode = "open"
  <2>1. /\ ~blocked /\ queued > 0 /\ queued' = queued - 1
        /\ UNCHANGED <<mode, os, blocked, sock, reader>>
    BY DEF announce
  <2>2. PICK s \in Snapshots :
          /\ ifaces' = s
          /\ \E l \in [Iface -> UNION {Listen(s, Kept(s), i) : i \in Iface}] :
              LET due == {i \in Iface : Due(s, l, i)} IN
              /\ \A i \in Iface : l[i] \in Listen(s, Kept(s), i)
              /\ listeners' = Sent(l, due)
              /\ beacons' = due
          /\ startTimer(s)
    BY <1>2 DEF announce
  <2>3. PICK l : /\ \A i \in Iface : l[i] \in Listen(s, Kept(s), i)
                 /\ listeners' = Sent(l, {i \in Iface : Due(s, l, i)})
                 /\ beacons' = {i \in Iface : Due(s, l, i)}
    BY <2>2
  <2>4. PICK t \in Timer \ (armed \cup {timer}) : timer' = t /\ armed' = armed \cup {t}
    BY <2>2 DEF startTimer
  <2>5. listeners' \in [Iface -> {Absent} \cup Listener] /\ beacons' \subseteq Iface
    BY <2>3, ListenType, SentType DEF IInv
  <2>6. ifaces' \in [Iface -> {Absent} \cup [addrs : SUBSET Addr, entry : DOMAIN Config]]
    BY <2>2 DEF Snapshots
  <2>7. Cardinality(armed') = Cardinality(armed) + 1 /\ armed' \in SUBSET Timer
    BY <2>4, TimersGrow DEF IInv, TypeOK
  <2>8. queued' \in 0..MaxLoops /\ queued' + Cardinality(armed') <= MaxLoops
    BY <2>1, <2>7, TimersFinite, MulticastAssumption DEF IInv, TypeOK, LoopBound
  <2>9. TypeOK'
    BY <2>1, <2>4, <2>5, <2>6, <2>7, <2>8 DEF IInv, TypeOK
  <2> QED
    BY <1>2, <2>1, <2>4, <2>8, <2>9
       DEF IInv, LoopBound, SocketFollows, ReaderEndsQuietly, LoopLives
<1> QED  BY <1>1, <1>2

-----------------------------------------------------------------------------
(* The other steps *)

LEMMA InitInv == Init => IInv
<1> SUFFICES ASSUME Init PROVE IInv
  OBVIOUS
<1>1. TypeOK
  <2>1. 0 \in 0..MaxLoops
    BY MulticastAssumption
  <2>2. /\ ifaces \in [Iface -> {Absent} \cup [addrs : SUBSET Addr, entry : DOMAIN Config]]
        /\ listeners \in [Iface -> {Absent} \cup Listener]
    BY DEF Init
  <2> QED  BY <2>1, <2>2 DEF Init, TypeOK
<1>2. LoopBound
  BY TimersFinite, MulticastAssumption DEF Init, LoopBound
<1> QED
  BY <1>1, <1>2 DEF Init, IInv, SocketFollows, ReaderEndsQuietly, LoopLives, Announcing

LEMMA StartStep ==
    ASSUME IInv, start
    PROVE  IInv'
<1>1. queued' \in {0, 1} /\ armed' = {} /\ mode' \in {"open", "closed"}
  BY DEF start, timerVars, IInv, LoopBound
<1>2. LoopBound'
  BY <1>1, TimersFinite, MulticastAssumption DEF LoopBound
<1>3. TypeOK'
  <2>1. queued' \in 0..MaxLoops
    BY <1>1, MulticastAssumption
  <2>2. reader' \in {reader, "read"} /\ sock' \in {sock, TRUE}
    BY DEF start, readerVars
  <2>3. UNCHANGED <<os, ifaces, listeners, timer, blocked, beacons>>
    BY DEF start, osVars
  <2> QED  BY <1>1, <2>1, <2>2, <2>3 DEF IInv, TypeOK
<1> QED
  BY <1>2, <1>3 DEF start, readerVars, IInv, LoopBound, SocketFollows, ReaderEndsQuietly,
                    LoopLives, Announcing

LEMMA OsChangesStep ==
    ASSUME IInv, NEW i \in Iface, osChanges(i)
    PROVE  IInv'
<1>1. TypeOK'
  BY DEF osChanges, timerVars, readerVars, IInv, TypeOK
<1> QED
  BY <1>1 DEF osChanges, timerVars, readerVars, IInv, LoopBound, SocketFollows,
              ReaderEndsQuietly, LoopLives, Announcing

LEMMA SecondStep ==
    ASSUME IInv, second
    PROVE  IInv'
<1>1. \A i \in Iface : listeners'[i] \in {Absent} \cup Listener
  <2> SUFFICES ASSUME NEW i \in Iface PROVE listeners'[i] \in {Absent} \cup Listener
    OBVIOUS
  <2>1. CASE listeners[i] # Absent /\ listeners[i].age < MaxInterval
    <3>1. listeners[i] \in Listener
      BY <2>1 DEF IInv, TypeOK
    <3>2. listeners[i].age + 1 \in 0..MaxInterval
      BY <2>1, <3>1, MulticastAssumption DEF Listener
    <3>3. [listeners[i] EXCEPT !.age = @ + 1] \in Listener
      BY <3>1, <3>2 DEF Listener
    <3> QED  BY <2>1, <3>3 DEF second
  <2>2. CASE ~(listeners[i] # Absent /\ listeners[i].age < MaxInterval)
    BY <2>2 DEF second, IInv, TypeOK
  <2> QED  BY <2>1, <2>2
<1>2. TypeOK'
  <2>1. listeners' \in [Iface -> {Absent} \cup Listener]
    BY <1>1 DEF second
  <2> QED  BY <2>1 DEF second, timerVars, readerVars, IInv, TypeOK
<1> QED
  BY <1>2 DEF second, timerVars, readerVars, IInv, LoopBound, SocketFollows,
              ReaderEndsQuietly, LoopLives, Announcing

LEMMA TimerFiresStep ==
    ASSUME IInv, NEW t \in Timer, timerFires(t)
    PROVE  IInv'
<1>1. /\ armed' \in SUBSET Timer /\ Cardinality(armed') = Cardinality(armed) - 1
      /\ queued' = queued + 1
  BY TimersShrink DEF timerFires, IInv, TypeOK
<1>2. queued' \in 0..MaxLoops /\ queued' + Cardinality(armed') <= MaxLoops
  BY <1>1, TimersFinite, MulticastAssumption DEF IInv, TypeOK, LoopBound
<1>3. TypeOK'
  BY <1>1, <1>2 DEF timerFires, osVars, readerVars, IInv, TypeOK
<1>4. mode # "new"
  BY DEF timerFires, IInv, LoopBound
<1> QED
  BY <1>2, <1>3, <1>4 DEF timerFires, readerVars, IInv, TypeOK, LoopBound, SocketFollows,
                          ReaderEndsQuietly, LoopLives

LEMMA AnnounceNowStep ==
    ASSUME IInv, AnnounceNow
    PROVE  IInv'
<1>1. CASE timer # Nil /\ timer \notin armed
  <2>1. TypeOK'
    BY <1>1 DEF AnnounceNow, osVars, readerVars, IInv, TypeOK
  <2> QED
    BY <1>1, <2>1 DEF AnnounceNow, readerVars, IInv, LoopBound, SocketFollows,
                      ReaderEndsQuietly, LoopLives, Announcing
<1>2. CASE ~(timer # Nil /\ timer \notin armed)
  <2>1. /\ mode # "new" /\ mode' = mode
        /\ queued + Cardinality(armed \ {timer}) < MaxLoops
        /\ armed' = armed \ {timer} /\ queued' = queued + 1
    BY <1>2 DEF AnnounceNow
  <2>2. armed' \in SUBSET Timer
    BY <2>1 DEF IInv, TypeOK
  <2>3. queued' \in 0..MaxLoops /\ queued' + Cardinality(armed') <= MaxLoops
    BY <2>1, <2>2, TimersFinite, MulticastAssumption DEF IInv, TypeOK
  <2>4. TypeOK'
    BY <1>2, <2>2, <2>3 DEF AnnounceNow, osVars, readerVars, IInv, TypeOK
  <2> QED
    BY <1>2, <2>1, <2>3, <2>4 DEF AnnounceNow, readerVars, IInv, TypeOK, LoopBound,
                                  SocketFollows, ReaderEndsQuietly, LoopLives
<1> QED  BY <1>1, <1>2

LEMMA StopStep ==
    ASSUME IInv, Stop
    PROVE  IInv'
<1>1. TypeOK'
  BY DEF Stop, osVars, timerVars, IInv, TypeOK
<1> QED
  BY <1>1 DEF Stop, timerVars, IInv, LoopBound, SocketFollows, ReaderEndsQuietly,
              LoopLives, Announcing

(* ReadFrom fails only on a socket that Stop has closed, and Stop has closed
   the module before: the reader finds it so. *)
LEMMA ReaderStep ==
    ASSUME IInv, receive \/ Reader
    PROVE  IInv'
<1>1. UNCHANGED <<mode, osVars, timerVars, sock, beacons>>
  BY DEF receive, Reader, lookup, readFails, readerEnds
<1>2. reader' \in {"read", "lookup", "error", "done"}
  BY DEF receive, Reader, lookup, readFails, readerEnds, IInv, SocketFollows
<1>3. mode # "new" /\ (reader' = "error" => mode = "closed")
  BY DEF receive, Reader, lookup, readFails, readerEnds, IInv, TypeOK, SocketFollows
<1>4. TypeOK'
  BY <1>1, <1>2 DEF osVars, timerVars, IInv, TypeOK
<1> QED
  BY <1>1, <1>2, <1>3, <1>4 DEF osVars, timerVars, IInv, LoopBound, SocketFollows,
                                ReaderEndsQuietly, LoopLives, Announcing

LEMMA NextInv == IInv /\ [Next]_vars => IInv'
<1> SUFFICES ASSUME IInv, [Next]_vars PROVE IInv'
  OBVIOUS
<1>1. CASE UNCHANGED vars
  <2>1. TypeOK'
    BY <1>1 DEF vars, osVars, timerVars, readerVars, IInv, TypeOK
  <2> QED
    BY <1>1, <2>1 DEF vars, timerVars, readerVars, IInv, LoopBound, SocketFollows,
                      ReaderEndsQuietly, LoopLives, Announcing
<1> QED
  BY <1>1, StartStep, StopStep, AnnounceNowStep, OsChangesStep, AnnounceStep, SecondStep,
     TimerFiresStep, ReaderStep DEF Next

-----------------------------------------------------------------------------
LEMMA Invariance == Spec => []IInv
BY InitInv, NextInv, PTL DEF Spec

(* The interval of a listener stays within its limit, and the announcements
   that are queued within theirs. *)
THEOREM TypeCorrect == Spec => []TypeOK
BY Invariance, PTL DEF IInv

(* The reader never panics because of Stop: wherever Stop overtakes it, the
   module is closed before the reader asks. *)
THEOREM ReaderQuiet == Spec => []ReaderEndsQuietly
BY Invariance, PTL DEF IInv

(* The chain of announcements never breaks while the module is open and its
   actor is not blocked: what BeaconsContinue needs besides fairness. *)
THEOREM ChainUnbroken == Spec => []LoopLives
BY Invariance, PTL DEF IInv

-----------------------------------------------------------------------------
(* Listeners and addresses *)

ListensOn(i, a) == listeners[i] # Absent /\ listeners[i].addr = a

Gone(i, a) == os[i] = Down \/ a \notin os[i]

(* An address that is gone gets no listener, and an announcement, which alone
   takes something from the queue, leaves none there. *)
GoneNotUsed ==
    \A i \in Iface, a \in Addr :
        Gone(i, a) /\ ListensOn(i, a)' => ListensOn(i, a) /\ ~(Announcing /\ queued' < queued)

(* A snapshot has the addresses of the moment, and what is kept or opened
   after it is on one of them. *)
LEMMA ListensOnSnapshot ==
    ASSUME NEW s \in Snapshots, NEW i \in Iface, NEW x \in Listen(s, Kept(s), i), x # Absent
    PROVE  os[i] # Down /\ x.addr \in os[i]
<1>1. s[i] # Absent
  BY DEF Listen, Kept
<1>2. os[i] # Down /\ s[i].addrs = os[i]
  BY <1>1 DEF Snapshots
<1>3. CASE Kept(s)[i] # Absent
  BY <1>1, <1>2, <1>3 DEF Listen, Kept
<1>4. CASE Kept(s)[i] = Absent
  <2>1. x \in [addr : s[i].addrs, age : {0}, interval : {0}]
    BY <1>1, <1>4 DEF Listen
  <2> QED  BY <1>2, <2>1
<1> QED  BY <1>3, <1>4

(* What ListenersFollow needs besides announcements: each of them closes the
   listeners whose interface or address is gone, and no step opens one there. *)
THEOREM ListenersLeave == Spec => [][GoneNotUsed]_vars
<1>1. IInv /\ [Next]_vars => [GoneNotUsed]_vars
  <2> SUFFICES ASSUME IInv, Next, NEW i \in Iface, NEW a \in Addr, Gone(i, a), ListensOn(i, a)'
               PROVE  ListensOn(i, a) /\ ~(Announcing /\ queued' < queued)
    BY DEF GoneNotUsed
  <2>0. queued \in Nat
    BY MulticastAssumption DEF IInv, TypeOK
  <2>1. CASE announce({})
    <3>1. CASE mode # "open"
      BY <2>1, <3>1 DEF announce, ListensOn, Announcing
    <3>2. CASE mode = "open"
      <4>1. PICK s \in Snapshots :
              \E l \in [Iface -> UNION {Listen(s, Kept(s), j) : j \in Iface}] :
                /\ l[i] \in Listen(s, Kept(s), i)
                /\ listeners' = Sent(l, {j \in Iface : Due(s, l, j)})
        BY <2>1, <3>2 DEF announce
      <4>2. PICK l :
              /\ l[i] \in Listen(s, Kept(s), i)
              /\ listeners' = Sent(l, {j \in Iface : Due(s, l, j)})
        BY <4>1
      <4>3. l[i] # Absent /\ l[i].addr = a
        BY <4>2 DEF Sent, ListensOn, Due
      <4> QED  BY <4>2, <4>3, ListensOnSnapshot DEF Gone
    <3> QED  BY <3>1, <3>2
  <2>2. CASE second
    <3>1. queued' = queued
      BY <2>2 DEF second, timerVars
    <3>2. ListensOn(i, a)
      BY <2>2 DEF second, ListensOn, IInv, TypeOK, Listener
    <3> QED  BY <3>1, <3>2, <2>0
  <2>3. CASE start \/ Stop \/ AnnounceNow \/ (\E j \in Iface : osChanges(j))
             \/ (\E t \in Timer : timerFires(t)) \/ receive \/ Reader
    <3>1. listeners' = listeners
      BY <2>3 DEF start, Stop, AnnounceNow, osChanges, timerFires, receive, Reader, lookup,
                  readFails, readerEnds, osVars
    <3>2. queued' = queued \/ queued' = queued + 1
      BY <2>3 DEF start, Stop, AnnounceNow, osChanges, timerFires, receive, Reader, lookup,
                  readFails, readerEnds, timerVars
    <3> QED  BY <3>1, <3>2, <2>0 DEF ListensOn
  <2> QED  BY <2>1, <2>2, <2>3 DEF Next
<1> QED  BY <1>1, Invariance, PTL DEF Spec
=============================================================================
