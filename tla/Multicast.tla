----------------------------- MODULE Multicast -----------------------------
(***************************************************************************)
(* Peer discovery on the local network (src/src/multicast/multicast.go).   *)
(* The multicast actor announces every second: it takes a snapshot of the  *)
(* interfaces, closes the listeners whose interface or address is gone,    *)
(* opens missing ones and sends beacons.  A reader goroutine receives the  *)
(* beacons of others.  Listener.Close is in Listeners, CallPeer in Links.  *)
(*                                                                         *)
(* As in PeerLoop, the field C of an AfterFunc timer is nil and a receive  *)
(* from it never returns; here the receive is on the actor.                *)
(***************************************************************************)
EXTENDS Integers, FiniteSets

CONSTANTS
    Iface,       \* interfaces of the machine
    Addr,        \* their link-local IPv6 addresses
    Config,      \* the configured entries in their order: records match, beacon, listen
    MaxInterval, \* longest beacon interval: 15 seconds
    Timer,       \* identities of timers
    MaxLoops,    \* bound on timers and queued announcements together
    Down,        \* an interface that is not there, or not up
    Absent, Nil

ASSUME MulticastAssumption ==
    /\ IsFiniteSet(Timer) /\ Nil \notin Timer
    /\ \A n \in DOMAIN Config : Config[n].match \subseteq Iface
    /\ \A n \in DOMAIN Config : Config[n].beacon \in BOOLEAN /\ Config[n].listen \in BOOLEAN
    /\ MaxInterval \in Nat \ {0} /\ MaxLoops \in Nat \ {0}

VARIABLES
    mode,      \* "new", "open" (_isOpen) or "closed"
    os,        \* what the operating system reports: Down or a set of addresses
    ifaces,    \* m._interfaces: the addresses and the number of the entry used
    listeners, \* m._listeners: address, age and interval in seconds
    timer,     \* m._timer
    armed,     \* timers that are running
    queued,    \* announcements in the inbox of the actor
    blocked,   \* the actor waits in AnnounceNow
    sock,      \* the socket for beacons is open
    reader,    \* where the reader goroutine is
    beacons    \* interfaces the last announcement sent a beacon on

osVars == <<os, ifaces, listeners>>
timerVars == <<timer, armed, queued, blocked>>
readerVars == <<sock, reader>>
vars == <<mode, osVars, timerVars, readerVars, beacons>>

(* The entries that apply to an interface: an entry without beacon and
   listen is skipped. *)
Matching(i) ==
    {n \in DOMAIN Config : i \in Config[n].match /\ (Config[n].beacon \/ Config[n].listen)}

Init ==
    /\ mode = "new"
    /\ os \in [Iface -> {Down} \cup SUBSET Addr]
    /\ ifaces = [i \in Iface |-> Absent]
    /\ listeners = [i \in Iface |-> Absent]
    /\ timer = Nil /\ armed = {} /\ queued = 0 /\ blocked = FALSE
    /\ sock = FALSE /\ reader = "none"
    /\ beacons = {}

(* _start: nothing to do if no entry is enabled; the socket may fail to open. *)
start ==
    /\ mode = "new"
    /\ \/ /\ \E n \in DOMAIN Config : Config[n].beacon \/ Config[n].listen
          /\ mode' = "open" /\ sock' = TRUE /\ reader' = "read" /\ queued' = queued + 1
       \/ mode' = "closed" /\ UNCHANGED <<readerVars, queued>>
    /\ UNCHANGED <<osVars, timer, armed, blocked, beacons>>

(* An interface appears, disappears or changes its addresses. *)
osChanges(i) ==
    /\ \E x \in {Down} \cup SUBSET Addr : x # os[i] /\ os' = [os EXCEPT ![i] = x]
    /\ UNCHANGED <<mode, ifaces, listeners, timerVars, readerVars, beacons>>

-----------------------------------------------------------------------------
(* The announcement *)

(* _updateInterfaces and _getAllowedInterfaces: each interface that is up
   uses an entry that matches.  The entries are the keys of a Go map, so any
   of them may come first. *)
Snapshots ==
    {s \in [Iface -> {Absent} \cup [addrs : SUBSET Addr, entry : DOMAIN Config]] :
        \A i \in Iface :
            IF os[i] = Down \/ Matching(i) = {} THEN s[i] = Absent
            ELSE s[i] # Absent /\ s[i].addrs = os[i] /\ s[i].entry \in Matching(i)}

(* Mutant: a listener is kept whatever the addresses are. *)
KeptAnyAddress(s) ==
    [i \in Iface |-> IF s[i] # Absent THEN listeners[i] ELSE Absent]

(* The first loop keeps a listener if its interface is in the snapshot with
   the address it listens on. *)
Kept(s) ==
    [i \in Iface |->
        IF listeners[i] # Absent /\ s[i] # Absent /\ listeners[i].addr \in s[i].addrs
          THEN listeners[i] ELSE Absent]

(* The second loop considers the addresses of i; an entry with beacon finds
   the listener or opens one on the first address where Listen succeeds. *)
Listen(s, kept, i) ==
    IF s[i] = Absent \/ kept[i] # Absent THEN {kept[i]}
    ELSE IF ~Config[s[i].entry].beacon THEN {Absent}
    ELSE {Absent} \cup [addr : s[i].addrs, age : {0}, interval : {0}]

(* A beacon is due on i. *)
Due(s, l, i) ==
    /\ s[i] # Absent /\ l[i] # Absent
    /\ Config[s[i].entry].beacon
    /\ l[i].age >= l[i].interval

(* Mutant: the interval has no limit. *)
SentNoLimit(l, due) ==
    [i \in Iface |-> IF i \in due THEN [l[i] EXCEPT !.interval = @ + 1] ELSE l[i]]

(* Sending a beacon makes the interval longer. *)
Sent(l, due) ==
    [i \in Iface |->
        IF i \in due /\ l[i].interval < MaxInterval
          THEN [l[i] EXCEPT !.interval = @ + 1] ELSE l[i]]

(* Mutant: no timer is started if there is no interface to announce on. *)
startTimerIfAny(s) ==
    \E t \in Timer \ (armed \cup {timer}) :
        /\ timer' = t
        /\ armed' = IF \A i \in Iface : s[i] = Absent THEN armed ELSE armed \cup {t}

(* The next announcement is due in a second. *)
startTimer(s) ==
    \E t \in Timer \ (armed \cup {timer}) : timer' = t /\ armed' = armed \cup {t}

(* _announce, with Listen succeeding on the interfaces of ok. *)
announce(ok) ==
    /\ ~blocked /\ queued > 0
    /\ queued' = queued - 1
    /\ IF mode # "open"
         THEN UNCHANGED <<ifaces, listeners, timer, armed, beacons>>
         ELSE \E s \in Snapshots :
                /\ ifaces' = s
                /\ \E l \in [Iface -> UNION {Listen(s, Kept(s), i) : i \in Iface}] :
                    LET due == {i \in Iface : Due(s, l, i)} IN
                    /\ \A i \in Iface : l[i] \in Listen(s, Kept(s), i)
                    /\ \A i \in ok : l[i] = Absent => Listen(s, Kept(s), i) = {Absent}
                    /\ listeners' = Sent(l, due)
                    /\ beacons' = due
                /\ startTimer(s)
    /\ UNCHANGED <<mode, os, blocked, sock, reader>>

(* Time passes for the listeners. *)
second ==
    /\ \E i \in Iface : listeners[i] # Absent /\ listeners[i].age < MaxInterval
    /\ listeners' = [i \in Iface |->
         IF listeners[i] # Absent /\ listeners[i].age < MaxInterval
           THEN [listeners[i] EXCEPT !.age = @ + 1] ELSE listeners[i]]
    /\ UNCHANGED <<mode, os, ifaces, timerVars, readerVars, beacons>>

timerFires(t) ==
    /\ t \in armed
    /\ armed' = armed \ {t}
    /\ queued' = queued + 1
    /\ UNCHANGED <<mode, osVars, timer, blocked, readerVars, beacons>>

(* A timer that is not running any more sends the actor to the receive. *)
AnnounceNow ==
    /\ ~blocked /\ mode # "new"
    /\ IF timer # Nil /\ timer \notin armed
         THEN blocked' = TRUE /\ UNCHANGED <<armed, queued>>
         ELSE /\ queued + Cardinality(armed \ {timer}) < MaxLoops
              /\ armed' = armed \ {timer}
              /\ queued' = queued + 1
              /\ UNCHANGED blocked
    /\ UNCHANGED <<mode, osVars, timer, readerVars, beacons>>

(* Mutant: the module stays open. *)
StopStaysOpen ==
    /\ ~blocked /\ mode = "open" /\ sock
    /\ sock' = FALSE
    /\ UNCHANGED <<mode, osVars, timerVars, reader, beacons>>

(* Mutant: the socket is not closed. *)
StopKeepsSocket ==
    /\ ~blocked /\ mode = "open"
    /\ mode' = "closed"
    /\ UNCHANGED <<osVars, timerVars, readerVars, beacons>>

(* _stop closes the module and the socket.  The listeners stay. *)
Stop ==
    /\ ~blocked /\ mode = "open"
    /\ mode' = "closed"
    /\ sock' = FALSE
    /\ UNCHANGED <<osVars, timerVars, reader, beacons>>

-----------------------------------------------------------------------------
(* The reader *)

(* A beacon of another node passes the checks of its contents. *)
receive ==
    /\ reader = "read"
    /\ sock
    /\ reader' = "lookup"
    /\ UNCHANGED <<mode, osVars, timerVars, sock, beacons>>

(* The interfaces are fetched from the actor; if the beacon's is among them
   and its entry says listen, the node is called. *)
lookup ==
    /\ reader = "lookup"
    /\ ~blocked
    /\ reader' = "read"
    /\ UNCHANGED <<mode, osVars, timerVars, sock, beacons>>

(* ReadFrom fails on the closed socket. *)
readFails ==
    /\ reader = "read"
    /\ ~sock
    /\ reader' = "error"
    /\ UNCHANGED <<mode, osVars, timerVars, sock, beacons>>

(* IsStarted, on the actor. *)
readerEnds ==
    /\ reader = "error"
    /\ ~blocked
    /\ reader' = IF mode = "open" THEN "panic" ELSE "done"
    /\ UNCHANGED <<mode, osVars, timerVars, sock, beacons>>

Reader == lookup \/ readFails \/ readerEnds

Next ==
    \/ start \/ Stop \/ AnnounceNow
    \/ \E i \in Iface : osChanges(i)
    \/ announce({}) \/ second
    \/ \E t \in Timer : timerFires(t)
    \/ receive \/ Reader

Spec == Init /\ [][Next]_vars

(* The actor runs its inbox, timers fire, the reader is scheduled, and an
   interface that Listen is tried on again and again gets its listener. *)
FairSpec ==
    /\ Spec
    /\ WF_vars(announce({})) /\ WF_vars(second) /\ WF_vars(Reader)
    /\ \A t \in Timer : WF_vars(timerFires(t))
    /\ \A i \in Iface : SF_vars(announce({i}))
-----------------------------------------------------------------------------
Listener == [addr : Addr, age : 0..MaxInterval, interval : 0..MaxInterval]

(* Every variable has its type: the interval of a listener stays within its
   limit, and there is a timer for every loop. *)
TypeOK ==
    /\ mode \in {"new", "open", "closed"}
    /\ os \in [Iface -> {Down} \cup SUBSET Addr]
    /\ ifaces \in [Iface -> {Absent} \cup [addrs : SUBSET Addr, entry : DOMAIN Config]]
    /\ listeners \in [Iface -> {Absent} \cup Listener]
    /\ timer \in Timer \cup {Nil} /\ armed \subseteq Timer
    /\ queued \in 0..MaxLoops /\ blocked \in BOOLEAN /\ sock \in BOOLEAN
    /\ reader \in {"none", "read", "lookup", "error", "done", "panic"}
    /\ beacons \subseteq Iface

(* The reader never takes the closing of its socket by Stop for a failure,
   wherever in its loop Stop overtakes it. *)
ReaderEndsQuietly == reader # "panic"

Announcing == mode = "open" /\ ~blocked

(* An interface that stays up, whatever happens to its addresses and to other
   interfaces, is announced on for ever, if every entry that applies to it
   says so. *)
BeaconsContinue ==
    \A i \in Iface :
        /\ Matching(i) # {} /\ \A n \in Matching(i) : Config[n].beacon
        /\ <>[](Announcing /\ os[i] \notin {Down, {}})
        => []<>(i \in beacons)

(* A listener is closed for good once its address has left the interface. *)
ListenersFollow ==
    \A i \in Iface, a \in Addr :
        <>[](Announcing /\ (os[i] = Down \/ a \notin os[i]))
        => <>[](listeners[i] = Absent \/ listeners[i].addr # a)

(* After Stop no timer runs in the end and the reader has returned, unless
   the actor hangs. *)
StopQuiet ==
    <>(mode = "closed") => <>blocked \/ <>[](armed = {} /\ reader \in {"none", "done"})
=============================================================================
