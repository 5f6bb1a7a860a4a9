-------------------------------- MODULE Node --------------------------------
(***************************************************************************)
(* The node as a program: run() of cmd/mesh/main.go and StartJSON and Stop *)
(* of contrib/mobile/mobile.go, from the moment everything has been        *)
(* started.  What runs then is composed here:                              *)
(*                                                                         *)
(*   - the listeners of the core (Listeners);                              *)
(*   - the peer loop and the callers of RetryPeersNow (PeerLoop);          *)
(*   - the multicast module, as far as it opens and closes listeners on    *)
(*     its actor (multicast.go; its discovery is in Multicast);            *)
(*   - the reader and the writer of the TUN device (tun.go, iface.go);     *)
(*   - the REST server, as far as its Shutdown waits for the requests in   *)
(*     flight (rest_server.go).                                            *)
(*                                                                         *)
(* The program stops them one after the other.  Each Stop waits for the    *)
(* actor of its part, which may itself be waiting for another one.         *)
(***************************************************************************)
EXTENDS LinkTypes, Integers, Sequences, FiniteSets

CONSTANTS
    Entry, SchemeOf,   \* as in Listeners
    Caller, MaxLoops   \* as in PeerLoop

VARIABLES
    loop, registered, shut, closing, stopping, todo, current, \* Listeners
    addPeerTimer, orphans, queued, pc, stopped,               \* PeerLoop
    phase,      \* what the program does: see TypeOK
    announcing, \* _isOpen of the multicast module; "nil" if there is no module
    announced,  \* _listeners of the multicast module
    device,     \* the TUN device; "none" for a dummy and on a phone
    reader,     \* TunAdapter.read and TunAdapter.write
    writer,
    rest_server \* nil, or whether it has requests in flight

listeners == <<loop, registered, shut, closing, stopping, todo, current>>
peerLoop == <<addPeerTimer, orphans, queued, pc, stopped>>
program == <<phase, announcing, announced, device, reader, writer, rest_server>>
vars == <<listeners, peerLoop, program>>

L == INSTANCE Listeners
P == INSTANCE PeerLoop

ASSUME NodeAssumption == L!ListenersConstants /\ P!PeerLoopConstants

(* There is a writer wherever there is a TUN module, which a phone has not. *)
Phone == writer = "none"

(* A panic in any goroutine ends the process. *)
Alive ==
    /\ phase \notin {"panicMulticast", "panicRest"}
    /\ \A c \in Caller : pc[c] # "panic"

(* The multicast actor is inside listen or inside Close. *)
MulticastBusy == closing # {} \/ \E e \in Entry : loop[e] = "bound"

(* The core actor is not inside Stop. *)
CoreFree == stopping = 0 \/ stopped

(* core.New has opened some of the configured listeners and queued the peer
   loop. *)
startCore ==
    /\ \E configured \in SUBSET Entry :
        /\ loop = [e \in Entry |-> IF e \in configured THEN "accepting" ELSE "none"]
        /\ registered = {e \in configured : links_init[SchemeOf[e]].registers}
    /\ shut = {} /\ closing = {} /\ todo = {} /\ current = {}
    /\ stopping = 0
    /\ P!Init

(* multicast.New announces only where an interface is configured, and not
   after an error. *)
startMulticast == announcing \in {"open", "closed"} /\ announced = {}

(* tun.New starts the writer in any case, the reader for a real device. *)
startTun ==
    /\ writer = "running"
    /\ \/ device = "open" /\ reader = "running"
       \/ device = "none" /\ reader = "none"

(* Where NewRestServer fails, of a missing address for one, its error is
   logged and rest_server stays nil. *)
startRest == rest_server \in {"nil", "idle"}

run == startCore /\ startMulticast /\ startTun /\ startRest

(* The phone creates no multicast module without interfaces, and copies the
   packets itself. *)
StartJSON ==
    /\ startCore
    /\ startMulticast \/ (announcing = "nil" /\ announced = {})
    /\ device = "none" /\ reader = "none" /\ writer = "none"
    /\ startRest

Init == (run \/ StartJSON) /\ phase = "up"

-----------------------------------------------------------------------------
(* The multicast actor, in _announce, opens a listener on an interface that
   has none, and closes its own one when interface or address are gone. *)
announceListens(e) ==
    /\ Alive
    /\ announcing = "open"
    /\ ~MulticastBusy
    /\ L!listen(e)
    /\ announced' = announced \cup {e}
    /\ UNCHANGED <<peerLoop, phase, announcing, device, reader, writer, rest_server>>

announceCloses(e) ==
    /\ Alive
    /\ announcing = "open"
    /\ ~MulticastBusy
    /\ e \in announced
    /\ L!Close(e)
    /\ announced' = announced \ {e}
    /\ UNCHANGED <<peerLoop, phase, announcing, device, reader, writer, rest_server>>

(* The rest of these two calls, and the accept goroutines. *)
Listening(e) ==
    /\ Alive
    /\ \/ L!register(e) \/ L!CloseReturns(e)
       \/ L!acceptFails(e) \/ L!closeChannel(e) \/ L!unregister(e)
    /\ UNCHANGED <<peerLoop, program>>

(* The core actor runs the peer loop when it is not inside Stop. *)
AddPeerLoop ==
    /\ Alive
    /\ CoreFree
    /\ P!addPeerLoop
    /\ UNCHANGED <<listeners, program>>

Timer ==
    /\ Alive
    /\ P!timerFires
    /\ UNCHANGED <<listeners, program>>

(* Only the phone has RetryPeersNow, which it may call at any time. *)
Retry(c) ==
    /\ Alive
    /\ Phone
    /\ P!RetryPeersNow(c) \/ P!retryStop(c) \/ P!retryReceive(c) \/ P!retryAct(c)
    /\ UNCHANGED <<listeners, program>>

(* read returns on the first error, be it that of a closed device. *)
read ==
    /\ Alive
    /\ reader = "running"
    /\ reader' = "ended"
    /\ UNCHANGED <<listeners, peerLoop, phase, announcing, announced, device, writer, rest_server>>

(* write returns only once the core cannot be read from any more. *)
write ==
    /\ Alive
    /\ writer = "running"
    /\ stopped
    /\ writer' = "ended"
    /\ UNCHANGED <<listeners, peerLoop, phase, announcing, announced, device, reader, rest_server>>

(* A request arrives.  What matters here is only whether one is in flight when
   Shutdown is called, so that one that arrived earlier may as well arrive just
   before ... *)
requestBegins ==
    /\ Alive
    /\ rest_server = "idle"
    /\ phase = "rest"
    /\ rest_server' = "busy"
    /\ UNCHANGED <<listeners, peerLoop, phase, announcing, announced, device, reader, writer>>

(* ... and the last one in flight ends, if its handler and its client let it. *)
requestEnds ==
    /\ Alive
    /\ rest_server = "busy"
    /\ rest_server' = "idle"
    /\ UNCHANGED <<listeners, peerLoop, phase, announcing, announced, device, reader, writer>>

-----------------------------------------------------------------------------
(* run() receives from sigCh; on a phone, Stop is called. *)
Interrupt ==
    /\ Alive
    /\ phase = "up"
    /\ phase' = "multicast"
    /\ UNCHANGED <<listeners, peerLoop, announcing, announced, device, reader, writer, rest_server>>

(* Mutant: Stop does not wait for the actor of the multicast module. *)
stopMulticastAtOnce ==
    /\ Alive
    /\ phase = "multicast"
    /\ announcing' = IF announcing = "nil" THEN "nil" ELSE "closed"
    /\ phase' = CASE announcing = "nil" -> "panicMulticast" [] Phone -> "core" [] OTHER -> "tun"
    /\ UNCHANGED <<listeners, peerLoop, announced, device, reader, writer, rest_server>>

(* Multicast.Stop, on its actor.  The listeners stay open.  A phone without
   multicast interfaces has no module to stop. *)
stopMulticast ==
    /\ Alive
    /\ phase = "multicast"
    /\ ~MulticastBusy
    /\ announcing' = IF announcing = "nil" THEN "nil" ELSE "closed"
    /\ phase' = CASE announcing = "nil" -> "panicMulticast" [] Phone -> "core" [] OTHER -> "tun"
    /\ UNCHANGED <<listeners, peerLoop, announced, device, reader, writer, rest_server>>

(* Mutant: the device is not closed. *)
stopTunKeepsDevice ==
    /\ Alive
    /\ phase = "tun"
    /\ phase' = "core"
    /\ UNCHANGED <<listeners, peerLoop, announcing, announced, device, reader, writer, rest_server>>

(* TunAdapter.Stop. *)
stopTun ==
    /\ Alive
    /\ phase = "tun"
    /\ device' = IF device = "open" THEN "closed" ELSE device
    /\ phase' = "core"
    /\ UNCHANGED <<listeners, peerLoop, announcing, announced, reader, writer, rest_server>>

(* Core.Stop begins to run _close on the core actor ... *)
stopCore ==
    /\ Alive
    /\ phase = "core"
    /\ L!Stop
    /\ UNCHANGED <<peerLoop, program>>

(* ... which takes the listeners down ... *)
shutdownLinks ==
    /\ Alive
    /\ L!Shutdown
    /\ UNCHANGED <<peerLoop, program>>

(* ... and then closes the PacketConn and stops the timer. *)
coreClosed ==
    /\ Alive
    /\ phase = "core"
    /\ L!Stopped
    /\ P!Stop
    /\ phase' = "rest"
    /\ UNCHANGED <<listeners, announcing, announced, device, reader, writer, rest_server>>

(* RestServer.Shutdown: the server takes no requests any more.  Where
   NewRestServer has failed it is called on nil. *)
stopRest ==
    /\ Alive
    /\ phase = "rest"
    /\ phase' = IF rest_server = "nil" THEN "panicRest" ELSE "requests"
    /\ UNCHANGED <<listeners, peerLoop, announcing, announced, device, reader, writer, rest_server>>

(* It returns once no request is in flight, and has no deadline. *)
restStopped ==
    /\ Alive
    /\ phase = "requests" /\ rest_server = "idle"
    /\ phase' = "done"
    /\ UNCHANGED <<listeners, peerLoop, announcing, announced, device, reader, writer, rest_server>>

StopProgram ==
    stopMulticast \/ stopTun \/ stopCore \/ shutdownLinks \/ coreClosed
    \/ stopRest \/ restStopped

Next ==
    \/ \E e \in Entry : announceListens(e) \/ announceCloses(e) \/ Listening(e)
    \/ AddPeerLoop \/ Timer
    \/ \E c \in Caller : Retry(c)
    \/ read \/ write
    \/ requestBegins \/ requestEnds
    \/ Interrupt
    \/ StopProgram

Spec == Init /\ [][Next]_vars

(* Goroutines run, timers fire, Accept and Read return on what has been
   closed, and the signal's handler goes on.  Nobody need interrupt the
   program or call RetryPeersNow, and a request need not end; the bound on
   loops may hold a caller up for a while. *)
Fairness ==
    /\ WF_vars(StopProgram)
    /\ WF_vars(AddPeerLoop) /\ WF_vars(Timer)
    /\ \A e \in Entry :
        WF_vars(Listening(e) /\ (L!register(e) \/ L!CloseReturns(e) \/ L!Accept(e)))
    /\ \A c \in Caller :
        WF_vars(Retry(c) /\ (P!retryStop(c) \/ P!retryReceive(c))) /\ SF_vars(Retry(c) /\ P!retryAct(c))
    /\ WF_vars(device = "closed" /\ read)
    /\ WF_vars(write)

FairSpec == Spec /\ Fairness

-----------------------------------------------------------------------------
(* Every variable has its type, and the bound on loops holds. *)
TypeOK ==
    /\ L!TypeOK /\ P!TypeOK
    /\ phase \in {"up", "multicast", "tun", "core", "rest", "requests",
                  "done", "panicMulticast", "panicRest"}
    /\ announcing \in {"open", "closed", "nil"}
    /\ announced \subseteq Entry
    /\ device \in {"open", "closed", "none"}
    /\ reader \in {"running", "ended", "none"}
    /\ writer \in {"running", "ended", "none"}
    /\ rest_server \in {"nil", "idle", "busy"}

(* "Stop shuts down the Mesh node.", core.go:146: once the core has stopped
   no listener accepts connections, neither a configured one nor one that the
   multicast module opened while the program was stopping; nor is one about
   to. *)
StopClosesListeners == stopped => \A e \in Entry : loop[e] \notin {"bound", "accepting"}

(* What the program comes to: the last of its calls returns, unless there was
   no module or no server to call. *)
Outcome == CASE announcing = "nil"  -> "panicMulticast"
             [] rest_server = "nil" -> "panicRest"
             [] OTHER               -> "done"

(* If the REST server is again and again without a request in flight, an
   interrupted program ends, whatever else its parts are waiting for: each
   Stop runs on the actor of its part, and shutdown holds the actor of a link
   type while it waits for accept goroutines that need this actor to finish.
   It does not end earlier than it should: by a panic only where there is
   nothing to stop, or where a caller of RetryPeersNow finds the timer gone.
   A request that never ends would hold it up for ever, because Shutdown is
   called with context.Background(). *)
ProgramEnds ==
    []<>(rest_server # "busy") =>
        (phase = "multicast" ~> (\E c \in Caller : pc[c] = "panic") \/ phase = Outcome)

(* Until the core stops the loop runs again and again, "so that disconnected
   peers will eventually be reconnected with", however RetryPeersNow stops
   and restarts its timer, and also when callers are left hanging. *)
LoopKeepsRunning == <>(stopping > 0 \/ ~Alive) \/ []<><<AddPeerLoop>>_vars

(* Stopping the core ends the loop, also one whose timer had fired or had
   been replaced: in the end no timer runs. *)
StopEndsLoop == stopped ~> [](P!Running = 0 \/ ~Alive)

(* Closing the device and then the core ends both goroutines of the TUN
   adapter, the reader blocked in the device and the writer in the core. *)
TunEnds == phase = "done" ~> reader # "running" /\ writer # "running"
=============================================================================
