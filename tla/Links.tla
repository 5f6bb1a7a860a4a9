------------------------------- MODULE Links -------------------------------
(***************************************************************************)
(* Peerings of a node: the links actor (src/src/core/link.go and the link  *)
(* types it dials with), the configured peers (src/src/core/api.go) and    *)
(* the loop that calls them (src/src/core/core.go).                        *)
(*                                                                         *)
(* A task is a connection on its way from a call, through the dial         *)
(* goroutine, to the handler goroutine and its end.  Each phony.Block on   *)
(* the links actor or on the core actor is one step; between two steps     *)
(* every other task may run.                                               *)
(***************************************************************************)
EXTENDS Integers, FiniteSets, LinkTypes

CONSTANTS
    Peer,        \* peer URIs (with their source interface)
    Static,      \* the peers of the configuration file
    Info,        \* linkInfo values: the keys of links._links
    CallInfo,    \* linkInfo that call computes from the URI
    DialInfo,    \* linkInfo that the dial of the URI's scheme computes
    Scheme,      \* the scheme of a peer's URI
    InboundInfo, \* linkInfo values of accepted connections
    ListenScheme, \* the scheme of the listener that accepts them
    Task,        \* identities of concurrent tasks: the bound on concurrency
    MaxAttempts, \* retries of a dropped link: 3
    MaxActs,     \* bound on queued closes of one link
    MaxAdds,     \* bound on concurrent AddPeer calls of one peer, once they
                 \* have called it
    Absent,      \* no map entry
    NoInfo,      \* a peer whose *linkInfo is nil; a link whose *link is nil
    None         \* no peer: an accepted connection

ASSUME LinksAssumption ==
    /\ IsFiniteSet(Peer)
    /\ Static \subseteq Peer /\ Scheme \in [Peer -> LinkScheme]
    /\ CallInfo \in [Peer -> Info] /\ DialInfo \in [Peer -> Info]
    /\ InboundInfo \subseteq Info /\ ListenScheme \in [InboundInfo -> LinkScheme]
    /\ Absent # NoInfo
    /\ Absent \notin Info /\ Absent \notin Task
    /\ NoInfo \notin Info /\ NoInfo \notin Task
    /\ None \notin Peer /\ None \notin Info
    /\ MaxAttempts \in Nat \ {0} /\ MaxActs \in Nat /\ MaxAdds \in Nat

VARIABLES
    peers,     \* config._peers: [Peer -> Info \cup {Absent, NoInfo}]
    links,     \* links._links: [Info -> Task \cup {Absent, NoInfo}]
    pc,        \* where each task is
    peer,      \* the peer a task dials; None for an accepted connection
    info,      \* the task's linkInfo, once the dial has computed it
    attempt,   \* 0, or the number of this retry after a dropped link
    adding,    \* AddPeer calls that have called the peer but not yet listed it
    timers,    \* running retry timers: <<peer, attempt>>
    closed,    \* tasks whose connection was closed by link.close
    acts,      \* closes queued on the links actor, per linkInfo
    cancelled, \* Core.Stop has cancelled the context
    stopped,   \* Core.Stop has closed the listeners and the packet connection
    panicked   \* a nil *linkInfo has been dereferenced

taskVars == <<pc, peer, info, attempt>>
coreVars == <<peers, adding, acts, cancelled, stopped, panicked>>
vars == <<coreVars, links, taskVars, timers, closed>>

Idle == {t \in Task : pc[t] = "idle"}

isConnectedTo(i) == links[i] # Absent

Init ==
    /\ peers    = [p \in Peer |-> IF p \in Static THEN NoInfo ELSE Absent]
    /\ links    = [i \in Info |-> Absent]
    /\ pc       = [t \in Task |-> "idle"]
    /\ peer     = [t \in Task |-> None]
    /\ info     = [t \in Task |-> None]
    /\ attempt  = [t \in Task |-> 0]
    /\ adding   = [p \in Peer |-> 0]
    /\ timers   = {}
    /\ closed   = {}
    /\ acts     = [i \in Info |-> 0]
    /\ cancelled = FALSE
    /\ stopped  = FALSE
    /\ panicked = FALSE

(* Core.Stop holds the core actor from the cancel to its end. *)
coreFree == cancelled => stopped

(* Task t goes on at another place of the same goroutine. *)
Goto(t, l) ==
    /\ pc' = [pc EXCEPT ![t] = l]
    /\ UNCHANGED <<peer, info, attempt>>

(* Task t continues as a task of peer p. *)
Become(t, l, p, i, n) ==
    /\ pc'      = [pc EXCEPT ![t] = l]
    /\ peer'    = [peer EXCEPT ![t] = p]
    /\ info'    = [info EXCEPT ![t] = i]
    /\ attempt' = [attempt EXCEPT ![t] = n]

End(t) == Become(t, "idle", None, None, 0)

(* links.call: nothing to do if its linkInfo is connected, otherwise a dial
   goroutine starts. *)
call(t, p, n) ==
    IF isConnectedTo(CallInfo[p]) THEN End(t) ELSE Become(t, "dial", p, None, n)

-----------------------------------------------------------------------------
(* The peer list *)

(* AddPeer looks the peer up, calls it, and adds it, in three steps. *)
AddPeer(t, p) ==
    /\ coreFree
    /\ pc[t] = "idle"
    /\ peers[p] = Absent
    /\ Become(t, "add", p, None, 0)
    /\ UNCHANGED <<coreVars, links, timers, closed>>

AddPeerCall(t) ==
    /\ pc[t] = "add"
    /\ adding[peer[t]] < MaxAdds
    /\ call(t, peer[t], 0)
    /\ adding' = [adding EXCEPT ![peer[t]] = @ + 1]
    /\ UNCHANGED <<peers, acts, cancelled, stopped, panicked, links, timers, closed>>

AddPeerSet(p) ==
    /\ coreFree
    /\ adding[p] > 0
    /\ adding' = [adding EXCEPT ![p] = @ - 1]
    /\ peers' = [peers EXCEPT ![p] = CallInfo[p]]
    /\ UNCHANGED <<acts, cancelled, stopped, panicked, links, taskVars, timers, closed>>

(* RemovePeer deletes the peer and queues the close of its link, if it has a
   linkInfo (the peers of the configuration file have none). *)
RemovePeer(p) ==
    /\ coreFree
    /\ peers[p] # Absent
    /\ peers' = [peers EXCEPT ![p] = Absent]
    /\ IF peers[p] = NoInfo
         THEN acts' = acts
         ELSE /\ acts[peers[p]] < MaxActs
              /\ acts' = [acts EXCEPT ![peers[p]] = @ + 1]
    /\ UNCHANGED <<adding, cancelled, stopped, panicked, links, taskVars, timers, closed>>

(* RemovePeers iterates the map in any order and queues one close per peer
   with a linkInfo.  Under the go 1.18 of go.mod the closures share the loop
   variable linkInfo and read it when they run: each sees the linkInfo of
   its own iteration or of a later one, and a nil one is a panic. *)
RemovePeers ==
    LET configured == {p \in Peer : peers[p] # Absent}
        queued     == {p \in configured : peers[p] # NoInfo}
    IN
    /\ coreFree
    /\ configured # {}
    /\ \E turn \in [configured -> 1..Cardinality(configured)],
          seen \in [queued -> configured] :
        /\ \A p, q \in configured : turn[p] = turn[q] => p = q
        /\ \A p \in queued : turn[seen[p]] >= turn[p]
        /\ acts' = [i \in Info |-> acts[i] + Cardinality({p \in queued : peers[seen[p]] = i})]
        /\ \A i \in Info : acts'[i] <= MaxActs
        /\ panicked' = (panicked \/ \E p \in queued : peers[seen[p]] = NoInfo)
    /\ peers' = [p \in Peer |-> Absent]
    /\ UNCHANGED <<adding, cancelled, stopped, links, taskVars, timers, closed>>

(* A queued close runs on the links actor: it closes the link that is
   registered by then, if it has finished its handshake. *)
closeAct(i) ==
    /\ acts[i] > 0
    /\ acts' = [acts EXCEPT ![i] = @ - 1]
    /\ closed' = IF links[i] \in Task THEN closed \cup {links[i]} ELSE closed
    /\ UNCHANGED <<peers, adding, cancelled, stopped, panicked, links, taskVars, timers>>

(* The loop starts one goroutine per configured peer to call it.  It runs
   every minute, and at once after RetryPeersNow, until the context is done. *)
addPeerLoop ==
    LET configured == {p \in Peer : peers[p] # Absent} IN
    /\ ~cancelled
    /\ configured # {}
    /\ \E task \in [configured -> Idle] :
        /\ \A p, q \in configured : task[p] = task[q] => p = q
        /\ pc'   = [t \in Task |-> IF \E p \in configured : task[p] = t THEN "call" ELSE pc[t]]
        /\ peer' = [t \in Task |-> IF \E p \in configured : task[p] = t
                                     THEN CHOOSE p \in configured : task[p] = t ELSE peer[t]]
    /\ UNCHANGED <<info, attempt, coreVars, links, timers, closed>>

addPeerLoopCall(t) ==
    /\ pc[t] = "call"
    /\ call(t, peer[t], 0)
    /\ UNCHANGED <<coreVars, links, timers, closed>>

CallPeer(t, p) ==
    /\ pc[t] = "idle"
    /\ ~isConnectedTo(CallInfo[p])
    /\ call(t, p, 0)
    /\ UNCHANGED <<coreVars, links, timers, closed>>

-----------------------------------------------------------------------------
(* Dialling *)

(* The dial of the peer's scheme computes its own linkInfo and gives up
   without an error if that is connected (mpath does not ask). *)
dial(t) ==
    /\ pc[t] = "dial"
    /\ IF links_init[Scheme[peer[t]]].checks /\ isConnectedTo(DialInfo[peer[t]])
         THEN End(t)
         ELSE Become(t, "connect", peer[t], DialInfo[peer[t]], attempt[t])
    /\ UNCHANGED <<coreVars, links, timers, closed>>

(* Mutant: the context of the dial is not core.ctx. *)
dialledNoCtx(t) ==
    /\ pc[t] = "connect"
    /\ Goto(t, "dialled")
    /\ UNCHANGED <<coreVars, links, timers, closed>>

(* The connection is made.  A dialer with core.ctx looks at the context a
   last time before it returns, and closes what it has if that is cancelled. *)
dialled(t) ==
    /\ pc[t] = "connect"
    /\ cancelled => ~links_init[Scheme[peer[t]]].context
    /\ Goto(t, "dialled")
    /\ UNCHANGED <<coreVars, links, timers, closed>>

(* links.create starts the handler of a dialled connection; it does not ask
   whether the node has been stopped since the connection was made. *)
create(t) ==
    /\ pc[t] = "dialled"
    /\ Goto(t, "handler")
    /\ UNCHANGED <<coreVars, links, timers, closed>>

(* Mutant: no limit on the attempts. *)
dialFailedNoLimit(t) ==
    /\ pc[t] \in {"dial", "connect"}
    /\ timers' \in {timers} \cup {timers \cup {<<peer[t], n + 1>>} : n \in {attempt[t]} \ {0}}
    /\ End(t)
    /\ UNCHANGED <<coreVars, links, closed>>

(* Mutant: the attempts are not counted. *)
dialFailedNoCount(t) ==
    /\ pc[t] \in {"dial", "connect"}
    /\ timers' \in {timers} \cup {timers \cup {<<peer[t], n>>} : n \in {attempt[t]} \ {0}}
    /\ End(t)
    /\ UNCHANGED <<coreVars, links, closed>>

(* The name does not resolve or the connection fails.  Only a retry reports
   the error to someone, and not an EOF: the retry is repeated, up to the last
   attempt.  Two timers of one peer and attempt that run at once count as one. *)
dialFailed(t) ==
    /\ pc[t] \in {"dial", "connect"}
    /\ timers' \in {timers} \cup {timers \cup {<<peer[t], n + 1>>} :
                                      n \in {attempt[t]} \cap (1..(MaxAttempts - 1))}
    /\ End(t)
    /\ UNCHANGED <<coreVars, links, closed>>

(* The retry timer of the n-th attempt fires. *)
retry(t, p, n) ==
    /\ pc[t] = "idle"
    /\ <<p, n>> \in timers
    /\ timers' = timers \ {<<p, n>>}
    /\ call(t, p, n)
    /\ UNCHANGED <<coreVars, links, closed>>

(* A listener accepts a connection and its goroutine has links.create start
   the handler.  The listeners that shutdown closes accept until it does, and
   it waits for their goroutines. *)
accept(t, i) ==
    /\ stopped => ~ShutDown(ListenScheme[i])
    /\ pc[t] = "idle"
    /\ Become(t, "handler", None, i, 0)
    /\ UNCHANGED <<coreVars, links, timers, closed>>

-----------------------------------------------------------------------------
(* link.handler *)

handlerCheck(t) ==
    /\ pc[t] = "handler"
    /\ IF isConnectedTo(info[t]) THEN End(t) ELSE Goto(t, "mark")
    /\ UNCHANGED <<coreVars, links, timers, closed>>

handlerMark(t) ==
    /\ pc[t] = "mark"
    /\ links' = [links EXCEPT ![info[t]] = NoInfo]
    /\ Goto(t, "handshake")
    /\ UNCHANGED <<coreVars, timers, closed>>

(* The metadata exchange fails: I/O error, six-second deadline, incompatible
   version, a key that is not pinned, or not allowed. *)
handshakeFailed(t) ==
    /\ pc[t] = "handshake"
    /\ Goto(t, "leave")
    /\ UNCHANGED <<coreVars, links, timers, closed>>

handshakeDone(t) ==
    /\ pc[t] = "handshake"
    /\ links' = [links EXCEPT ![info[t]] = t]
    /\ Goto(t, "up")
    /\ UNCHANGED <<coreVars, timers, closed>>

(* HandleConn returns: the remote side went away, the connection was closed,
   or the packet connection was.  A link that was dialled is retried after a
   second, whether or not its peer is in the peer list. *)
disconnected(t) ==
    /\ pc[t] = "up"
    /\ timers' = IF peer[t] = None THEN timers ELSE timers \cup {<<peer[t], 1>>}
    /\ Goto(t, "leave")
    /\ UNCHANGED <<coreVars, links, closed>>

(* Mutant: the entry is not deleted. *)
handlerLeaveKeepsEntry(t) ==
    /\ pc[t] = "leave"
    /\ closed' = closed \ {t}
    /\ End(t)
    /\ UNCHANGED <<coreVars, links, timers>>

(* The deferred calls: the entry is deleted, the connection closed. *)
handlerLeave(t) ==
    /\ pc[t] = "leave"
    /\ links' = [links EXCEPT ![info[t]] = Absent]
    /\ closed' = closed \ {t}
    /\ End(t)
    /\ UNCHANGED <<coreVars, timers>>

(* Core._close cancels the context, *)
cancel ==
    /\ ~cancelled
    /\ cancelled' = TRUE
    /\ UNCHANGED <<peers, adding, acts, stopped, panicked, links, taskVars, timers, closed>>

(* and then closes the listeners, one after the other, and the packet
   connection; everything but the core actor goes on between the two. *)
Stop ==
    /\ cancelled /\ ~stopped
    /\ stopped' = TRUE
    /\ UNCHANGED <<peers, adding, acts, cancelled, panicked, links, taskVars, timers, closed>>

(* What a task does by itself, as opposed to what its remote side decides. *)
Progress(t) ==
    \/ AddPeerCall(t) \/ addPeerLoopCall(t)
    \/ dial(t) \/ dialled(t) \/ dialFailed(t) \/ create(t)
    \/ handlerCheck(t) \/ handlerMark(t)
    \/ handshakeFailed(t) \/ handshakeDone(t) \/ handlerLeave(t)

Next ==
    \/ \E t \in Task, p \in Peer : AddPeer(t, p) \/ CallPeer(t, p)
    \/ \E p \in Peer : AddPeerSet(p) \/ RemovePeer(p)
    \/ RemovePeers
    \/ addPeerLoop
    \/ \E i \in Info : closeAct(i)
    \/ \E t \in Task, i \in InboundInfo : accept(t, i)
    \/ \E t \in Task, p \in Peer, n \in 1..MaxAttempts : retry(t, p, n)
    \/ \E t \in Task : Progress(t) \/ disconnected(t)
    \/ cancel \/ Stop

Spec == Init /\ [][Next]_vars

(* Goroutines are scheduled, dials and handshakes have deadlines, HandleConn
   returns once the node is stopped, Core.Stop goes on (shutdown returns, as
   Listeners shows), and a caller of AddPeer gets the core actor. *)
FairSpec ==
    /\ Spec
    /\ \A t \in Task : WF_vars(Progress(t)) /\ WF_vars(stopped /\ disconnected(t))
    /\ \A p \in Peer : WF_vars(AddPeerSet(p))
    /\ WF_vars(Stop)

-----------------------------------------------------------------------------
(* Every variable has its type. *)
TypeOK ==
    /\ peers \in [Peer -> Info \cup {Absent, NoInfo}]
    /\ links \in [Info -> Task \cup {Absent, NoInfo}]
    /\ pc \in [Task -> {"idle", "add", "call", "dial", "connect", "dialled",
                        "handler", "mark", "handshake", "up", "leave"}]
    /\ peer \in [Task -> Peer \cup {None}]
    /\ info \in [Task -> Info \cup {None}]
    /\ attempt \in [Task -> 0..MaxAttempts]
    /\ adding \in [Peer -> 0..MaxAdds]
    /\ timers \subseteq Peer \X (1..MaxAttempts)
    /\ closed \subseteq Task
    /\ acts \in [Info -> 0..MaxActs]
    /\ cancelled \in BOOLEAN /\ stopped \in BOOLEAN /\ panicked \in BOOLEAN

(* An entry of _links never outlives the handlers of its linkInfo, whichever
   of several handlers wrote it last: a stale entry would make call, dial and
   handler refuse that peer for ever. *)
NoStaleEntry ==
    \A i \in Info :
        /\ links[i] # Absent =>
             \E t \in Task : info[t] = i /\ pc[t] \in {"handshake", "up", "leave"}
        /\ links[i] \in Task => info[links[i]] = i /\ pc[links[i]] \in {"up", "leave"}

(* The fields of a task agree with its place: only a task that has been
   handed a linkInfo by a dial or an accept handles a link, a dial has a
   peer, and only a registered link can have been closed. *)
TaskConsistent ==
    \A t \in Task :
        /\ pc[t] \in {"connect", "dialled", "handler", "mark", "handshake", "up", "leave"} =>
             info[t] \in Info /\ (peer[t] # None => info[t] = DialInfo[peer[t]])
        /\ pc[t] \in {"add", "call", "dial", "connect", "dialled"} => peer[t] # None
        /\ t \in closed => pc[t] \in {"up", "leave"}

LinksEnded ==
    /\ \A i \in Info : links[i] = Absent
    /\ \A t \in Task : pc[t] \notin {"dialled", "handler", "mark", "handshake", "up", "leave"}

(* Stop ends every link for good, also those whose dial, handshake or retry
   was under way or whose connection was made just before, and even if peers are added and called afterwards: no
   handler and no entry, from some point on. *)
StopEndsLinks == <>cancelled => <>[]LinksEnded

(* The retries of a dropped link end, also when dials keep failing: once no
   peer is added or called, none is in the list, nobody connects and no
   handshake succeeds, the node stops dialling. *)
RetriesEnd ==
    <>[][\A t \in Task : ~handshakeDone(t) /\ ~addPeerLoop
            /\ (\A p \in Peer : ~AddPeer(t, p) /\ ~CallPeer(t, p))
            /\ \A i \in InboundInfo : ~accept(t, i)]_vars
        => <>[](\A t \in Task : pc[t] \in {"idle", "up"})

Connected(p) == \E t \in Task : pc[t] = "up" /\ info[t] = DialInfo[p]

(* The loop's timer keeps firing and finds tasks for its calls (goroutines
   are not bounded, tasks are), and from some time on no dial and no handshake
   fails (a dial that finds its linkInfo connected also ends, but is dial). *)
Reachable ==
    /\ SF_vars(addPeerLoop)
    /\ <>[][\A t \in Task : (dialFailed(t) => dial(t)) /\ ~handshakeFailed(t)]_vars

(* A configured peer that can be reached is connected again and again, until
   it is removed or the node stops, whatever drops, fails or races. *)
PeerReconnects ==
    Reachable => \A p \in Static : []<>(Connected(p) \/ cancelled \/ peers[p] = Absent)

(* The comment in handler, link.go:111: "Don't connect to this link more than
   once." *)
ConnectOnce ==
    \A t, u \in Task : pc[t] = "up" /\ pc[u] = "up" /\ info[t] = info[u] => t = u

(* RemovePeers, the "Remove all peers from this node" of the REST interface,
   rest_server.go:152, skips nil linkInfo pointers and follows none. *)
RemovalSafe == ~panicked
=============================================================================
