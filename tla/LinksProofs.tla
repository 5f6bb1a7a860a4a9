---------------------------- MODULE LinksProofs ----------------------------
(***************************************************************************)
(* Proofs about Links for any number of peers, linkInfo values and tasks,  *)
(* and any way call and dial compute linkInfo values; and, at the end,     *)
(* about the Handshake of one of its connections.                          *)
(***************************************************************************)
EXTENDS Links, Handshake, FiniteSetTheorems, TLAPS

(* The inductive invariant.  NoStaleEntry needs TaskConsistent: a handler
   deletes the entry of its own info field, and must have one. *)
IInv == TypeOK /\ NoStaleEntry /\ TaskConsistent

Handling == {"handshake", "up", "leave"}

(* A node that starts has no links and no tasks. *)
LEMMA InitIInv == Init => IInv
<1> SUFFICES ASSUME Init PROVE IInv
    OBVIOUS
<1> USE LinksAssumption DEF Init
<1>1. peers \in [Peer -> Info \cup {Absent, NoInfo}]
    OBVIOUS
<1>2. TypeOK
  <2>1. /\ attempt \in [Task -> 0..MaxAttempts] /\ acts \in [Info -> 0..MaxActs]
        /\ timers \subseteq Peer \X (1..MaxAttempts)
      OBVIOUS
  <2>2. /\ links \in [Info -> Task \cup {Absent, NoInfo}]
        /\ peer \in [Task -> Peer \cup {None}] /\ info \in [Task -> Info \cup {None}]
        /\ adding \in [Peer -> 0..MaxAdds] /\ closed \subseteq Task
      OBVIOUS
  <2>3. cancelled \in BOOLEAN /\ stopped \in BOOLEAN /\ panicked \in BOOLEAN
      OBVIOUS
  <2>4. pc \in [Task -> {"idle", "add", "call", "dial", "connect", "dialled",
                        "handler", "mark", "handshake", "up", "leave"}]
      OBVIOUS
  <2> QED
      BY <1>1, <2>1, <2>2, <2>3, <2>4 DEF TypeOK
<1>3. NoStaleEntry
    BY DEF NoStaleEntry
<1>4. TaskConsistent
    BY DEF TaskConsistent
<1> QED
    BY <1>2, <1>3, <1>4 DEF IInv

(* A step of one task t that leaves links and closed alone and neither takes
   t out of its handling of a link nor breaks the agreement of its fields. *)
LEMMA TaskMoves ==
    ASSUME IInv, TypeOK', UNCHANGED <<links, closed>>, NEW t \in Task,
           \A u \in Task \ {t} : /\ pc'[u] = pc[u] /\ peer'[u] = peer[u] /\ info'[u] = info[u],
           pc[t] \in Handling => pc'[t] \in Handling /\ info'[t] = info[t],
           pc[t] \in {"up", "leave"} => pc'[t] \in {"up", "leave"},
           pc'[t] \in {"connect", "dialled", "handler", "mark", "handshake", "up", "leave"} =>
             info'[t] \in Info /\ (peer'[t] # None => info'[t] = DialInfo[peer'[t]]),
           pc'[t] \in {"add", "call", "dial", "connect", "dialled"} => peer'[t] # None
    PROVE  IInv'
<1>1. NoStaleEntry'
  <2> SUFFICES ASSUME NEW i \in Info
               PROVE  /\ links'[i] # Absent =>
                           \E u \in Task : info'[u] = i /\ pc'[u] \in Handling
                      /\ links'[i] \in Task => info'[links'[i]] = i /\ pc'[links'[i]] \in {"up", "leave"}
      BY DEF NoStaleEntry, Handling
  <2>1. links[i] # Absent => \E u \in Task : info[u] = i /\ pc[u] \in Handling
      BY DEF IInv, NoStaleEntry, Handling
  <2>2. links[i] \in Task => info[links[i]] = i /\ pc[links[i]] \in {"up", "leave"}
      BY DEF IInv, NoStaleEntry
  <2>3. \A u \in Task : pc[u] \in Handling => pc'[u] \in Handling /\ info'[u] = info[u]
      OBVIOUS
  <2>4. \A u \in Task : pc[u] \in {"up", "leave"} =>
                          pc'[u] \in {"up", "leave"} /\ info'[u] = info[u]
      BY DEF Handling
  <2> QED
      BY <2>1, <2>2, <2>3, <2>4
<1>2. TaskConsistent'
  <2> SUFFICES ASSUME NEW u \in Task
               PROVE  /\ pc'[u] \in {"connect", "dialled", "handler", "mark", "handshake", "up", "leave"} =>
                           info'[u] \in Info /\ (peer'[u] # None => info'[u] = DialInfo[peer'[u]])
                      /\ pc'[u] \in {"add", "call", "dial", "connect", "dialled"} => peer'[u] # None
                      /\ u \in closed' => pc'[u] \in {"up", "leave"}
      BY DEF TaskConsistent
  <2> QED
      BY DEF IInv, TaskConsistent
<1> QED
    BY <1>1, <1>2 DEF IInv

(* The calls that leave links and tasks alone. *)
LEMMA CoreSteps ==
    ASSUME IInv, UNCHANGED <<links, taskVars, closed>>, TypeOK'
    PROVE  IInv'
BY DEF IInv, NoStaleEntry, TaskConsistent, taskVars

(* Adding, removing and calling peers, and stopping. *)
LEMMA PeerListIInv ==
    ASSUME IInv, \/ \E p \in Peer : AddPeerSet(p) \/ RemovePeer(p)
                 \/ RemovePeers \/ cancel \/ Stop
    PROVE  IInv'
<1> USE LinksAssumption
<1>1. ASSUME NEW p \in Peer, AddPeerSet(p) PROVE IInv'
  <2>1. TypeOK'
      BY <1>1 DEF AddPeerSet, IInv, TypeOK, taskVars
  <2> QED
      BY <1>1, <2>1, CoreSteps DEF AddPeerSet
<1>2. ASSUME NEW p \in Peer, RemovePeer(p) PROVE IInv'
  <2>1. acts' \in [Info -> 0..MaxActs]
    <3>1. CASE peers[p] = NoInfo
        BY <1>2, <3>1 DEF RemovePeer, IInv, TypeOK
    <3>2. CASE peers[p] # NoInfo
      <4>1. peers[p] \in Info
          BY <1>2, <3>2 DEF RemovePeer, IInv, TypeOK
      <4> QED
          BY <1>2, <3>2, <4>1 DEF RemovePeer, IInv, TypeOK
    <3> QED
        BY <3>1, <3>2
  <2>2. TypeOK'
      BY <1>2, <2>1 DEF RemovePeer, IInv, TypeOK, taskVars
  <2> QED
      BY <1>2, <2>2, CoreSteps DEF RemovePeer
<1>3. CASE RemovePeers
  <2> DEFINE configured == {p \in Peer : peers[p] # Absent}
             queued     == {p \in configured : peers[p] # NoInfo}
  <2>1. PICK seen \in [queued -> configured] :
          /\ acts' = [i \in Info |-> acts[i] + Cardinality({p \in queued : peers[seen[p]] = i})]
          /\ \A i \in Info : acts'[i] <= MaxActs
          /\ panicked' = (panicked \/ \E p \in queued : peers[seen[p]] = NoInfo)
      BY <1>3 DEF RemovePeers
  <2>2. ASSUME NEW i \in Info PROVE acts'[i] \in 0..MaxActs
    <3> DEFINE S == {p \in queued : peers[seen[p]] = i}
    <3>1. IsFiniteSet(S)
      <4>1. S \subseteq Peer
          OBVIOUS
      <4> QED
          BY <4>1, FS_Subset
    <3>2. Cardinality(S) \in Nat
        BY <3>1, FS_CardinalityType
    <3>3. acts'[i] = acts[i] + Cardinality(S) /\ acts'[i] <= MaxActs
        BY <2>1
    <3>4. acts[i] \in Nat
        BY DEF IInv, TypeOK
    <3> HIDE DEF S
    <3> QED
        BY <3>2, <3>3, <3>4
  <2>3. acts' \in [Info -> 0..MaxActs]
    <3>1. acts' = [i \in Info |-> acts'[i]]
        BY <2>1
    <3> QED
        BY <2>2, <3>1
  <2>4. panicked' \in BOOLEAN
      BY <2>1
  <2>5. TypeOK'
      BY <1>3, <2>3, <2>4 DEF RemovePeers, IInv, TypeOK, taskVars
  <2> QED
      BY <1>3, <2>5, CoreSteps DEF RemovePeers
<1>4. CASE cancel \/ Stop
  <2>1. TypeOK'
      BY <1>4 DEF cancel, Stop, IInv, TypeOK, taskVars
  <2> QED
      BY <1>4, <2>1, CoreSteps DEF cancel, Stop
<1> QED
    BY <1>1, <1>2, <1>3, <1>4

(* A queued close marks only a link that is registered under its linkInfo,
   so one that is up or about to leave. *)
LEMMA CloseIInv ==
    ASSUME IInv, NEW i \in Info, closeAct(i)
    PROVE  IInv'
<1> USE LinksAssumption
<1>1. TypeOK'
    BY DEF closeAct, IInv, TypeOK, taskVars
<1>2. NoStaleEntry'
    BY DEF closeAct, IInv, NoStaleEntry, taskVars
<1>3. links[i] \in Task => pc[links[i]] \in {"up", "leave"}
    BY DEF IInv, NoStaleEntry
<1>4. TaskConsistent'
    BY <1>3 DEF closeAct, IInv, TaskConsistent, taskVars
<1> QED
    BY <1>1, <1>2, <1>4 DEF IInv

(* The loop takes idle tasks only. *)
LEMMA LoopIInv ==
    ASSUME IInv, addPeerLoop
    PROVE  IInv'
<1> USE LinksAssumption
<1> DEFINE configured == {p \in Peer : peers[p] # Absent}
<1>1. PICK task \in [configured -> Idle] :
        /\ pc'   = [t \in Task |-> IF \E p \in configured : task[p] = t THEN "call" ELSE pc[t]]
        /\ peer' = [t \in Task |-> IF \E p \in configured : task[p] = t
                                     THEN CHOOSE p \in configured : task[p] = t ELSE peer[t]]
    BY DEF addPeerLoop
<1>2. UNCHANGED <<info, attempt, coreVars, links, timers, closed>>
    BY DEF addPeerLoop
<1> DEFINE chosen(t) == \E p \in configured : task[p] = t
<1>3. \A t \in Task : /\ chosen(t) => pc[t] = "idle" /\ pc'[t] = "call" /\ peer'[t] \in Peer
                      /\ ~chosen(t) => pc'[t] = pc[t] /\ peer'[t] = peer[t]
  <2> SUFFICES ASSUME NEW t \in Task
               PROVE  /\ chosen(t) => pc[t] = "idle" /\ pc'[t] = "call" /\ peer'[t] \in Peer
                      /\ ~chosen(t) => pc'[t] = pc[t] /\ peer'[t] = peer[t]
      OBVIOUS
  <2>1. CASE chosen(t)
    <3>1. PICK p \in configured : task[p] = t
        BY <2>1
    <3>2. t \in Idle
        BY <3>1
    <3>3. (CHOOSE q \in configured : task[q] = t) \in configured
        BY <2>1
    <3> QED
        BY <2>1, <3>2, <3>3, <1>1 DEF Idle
  <2>2. CASE ~chosen(t)
      BY <2>2, <1>1
  <2> QED
      BY <2>1, <2>2
<1> HIDE DEF chosen
<1>4. TypeOK'
  <2>1. pc' = [t \in Task |-> pc'[t]] /\ peer' = [t \in Task |-> peer'[t]]
      BY <1>1
  <2>2. \A t \in Task : peer'[t] \in Peer \cup {None}
      BY <1>3 DEF IInv, TypeOK
  <2>3. \A t \in Task : pc'[t] \in {"idle", "add", "call", "dial", "connect", "dialled",
                        "handler", "mark", "handshake", "up", "leave"}
      BY <1>3 DEF IInv, TypeOK
  <2> QED
      BY <1>2, <2>1, <2>2, <2>3 DEF IInv, TypeOK, coreVars
<1>5. \A t \in Task : pc[t] # "idle" => pc'[t] = pc[t] /\ peer'[t] = peer[t]
    BY <1>3
<1>6. NoStaleEntry'
    BY <1>2, <1>5 DEF IInv, NoStaleEntry
<1>7. TaskConsistent'
    BY <1>2, <1>3, <1>5 DEF IInv, TaskConsistent
<1> QED
    BY <1>4, <1>6, <1>7 DEF IInv

(* The ways a task starts. *)
LEMMA StartIInv ==
    ASSUME IInv, NEW t \in Task,
           \/ \E p \in Peer : AddPeer(t, p) \/ CallPeer(t, p)
           \/ \E i \in InboundInfo : accept(t, i)
           \/ \E p \in Peer, n \in 1..MaxAttempts : retry(t, p, n)
    PROVE  IInv'
<1> USE LinksAssumption DEF Handling
<1>1. ASSUME NEW p \in Peer, AddPeer(t, p) PROVE IInv'
  <2>1. TypeOK'
      BY <1>1 DEF AddPeer, Become, IInv, TypeOK, coreVars
  <2> QED
      BY <1>1, <2>1, TaskMoves DEF AddPeer, Become, IInv, TypeOK
<1>2. ASSUME NEW p \in Peer, CallPeer(t, p) PROVE IInv'
  <2>1. TypeOK'
      BY <1>2 DEF CallPeer, call, End, Become, IInv, TypeOK, coreVars
  <2> QED
      BY <1>2, <2>1, TaskMoves DEF CallPeer, call, End, Become, IInv, TypeOK
<1>3. ASSUME NEW i \in InboundInfo, accept(t, i) PROVE IInv'
  <2>1. TypeOK'
      BY <1>3 DEF accept, Become, IInv, TypeOK, coreVars
  <2> QED
      BY <1>3, <2>1, TaskMoves DEF accept, Become, IInv, TypeOK
<1>4. ASSUME NEW p \in Peer, NEW n \in 1..MaxAttempts, retry(t, p, n) PROVE IInv'
  <2>1. TypeOK'
      BY <1>4 DEF retry, call, End, Become, IInv, TypeOK, coreVars
  <2> QED
      BY <1>4, <2>1, TaskMoves DEF retry, call, End, Become, IInv, TypeOK
<1> QED
    BY <1>1, <1>2, <1>3, <1>4

(* From the call to the handler's check: no entry is written. *)
LEMMA DialIInv ==
    ASSUME IInv, NEW t \in Task,
           \/ AddPeerCall(t) \/ addPeerLoopCall(t)
           \/ dial(t) \/ dialled(t) \/ create(t) \/ dialFailed(t) \/ handlerCheck(t)
    PROVE  IInv'
<1> USE LinksAssumption DEF Handling
<1>1. pc[t] \in {"add", "call", "dial", "connect", "dialled"} => peer[t] \in Peer
    BY DEF IInv, TypeOK, TaskConsistent
<1>2. CASE AddPeerCall(t)
  <2>1. TypeOK'
      BY <1>1, <1>2 DEF AddPeerCall, call, End, Become, IInv, TypeOK
  <2> QED
      BY <1>1, <1>2, <2>1, TaskMoves DEF AddPeerCall, call, End, Become, IInv, TypeOK
<1>3. CASE addPeerLoopCall(t)
  <2>1. TypeOK'
      BY <1>1, <1>3 DEF addPeerLoopCall, call, End, Become, IInv, TypeOK, coreVars
  <2> QED
      BY <1>1, <1>3, <2>1, TaskMoves DEF addPeerLoopCall, call, End, Become, IInv, TypeOK
<1>4. CASE dial(t)
  <2>1. TypeOK'
      BY <1>1, <1>4 DEF dial, End, Become, IInv, TypeOK, coreVars
  <2> QED
      BY <1>1, <1>4, <2>1, TaskMoves DEF dial, End, Become, IInv, TypeOK
<1>5. CASE dialled(t) \/ create(t)
  <2>1. TypeOK'
      BY <1>5 DEF dialled, create, Goto, IInv, TypeOK, coreVars
  <2> QED
      BY <1>5, <2>1, TaskMoves DEF dialled, create, Goto, IInv, TypeOK, TaskConsistent
<1>6. CASE dialFailed(t)
  <2>1. TypeOK'
      BY <1>1, <1>6 DEF dialFailed, End, Become, IInv, TypeOK, coreVars
  <2> QED
      BY <1>6, <2>1, TaskMoves DEF dialFailed, End, Become, IInv, TypeOK
<1>7. CASE handlerCheck(t)
  <2>1. TypeOK'
      BY <1>7 DEF handlerCheck, Goto, End, Become, IInv, TypeOK, coreVars
  <2> QED
      BY <1>7, <2>1, TaskMoves DEF handlerCheck, Goto, End, Become, IInv, TypeOK, TaskConsistent
<1> QED
    BY <1>2, <1>3, <1>4, <1>5, <1>6, <1>7

(* The handler's own steps, three of which write _links. *)
LEMMA HandlerIInv ==
    ASSUME IInv, NEW t \in Task,
           \/ handlerMark(t) \/ handshakeFailed(t) \/ handshakeDone(t)
           \/ disconnected(t) \/ handlerLeave(t)
    PROVE  IInv'
<1> USE LinksAssumption
<1>1. pc[t] \in {"mark", "handshake", "up", "leave"} => info[t] \in Info
    BY DEF IInv, TaskConsistent
<1>2. CASE handlerMark(t)
  <2>1. TypeOK'
      BY <1>1, <1>2 DEF handlerMark, Goto, IInv, TypeOK, coreVars
  <2>2. NoStaleEntry'
      BY <1>1, <1>2 DEF handlerMark, Goto, IInv, TypeOK, NoStaleEntry
  <2>3. TaskConsistent'
      BY <1>2 DEF handlerMark, Goto, IInv, TypeOK, TaskConsistent
  <2> QED
      BY <2>1, <2>2, <2>3 DEF IInv
<1>3. CASE handshakeFailed(t)
  <2>1. TypeOK'
      BY <1>3 DEF handshakeFailed, Goto, IInv, TypeOK, coreVars
  <2> QED
      BY <1>3, <2>1, TaskMoves DEF handshakeFailed, Goto, IInv, TypeOK, TaskConsistent, Handling
<1>4. CASE handshakeDone(t)
  <2>1. TypeOK'
      BY <1>1, <1>4 DEF handshakeDone, Goto, IInv, TypeOK, coreVars
  <2>2. NoStaleEntry'
      BY <1>1, <1>4 DEF handshakeDone, Goto, IInv, TypeOK, NoStaleEntry
  <2>3. TaskConsistent'
      BY <1>4 DEF handshakeDone, Goto, IInv, TypeOK, TaskConsistent
  <2> QED
      BY <2>1, <2>2, <2>3 DEF IInv
<1>5. CASE disconnected(t)
  <2>1. TypeOK'
    <3>1. timers' \subseteq Peer \X (1..MaxAttempts)
        BY <1>5 DEF disconnected, IInv, TypeOK
    <3> QED
        BY <3>1, <1>5 DEF disconnected, Goto, IInv, TypeOK, coreVars
  <2> QED
      BY <1>5, <2>1, TaskMoves DEF disconnected, Goto, IInv, TypeOK, TaskConsistent, Handling
<1>6. CASE handlerLeave(t)
  <2>1. TypeOK'
      BY <1>1, <1>6 DEF handlerLeave, End, Become, IInv, TypeOK, coreVars
  <2>2. NoStaleEntry'
      BY <1>1, <1>6 DEF handlerLeave, End, Become, IInv, TypeOK, NoStaleEntry
  <2>3. TaskConsistent'
      BY <1>6 DEF handlerLeave, End, Become, IInv, TypeOK, TaskConsistent
  <2> QED
      BY <2>1, <2>2, <2>3 DEF IInv
<1> QED
    BY <1>2, <1>3, <1>4, <1>5, <1>6

(* Every step of the node preserves the invariant. *)
LEMMA NextIInv == IInv /\ [Next]_vars => IInv'
<1> SUFFICES ASSUME IInv, [Next]_vars PROVE IInv'
    OBVIOUS
<1>1. CASE UNCHANGED vars
  <2>1. TypeOK'
      BY <1>1 DEF vars, coreVars, taskVars, IInv, TypeOK
  <2> QED
      BY <1>1, <2>1, CoreSteps DEF vars
<1>2. CASE Next
    BY <1>2, PeerListIInv, CloseIInv, LoopIInv, StartIInv, DialIInv, HandlerIInv DEF Next, Progress
<1> QED
    BY <1>1, <1>2

(* The inductive invariant holds in every reachable state. *)
THEOREM Invariance == Spec => []IInv
BY InitIInv, NextIInv, PTL DEF Spec

(* Every variable keeps its type. *)
THEOREM TypeCorrect == Spec => []TypeOK
<1>1. IInv => TypeOK
    BY DEF IInv
<1> QED
    BY <1>1, Invariance, PTL

(* However many handlers race for one linkInfo, an entry of _links never
   outlives them: no peer is refused for ever by a leftover entry. *)
THEOREM EntriesLive == Spec => []NoStaleEntry
<1>1. IInv => NoStaleEntry
    BY DEF IInv
<1> QED
    BY <1>1, Invariance, PTL

-----------------------------------------------------------------------------
(* Connections after Core.Stop *)

(* The tasks with a connection that was dialled and has no handler yet. *)
Dialled == {t \in Task : pc[t] = "dialled"}

(* The tasks with a connection. *)
Holders == {t \in Task : pc[t] \in {"dialled", "handler", "mark"} \cup Handling}

(* Once the context is cancelled no dial makes a connection; once shutdown has
   closed the listeners the set of connections only shrinks. *)
NoNewLink ==
    /\ cancelled => cancelled' /\ Dialled' \subseteq Dialled
    /\ stopped => stopped' /\ Holders' \subseteq Holders

(* The two halves of Core.Stop are in order, and are never undone. *)
StopOrder == stopped => cancelled

LEMMA OrderKept ==
    ASSUME [Next]_vars
    PROVE  /\ StopOrder => StopOrder'
           /\ cancelled => cancelled'
           /\ stopped => stopped'
<1> USE DEF StopOrder, coreVars, taskVars
<1>1. ASSUME UNCHANGED <<cancelled, stopped>>
      PROVE  (StopOrder => StopOrder') /\ (cancelled => cancelled') /\ (stopped => stopped')
    BY <1>1
<1>2. ASSUME NEW t \in Task, NEW p \in Peer, AddPeer(t, p) \/ CallPeer(t, p)
      PROVE  UNCHANGED <<cancelled, stopped>>
    BY <1>2 DEF AddPeer, CallPeer
<1>3. ASSUME NEW p \in Peer, AddPeerSet(p) \/ RemovePeer(p)
      PROVE  UNCHANGED <<cancelled, stopped>>
    BY <1>3 DEF AddPeerSet, RemovePeer
<1>4. ASSUME RemovePeers \/ addPeerLoop PROVE UNCHANGED <<cancelled, stopped>>
    BY <1>4 DEF RemovePeers, addPeerLoop
<1>5. ASSUME NEW i \in Info, closeAct(i) PROVE UNCHANGED <<cancelled, stopped>>
    BY <1>5 DEF closeAct
<1>6. ASSUME NEW t \in Task, NEW i \in InboundInfo, accept(t, i)
      PROVE  UNCHANGED <<cancelled, stopped>>
    BY <1>6 DEF accept
<1>7. ASSUME NEW t \in Task, NEW p \in Peer, NEW n \in 1..MaxAttempts, retry(t, p, n)
      PROVE  UNCHANGED <<cancelled, stopped>>
    BY <1>7 DEF retry
<1>8. ASSUME NEW t \in Task, Progress(t) \/ disconnected(t)
      PROVE  UNCHANGED <<cancelled, stopped>>
    BY <1>8 DEF Progress, AddPeerCall, addPeerLoopCall, dial, dialled, dialFailed, create,
                handlerCheck, handlerMark, handshakeFailed, handshakeDone, handlerLeave,
                disconnected
<1>9. CASE cancel \/ Stop
    BY <1>9 DEF cancel, Stop
<1>10. CASE UNCHANGED vars
    BY <1>1, <1>10 DEF vars
<1> QED
    BY <1>1, <1>2, <1>3, <1>4, <1>5, <1>6, <1>7, <1>8, <1>9, <1>10 DEF Next

(* Core.Stop, where dials use the context of the node and shutdown closes the
   listeners: after the cancel no dial makes a connection, and after shutdown
   there is no new connection at all, whatever is dialled, retried or called
   afterwards.  A connection that was made before the cancel may still be
   handed to its handler afterwards; it is among the last ones.  This is what
   StopEndsLinks needs besides fairness, for any number of peers and tasks. *)
THEOREM NoLinkAfterStop ==
    ASSUME \A p \in Peer : links_init[Scheme[p]].context,
           \A i \in InboundInfo : ShutDown(ListenScheme[i])
    PROVE  Spec => [][NoNewLink]_vars
<1> DEFINE Shrinks == /\ cancelled => Dialled' \subseteq Dialled
                      /\ stopped => Holders' \subseteq Holders
<1>1. ASSUME IInv, StopOrder, Next PROVE Shrinks
  <2> USE <1>1 DEF IInv, TypeOK, Dialled, Holders, Handling
  <2>1. ASSUME UNCHANGED pc PROVE Shrinks
      BY <2>1
  <2>2. ASSUME NEW t \in Task, NEW l \in {"idle", "add", "call", "dial", "connect"},
               pc' = [pc EXCEPT ![t] = l]
        PROVE  Shrinks
      BY <2>2
  <2>3. ASSUME NEW t \in Task, NEW p, NEW n, call(t, p, n)
        PROVE  \E l \in {"idle", "add", "call", "dial", "connect"} : pc' = [pc EXCEPT ![t] = l]
      BY <2>3 DEF call, End, Become
  <2>4. ASSUME NEW t \in Task, NEW p \in Peer, AddPeer(t, p) \/ CallPeer(t, p) PROVE Shrinks
    <3>1. \E l \in {"idle", "add", "call", "dial", "connect"} : pc' = [pc EXCEPT ![t] = l]
        BY <2>3, <2>4 DEF AddPeer, CallPeer, Become
    <3> QED
        BY <2>2, <3>1
  <2>5. ASSUME NEW t \in Task, NEW p \in Peer, NEW n \in 1..MaxAttempts, retry(t, p, n)
        PROVE  Shrinks
    <3>1. \E l \in {"idle", "add", "call", "dial", "connect"} : pc' = [pc EXCEPT ![t] = l]
        BY <2>3, <2>5 DEF retry
    <3> QED
        BY <2>2, <3>1
  <2>6. ASSUME NEW t \in Task, AddPeerCall(t) \/ addPeerLoopCall(t) \/ dial(t) \/ dialFailed(t)
        PROVE  Shrinks
    <3>1. \E l \in {"idle", "add", "call", "dial", "connect"} : pc' = [pc EXCEPT ![t] = l]
        BY <2>3, <2>6 DEF AddPeerCall, addPeerLoopCall, dial, dialFailed, End, Become
    <3> QED
        BY <2>2, <3>1
  <2>7. ASSUME NEW t \in Task, dialled(t) PROVE Shrinks
    <3>1. peer[t] \in Peer
        BY <2>7 DEF dialled, TaskConsistent
    <3>2. ~cancelled /\ ~stopped
        BY <2>7, <3>1 DEF dialled, StopOrder
    <3> QED
        BY <3>2
  <2>8. ASSUME NEW t \in Task, create(t) PROVE Shrinks
      BY <2>8 DEF create, Goto
  <2>9. ASSUME NEW t \in Task, NEW i \in InboundInfo, accept(t, i) PROVE Shrinks
    <3>1. ~stopped
        BY <2>9 DEF accept
    <3>2. Dialled' \subseteq Dialled
        BY <2>9 DEF accept, Become
    <3> QED
        BY <3>1, <3>2
  <2>10. ASSUME NEW t \in Task,
                \/ handlerCheck(t) \/ handlerMark(t) \/ handshakeFailed(t)
                \/ handshakeDone(t) \/ handlerLeave(t) \/ disconnected(t)
         PROVE  Shrinks
      BY <2>10 DEF handlerCheck, handlerMark, handshakeFailed, handshakeDone, handlerLeave,
                   disconnected, Goto, End, Become
  <2>11. CASE addPeerLoop
    <3>1. ~cancelled /\ ~stopped
        BY <2>11 DEF addPeerLoop, StopOrder
    <3> QED
        BY <3>1
  <2>12. ASSUME \/ \E p \in Peer : AddPeerSet(p) \/ RemovePeer(p)
                \/ RemovePeers \/ cancel \/ Stop
                \/ \E i \in Info : closeAct(i)
         PROVE  UNCHANGED pc
      BY <2>12 DEF AddPeerSet, RemovePeer, RemovePeers, cancel, Stop, closeAct, taskVars
  <2> QED
      BY <2>1, <2>4, <2>5, <2>6, <2>7, <2>8, <2>9, <2>10, <2>11, <2>12 DEF Next, Progress
<1>2. IInv /\ StopOrder /\ [Next]_vars => [NoNewLink]_vars
    BY <1>1, OrderKept DEF NoNewLink
<1>3. Init => StopOrder
    BY DEF Init, StopOrder
<1>4. StopOrder /\ [Next]_vars => StopOrder'
    BY OrderKept
<1> QED
    BY <1>2, <1>3, <1>4, Invariance, PTL DEF Spec

-----------------------------------------------------------------------------
(* The handshake of a connection, between the steps mark and up of a task,
   for any keys, versions and configurations, and whatever an end that does
   not run this program claims *)

(* An end that runs this program has sent its own metadata, an end whose turn
   to send has not come has sent nothing: what an end has judged is what the
   other one has sent for good. *)
SentOnce ==
    /\ runs \subseteq Side
    /\ meta \in [Side -> version_metadata]
    /\ at \in [Side -> {"send", "receive", "up", "closed", "hung"}]
    /\ sent \in [Side -> version_metadata \cup {NoMeta}]
    /\ \A e \in Side : at[e] = "send" => sent[e] = NoMeta
    /\ \A e \in runs : sent[e] \in {NoMeta, meta[e]}

(* An end that runs this program is up only after the other one has sent. *)
Judged == \A e \in runs : at[e] = "up" => sent[Other(e)] \in version_metadata

HInv == SentOnce /\ Judged /\ Admitted

LEMMA OtherEnd == \A e \in Side : Other(e) \in Side /\ Other(e) # e
  BY DEF Side, Other

LEMMA InitSafe == HandshakeInit => HInv
  BY DEF HandshakeInit, HInv, SentOnce, Judged, Admitted, Side

(* A step that brings no end up and changes no metadata that was sent. *)
LEMMA NobodyComesUp ==
    ASSUME HInv, SentOnce', UNCHANGED confVars,
           \A e \in Side : at'[e] = "up" => at[e] = "up",
           \A e \in Side : sent[e] # NoMeta => sent'[e] = sent[e]
    PROVE  HInv'
<1>1. \A e \in Side : sent[e] \in version_metadata => sent'[e] = sent[e]
  BY HandshakeAssumption DEF version_metadata
<1>2. \A e \in runs : at'[e] = "up" => /\ sent'[Other(e)] = sent[Other(e)]
                                       /\ sent[Other(e)] \in version_metadata
  BY <1>1, OtherEnd DEF HInv, SentOnce, Judged
<1>3. Judged'
  BY <1>2 DEF Judged, confVars
<1>4. \A e \in runs : at'[e] = "up" => at[e] = "up" /\ remote(e)' = remote(e)
  BY <1>2 DEF remote, confVars, HInv, SentOnce
<1>5. Admitted'
  BY <1>4 DEF HInv, Admitted, confVars
<1> QED
  BY <1>3, <1>5 DEF HInv

(* Only read brings an end up, and it has judged the other end's metadata. *)
LEMMA StepSafe == HInv /\ [HandshakeNext]_handshakeVars => HInv'
<1> SUFFICES ASSUME HInv, [HandshakeNext]_handshakeVars PROVE HInv'
  OBVIOUS
<1>1. CASE UNCHANGED handshakeVars
  BY <1>1, NobodyComesUp DEF handshakeVars, confVars, HInv, SentOnce
<1>2. ASSUME NEW e \in Side, write(e) PROVE HInv'
  <2>1. SentOnce'
    BY <1>2 DEF HInv, SentOnce, write, confVars
  <2> QED
    BY <1>2, <2>1, NobodyComesUp DEF HInv, SentOnce, write
<1>3. ASSUME NEW e \in Side, hang(e) \/ fails(e) \/ dropped(e) PROVE HInv'
  <2>1. SentOnce'
    BY <1>3 DEF HInv, SentOnce, hang, fails, dropped, leave, confVars
  <2> QED
    BY <1>3, <2>1, NobodyComesUp DEF HInv, SentOnce, hang, fails, dropped, leave
<1>4. ASSUME NEW e \in Side, read(e) PROVE HInv'
  <2>1. /\ SentOnce'
        /\ UNCHANGED confVars /\ UNCHANGED sent
        /\ sent[Other(e)] \in version_metadata
        /\ Other(e) \in runs => sent[Other(e)] = meta[Other(e)]
    BY <1>4, OtherEnd DEF HInv, SentOnce, read, leave, confVars
  <2>2. CASE leave(e)
    BY <2>1, <2>2, NobodyComesUp DEF HInv, SentOnce, leave
  <2>3. CASE at' = [at EXCEPT ![e] = "up"] /\ (e \in runs => accepts(e, sent[Other(e)]))
    <3>1. remote(e)' = sent[Other(e)]
      BY <2>1 DEF remote, confVars
    <3>2. ASSUME e \in runs PROVE Judged!(e)' /\ Admitted!(e)'
      BY <2>1, <2>3, <3>1, <3>2
         DEF Judged, Admitted, accepts, check, isPinned, isAllowed, confVars
    <3>3. ASSUME NEW d \in runs, d # e PROVE Judged!(d)' /\ Admitted!(d)'
      <4>1. at'[d] = at[d] /\ remote(d)' = remote(d)
        BY <2>1, <2>3, <3>3 DEF HInv, SentOnce, remote, confVars
      <4> QED
        BY <2>1, <3>3, <4>1 DEF HInv, Judged, Admitted, confVars
    <3> QED
      BY <2>1, <3>2, <3>3 DEF HInv, Judged, Admitted, confVars
  <2> QED
    BY <1>4, <2>2, <2>3 DEF read
<1> QED
  BY <1>1, <1>2, <1>3, <1>4 DEF HandshakeNext

(* A link is up at an end that runs this program only if its configuration
   admits the node at the other end, if that runs this program too, or else
   what that has claimed (the checks in link.handler), for any number of keys
   and versions and any claims. *)
THEOREM OnlyAdmitted == HandshakeSpec => []Admitted
<1>1. HandshakeInit => HInv
  BY InitSafe
<1>2. HInv /\ [HandshakeNext]_handshakeVars => HInv'
  BY StepSafe
<1>3. HInv => Admitted
  BY DEF HInv
<1> QED
  BY <1>1, <1>2, <1>3, PTL DEF HandshakeSpec
=============================================================================
