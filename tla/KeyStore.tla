------------------------------ MODULE KeyStore ------------------------------
(***************************************************************************)
(* The key store of ipv6rwc (src/src/ipv6rwc/ipv6rwc.go): it turns the     *)
(* destination of an IPv6 packet into the public key of the node that owns *)
(* it.  While the key is unknown it buffers one packet per destination and *)
(* asks the network for the key; keys and buffers expire on timers that    *)
(* run on goroutines of their own.                                         *)
(*                                                                         *)
(* Every action is one critical section of keyStore.mutex.  What the code  *)
(* does after Unlock (core.WriteTo, SendOutOfBand) changes no keyStore     *)
(* state and reads only immutable fields, so it belongs to the action.     *)
(*                                                                         *)
(* keyInfo and buffer objects are compared by pointer in the timer         *)
(* callbacks, so objects are identifiers (InfoId, BufId) and not values.   *)
(* An identifier is reused once neither a map nor a timer refers to it.    *)
(***************************************************************************)
EXTENDS Integers, FiniteSets

CONSTANTS
    Key,          \* public keys of remote nodes
    Addr,         \* core.Address values of remote nodes
    Subnet,       \* core.Subnet values of remote nodes
    AddrForKey,   \* core.AddrForKey: Key -> Addr
    SubnetForKey, \* core.SubnetForKey: Key -> Subnet
    Packet,       \* packets offered to Write during a behaviour
    LocalSrc,     \* the packets whose source is this node's address or subnet
    Dst,          \* destination of each packet: a member of Dest, or Other
    Other,        \* any destination or source outside the mesh's prefix
    InfoId,       \* identities of live keyInfo objects
    BufId,        \* identities of live buffer objects
    MinMTU,       \* the floor of 1280, scaled
    MaxMTU,       \* core.MTU(), scaled
    Size,         \* lengths of the packets that are read
    Requested,    \* MTUs the caller of SetMTU asks for
    Nil

Dest == Addr \cup Subnet

ASSUME KeyStoreAssumption ==
    /\ AddrForKey \in [Key -> Addr]
    /\ SubnetForKey \in [Key -> Subnet]
    /\ Addr \cap Subnet = {}
    /\ Other \notin Dest
    /\ Dst \in [Packet -> Dest \cup {Other}]
    /\ LocalSrc \subseteq Packet
    /\ Nil \notin InfoId /\ Nil \notin BufId /\ Nil \notin Key
    /\ Nil \notin Dest /\ Nil \notin Packet
    /\ Nil \notin Key \X Dest
    /\ MinMTU \in Nat /\ MaxMTU \in Nat /\ MinMTU <= MaxMTU
    /\ Size \subseteq Nat /\ Requested \subseteq Nat

VARIABLES
    keyToInfo,   \* [Key -> InfoId \cup {Nil}]
    destToInfo,  \* addrToInfo and subnetToInfo: their domains are disjoint
    buffers,     \* addrBuffer and subnetBuffer: [Dest -> BufId \cup {Nil}]
    infoKey,     \* field key of each keyInfo object; Nil: no such object
    infoArmed,   \* objects whose current timeout timer is running
    infoFired,   \* objects with a timer callback waiting for the mutex
    bufAt,       \* the destination a buffer's callback captured
    bufPacket,   \* field packet of each buffer object
    bufArmed,    \* buffers whose current timeout timer is running
    bufFired,    \* buffers with a timer callback waiting for the mutex
    submitted,   \* packets Write or the MTU check has been called with
    written,     \* number of core.WriteTo(p, k) calls
    tunOut,      \* <<k, s>>: Read holds a packet of source s sent by k
    mtu

infoVars == <<keyToInfo, destToInfo, infoKey, infoArmed, infoFired>>
bufVars  == <<buffers, bufAt, bufPacket, bufArmed, bufFired>>
vars     == <<infoVars, bufVars, submitted, written, tunOut, mtu>>

-----------------------------------------------------------------------------
(* The destinations a key answers for: info.address and info.subnet. *)
DestsOf(k) == {AddrForKey[k], SubnetForKey[k]}

FreeInfo == {i \in InfoId : infoKey[i] = Nil}
FreeBuf  == {b \in BufId : bufAt[b] = Nil}

Init ==
    /\ keyToInfo  = [k \in Key |-> Nil]
    /\ destToInfo = [d \in Dest |-> Nil]
    /\ buffers    = [d \in Dest |-> Nil]
    /\ infoKey    = [i \in InfoId |-> Nil]
    /\ infoArmed  = {}
    /\ infoFired  = {}
    /\ bufAt      = [b \in BufId |-> Nil]
    /\ bufPacket  = [b \in BufId |-> Nil]
    /\ bufArmed   = {}
    /\ bufFired   = {}
    /\ submitted  = {}
    /\ written    = [w \in Packet \X Key |-> 0]
    /\ tunOut     = Nil
    /\ mtu        = MinMTU

(* Stop the object's timer if it is still running and start a new one: a
   callback that already left the timer (infoFired) cannot be stopped. *)
resetTimeout(i) == infoArmed' = infoArmed \cup {i}

(* The destination's key is known: refresh it and write to that key. *)
sendKnown(d, p) ==
    LET i == destToInfo[d] IN
    /\ i # Nil
    /\ resetTimeout(i)
    /\ written' = [written EXCEPT ![<<p, infoKey[i]>>] = @ + 1]
    /\ UNCHANGED <<keyToInfo, destToInfo, infoKey, infoFired, bufVars>>

(* Mutant: the buffer's expiry timer is not started. *)
sendUnknownNoTimer(d, p) ==
    /\ destToInfo[d] = Nil
    /\ \E b \in BufId :
        /\ IF buffers[d] = Nil THEN b \in FreeBuf ELSE b = buffers[d]
        /\ buffers'   = [buffers EXCEPT ![d] = b]
        /\ bufAt'     = [bufAt EXCEPT ![b] = d]
        /\ bufPacket' = [bufPacket EXCEPT ![b] = p]
    /\ UNCHANGED <<infoVars, bufArmed, bufFired, written>>

(* The key is unknown: the packet replaces the one waiting in the
   destination's buffer, a new buffer is made if there is none, its timer is
   restarted, and a key lookup goes out. *)
sendUnknown(d, p) ==
    /\ destToInfo[d] = Nil
    /\ \E b \in BufId :
        /\ IF buffers[d] = Nil THEN b \in FreeBuf ELSE b = buffers[d]
        /\ buffers'   = [buffers EXCEPT ![d] = b]
        /\ bufAt'     = [bufAt EXCEPT ![b] = d]
        /\ bufPacket' = [bufPacket EXCEPT ![b] = p]
        /\ bufArmed'  = bufArmed \cup {b}
    /\ UNCHANGED <<infoVars, bufFired, written>>

(* sendToAddress and sendToSubnet: the same code on two pairs of maps. *)
sendTo(d, p) == sendKnown(d, p) \/ sendUnknown(d, p)

(* A packet with a foreign source or an unroutable destination is an error
   return; any other goes to sendToAddress or sendToSubnet. *)
writePC(p) ==
    /\ p \notin submitted
    /\ submitted' = submitted \cup {p}
    /\ IF p \in LocalSrc /\ Dst[p] # Other
         THEN sendTo(Dst[p], p)
         ELSE UNCHANGED <<infoVars, bufVars, written>>

Write(p) == writePC(p) /\ UNCHANGED <<tunOut, mtu>>

(* update(key) of a known key only refreshes its timer. *)
updateKnown(k) ==
    /\ keyToInfo[k] # Nil
    /\ resetTimeout(keyToInfo[k])
    /\ UNCHANGED <<keyToInfo, destToInfo, infoKey, infoFired, bufVars, written>>

(* Mutant: buffers that have left the map but still have a timer are flushed too. *)
FlushedAgain(k) == {bufPacket[b] : b \in {c \in BufId : bufAt[c] \in DestsOf(k)}}

(* The packets a new key releases: one per destination it answers for. *)
Flushed(k) == {bufPacket[buffers[d]] : d \in {e \in DestsOf(k) : buffers[e] # Nil}}

(* Mutant: the subnet's buffer is written out but not deleted. *)
updateNewKeepsBuffer(k) ==
    /\ keyToInfo[k] = Nil
    /\ \E i \in FreeInfo :
        /\ infoKey'    = [infoKey EXCEPT ![i] = k]
        /\ keyToInfo'  = [keyToInfo EXCEPT ![k] = i]
        /\ destToInfo' = [d \in Dest |-> IF d \in DestsOf(k) THEN i ELSE destToInfo[d]]
        /\ resetTimeout(i)
    /\ buffers' = [buffers EXCEPT ![AddrForKey[k]] = Nil]
    /\ written' = [w \in Packet \X Key |->
                     IF w[1] \in Flushed(k) /\ w[2] = k THEN written[w] + 1
                                                        ELSE written[w]]
    /\ UNCHANGED <<infoFired, bufAt, bufPacket, bufArmed, bufFired>>

(* update(key) of a new key indexes a new object under the key, its address
   and its subnet (replacing what was there) and writes out both buffers;
   the timers of the buffers keep running. *)
updateNew(k) ==
    /\ keyToInfo[k] = Nil
    /\ \E i \in FreeInfo :
        /\ infoKey'    = [infoKey EXCEPT ![i] = k]
        /\ keyToInfo'  = [keyToInfo EXCEPT ![k] = i]
        /\ destToInfo' = [d \in Dest |-> IF d \in DestsOf(k) THEN i ELSE destToInfo[d]]
        /\ resetTimeout(i)
    /\ buffers' = [d \in Dest |-> IF d \in DestsOf(k) THEN Nil ELSE buffers[d]]
    /\ written' = [w \in Packet \X Key |->
                     IF w[1] \in Flushed(k) /\ w[2] = k THEN written[w] + 1
                                                        ELSE written[w]]
    /\ UNCHANGED <<infoFired, bufAt, bufPacket, bufArmed, bufFired>>

update(k) == updateKnown(k) \/ updateNew(k)

(* A key response with a good signature; it need not answer any lookup. *)
oobHandler(k) == update(k) /\ UNCHANGED <<submitted, tunOut, mtu>>

(* Mutant: the sender of a packet is not recorded. *)
readPCNoUpdate(k, s, size) ==
    /\ tunOut = Nil
    /\ size <= mtu
    /\ tunOut' = IF s \in DestsOf(k) THEN <<k, s>> ELSE Nil
    /\ UNCHANGED <<infoVars, bufVars, submitted, written, mtu>>

(* A packet of at most mtu bytes from node k for a local destination: the
   sender is recorded, in update's critical section; the packet is dropped
   unless its source s belongs to the sender.  From the unlock to the return
   of Read timers and their callbacks, responses and writes go on. *)
readPC(k, s, size) ==
    /\ tunOut = Nil
    /\ size <= mtu
    /\ update(k)
    /\ tunOut' = IF s \in DestsOf(k) THEN <<k, s>> ELSE Nil
    /\ UNCHANGED <<submitted, mtu>>

(* A longer packet is answered with an ICMPv6 Packet Too Big p, addressed to
   the source the packet claims, and read from no further. *)
readTooBig(p, size) ==
    /\ tunOut = Nil
    /\ size > mtu
    /\ writePC(p)
    /\ UNCHANGED <<tunOut, mtu>>

(* Read copies the packet and returns; its caller calls Read again. *)
ReadReturns ==
    /\ tunOut # Nil
    /\ tunOut' = Nil
    /\ UNCHANGED <<infoVars, bufVars, submitted, written, mtu>>

(* Mutant: no floor. *)
SetMTUNoFloor(m) ==
    /\ mtu' = IF m > MaxMTU THEN MaxMTU ELSE m
    /\ UNCHANGED <<infoVars, bufVars, submitted, written, tunOut>>

SetMTU(m) ==
    /\ mtu' = LET capped == IF m > MaxMTU THEN MaxMTU ELSE m
              IN  IF capped < MinMTU THEN MinMTU ELSE capped
    /\ UNCHANGED <<infoVars, bufVars, submitted, written, tunOut>>

-----------------------------------------------------------------------------
(* Two minutes pass: the callback leaves the timer and waits for the mutex.
   Several waiting callbacks of one object act like one: the first removes
   the object from every map, and it is never put back. *)
infoTimerFires(i) ==
    /\ i \in infoArmed
    /\ infoArmed' = infoArmed \ {i}
    /\ infoFired' = infoFired \cup {i}
    /\ UNCHANGED <<keyToInfo, destToInfo, infoKey, bufVars, submitted, written, tunOut, mtu>>

(* Mutant: the address and the subnet stay indexed. *)
infoTimeoutKeepsIndex(i) ==
    /\ i \in infoFired
    /\ infoFired' = infoFired \ {i}
    /\ keyToInfo' = [k \in Key |-> IF k = infoKey[i] /\ keyToInfo[k] = i
                                     THEN Nil ELSE keyToInfo[k]]
    /\ infoKey' = IF i \in infoArmed THEN infoKey ELSE [infoKey EXCEPT ![i] = Nil]
    /\ UNCHANGED <<destToInfo, infoArmed, bufVars, submitted, written, tunOut, mtu>>

(* Mutant: the address and the subnet go without comparing the object. *)
infoTimeoutNoCompare(i) ==
    /\ i \in infoFired
    /\ infoFired'  = infoFired \ {i}
    /\ keyToInfo'  = [k \in Key |-> IF k = infoKey[i] /\ keyToInfo[k] = i
                                      THEN Nil ELSE keyToInfo[k]]
    /\ destToInfo' = [d \in Dest |-> IF d \in DestsOf(infoKey[i]) THEN Nil ELSE destToInfo[d]]
    /\ infoKey' = IF i \in infoArmed THEN infoKey ELSE [infoKey EXCEPT ![i] = Nil]
    /\ UNCHANGED <<infoArmed, bufVars, submitted, written, tunOut, mtu>>

(* The callback of a keyInfo: each map entry goes only if it is this object. *)
infoTimeout(i) ==
    /\ i \in infoFired
    /\ infoFired'  = infoFired \ {i}
    /\ keyToInfo'  = [k \in Key |-> IF k = infoKey[i] /\ keyToInfo[k] = i
                                      THEN Nil ELSE keyToInfo[k]]
    /\ destToInfo' = [d \in Dest |-> IF d \in DestsOf(infoKey[i]) /\ destToInfo[d] = i
                                       THEN Nil ELSE destToInfo[d]]
    /\ infoKey' = IF i \in infoArmed THEN infoKey ELSE [infoKey EXCEPT ![i] = Nil]
    /\ UNCHANGED <<infoArmed, bufVars, submitted, written, tunOut, mtu>>

bufTimerFires(b) ==
    /\ b \in bufArmed
    /\ bufArmed' = bufArmed \ {b}
    /\ bufFired' = bufFired \cup {b}
    /\ UNCHANGED <<infoVars, buffers, bufAt, bufPacket, submitted, written, tunOut, mtu>>

(* Mutant: the slot is not emptied. *)
bufTimeoutKeepsSlot(b) ==
    /\ b \in bufFired
    /\ bufFired'  = bufFired \ {b}
    /\ bufAt'     = IF b \in bufArmed THEN bufAt ELSE [bufAt EXCEPT ![b] = Nil]
    /\ bufPacket' = IF b \in bufArmed THEN bufPacket ELSE [bufPacket EXCEPT ![b] = Nil]
    /\ UNCHANGED <<infoVars, buffers, bufArmed, submitted, written, tunOut, mtu>>

(* The callback of a buffer: the slot is emptied only if it holds this one. *)
bufTimeout(b) ==
    /\ b \in bufFired
    /\ bufFired' = bufFired \ {b}
    /\ buffers'  = [d \in Dest |-> IF d = bufAt[b] /\ buffers[d] = b
                                     THEN Nil ELSE buffers[d]]
    /\ bufAt'     = IF b \in bufArmed THEN bufAt ELSE [bufAt EXCEPT ![b] = Nil]
    /\ bufPacket' = IF b \in bufArmed THEN bufPacket ELSE [bufPacket EXCEPT ![b] = Nil]
    /\ UNCHANGED <<infoVars, bufArmed, submitted, written, tunOut, mtu>>

Timers ==
    \/ \E i \in InfoId : infoTimerFires(i) \/ infoTimeout(i)
    \/ \E b \in BufId : bufTimerFires(b) \/ bufTimeout(b)

Next ==
    \/ \E p \in Packet : Write(p)
    \/ \E k \in Key : oobHandler(k)
    \/ \E k \in Key, s \in Dest \cup {Other}, size \in Size : readPC(k, s, size)
    \/ \E p \in Packet, size \in Size : readTooBig(p, size)
    \/ ReadReturns
    \/ \E m \in Requested : SetMTU(m)
    \/ Timers

Spec == Init /\ [][Next]_vars

(* The runtime fires every running timer, and the mutex is fair enough for
   every callback to get it (sync.Mutex hands over to starving waiters). *)
FairSpec ==
    /\ Spec
    /\ \A i \in InfoId : WF_vars(infoTimerFires(i)) /\ WF_vars(infoTimeout(i))
    /\ \A b \in BufId : WF_vars(bufTimerFires(b)) /\ WF_vars(bufTimeout(b))

-----------------------------------------------------------------------------
(* Every variable has its type: maps hold objects or nil. *)
TypeOK ==
    /\ keyToInfo \in [Key -> InfoId \cup {Nil}]
    /\ destToInfo \in [Dest -> InfoId \cup {Nil}]
    /\ buffers \in [Dest -> BufId \cup {Nil}]
    /\ infoKey \in [InfoId -> Key \cup {Nil}]
    /\ infoArmed \subseteq InfoId /\ infoFired \subseteq InfoId
    /\ bufAt \in [BufId -> Dest \cup {Nil}]
    /\ bufPacket \in [BufId -> Packet \cup {Nil}]
    /\ bufArmed \subseteq BufId /\ bufFired \subseteq BufId
    /\ submitted \subseteq Packet
    /\ written \in [Packet \X Key -> Nat]
    /\ tunOut \in (Key \X Dest) \cup {Nil}
    /\ mtu \in MinMTU..MaxMTU

(* No packet is left in a buffer once a key for its destination is known,
   however lookups, answers, expiries and late timer callbacks interleave:
   update empties both buffers in the critical section that indexes the key. *)
NoWaitWhenKnown == \A d \in Dest : destToInfo[d] # Nil => buffers[d] = Nil

(* What addrToInfo and subnetToInfo answer is never a leftover: the object
   is the current one of its key and owns the destination.  A late callback
   of an earlier object of the same key must not break this. *)
IndexConsistent ==
    /\ \A k \in Key : keyToInfo[k] # Nil => infoKey[keyToInfo[k]] = k
    /\ \A d \in Dest : destToInfo[d] # Nil =>
         LET k == infoKey[destToInfo[d]] IN
         /\ k \in Key
         /\ d \in DestsOf(k)
         /\ keyToInfo[k] = destToInfo[d]

(* Nothing leaks: every object has a running timer or a waiting callback, so
   every map entry has one that will remove it, and no callback belongs to
   an object that is gone. *)
NoLeak ==
    /\ \A i \in InfoId : infoKey[i] # Nil <=> i \in infoArmed \cup infoFired
    /\ \A b \in BufId : bufAt[b] # Nil <=> b \in bufArmed \cup bufFired
    /\ \A k \in Key : keyToInfo[k] # Nil => keyToInfo[k] \in infoArmed \cup infoFired
    /\ \A d \in Dest : buffers[d] # Nil => buffers[d] \in bufArmed \cup bufFired

(* A packet is written only to a key that owns its destination, also when it
   waited in a buffer and another key took over the destination meanwhile. *)
RightKey ==
    \A p \in Packet, k \in Key :
        written[<<p, k>>] > 0 => p \in LocalSrc /\ Dst[p] \in DestsOf(k)

(* No packet is written twice, neither to one key nor to two keys that share
   a destination: the buffer is emptied when it is flushed and replaced when
   a newer packet arrives. *)
AtMostOnce ==
    \A p \in Packet, k, l \in Key :
        /\ written[<<p, k>>] <= 1
        /\ written[<<p, k>>] > 0 /\ written[<<p, l>>] > 0 => k = l

(* A packet waits only in the slot of its own destination, and a packet that
   waits or was never offered has not been written: a callback or a flush
   can lose a packet, never repeat one. *)
WaitingUnsent ==
    /\ \A d \in Dest : buffers[d] # Nil =>
         LET p == bufPacket[buffers[d]] IN
         /\ bufAt[buffers[d]] = d
         /\ p \in submitted /\ p \in LocalSrc
         /\ Dst[p] = d
         /\ \A k \in Key : written[<<p, k>>] = 0
    /\ \A p \in Packet \ submitted, k \in Key : written[<<p, k>>] = 0

(* No other key answers for destination d of key k. *)
SoleOwner(k, d) == \A l \in Key : d \in DestsOf(l) => l = k

(* A known key is reachable under each destination that it shares with no
   other key: expiry removes the three entries of an object together, and
   neither a late callback nor another key displaces one of them alone. *)
IndexComplete ==
    \A k \in Key : keyToInfo[k] # Nil =>
        \A d \in DestsOf(k) : SoleOwner(k, d) => destToInfo[d] = keyToInfo[k]

(* An answer to destination d goes to key k without a lookup. *)
Routed(k, d) == destToInfo[d] # Nil /\ infoKey[destToInfo[d]] = k

(* A timer callback of an object of key k runs. *)
TimesOut(k) == \E i \in infoFired \ infoFired' : infoKey[i] = k

(* The source of a packet that Read accepts is routed to its sender when
   update unlocks, unless it is shared with another key.  From then on only a
   timer callback of the sender's own objects takes the route away: no other
   key does, no other key's callback, no write.  It may be a callback that
   waited for the mutex during the update, so Read may return a packet whose
   answer needs a lookup. *)
ReplyRoutable ==
    [][\A k \in Key : \A d \in DestsOf(k) : SoleOwner(k, d) =>
          /\ tunOut' = <<k, d>> /\ tunOut' # tunOut => Routed(k, d)'
          /\ Routed(k, d) => Routed(k, d)' \/ TimesOut(k)]_vars

(* If traffic and responses cease, every table empties: no entry, buffer or
   object outlives its timers. *)
QuiescentDrains ==
    <>[][Timers]_vars =>
        <>[](/\ \A k \in Key : keyToInfo[k] = Nil
             /\ \A d \in Dest : destToInfo[d] = Nil /\ buffers[d] = Nil
             /\ FreeInfo = InfoId /\ FreeBuf = BufId)
-----------------------------------------------------------------------------
(* The key store as the host sees it: routes are what the index answers, a
   packet waits if it is the one in the buffer of some destination. *)
routeTo == [d \in Dest |-> IF destToInfo[d] = Nil THEN Nil ELSE infoKey[destToInfo[d]]]

waiting == {bufPacket[buffers[d]] : d \in {e \in Dest : buffers[e] # Nil}}

Host == INSTANCE Router WITH
        Owned    <- [k \in Key |-> DestsOf(k)],
        Sendable <- {p \in LocalSrc : Dst[p] # Other},
        None     <- Nil,
        route    <- routeTo,
        offered  <- submitted,
        pending  <- waiting,
        sent     <- written

(* The key store implements the router: with late callbacks, keys that share
   a destination and packets that replace each other, every packet offered
   to Write is sent once and to an owner of its destination, waits alone for
   a key that is unknown, or is lost. *)
Routes == Host!Spec
=============================================================================
