--------------------------- MODULE KeyStoreProofs ---------------------------
(***************************************************************************)
(* Proofs about KeyStore for every number of keys, destinations, packets   *)
(* and objects, and every AddrForKey and SubnetForKey: its invariants, and *)
(* that it implements Router.                                              *)
(***************************************************************************)
EXTENDS KeyStore, TLAPS

(* The inductive invariant: AtMostOnce and RightKey rest on WaitingUnsent
   and IndexConsistent, and IndexConsistent on NoLeak (an identity in use is
   not free, so update cannot take it for a new object). *)
IInv ==
    /\ TypeOK
    /\ NoWaitWhenKnown
    /\ IndexConsistent
    /\ NoLeak
    /\ WaitingUnsent
    /\ RightKey
    /\ AtMostOnce

(* Each key's destinations are destinations. *)
LEMMA DestsOfType ==
    \A k \in Key : DestsOf(k) \subseteq Dest /\ AddrForKey[k] \in Addr /\ SubnetForKey[k] \in Subnet
BY KeyStoreAssumption DEF DestsOf, Dest

(* The empty tables of keyStore.init satisfy the invariant. *)
LEMMA InitIInv == Init => IInv
<1> SUFFICES ASSUME Init PROVE IInv
    OBVIOUS
<1> USE KeyStoreAssumption DEF Init
<1>1. TypeOK
    BY DEF TypeOK
<1>2. NoWaitWhenKnown /\ IndexConsistent /\ NoLeak
    BY DEF NoWaitWhenKnown, IndexConsistent, NoLeak
<1>3. WaitingUnsent /\ RightKey /\ AtMostOnce
    BY DEF WaitingUnsent, RightKey, AtMostOnce
<1> QED
    BY <1>1, <1>2, <1>3 DEF IInv

(* Sending to a destination whose key is known. *)
LEMMA SendKnownIInv ==
    ASSUME IInv, NEW p \in Packet, p \notin submitted, p \in LocalSrc,
           Dst[p] \in Dest, sendKnown(Dst[p], p),
           submitted' = submitted \cup {p}, UNCHANGED tunOut, UNCHANGED mtu
    PROVE  IInv'
<1> DEFINE d == Dst[p]
           i == destToInfo[d]
           k == infoKey[i]
<1> USE KeyStoreAssumption
<1>1. /\ i \in InfoId /\ k \in Key /\ d \in DestsOf(k) /\ keyToInfo[k] = i
    BY DEF IInv, TypeOK, IndexConsistent, sendKnown
<1>2. /\ UNCHANGED <<keyToInfo, destToInfo, infoKey, infoFired, bufVars>>
      /\ infoArmed' = infoArmed \cup {i}
      /\ written' = [written EXCEPT ![<<p, k>>] = @ + 1]
    BY DEF sendKnown, resetTimeout
<1>3. /\ written \in [Packet \X Key -> Nat]
      /\ \A l \in Key : written[<<p, l>>] = 0
    BY DEF IInv, TypeOK, WaitingUnsent
<1>4. /\ written'[<<p, k>>] = 1
      /\ \A w \in Packet \X Key : w # <<p, k>> => written'[w] = written[w]
      /\ written' \in [Packet \X Key -> Nat]
    BY <1>1, <1>2, <1>3
<1>5. TypeOK'
    BY <1>1, <1>2, <1>4 DEF IInv, TypeOK, bufVars
<1>6. NoWaitWhenKnown' /\ IndexConsistent'
    BY <1>2 DEF IInv, NoWaitWhenKnown, IndexConsistent, bufVars
<1>7. NoLeak'
    BY <1>1, <1>2 DEF IInv, NoLeak, bufVars
<1>8. WaitingUnsent'
  <2>1. ASSUME NEW e \in Dest, buffers'[e] # Nil
        PROVE  LET q == bufPacket'[buffers'[e]] IN
               /\ bufAt'[buffers'[e]] = e
               /\ q \in submitted' /\ q \in LocalSrc
               /\ Dst[q] = e
               /\ \A l \in Key : written'[<<q, l>>] = 0
    <3> DEFINE q == bufPacket[buffers[e]]
    <3>1. /\ bufAt[buffers[e]] = e /\ q \in submitted /\ q \in LocalSrc /\ Dst[q] = e
          /\ \A l \in Key : written[<<q, l>>] = 0
        BY <2>1, <1>2 DEF IInv, WaitingUnsent, bufVars
    <3>2. q \in Packet /\ q # p
        BY <3>1 DEF IInv, TypeOK
    <3>3. \A l \in Key : written'[<<q, l>>] = 0
        BY <3>1, <3>2, <1>4
    <3> QED
        BY <3>1, <3>3, <1>2 DEF bufVars
  <2>2. \A q \in Packet \ submitted', l \in Key : written'[<<q, l>>] = 0
      BY <1>4 DEF IInv, WaitingUnsent
  <2> QED
      BY <2>1, <2>2 DEF WaitingUnsent
<1>9. RightKey'
    BY <1>1, <1>4 DEF IInv, RightKey
<1>10. AtMostOnce'
  <2> SUFFICES ASSUME NEW q \in Packet, NEW m \in Key, NEW l \in Key
               PROVE  /\ written'[<<q, m>>] <= 1
                      /\ written'[<<q, m>>] > 0 /\ written'[<<q, l>>] > 0 => m = l
      BY DEF AtMostOnce
  <2>1. CASE q = p
      BY <2>1, <1>3, <1>4
  <2>2. CASE q # p
      BY <2>2, <1>4 DEF IInv, AtMostOnce
  <2> QED
      BY <2>1, <2>2
<1> QED
    BY <1>5, <1>6, <1>7, <1>8, <1>9, <1>10 DEF IInv

(* Buffering a packet for a destination whose key is unknown. *)
LEMMA SendUnknownIInv ==
    ASSUME IInv, NEW p \in Packet, p \notin submitted, p \in LocalSrc,
           Dst[p] \in Dest, sendUnknown(Dst[p], p),
           submitted' = submitted \cup {p}, UNCHANGED tunOut, UNCHANGED mtu
    PROVE  IInv'
<1> DEFINE d == Dst[p]
<1> USE KeyStoreAssumption
<1>1. PICK b \in BufId :
        /\ IF buffers[d] = Nil THEN b \in FreeBuf ELSE b = buffers[d]
        /\ buffers'   = [buffers EXCEPT ![d] = b]
        /\ bufAt'     = [bufAt EXCEPT ![b] = d]
        /\ bufPacket' = [bufPacket EXCEPT ![b] = p]
        /\ bufArmed'  = bufArmed \cup {b}
    BY DEF sendUnknown
<1>2. destToInfo[d] = Nil /\ UNCHANGED <<infoVars, bufFired, written>>
    BY DEF sendUnknown
<1>3. TypeOK'
    BY <1>1, <1>2 DEF IInv, TypeOK, infoVars
<1>4. NoWaitWhenKnown' /\ IndexConsistent'
    BY <1>1, <1>2 DEF IInv, TypeOK, NoWaitWhenKnown, IndexConsistent, infoVars
<1>5. NoLeak'
    BY <1>1, <1>2 DEF IInv, TypeOK, NoLeak, infoVars
<1>6. \A e \in Dest : e # d => buffers'[e] = buffers[e] /\ (buffers[e] # Nil => buffers[e] # b)
  <2> SUFFICES ASSUME NEW e \in Dest, e # d
               PROVE  buffers'[e] = buffers[e] /\ (buffers[e] # Nil => buffers[e] # b)
      OBVIOUS
  <2>1. buffers'[e] = buffers[e]
      BY <1>1 DEF IInv, TypeOK
  <2>2. buffers[e] # Nil => bufAt[buffers[e]] = e
      BY DEF IInv, WaitingUnsent
  <2>3. buffers[d] # Nil => bufAt[buffers[d]] = d
      BY DEF IInv, WaitingUnsent
  <2> QED
      BY <2>1, <2>2, <2>3, <1>1 DEF FreeBuf
<1>7. WaitingUnsent'
  <2>1. ASSUME NEW e \in Dest, buffers'[e] # Nil
        PROVE  LET q == bufPacket'[buffers'[e]] IN
               /\ bufAt'[buffers'[e]] = e
               /\ q \in submitted' /\ q \in LocalSrc
               /\ Dst[q] = e
               /\ \A l \in Key : written'[<<q, l>>] = 0
    <3>1. CASE e = d
      <4>1. buffers'[e] = b /\ bufAt'[b] = d /\ bufPacket'[b] = p
          BY <3>1, <1>1 DEF IInv, TypeOK
      <4>2. \A l \in Key : written'[<<p, l>>] = 0
          BY <1>2 DEF IInv, WaitingUnsent
      <4> QED
          BY <3>1, <4>1, <4>2
    <3>2. CASE e # d
      <4>1. buffers'[e] = buffers[e] /\ buffers[e] # Nil /\ buffers[e] # b
          BY <3>2, <2>1, <1>6
      <4>2. buffers[e] \in BufId
          BY <4>1 DEF IInv, TypeOK
      <4>3. bufAt'[buffers[e]] = bufAt[buffers[e]] /\ bufPacket'[buffers[e]] = bufPacket[buffers[e]]
          BY <4>1, <4>2, <1>1 DEF IInv, TypeOK
      <4> QED
          BY <4>1, <4>3, <1>2 DEF IInv, WaitingUnsent
    <3> QED
        BY <3>1, <3>2
  <2>2. \A q \in Packet \ submitted', l \in Key : written'[<<q, l>>] = 0
      BY <1>2 DEF IInv, WaitingUnsent
  <2> QED
      BY <2>1, <2>2 DEF WaitingUnsent
<1>8. RightKey' /\ AtMostOnce'
    BY <1>2 DEF IInv, RightKey, AtMostOnce
<1> QED
    BY <1>3, <1>4, <1>5, <1>7, <1>8 DEF IInv

(* Write, and the Packet Too Big answer, which is a Write. *)
LEMMA WriteIInv ==
    ASSUME IInv, NEW p \in Packet, writePC(p), UNCHANGED <<tunOut, mtu>>
    PROVE  IInv'
<1>1. CASE p \in LocalSrc /\ Dst[p] # Other
  <2>1. Dst[p] \in Dest
      BY <1>1, KeyStoreAssumption
  <2>2. sendKnown(Dst[p], p) \/ sendUnknown(Dst[p], p)
      BY <1>1 DEF writePC, sendTo
  <2> QED
      BY <1>1, <2>1, <2>2, SendKnownIInv, SendUnknownIInv DEF writePC
<1>2. CASE ~(p \in LocalSrc /\ Dst[p] # Other)
  <2>1. UNCHANGED <<infoVars, bufVars, written>> /\ submitted' = submitted \cup {p}
      BY <1>2 DEF writePC
  <2> QED
      BY <2>1 DEF IInv, TypeOK, NoWaitWhenKnown, IndexConsistent, NoLeak, WaitingUnsent,
                  RightKey, AtMostOnce, infoVars, bufVars
<1> QED
    BY <1>1, <1>2

(* Refreshing a known key. *)
LEMMA UpdateKnownIInv ==
    ASSUME IInv, NEW k \in Key, updateKnown(k), UNCHANGED <<submitted, mtu>>,
           tunOut' \in (Key \X Dest) \cup {Nil}
    PROVE  IInv'
<1>1. keyToInfo[k] \in InfoId /\ infoKey[keyToInfo[k]] # Nil
    BY KeyStoreAssumption DEF IInv, TypeOK, IndexConsistent, updateKnown
<1>2. TypeOK'
    BY <1>1 DEF IInv, TypeOK, updateKnown, resetTimeout, bufVars
<1>3. NoLeak'
    BY <1>1 DEF IInv, NoLeak, updateKnown, resetTimeout, bufVars
<1>4. NoWaitWhenKnown' /\ IndexConsistent' /\ WaitingUnsent' /\ RightKey' /\ AtMostOnce'
    BY DEF IInv, NoWaitWhenKnown, IndexConsistent, WaitingUnsent, RightKey, AtMostOnce,
           updateKnown, bufVars
<1> QED
    BY <1>2, <1>3, <1>4 DEF IInv

(* Learning a new key: the only step that both indexes and flushes. *)
LEMMA UpdateNewIInv ==
    ASSUME IInv, NEW k \in Key, updateNew(k), UNCHANGED <<submitted, mtu>>,
           tunOut' \in (Key \X Dest) \cup {Nil}
    PROVE  IInv'
<1> USE KeyStoreAssumption
<1>1. PICK i \in FreeInfo :
        /\ infoKey'    = [infoKey EXCEPT ![i] = k]
        /\ keyToInfo'  = [keyToInfo EXCEPT ![k] = i]
        /\ destToInfo' = [d \in Dest |-> IF d \in DestsOf(k) THEN i ELSE destToInfo[d]]
        /\ infoArmed'  = infoArmed \cup {i}
    BY DEF updateNew, resetTimeout
<1>2. /\ keyToInfo[k] = Nil
      /\ buffers' = [d \in Dest |-> IF d \in DestsOf(k) THEN Nil ELSE buffers[d]]
      /\ written' = [w \in Packet \X Key |->
                        IF w[1] \in Flushed(k) /\ w[2] = k THEN written[w] + 1 ELSE written[w]]
      /\ UNCHANGED <<infoFired, bufAt, bufPacket, bufArmed, bufFired>>
    BY DEF updateNew
<1>3. i \in InfoId /\ infoKey[i] = Nil
    BY DEF FreeInfo
<1>4. TypeOK'
  <2>1. written' \in [Packet \X Key -> Nat]
      BY <1>2 DEF IInv, TypeOK
  <2> QED
      BY <2>1, <1>1, <1>2, <1>3 DEF IInv, TypeOK
<1>5. NoWaitWhenKnown'
    BY <1>1, <1>2 DEF IInv, NoWaitWhenKnown
<1>6. IndexConsistent'
  <2>1. \A l \in Key : keyToInfo'[l] # Nil => infoKey'[keyToInfo'[l]] = l
    <3> SUFFICES ASSUME NEW l \in Key, keyToInfo'[l] # Nil
                 PROVE  infoKey'[keyToInfo'[l]] = l
        OBVIOUS
    <3>1. CASE l = k
        BY <3>1, <1>1, <1>3 DEF IInv, TypeOK
    <3>2. CASE l # k
      <4>1. keyToInfo'[l] = keyToInfo[l] /\ infoKey[keyToInfo[l]] = l /\ keyToInfo[l] \in InfoId
          BY <3>2, <1>1 DEF IInv, TypeOK, IndexConsistent
      <4>2. keyToInfo[l] # i
          BY <4>1, <1>3
      <4> QED
          BY <4>1, <4>2, <1>1, <1>3 DEF IInv, TypeOK
    <3> QED
        BY <3>1, <3>2
  <2>2. ASSUME NEW d \in Dest, destToInfo'[d] # Nil
        PROVE  LET l == infoKey'[destToInfo'[d]] IN
               l \in Key /\ d \in DestsOf(l) /\ keyToInfo'[l] = destToInfo'[d]
    <3>1. CASE d \in DestsOf(k)
        BY <3>1, <1>1, <1>3 DEF IInv, TypeOK
    <3>2. CASE d \notin DestsOf(k)
      <4> DEFINE l == infoKey[destToInfo[d]]
      <4>1. destToInfo'[d] = destToInfo[d] /\ destToInfo[d] \in InfoId
          BY <2>2, <3>2, <1>1 DEF IInv, TypeOK
      <4>2. l \in Key /\ d \in DestsOf(l) /\ keyToInfo[l] = destToInfo[d]
          BY <4>1 DEF IInv, IndexConsistent
      <4>3. destToInfo[d] # i /\ l # k
          BY <4>1, <4>2, <1>2, <1>3
      <4>4. infoKey'[destToInfo[d]] = l /\ keyToInfo'[l] = keyToInfo[l]
          BY <4>1, <4>2, <4>3, <1>1, <1>3 DEF IInv, TypeOK
      <4> QED
          BY <4>1, <4>2, <4>4
    <3> QED
        BY <3>1, <3>2
  <2> QED
      BY <2>1, <2>2 DEF IndexConsistent
<1>7. NoLeak'
  <2>1. \A j \in InfoId : infoKey'[j] # Nil <=> j \in infoArmed' \cup infoFired'
      BY <1>1, <1>2, <1>3 DEF IInv, TypeOK, NoLeak
  <2>2. \A l \in Key : keyToInfo'[l] # Nil => keyToInfo'[l] \in infoArmed' \cup infoFired'
      BY <1>1, <1>2 DEF IInv, TypeOK, NoLeak
  <2>3. \A d \in Dest : buffers'[d] # Nil => buffers'[d] \in bufArmed' \cup bufFired'
      BY <1>2 DEF IInv, NoLeak
  <2>4. \A b \in BufId : bufAt'[b] # Nil <=> b \in bufArmed' \cup bufFired'
      BY <1>2 DEF IInv, NoLeak
  <2> QED
      BY <2>1, <2>2, <2>3, <2>4 DEF NoLeak
<1>8. \A q \in Flushed(k) : /\ q \in submitted /\ q \in LocalSrc /\ Dst[q] \in DestsOf(k)
                            /\ \A l \in Key : written[<<q, l>>] = 0
    BY DestsOfType DEF IInv, WaitingUnsent, Flushed
<1>9. \A q \in Packet, l \in Key :
        written'[<<q, l>>] = IF q \in Flushed(k) /\ l = k THEN 1 ELSE written[<<q, l>>]
  <2> SUFFICES ASSUME NEW q \in Packet, NEW l \in Key
               PROVE  written'[<<q, l>>] = IF q \in Flushed(k) /\ l = k THEN 1 ELSE written[<<q, l>>]
      OBVIOUS
  <2>1. written'[<<q, l>>] = IF q \in Flushed(k) /\ l = k THEN written[<<q, l>>] + 1
                                                          ELSE written[<<q, l>>]
      BY <1>2
  <2> QED
      BY <2>1, <1>8
<1>10. WaitingUnsent'
  <2>1. ASSUME NEW e \in Dest, buffers'[e] # Nil
        PROVE  LET q == bufPacket'[buffers'[e]] IN
               /\ bufAt'[buffers'[e]] = e
               /\ q \in submitted' /\ q \in LocalSrc
               /\ Dst[q] = e
               /\ \A l \in Key : written'[<<q, l>>] = 0
    <3> DEFINE q == bufPacket[buffers[e]]
    <3>1. e \notin DestsOf(k) /\ buffers'[e] = buffers[e]
        BY <2>1, <1>2
    <3>2. /\ bufAt[buffers[e]] = e /\ q \in submitted /\ q \in LocalSrc /\ Dst[q] = e
          /\ \A l \in Key : written[<<q, l>>] = 0
        BY <2>1, <3>1 DEF IInv, WaitingUnsent
    <3>3. q \notin Flushed(k) /\ q \in Packet
        BY <3>1, <3>2, <1>8
    <3>4. \A l \in Key : written'[<<q, l>>] = 0
        BY <3>2, <3>3, <1>9
    <3> QED
        BY <3>1, <3>2, <3>4, <1>2
  <2>2. ASSUME NEW q \in Packet \ submitted', NEW l \in Key
        PROVE  written'[<<q, l>>] = 0
    <3>1. q \notin Flushed(k)
        BY <1>8
    <3>2. written[<<q, l>>] = 0
        BY DEF IInv, WaitingUnsent
    <3> QED
        BY <3>1, <3>2, <1>9
  <2> QED
      BY <2>1, <2>2 DEF WaitingUnsent
<1>11. RightKey'
    BY <1>8, <1>9 DEF IInv, RightKey
<1>12. AtMostOnce'
  <2> SUFFICES ASSUME NEW q \in Packet, NEW m \in Key, NEW l \in Key
               PROVE  /\ written'[<<q, m>>] <= 1
                      /\ written'[<<q, m>>] > 0 /\ written'[<<q, l>>] > 0 => m = l
      BY DEF AtMostOnce
  <2>1. CASE q \in Flushed(k)
      BY <2>1, <1>8, <1>9
  <2>2. CASE q \notin Flushed(k)
      BY <2>2, <1>9 DEF IInv, AtMostOnce
  <2> QED
      BY <2>1, <2>2
<1> QED
    BY <1>4, <1>5, <1>6, <1>7, <1>10, <1>11, <1>12 DEF IInv

LEMMA UpdateIInv ==
    ASSUME IInv, NEW k \in Key, update(k), UNCHANGED <<submitted, mtu>>,
           tunOut' \in (Key \X Dest) \cup {Nil}
    PROVE  IInv'
BY UpdateKnownIInv, UpdateNewIInv DEF update

(* A keyInfo timer fires, or its callback runs: the object leaves every map
   that still points to it, and its identity is free only without a timer. *)
LEMMA InfoTimersIInv ==
    ASSUME IInv, NEW i \in InfoId, infoTimerFires(i) \/ infoTimeout(i)
    PROVE  IInv'
<1> USE KeyStoreAssumption
<1>1. CASE infoTimerFires(i)
    BY <1>1 DEF infoTimerFires, IInv, TypeOK, NoWaitWhenKnown, IndexConsistent, NoLeak,
                WaitingUnsent, RightKey, AtMostOnce, bufVars
<1>2. CASE infoTimeout(i)
  <2> DEFINE m == infoKey[i]
  <2>1. m \in Key
      BY <1>2 DEF infoTimeout, IInv, TypeOK, NoLeak
  <2>2. TypeOK'
      BY <1>2 DEF infoTimeout, IInv, TypeOK, bufVars
  <2>3. NoWaitWhenKnown'
      BY <1>2 DEF infoTimeout, IInv, NoWaitWhenKnown, bufVars
  <2>4. /\ \A k \in Key : keyToInfo'[k] # Nil => keyToInfo'[k] = keyToInfo[k] /\ keyToInfo[k] # i
        /\ \A d \in Dest : destToInfo'[d] # Nil => destToInfo'[d] = destToInfo[d] /\ destToInfo[d] # i
        /\ \A k \in Key : keyToInfo[k] # i => keyToInfo'[k] = keyToInfo[k]
        /\ \A j \in InfoId : j # i => infoKey'[j] = infoKey[j]
      BY <1>2, <2>1 DEF infoTimeout, IInv, TypeOK, IndexConsistent
  <2>5. IndexConsistent'
    <3>1. \A k \in Key : keyToInfo'[k] # Nil => infoKey'[keyToInfo'[k]] = k
        BY <2>4 DEF IInv, TypeOK, IndexConsistent
    <3>2. ASSUME NEW d \in Dest, destToInfo'[d] # Nil
          PROVE  LET l == infoKey'[destToInfo'[d]] IN
                 l \in Key /\ d \in DestsOf(l) /\ keyToInfo'[l] = destToInfo'[d]
      <4> DEFINE j == destToInfo[d]
      <4>1. destToInfo'[d] = j /\ j # i /\ j \in InfoId
          BY <3>2, <2>4 DEF IInv, TypeOK
      <4>2. infoKey[j] \in Key /\ d \in DestsOf(infoKey[j]) /\ keyToInfo[infoKey[j]] = j
          BY <4>1 DEF IInv, IndexConsistent
      <4>3. infoKey'[j] = infoKey[j] /\ keyToInfo'[infoKey[j]] = j
          BY <4>1, <4>2, <2>4
      <4> QED
          BY <4>1, <4>2, <4>3
    <3> QED
        BY <3>1, <3>2 DEF IndexConsistent
  <2>6. NoLeak'
    <3>1. \A j \in InfoId : infoKey'[j] # Nil <=> j \in infoArmed' \cup infoFired'
        BY <1>2, <2>1 DEF infoTimeout, IInv, TypeOK, NoLeak
    <3>2. \A k \in Key : keyToInfo'[k] # Nil => keyToInfo'[k] \in infoArmed' \cup infoFired'
        BY <1>2, <2>4 DEF infoTimeout, IInv, NoLeak
    <3> QED
        BY <1>2, <3>1, <3>2 DEF infoTimeout, IInv, NoLeak, bufVars
  <2>7. WaitingUnsent' /\ RightKey' /\ AtMostOnce'
      BY <1>2 DEF infoTimeout, IInv, WaitingUnsent, RightKey, AtMostOnce, bufVars
  <2> QED
      BY <2>2, <2>3, <2>5, <2>6, <2>7 DEF IInv
<1> QED
    BY <1>1, <1>2

(* A buffer's timer fires, or its callback empties the slot it still holds. *)
LEMMA BufTimersIInv ==
    ASSUME IInv, NEW b \in BufId, bufTimerFires(b) \/ bufTimeout(b)
    PROVE  IInv'
<1> USE KeyStoreAssumption
<1>1. CASE bufTimerFires(b)
    BY <1>1 DEF bufTimerFires, IInv, TypeOK, NoWaitWhenKnown, IndexConsistent, NoLeak,
                WaitingUnsent, RightKey, AtMostOnce, infoVars
<1>2. CASE bufTimeout(b)
  <2>1. TypeOK'
      BY <1>2 DEF bufTimeout, IInv, TypeOK, infoVars
  <2>2. \A d \in Dest : buffers'[d] # Nil =>
            /\ buffers'[d] = buffers[d] /\ buffers[d] # b
            /\ bufAt'[buffers[d]] = bufAt[buffers[d]]
            /\ bufPacket'[buffers[d]] = bufPacket[buffers[d]]
      BY <1>2 DEF bufTimeout, IInv, TypeOK, WaitingUnsent
  <2>3. NoWaitWhenKnown' /\ IndexConsistent' /\ RightKey' /\ AtMostOnce'
      BY <1>2 DEF bufTimeout, IInv, NoWaitWhenKnown, IndexConsistent, RightKey, AtMostOnce, infoVars
  <2>4. NoLeak'
    <3>1. \A c \in BufId : bufAt'[c] # Nil <=> c \in bufArmed' \cup bufFired'
        BY <1>2 DEF bufTimeout, IInv, TypeOK, NoLeak
    <3>2. \A d \in Dest : buffers'[d] # Nil => buffers'[d] \in bufArmed' \cup bufFired'
        BY <1>2, <2>2 DEF bufTimeout, IInv, NoLeak
    <3> QED
        BY <1>2, <3>1, <3>2 DEF bufTimeout, IInv, NoLeak, infoVars
  <2>5. WaitingUnsent'
    <3>1. UNCHANGED <<submitted, written>>
        BY <1>2 DEF bufTimeout
    <3> QED
        BY <2>2, <3>1 DEF IInv, WaitingUnsent
  <2> QED
      BY <2>1, <2>3, <2>4, <2>5 DEF IInv
<1> QED
    BY <1>1, <1>2

(* Every step of the key store preserves the invariant. *)
LEMMA NextIInv == IInv /\ [Next]_vars => IInv'
<1> SUFFICES ASSUME IInv, [Next]_vars PROVE IInv'
    OBVIOUS
<1>1. ASSUME NEW p \in Packet, Write(p) PROVE IInv'
    BY <1>1, WriteIInv DEF Write
<1>2. ASSUME NEW k \in Key, oobHandler(k) PROVE IInv'
    BY <1>2, UpdateIInv DEF oobHandler, IInv, TypeOK
<1>3. ASSUME NEW k \in Key, NEW s \in Dest \cup {Other}, NEW size \in Size, readPC(k, s, size)
      PROVE  IInv'
    BY <1>3, UpdateIInv, DestsOfType DEF readPC
<1>4. ASSUME NEW p \in Packet, NEW size \in Size, readTooBig(p, size) PROVE IInv'
    BY <1>4, WriteIInv DEF readTooBig
<1>5. CASE ReadReturns
    BY <1>5 DEF ReadReturns, IInv, TypeOK, NoWaitWhenKnown, IndexConsistent, NoLeak, WaitingUnsent,
                RightKey, AtMostOnce, infoVars, bufVars
<1>6. ASSUME NEW m \in Requested, SetMTU(m) PROVE IInv'
  <2>1. mtu' \in MinMTU..MaxMTU
      BY <1>6, KeyStoreAssumption DEF SetMTU
  <2> QED
      BY <2>1, <1>6 DEF SetMTU, IInv, TypeOK, NoWaitWhenKnown, IndexConsistent, NoLeak,
                WaitingUnsent, RightKey, AtMostOnce, infoVars, bufVars
<1>7. CASE Timers
    BY <1>7, InfoTimersIInv, BufTimersIInv DEF Timers
<1>8. CASE UNCHANGED vars
    BY <1>8 DEF vars, IInv, TypeOK, NoWaitWhenKnown, IndexConsistent, NoLeak, WaitingUnsent,
                RightKey, AtMostOnce, infoVars, bufVars
<1> QED
    BY <1>1, <1>2, <1>3, <1>4, <1>5, <1>6, <1>7, <1>8 DEF Next

(* The inductive invariant holds in every reachable state. *)
THEOREM Invariance == Spec => []IInv
BY InitIInv, NextIInv, PTL DEF Spec

(* Every variable keeps its type. *)
THEOREM TypeCorrect == Spec => []TypeOK
<1>1. IInv => TypeOK
    BY DEF IInv
<1> QED
    BY <1>1, Invariance, PTL

(* sendToAddress, sendToSubnet and update never leave a packet waiting for a
   destination whose key is known, for any mapping of keys to destinations. *)
THEOREM NoWait == Spec => []NoWaitWhenKnown
<1>1. IInv => NoWaitWhenKnown
    BY DEF IInv
<1> QED
    BY <1>1, Invariance, PTL

(* The address and subnet maps answer only with the current object of a key
   that owns the destination, whatever callbacks arrive late. *)
THEOREM IndexSound == Spec => []IndexConsistent
<1>1. IInv => IndexConsistent
    BY DEF IInv
<1> QED
    BY <1>1, Invariance, PTL

(* Every entry and buffer has a timer that will remove it. *)
THEOREM LeakFree == Spec => []NoLeak
<1>1. IInv => NoLeak
    BY DEF IInv
<1> QED
    BY <1>1, Invariance, PTL

(* A packet reaches only a key owning its destination, and at most one, at
   most once. *)
THEOREM Delivery == Spec => [](RightKey /\ AtMostOnce)
<1>1. IInv => RightKey /\ AtMostOnce
    BY DEF IInv
<1> QED
    BY <1>1, Invariance, PTL

-----------------------------------------------------------------------------
(* No key displaces another from a destination that only the other owns. *)
LEMMA CompleteStep ==
    ASSUME IInv, IndexComplete, [Next]_vars
    PROVE  IndexComplete'
<1> USE KeyStoreAssumption
<1>1. ASSUME NEW k \in Key, updateNew(k) PROVE IndexComplete'
  <2>1. PICK i \in FreeInfo :
          /\ keyToInfo'  = [keyToInfo EXCEPT ![k] = i]
          /\ destToInfo' = [d \in Dest |-> IF d \in DestsOf(k) THEN i ELSE destToInfo[d]]
      BY <1>1 DEF updateNew
  <2> SUFFICES ASSUME NEW l \in Key, keyToInfo'[l] # Nil, NEW d \in DestsOf(l), SoleOwner(l, d)
               PROVE  destToInfo'[d] = keyToInfo'[l]
      BY DEF IndexComplete
  <2>2. d \in Dest
      BY DestsOfType
  <2>3. CASE l = k
      BY <2>1, <2>2, <2>3 DEF IInv, TypeOK
  <2>4. CASE l # k
    <3>1. keyToInfo'[l] = keyToInfo[l] /\ d \notin DestsOf(k)
        BY <2>1, <2>4 DEF IInv, TypeOK, SoleOwner
    <3> QED
        BY <3>1, <2>1, <2>2 DEF IndexComplete
  <2> QED
      BY <2>3, <2>4
<1>2. ASSUME NEW i \in InfoId, infoTimeout(i) PROVE IndexComplete'
  <2> SUFFICES ASSUME NEW l \in Key, keyToInfo'[l] # Nil, NEW d \in DestsOf(l), SoleOwner(l, d)
               PROVE  destToInfo'[d] = keyToInfo'[l]
      BY DEF IndexComplete
  <2>1. d \in Dest
      BY DestsOfType
  <2>2. keyToInfo'[l] = keyToInfo[l] /\ keyToInfo[l] # Nil
      BY <1>2 DEF infoTimeout
  <2>3. infoKey[keyToInfo[l]] = l /\ keyToInfo[l] # i
      BY <1>2, <2>2 DEF infoTimeout, IInv, IndexConsistent
  <2>4. destToInfo[d] = keyToInfo[l]
      BY <2>2 DEF IndexComplete
  <2> QED
      BY <1>2, <2>1, <2>2, <2>3, <2>4 DEF infoTimeout
<1>3. CASE UNCHANGED <<keyToInfo, destToInfo>>
    BY <1>3 DEF IndexComplete
<1>4. ASSUME NEW p \in Packet, writePC(p) PROVE UNCHANGED <<keyToInfo, destToInfo>>
    BY <1>4 DEF writePC, sendTo, sendKnown, sendUnknown, infoVars
<1>5. ASSUME NEW k \in Key, updateKnown(k) PROVE UNCHANGED <<keyToInfo, destToInfo>>
    BY <1>5 DEF updateKnown
<1>6. ASSUME NEW k \in Key, update(k) PROVE IndexComplete'
    BY <1>1, <1>3, <1>5, <1>6 DEF update
<1>7. CASE Timers
  <2>1. ASSUME NEW i \in InfoId, infoTimerFires(i) PROVE UNCHANGED <<keyToInfo, destToInfo>>
      BY <2>1 DEF infoTimerFires
  <2>2. ASSUME NEW b \in BufId, bufTimerFires(b) \/ bufTimeout(b)
        PROVE  UNCHANGED <<keyToInfo, destToInfo>>
      BY <2>2 DEF bufTimerFires, bufTimeout, infoVars
  <2> QED
      BY <1>2, <1>3, <1>7, <2>1, <2>2 DEF Timers
<1>8. CASE ReadReturns
    BY <1>3, <1>8 DEF ReadReturns, infoVars
<1>9. ASSUME NEW m \in Requested, SetMTU(m) PROVE UNCHANGED <<keyToInfo, destToInfo>>
    BY <1>9 DEF SetMTU, infoVars
<1>10. CASE UNCHANGED vars
    BY <1>3, <1>10 DEF vars, infoVars
<1> QED
    BY <1>3, <1>4, <1>6, <1>7, <1>8, <1>9, <1>10
       DEF Next, Write, oobHandler, readPC, readTooBig

(* A known key is reachable under its address and its subnet, as far as no
   other key has them too. *)
THEOREM Completeness == Spec => []IndexComplete
<1>1. Init => IndexComplete
    BY DEF Init, IndexComplete
<1>2. IInv /\ IndexComplete /\ [Next]_vars => IndexComplete'
    BY CompleteStep
<1> QED
    BY <1>1, <1>2, Invariance, PTL DEF Spec

(* Only readPC accepts a packet, and it records the sender in the same step. *)
LEMMA OnlyReadAccepts ==
    ASSUME [Next]_vars, tunOut' # tunOut, tunOut' # Nil
    PROVE  \E k \in Key, s \in Dest : update(k) /\ s \in DestsOf(k) /\ tunOut' = <<k, s>>
<1>1. ASSUME NEW k \in Key, NEW s \in Dest \cup {Other}, NEW size \in Size, readPC(k, s, size)
      PROVE  \E l \in Key, t \in Dest : update(l) /\ t \in DestsOf(l) /\ tunOut' = <<l, t>>
    BY <1>1, DestsOfType DEF readPC
<1> QED
    BY <1>1 DEF Next, Write, oobHandler, readTooBig, ReadReturns, SetMTU, Timers, infoTimerFires,
                infoTimeout, bufTimerFires, bufTimeout, vars

(* A route to a destination that no other key has survives every step but
   the callback of one of its own key's timers. *)
LEMMA RouteKept ==
    ASSUME IInv, [Next]_vars,
           NEW k \in Key, NEW d \in DestsOf(k), SoleOwner(k, d), Routed(k, d)
    PROVE  Routed(k, d)' \/ TimesOut(k)
<1> USE KeyStoreAssumption
<1>1. /\ d \in Dest
      /\ destToInfo[d] \in InfoId
      /\ keyToInfo[k] = destToInfo[d]
    BY DestsOfType DEF IInv, TypeOK, IndexConsistent, Routed
<1>2. ASSUME UNCHANGED <<destToInfo, infoKey>> PROVE Routed(k, d)'
    BY <1>2 DEF Routed
<1>3. ASSUME NEW l \in Key, updateNew(l) PROVE Routed(k, d)'
  <2>1. PICK i \in FreeInfo :
          /\ infoKey'    = [infoKey EXCEPT ![i] = l]
          /\ destToInfo' = [e \in Dest |-> IF e \in DestsOf(l) THEN i ELSE destToInfo[e]]
      BY <1>3 DEF updateNew
  <2>2. l # k
      BY <1>1, <1>3 DEF updateNew, Routed
  <2>3. destToInfo'[d] = destToInfo[d]
      BY <1>1, <2>1, <2>2 DEF SoleOwner
  <2>4. infoKey'[destToInfo[d]] = infoKey[destToInfo[d]]
      BY <1>1, <2>1 DEF FreeInfo, Routed, IInv, TypeOK
  <2> QED
      BY <2>3, <2>4 DEF Routed
<1>4. ASSUME NEW i \in InfoId, infoTimeout(i) PROVE Routed(k, d)' \/ TimesOut(k)
  <2>1. CASE infoKey[i] = k
      BY <1>4, <2>1 DEF infoTimeout, TimesOut
  <2>2. CASE infoKey[i] # k
    <3>1. destToInfo[d] # i
        BY <2>2 DEF Routed
    <3>2. destToInfo'[d] = destToInfo[d] /\ infoKey'[destToInfo[d]] = infoKey[destToInfo[d]]
        BY <1>1, <1>4, <3>1 DEF infoTimeout, IInv, TypeOK
    <3> QED
        BY <3>2 DEF Routed
  <2> QED
      BY <2>1, <2>2
<1>5. ASSUME NEW l \in Key, update(l) PROVE Routed(k, d)'
  <2>1. CASE updateKnown(l)
      BY <1>2, <2>1 DEF updateKnown
  <2> QED
      BY <1>3, <1>5, <2>1 DEF update
<1>6. ASSUME NEW p \in Packet, writePC(p) PROVE UNCHANGED <<destToInfo, infoKey>>
    BY <1>6 DEF writePC, sendTo, sendKnown, sendUnknown, infoVars
<1>7. ASSUME NEW i \in InfoId, infoTimerFires(i) PROVE UNCHANGED <<destToInfo, infoKey>>
    BY <1>7 DEF infoTimerFires
<1>8. ASSUME NEW b \in BufId, bufTimerFires(b) \/ bufTimeout(b)
      PROVE  UNCHANGED <<destToInfo, infoKey>>
    BY <1>8 DEF bufTimerFires, bufTimeout, infoVars
<1>9. CASE Timers
    BY <1>2, <1>4, <1>7, <1>8, <1>9 DEF Timers
<1>10. CASE ReadReturns
    BY <1>2, <1>10 DEF ReadReturns, infoVars
<1>11. ASSUME NEW m \in Requested, SetMTU(m) PROVE UNCHANGED <<destToInfo, infoKey>>
    BY <1>11 DEF SetMTU, infoVars
<1>12. CASE UNCHANGED vars
    BY <1>2, <1>12 DEF vars, infoVars
<1> QED
    BY <1>2, <1>5, <1>6, <1>9, <1>10, <1>11, <1>12
       DEF Next, Write, oobHandler, readPC, readTooBig

(* The source of a packet that Read accepts, if no other key owns it, is
   routed to its sender at the unlock of update, and stays so until a timer
   callback of the sender's own objects runs. *)
THEOREM Replies == Spec => ReplyRoutable
<1> DEFINE Step == \A k \in Key : \A d \in DestsOf(k) : SoleOwner(k, d) =>
                     /\ tunOut' = <<k, d>> /\ tunOut' # tunOut => Routed(k, d)'
                     /\ Routed(k, d) => Routed(k, d)' \/ TimesOut(k)
<1>1. ASSUME IInv, IInv', IndexComplete', [Next]_vars,
             NEW k \in Key, NEW d \in DestsOf(k), SoleOwner(k, d),
             tunOut' = <<k, d>>, tunOut' # tunOut
      PROVE  Routed(k, d)'
  <2>1. <<k, d>> # Nil
      BY DestsOfType, KeyStoreAssumption
  <2>2. update(k)
      BY <1>1, <2>1, OnlyReadAccepts
  <2>3. keyToInfo'[k] # Nil
      BY <1>1, <2>2, KeyStoreAssumption
         DEF update, updateKnown, updateNew, FreeInfo, IInv, TypeOK
  <2>4. destToInfo'[d] = keyToInfo'[k]
      BY <1>1, <2>3 DEF IndexComplete
  <2>5. infoKey'[keyToInfo'[k]] = k
      BY <1>1, <2>3 DEF IInv, IndexConsistent
  <2> QED
      BY <2>3, <2>4, <2>5 DEF Routed
<1>2. IInv /\ IInv' /\ IndexComplete' /\ [Next]_vars => Step
    BY <1>1, RouteKept
<1>3. IInv /\ IInv' /\ IndexComplete' /\ [Next]_vars => [Step]_vars
    BY <1>2
<1> QED
    BY <1>3, Invariance, Completeness, PTL DEF Spec, ReplyRoutable

-----------------------------------------------------------------------------
(* The refinement: each step of the key store is one step of Router under the
   mapping of KeyStore, or changes nothing the host can see. *)


(* Empty maps are an empty table of routes, and nothing waits. *)
LEMMA InitRoutes == Init => Host!Init
BY KeyStoreAssumption DEF Init, Host!Init, routeTo, waiting

(* What waits at d has d as its destination, and was offered. *)
LEMMA WaitingAt ==
    ASSUME IInv
    PROVE  \A d \in Dest : buffers[d] # Nil =>
               /\ buffers[d] \in BufId /\ bufAt[buffers[d]] = d
               /\ bufPacket[buffers[d]] \in Packet /\ Dst[bufPacket[buffers[d]]] = d
BY KeyStoreAssumption DEF IInv, TypeOK, WaitingUnsent

(* A routed destination leads to a key. *)
LEMMA RouteIsKey ==
    ASSUME IInv
    PROVE  \A d \in Dest : destToInfo[d] # Nil =>
               /\ destToInfo[d] \in InfoId
               /\ infoKey[destToInfo[d]] \in Key
               /\ infoKey[destToInfo[d]] # Nil
BY KeyStoreAssumption DEF IInv, TypeOK, IndexConsistent

(* Steps that touch neither map, nor buffers, nor the network are invisible. *)
LEMMA Invisible ==
    ASSUME UNCHANGED <<destToInfo, infoKey, buffers, bufPacket, submitted, written>>
    PROVE  UNCHANGED Host!vars
BY DEF Host!vars, routeTo, waiting

(* writePC refuses, forwards or holds the packet. *)
LEMMA WriteRoutes ==
    ASSUME IInv, NEW p \in Packet, writePC(p)
    PROVE  Host!Next
<1> USE KeyStoreAssumption
<1>1. CASE ~(p \in LocalSrc /\ Dst[p] # Other)
  <2>1. p \notin submitted /\ submitted' = submitted \cup {p}
      BY <1>1 DEF writePC
  <2>2. UNCHANGED <<infoVars, bufVars, written>>
      BY <1>1 DEF writePC
  <2>3. UNCHANGED <<routeTo, waiting, written>>
      BY <2>2 DEF routeTo, waiting, infoVars, bufVars
  <2> QED
      BY <1>1, <2>1, <2>3 DEF Host!Next, Host!Refuse
<1>2. CASE p \in LocalSrc /\ Dst[p] # Other /\ sendKnown(Dst[p], p)
  <2> DEFINE d == Dst[p]
  <2>1. d \in Dest /\ p \notin submitted /\ submitted' = submitted \cup {p}
      BY <1>2 DEF writePC
  <2>2. /\ UNCHANGED <<destToInfo, infoKey, buffers, bufPacket>>
        /\ destToInfo[d] # Nil
        /\ written' = [written EXCEPT ![<<p, infoKey[destToInfo[d]]>>] = @ + 1]
      BY <1>2 DEF sendKnown, bufVars
  <2>3. routeTo[d] = infoKey[destToInfo[d]] /\ routeTo[d] # Nil
      BY <2>1, <2>2, RouteIsKey DEF routeTo
  <2>4. UNCHANGED <<routeTo, waiting>>
      BY <2>2 DEF routeTo, waiting
  <2>5. Host!Forward(p)
      BY <1>2, <2>1, <2>2, <2>3, <2>4 DEF Host!Forward
  <2> QED
      BY <2>5 DEF Host!Next
<1>3. CASE p \in LocalSrc /\ Dst[p] # Other /\ sendUnknown(Dst[p], p)
  <2> DEFINE d == Dst[p]
  <2>1. d \in Dest /\ p \notin submitted /\ submitted' = submitted \cup {p}
      BY <1>3 DEF writePC
  <2>2. PICK b \in BufId :
          /\ IF buffers[d] = Nil THEN b \in FreeBuf ELSE b = buffers[d]
          /\ buffers'   = [buffers EXCEPT ![d] = b]
          /\ bufPacket' = [bufPacket EXCEPT ![b] = p]
      BY <1>3 DEF sendUnknown
  <2>3. destToInfo[d] = Nil /\ UNCHANGED <<destToInfo, infoKey, written>>
      BY <1>3 DEF sendUnknown, infoVars
  <2>4. routeTo[d] = Nil /\ UNCHANGED routeTo
      BY <2>1, <2>3 DEF routeTo
  <2>5. b # Nil /\ buffers'[d] = b /\ bufPacket'[b] = p
      BY <2>1, <2>2 DEF IInv, TypeOK
  <2>6. \A e \in Dest : e # d =>
          /\ buffers'[e] = buffers[e]
          /\ buffers[e] # Nil => bufPacket'[buffers[e]] = bufPacket[buffers[e]]
    <3> SUFFICES ASSUME NEW e \in Dest, e # d
                 PROVE  /\ buffers'[e] = buffers[e]
                        /\ buffers[e] # Nil => bufPacket'[buffers[e]] = bufPacket[buffers[e]]
        OBVIOUS
    <3>1. buffers'[e] = buffers[e]
        BY <2>2 DEF IInv, TypeOK
    <3>2. buffers[e] # Nil => buffers[e] \in BufId /\ buffers[e] # b
        BY <2>1, <2>2, WaitingAt DEF FreeBuf
    <3> QED
        BY <3>1, <3>2, <2>2 DEF IInv, TypeOK
  <2>7. waiting' = {q \in waiting : Dst[q] # d} \cup {p}
    <3>1. ASSUME NEW q \in waiting' PROVE q \in {r \in waiting : Dst[r] # d} \cup {p}
      <4>1. PICK e \in Dest : buffers'[e] # Nil /\ q = bufPacket'[buffers'[e]]
          BY <3>1 DEF waiting
      <4>2. CASE e = d
          BY <4>1, <4>2, <2>5
      <4>3. CASE e # d
          BY <4>1, <4>3, <2>6, WaitingAt DEF waiting
      <4> QED
          BY <4>2, <4>3
    <3>2. p \in waiting'
        BY <2>1, <2>5 DEF waiting
    <3>3. ASSUME NEW q \in waiting, Dst[q] # d PROVE q \in waiting'
      <4>1. PICK e \in Dest : buffers[e] # Nil /\ q = bufPacket[buffers[e]]
          BY DEF waiting
      <4>2. e # d
          BY <4>1, <3>3, WaitingAt
      <4> QED
          BY <4>1, <4>2, <2>6 DEF waiting
    <3> QED
        BY <3>1, <3>2, <3>3
  <2>8. Host!Hold(p)
      BY <1>3, <2>1, <2>3, <2>4, <2>7 DEF Host!Hold
  <2> QED
      BY <2>8 DEF Host!Next
<1> QED
    BY <1>1, <1>2, <1>3 DEF writePC, sendTo

(* update(k) of a new key is Learn(k); of a known key it is invisible. *)
LEMMA UpdateRoutes ==
    ASSUME IInv, NEW k \in Key, update(k), UNCHANGED submitted
    PROVE  Host!Next \/ UNCHANGED Host!vars
<1> USE KeyStoreAssumption
<1>1. CASE updateKnown(k)
    BY <1>1, Invisible DEF updateKnown, bufVars
<1>2. CASE updateNew(k)
  <2>1. PICK i \in FreeInfo :
          /\ infoKey'    = [infoKey EXCEPT ![i] = k]
          /\ destToInfo' = [d \in Dest |-> IF d \in DestsOf(k) THEN i ELSE destToInfo[d]]
      BY <1>2 DEF updateNew
  <2>2. /\ buffers' = [d \in Dest |-> IF d \in DestsOf(k) THEN Nil ELSE buffers[d]]
        /\ written' = [w \in Packet \X Key |->
                         IF w[1] \in Flushed(k) /\ w[2] = k THEN written[w] + 1 ELSE written[w]]
        /\ UNCHANGED bufPacket
      BY <1>2 DEF updateNew
  <2>3. i \in InfoId /\ i # Nil /\ infoKey[i] = Nil /\ infoKey'[i] = k
      BY <2>1 DEF FreeInfo, IInv, TypeOK
  <2>4. routeTo' = [d \in Dest |-> IF d \in DestsOf(k) THEN k ELSE routeTo[d]]
    <3>1. ASSUME NEW d \in Dest
          PROVE  routeTo'[d] = IF d \in DestsOf(k) THEN k ELSE routeTo[d]
      <4>1. CASE d \in DestsOf(k)
          BY <4>1, <2>1, <2>3 DEF routeTo
      <4>2. CASE d \notin DestsOf(k)
        <5>1. destToInfo'[d] = destToInfo[d]
            BY <4>2, <2>1
        <5>2. destToInfo[d] # Nil => infoKey'[destToInfo[d]] = infoKey[destToInfo[d]]
            BY <2>1, <2>3, RouteIsKey DEF IInv, TypeOK
        <5> QED
            BY <4>2, <5>1, <5>2 DEF routeTo
      <4> QED
          BY <4>1, <4>2
    <3> QED
        BY <3>1 DEF routeTo
  <2>5. Flushed(k) = {p \in waiting : Dst[p] \in DestsOf(k)}
      BY DestsOfType, WaitingAt DEF Flushed, waiting
  <2>6. waiting' = waiting \ Flushed(k)
    <3>1. ASSUME NEW q \in waiting' PROVE q \in waiting \ Flushed(k)
      <4>1. PICK e \in Dest : buffers'[e] # Nil /\ q = bufPacket'[buffers'[e]]
          BY <3>1 DEF waiting
      <4>2. e \notin DestsOf(k) /\ buffers'[e] = buffers[e] /\ q = bufPacket[buffers[e]]
          BY <4>1, <2>2
      <4>3. q \in waiting /\ Dst[q] = e
          BY <4>1, <4>2, WaitingAt DEF waiting
      <4> QED
          BY <4>2, <4>3, <2>5
    <3>2. ASSUME NEW q \in waiting, q \notin Flushed(k) PROVE q \in waiting'
      <4>1. PICK e \in Dest : buffers[e] # Nil /\ q = bufPacket[buffers[e]]
          BY DEF waiting
      <4>2. e \notin DestsOf(k)
          BY <4>1, <3>2, <2>5, WaitingAt
      <4>3. buffers'[e] = buffers[e] /\ q = bufPacket'[buffers'[e]]
          BY <4>1, <4>2, <2>2
      <4> QED
          BY <4>1, <4>3 DEF waiting
    <3> QED
        BY <3>1, <3>2
  <2>7. Host!Learn(k)
      BY <2>2, <2>4, <2>5, <2>6 DEF Host!Learn
  <2> QED
      BY <2>7 DEF Host!Next
<1> QED
    BY <1>1, <1>2 DEF update

(* The callback of a current object removes all routes to its key; that of an
   earlier one is invisible. *)
LEMMA InfoTimeoutRoutes ==
    ASSUME IInv, NEW i \in InfoId, infoTimeout(i)
    PROVE  Host!Next \/ UNCHANGED Host!vars
<1> USE KeyStoreAssumption
<1> DEFINE k == infoKey[i]
<1>1. k \in Key /\ i # Nil
    BY DEF infoTimeout, IInv, TypeOK, NoLeak
<1>2. /\ destToInfo' = [d \in Dest |-> IF d \in DestsOf(k) /\ destToInfo[d] = i
                                         THEN Nil ELSE destToInfo[d]]
      /\ \A j \in InfoId : j # i => infoKey'[j] = infoKey[j]
      /\ UNCHANGED <<buffers, bufPacket, submitted, written>>
    BY DEF infoTimeout, bufVars, IInv, TypeOK
<1>3. \A d \in Dest : destToInfo[d] = i => d \in DestsOf(k) /\ keyToInfo[k] = i
    BY <1>1 DEF IInv, IndexConsistent
<1>4. \A d \in Dest : routeTo'[d] = IF destToInfo[d] = i THEN Nil ELSE routeTo[d]
  <2> SUFFICES ASSUME NEW d \in Dest
               PROVE  routeTo'[d] = IF destToInfo[d] = i THEN Nil ELSE routeTo[d]
      OBVIOUS
  <2>1. CASE destToInfo[d] = i
      BY <2>1, <1>2, <1>3 DEF routeTo
  <2>2. CASE destToInfo[d] # i
    <3>1. destToInfo'[d] = destToInfo[d]
        BY <2>2, <1>2
    <3>2. destToInfo[d] # Nil => infoKey'[destToInfo[d]] = infoKey[destToInfo[d]]
        BY <2>2, <1>2, RouteIsKey
    <3> QED
        BY <2>2, <3>1, <3>2 DEF routeTo
  <2> QED
      BY <2>1, <2>2
<1>5. UNCHANGED <<waiting, submitted, written>>
    BY <1>2 DEF waiting
<1>6. CASE keyToInfo[k] = i
  <2>1. \A d \in Dest : destToInfo[d] = i <=> routeTo[d] = k
      BY <1>1, <1>6, RouteIsKey DEF routeTo, IInv, IndexConsistent
  <2>2. routeTo' = [d \in Dest |-> IF routeTo[d] = k THEN Nil ELSE routeTo[d]]
      BY <1>4, <2>1 DEF routeTo
  <2> QED
      BY <1>1, <1>5, <2>2 DEF Host!Next, Host!Forget
<1>7. CASE keyToInfo[k] # i
  <2>1. routeTo' = routeTo
      BY <1>3, <1>4, <1>7 DEF routeTo
  <2> QED
      BY <1>5, <2>1 DEF Host!vars
<1> QED
    BY <1>6, <1>7

(* The callback of a buffer that is still in its slot drops the packet. *)
LEMMA BufTimeoutRoutes ==
    ASSUME IInv, NEW b \in BufId, bufTimeout(b)
    PROVE  Host!Next \/ UNCHANGED Host!vars
<1> USE KeyStoreAssumption
<1> DEFINE d == bufAt[b]
<1>1. d \in Dest /\ b # Nil
    BY DEF bufTimeout, IInv, TypeOK, NoLeak
<1>2. /\ buffers' = [e \in Dest |-> IF e = d /\ buffers[e] = b THEN Nil ELSE buffers[e]]
      /\ \A c \in BufId : c # b => bufPacket'[c] = bufPacket[c]
      /\ UNCHANGED <<destToInfo, infoKey, submitted, written>>
    BY DEF bufTimeout, infoVars, IInv, TypeOK
<1>3. \A e \in Dest : buffers'[e] # Nil =>
          /\ buffers[e] # b /\ buffers'[e] = buffers[e]
          /\ bufPacket'[buffers'[e]] = bufPacket[buffers[e]]
    BY <1>2, WaitingAt
<1>4. UNCHANGED routeTo
    BY <1>2 DEF routeTo
<1>5. CASE buffers[d] = b
  <2> DEFINE p == bufPacket[b]
  <2>1. p \in Packet /\ p \in waiting /\ Dst[p] = d
      BY <1>1, <1>5, WaitingAt DEF waiting
  <2>2. waiting' = waiting \ {p}
    <3>1. ASSUME NEW q \in waiting' PROVE q \in waiting \ {p}
      <4>1. PICK e \in Dest : buffers'[e] # Nil /\ q = bufPacket'[buffers'[e]]
          BY <3>1 DEF waiting
      <4>2. buffers[e] # b /\ buffers[e] # Nil /\ q = bufPacket[buffers[e]]
          BY <4>1, <1>3
      <4>3. Dst[q] = e /\ e # d
          BY <4>2, <1>5, WaitingAt
      <4> QED
          BY <4>2, <4>3, <2>1 DEF waiting
    <3>2. ASSUME NEW q \in waiting, q # p PROVE q \in waiting'
      <4>1. PICK e \in Dest : buffers[e] # Nil /\ q = bufPacket[buffers[e]]
          BY DEF waiting
      <4>2. buffers[e] # b
          BY <4>1, <3>2
      <4>3. buffers'[e] = buffers[e] /\ buffers'[e] # Nil
          BY <4>1, <4>2, <1>2
      <4>4. q = bufPacket'[buffers'[e]]
          BY <4>1, <4>3, <1>3
      <4> QED
          BY <4>3, <4>4 DEF waiting
    <3> QED
        BY <3>1, <3>2
  <2> QED
      BY <1>2, <1>4, <2>1, <2>2 DEF Host!Next, Host!Expire
<1>6. CASE buffers[d] # b
  <2>1. buffers' = buffers
      BY <1>2, <1>6 DEF IInv, TypeOK
  <2>2. waiting' = waiting
    <3>1. \A e \in Dest : buffers[e] # Nil => bufPacket'[buffers'[e]] = bufPacket[buffers[e]]
        BY <2>1, <1>3
    <3> QED
        BY <2>1, <3>1 DEF waiting
  <2> QED
      BY <1>2, <1>4, <2>2 DEF Host!vars
<1> QED
    BY <1>5, <1>6

(* Every step of the key store is a step of the router or invisible. *)
LEMMA StepRoutes == IInv /\ [Next]_vars => [Host!Next]_(Host!vars)
<1> SUFFICES ASSUME IInv, [Next]_vars PROVE Host!Next \/ UNCHANGED Host!vars
    OBVIOUS
<1>1. ASSUME NEW p \in Packet, Write(p) PROVE Host!Next
    BY <1>1, WriteRoutes DEF Write
<1>2. ASSUME NEW k \in Key, oobHandler(k) PROVE Host!Next \/ UNCHANGED Host!vars
    BY <1>2, UpdateRoutes DEF oobHandler
<1>3. ASSUME NEW k \in Key, NEW s \in Dest \cup {Other}, NEW size \in Size, readPC(k, s, size)
      PROVE  Host!Next \/ UNCHANGED Host!vars
    BY <1>3, UpdateRoutes DEF readPC
<1>4. ASSUME NEW p \in Packet, NEW size \in Size, readTooBig(p, size) PROVE Host!Next
    BY <1>4, WriteRoutes DEF readTooBig
<1>5. CASE ReadReturns
    BY <1>5, Invisible DEF ReadReturns, infoVars, bufVars
<1>6. ASSUME NEW m \in Requested, SetMTU(m) PROVE UNCHANGED Host!vars
    BY <1>6, Invisible DEF SetMTU, infoVars, bufVars
<1>7. CASE Timers
  <2>1. ASSUME NEW i \in InfoId, infoTimerFires(i) PROVE UNCHANGED Host!vars
      BY <2>1, Invisible DEF infoTimerFires, bufVars
  <2>2. ASSUME NEW b \in BufId, bufTimerFires(b) PROVE UNCHANGED Host!vars
      BY <2>2, Invisible DEF bufTimerFires, infoVars
  <2> QED
      BY <1>7, <2>1, <2>2, InfoTimeoutRoutes, BufTimeoutRoutes DEF Timers
<1>8. CASE UNCHANGED vars
    BY <1>8, Invisible DEF vars, infoVars, bufVars
<1> QED
    BY <1>1, <1>2, <1>3, <1>4, <1>5, <1>6, <1>7, <1>8 DEF Next

(* The key store implements the router. *)
THEOREM Implementation == Spec => Routes
BY InitRoutes, StepRoutes, Invariance, PTL DEF Spec, Routes, Host!Spec
=============================================================================
