-------------------------- MODULE ConfigFileProofs --------------------------
(***************************************************************************)
(* Proofs about ConfigFile for any number of requests, peers and values of *)
(* the nodeinfo.                                                           *)
(***************************************************************************)
EXTENDS ConfigFile, TLAPS

(* No two requests are between the reading and the writing of the file at the
   same time, as with a lock around saveConfig. *)
Saving(h) == pc[h] \in {"truncate", "write"}
SavesApart == \A g, h \in Handler : Saving(g) /\ Saving(h) => g = h

(* Every request that is under way is at a place its method leads to, and what
   it is going to write has the peers of its body, unless it is one about the
   nodeinfo. *)
RequestsInPlace ==
    \A h \in Handler : pc[h] # "idle" =>
        /\ req[h] \in Request
        /\ pc[h] = "remove" => req[h].method \in {"PUT", "DELETE"}
        /\ pc[h] = "add" => req[h].method \in {"PUT", "POST"}
        /\ pc[h] = "set" => req[h].method = "nodeinfo"
        /\ Saving(h) =>
             /\ cfg[h] \in Stored
             /\ req[h].method # "nodeinfo" => cfg[h].peers = req[h].peers

(* While a peer list is promised no request is about to change the peers, the
   file has the list, or is being written, and so does every configuration that
   is going to be written. *)
PromiseKept ==
    promised # None =>
        /\ \A h \in Handler : pc[h] # "idle" => req[h].method = "nodeinfo"
        /\ \A h \in Handler : Saving(h) => cfg[h].peers = promised
        /\ IF file = Empty THEN \E h \in Handler : pc[h] = "write"
                           ELSE file.peers = promised

-----------------------------------------------------------------------------
(* Types and places *)

LEMMA StoredConfigs ==
    /\ Generated \in Stored
    /\ \A f \in {Empty} \cup Stored : ReadConfig(f) \in Stored
    /\ Empty \notin Stored
  BY ConfigFileAssumption DEF Generated, Stored, ReadConfig

(* Only the field of the request changes. *)
LEMMA FieldsSet ==
    ASSUME NEW h \in Handler, req[h] \in Request, NEW c \in Stored
    PROVE  /\ setConfigFields(h, c) \in Stored
           /\ req[h].method # "nodeinfo" => setConfigFields(h, c).peers = req[h].peers
           /\ req[h].method = "nodeinfo" => setConfigFields(h, c).peers = c.peers
  BY DEF setConfigFields, Request, Stored

InPlace == TypeOK /\ RequestsInPlace

LEMMA InitInPlace == Init => InPlace
  BY ConfigFileAssumption DEF Init, InPlace, TypeOK, RequestsInPlace, Stored, Saving

LEMMA EndInPlace ==
    ASSUME InPlace, NEW h \in Handler, End(h)
    PROVE  /\ RequestsInPlace'
           /\ pc' \in [Handler -> {"idle", "remove", "add", "set", "read", "truncate", "write"}]
           /\ req' \in [Handler -> {None} \cup Request]
           /\ todo' \in [Handler -> SUBSET Peer]
           /\ cfg' \in [Handler -> {None} \cup Stored]
  BY DEF InPlace, TypeOK, RequestsInPlace, End, Goto, Saving

LEMMA RequestInPlace ==
    ASSUME InPlace, NEW h \in Handler, request(h)
    PROVE  InPlace'
<1>1. PICK r \in Request :
        /\ req' = [req EXCEPT ![h] = r]
        /\ todo' = [todo EXCEPT ![h] = r.peers]
        /\ Goto(h, CASE r.method \in {"PUT", "DELETE"} -> "remove"
                     [] r.method = "POST" -> "add"
                     [] r.method = "nodeinfo" -> "set")
        /\ promised' = IF r.method = "nodeinfo" THEN promised ELSE None
  BY DEF request
<1>2. r.method \in {"PUT", "POST", "DELETE", "nodeinfo"} /\ r.peers \in SUBSET Peer
  BY ConfigFileAssumption DEF Request
<1>3. PICK l \in {"remove", "add", "set"} :
        /\ pc' = [pc EXCEPT ![h] = l]
        /\ l = "remove" => r.method \in {"PUT", "DELETE"}
        /\ l = "add" => r.method = "POST"
        /\ l = "set" => r.method = "nodeinfo"
  BY <1>1, <1>2 DEF Goto
<1>4. UNCHANGED <<running, nodeinfo, key, up, file, cfg>>
  BY DEF request, coreVars
<1>5. TypeOK'
  BY <1>1, <1>2, <1>3, <1>4 DEF InPlace, TypeOK
<1>6. RequestsInPlace'
  BY <1>1, <1>3, <1>4 DEF InPlace, TypeOK, RequestsInPlace, Saving
<1> QED  BY <1>5, <1>6 DEF InPlace

LEMMA PeersInPlace ==
    ASSUME InPlace, NEW h \in Handler,
           \/ doDeletePeers(h) \/ decodeFails(h) \/ postPeersDone(h) \/ putApiNodeinfo(h)
           \/ \E p \in Peer : doPostPeers(h, p)
    PROVE  InPlace'
<1>1. CASE doDeletePeers(h)
  BY <1>1 DEF doDeletePeers, Goto, InPlace, TypeOK, RequestsInPlace, Saving
<1>2. CASE postPeersDone(h)
  <2>1. CASE req[h].method = "PUT"
    BY <1>2, <2>1 DEF postPeersDone, Goto, coreVars, InPlace, TypeOK, RequestsInPlace, Saving
  <2>2. CASE req[h].method # "PUT"
    BY <1>2, <2>2, EndInPlace DEF postPeersDone, coreVars, InPlace, TypeOK
  <2> QED  BY <2>1, <2>2
<1>3. CASE putApiNodeinfo(h)
  BY <1>3 DEF putApiNodeinfo, Goto, Request, InPlace, TypeOK, RequestsInPlace, Saving
<1>4. ASSUME NEW p \in Peer, doPostPeers(h, p) PROVE InPlace'
  <2>1. CASE p \notin running \cup Invalid
    BY <1>4, <2>1 DEF doPostPeers, InPlace, TypeOK, RequestsInPlace, Saving
  <2>2. CASE p \in running \cup Invalid /\ req[h].method = "PUT"
    BY <1>4, <2>2, EndInPlace DEF doPostPeers, InPlace, TypeOK
  <2>3. CASE p \in running \cup Invalid /\ req[h].method # "PUT"
    BY <1>4, <2>3 DEF doPostPeers, Goto, InPlace, TypeOK, RequestsInPlace, Saving
  <2> QED  BY <2>1, <2>2, <2>3
<1>5. CASE decodeFails(h)
  <2>1. CASE req[h].method = "PUT"
    BY <1>5, <2>1, EndInPlace DEF decodeFails, coreVars, InPlace, TypeOK
  <2>2. CASE req[h].method # "PUT"
    <3>1. PICK decoded \in SUBSET req[h].peers : req' = [req EXCEPT ![h].peers = decoded]
      BY <1>5, <2>2 DEF decodeFails
    <3>2. /\ pc[h] = "add" /\ pc' = [pc EXCEPT ![h] = "read"]
          /\ todo' = [todo EXCEPT ![h] = {}]
          /\ UNCHANGED <<running, nodeinfo, key, up, file, cfg, promised>>
      BY <1>5, <2>2 DEF decodeFails, Goto, coreVars
    <3>3. req[h] \in Request /\ [req[h] EXCEPT !.peers = decoded] \in Request
      BY <3>2 DEF Request, InPlace, RequestsInPlace
    <3> QED
      BY <3>1, <3>2, <3>3 DEF InPlace, TypeOK, RequestsInPlace, Saving
  <2> QED  BY <2>1, <2>2
<1> QED  BY <1>1, <1>2, <1>3, <1>4, <1>5

LEMMA SaveInPlace ==
    ASSUME InPlace, NEW h \in Handler,
           saveRead(h) \/ saveTruncate(h) \/ saveWrite(h) \/ saveFails(h)
    PROVE  InPlace'
<1>1. CASE saveRead(h)
  <2>1. req[h] \in Request /\ ReadConfig(file) \in Stored
    BY <1>1, StoredConfigs DEF saveRead, InPlace, TypeOK, RequestsInPlace
  <2>2. /\ cfg'[h] \in Stored
        /\ req[h].method # "nodeinfo" => cfg'[h].peers = req[h].peers
    BY <1>1, <2>1, FieldsSet DEF saveRead, InPlace, TypeOK
  <2> QED
    BY <1>1, <2>2 DEF saveRead, Goto, coreVars, InPlace, TypeOK, RequestsInPlace, Saving
<1>2. CASE saveTruncate(h)
  BY <1>2 DEF saveTruncate, Goto, coreVars, InPlace, TypeOK, RequestsInPlace, Saving
<1>3. CASE saveWrite(h)
  <2>1. cfg[h] \in Stored /\ req[h] \in Request
    BY <1>3 DEF saveWrite, InPlace, RequestsInPlace, Saving
  <2>2. promised' \in {None} \cup SUBSET Peer
    BY <1>3, <2>1 DEF saveWrite, Request, InPlace, TypeOK
  <2> QED
    BY <1>3, <2>1, <2>2, EndInPlace DEF saveWrite, coreVars, InPlace, TypeOK
<1>4. CASE saveFails(h)
  BY <1>4, EndInPlace DEF saveFails, coreVars, InPlace, TypeOK
<1> QED  BY <1>1, <1>2, <1>3, <1>4

LEMMA RestartInPlace ==
    ASSUME InPlace, restart
    PROVE  InPlace'
<1>1. ReadConfig(file) \in Stored
  BY StoredConfigs DEF InPlace, TypeOK
<1>2. TypeOK'
  BY <1>1 DEF restart, Stored, InPlace, TypeOK
<1>3. RequestsInPlace'
  BY DEF restart, RequestsInPlace, Saving
<1> QED  BY <1>2, <1>3 DEF InPlace

LEMMA NextInPlace == InPlace /\ [Next]_vars => InPlace'
<1> SUFFICES ASSUME InPlace, [Next]_vars PROVE InPlace'
  OBVIOUS
<1>1. CASE UNCHANGED vars
  BY <1>1 DEF vars, coreVars, reqVars, InPlace, TypeOK, RequestsInPlace, Saving
<1> QED
  BY <1>1, RequestInPlace, PeersInPlace, SaveInPlace, RestartInPlace DEF Next

-----------------------------------------------------------------------------
(* The promise *)

IInv == InPlace /\ PromiseKept

LEMMA RequestKeeps ==
    ASSUME IInv, NEW h \in Handler, request(h)
    PROVE  PromiseKept'
<1>1. PICK r \in Request :
        /\ req' = [req EXCEPT ![h] = r]
        /\ Goto(h, CASE r.method \in {"PUT", "DELETE"} -> "remove"
                     [] r.method = "POST" -> "add"
                     [] r.method = "nodeinfo" -> "set")
        /\ promised' = IF r.method = "nodeinfo" THEN promised ELSE None
  BY DEF request
<1>2. CASE r.method # "nodeinfo"
  BY <1>1, <1>2 DEF PromiseKept
<1>3. CASE r.method = "nodeinfo"
  <2>1. pc[h] = "idle" /\ pc' = [pc EXCEPT ![h] = "set"]
    BY <1>1, <1>3 DEF request, Goto
  <2> QED
    BY <1>1, <1>3, <2>1 DEF request, IInv, InPlace, TypeOK, PromiseKept, Saving
<1> QED  BY <1>2, <1>3

(* These steps change neither the promise nor the file, and no request that
   they move is a save. *)
LEMMA PeersKeep ==
    ASSUME IInv, NEW h \in Handler,
           \/ doDeletePeers(h) \/ decodeFails(h) \/ postPeersDone(h) \/ putApiNodeinfo(h)
           \/ \E p \in Peer : doPostPeers(h, p)
    PROVE  PromiseKept'
<1>1. /\ pc[h] \in {"remove", "add", "set"}
      /\ UNCHANGED <<file, promised>>
  BY DEF doDeletePeers, decodeFails, postPeersDone, putApiNodeinfo, doPostPeers, coreVars
<1>2. \/ \E l \in {"add", "read"} : pc' = [pc EXCEPT ![h] = l] /\ UNCHANGED <<req, cfg>>
      \/ UNCHANGED <<pc, req, cfg>>
      \/ End(h)
      \/ decodeFails(h) /\ pc' = [pc EXCEPT ![h] = "read"] /\ UNCHANGED cfg
  BY DEF doDeletePeers, decodeFails, postPeersDone, putApiNodeinfo, doPostPeers, Goto
<1>3. /\ \A g \in Handler \ {h} : pc'[g] = pc[g] /\ req'[g] = req[g] /\ cfg'[g] = cfg[g]
      /\ ~Saving(h)'
      /\ pc'[h] = "idle" \/ req'[h].method = req[h].method
  <2>1. CASE decodeFails(h) /\ req[h].method # "PUT"
    <3>1. PICK decoded \in SUBSET req[h].peers : req' = [req EXCEPT ![h].peers = decoded]
      BY <2>1 DEF decodeFails
    <3>2. pc' = [pc EXCEPT ![h] = "read"] /\ UNCHANGED cfg
      BY <2>1 DEF decodeFails, Goto
    <3>3. req[h] \in Request
      BY <1>1 DEF IInv, InPlace, RequestsInPlace
    <3> QED
      BY <3>1, <3>2, <3>3 DEF Request, Saving, IInv, InPlace, TypeOK
  <2>2. CASE ~(decodeFails(h) /\ req[h].method # "PUT")
    <3>1. \/ \E l \in {"add", "read"} : pc' = [pc EXCEPT ![h] = l] /\ UNCHANGED <<req, cfg>>
          \/ UNCHANGED <<pc, req, cfg>>
          \/ End(h)
      BY <1>2, <2>2 DEF decodeFails
    <3> QED
      BY <1>1, <3>1 DEF End, Goto, Saving, IInv, InPlace, TypeOK
  <2> QED  BY <2>1, <2>2
<1> QED
  BY <1>1, <1>3 DEF IInv, InPlace, TypeOK, PromiseKept, Saving

(* A save of the nodeinfo writes the peers it has read: nothing has changed
   them since, and no other request was writing when it read. *)
LEMMA SaveKeeps ==
    ASSUME IInv, SavesApart, SavesApart', NEW h \in Handler,
           saveRead(h) \/ saveTruncate(h) \/ saveWrite(h) \/ saveFails(h)
    PROVE  PromiseKept'
<1>1. CASE saveRead(h)
  <2> SUFFICES ASSUME promised # None
               PROVE  PromiseKept'
    BY <1>1 DEF saveRead, PromiseKept
  <2>1. pc' = [pc EXCEPT ![h] = "truncate"] /\ pc[h] = "read" /\ UNCHANGED <<file, req, promised>>
    BY <1>1 DEF saveRead, Goto
  <2>2. \A g \in Handler : pc[g] # "write"
    BY <2>1 DEF SavesApart, Saving, IInv, InPlace, TypeOK
  <2>3. file \in Stored /\ file.peers = promised
    BY <2>2 DEF IInv, InPlace, TypeOK, PromiseKept
  <2>4. req[h] \in Request /\ req[h].method = "nodeinfo"
    BY <2>1 DEF IInv, InPlace, RequestsInPlace, PromiseKept
  <2>5. cfg' = [cfg EXCEPT ![h] = setConfigFields(h, file)]
    BY <1>1, <2>3, StoredConfigs DEF saveRead, ReadConfig
  <2>6. cfg'[h].peers = promised
    BY <2>3, <2>4, <2>5, FieldsSet DEF IInv, InPlace, TypeOK
  <2> QED
    BY <2>1, <2>3, <2>5, <2>6, StoredConfigs DEF IInv, InPlace, TypeOK, PromiseKept, Saving
<1>2. CASE saveTruncate(h)
  <2>1. pc' = [pc EXCEPT ![h] = "write"] /\ Saving(h) /\ file' = Empty /\ UNCHANGED <<req, cfg, promised>>
    BY <1>2 DEF saveTruncate, Goto, Saving
  <2> QED
    BY <2>1 DEF IInv, InPlace, TypeOK, PromiseKept, Saving
<1>3. CASE saveWrite(h)
  <2>1. /\ Saving(h) /\ cfg[h] \in Stored /\ req[h] \in Request
        /\ file' = cfg[h] /\ file' # Empty
        /\ req[h].method # "nodeinfo" => cfg[h].peers = req[h].peers
    BY <1>3, StoredConfigs DEF saveWrite, Saving, IInv, InPlace, RequestsInPlace
  <2>2. /\ pc' = [pc EXCEPT ![h] = "idle"] /\ req' = [req EXCEPT ![h] = None]
        /\ \A g \in Handler : ~Saving(g)'
    BY <1>3, <2>1 DEF saveWrite, End, Goto, SavesApart, Saving, IInv, InPlace, TypeOK
  <2>3. CASE /\ req[h].method \in {"PUT", "DELETE"}
             /\ \A g \in Handler \ {h} : pc[g] = "idle" \/ req[g].method = "nodeinfo"
    <3>1. promised' = req[h].peers /\ file'.peers = promised'
      BY <1>3, <2>1, <2>3 DEF saveWrite
    <3> QED
      BY <2>1, <2>2, <2>3, <3>1 DEF IInv, InPlace, TypeOK, PromiseKept
  <2>4. CASE ~(/\ req[h].method \in {"PUT", "DELETE"}
               /\ \A g \in Handler \ {h} : pc[g] = "idle" \/ req[g].method = "nodeinfo")
    <3>1. promised' = promised
      BY <1>3, <2>4 DEF saveWrite
    <3> QED
      BY <2>1, <2>2, <3>1 DEF IInv, InPlace, TypeOK, PromiseKept
  <2> QED  BY <2>3, <2>4
<1>4. CASE saveFails(h)
  <2>1. CASE pc[h] = "write"
    BY <1>4, <2>1 DEF saveFails, PromiseKept
  <2>2. CASE pc[h] # "write"
    <3>1. UNCHANGED <<file, promised>>
      BY <1>4, <2>2 DEF saveFails
    <3>2. pc' = [pc EXCEPT ![h] = "idle"]
      BY <1>4 DEF saveFails, End, Goto
    <3>3. \A g \in Handler \ {h} : pc'[g] = pc[g] /\ req'[g] = req[g] /\ cfg'[g] = cfg[g]
      BY <1>4 DEF saveFails, End, Goto, IInv, InPlace, TypeOK
    <3> QED
      BY <2>2, <3>1, <3>2, <3>3 DEF IInv, InPlace, TypeOK, PromiseKept, Saving
  <2> QED  BY <2>1, <2>2
<1> QED  BY <1>1, <1>2, <1>3, <1>4

LEMMA RestartKeeps ==
    ASSUME IInv, restart
    PROVE  PromiseKept'
<1>1. /\ \A h \in Handler : pc'[h] = "idle"
      /\ file' = file /\ (file = Empty => promised' = None) /\ promised' \in {promised, None}
  BY DEF restart
<1> QED
  BY <1>1 DEF IInv, PromiseKept, Saving

LEMMA NextKeeps == IInv /\ SavesApart /\ SavesApart' /\ [Next]_vars => IInv'
<1> SUFFICES ASSUME IInv, SavesApart, SavesApart', [Next]_vars
             PROVE  PromiseKept'
  BY NextInPlace DEF IInv
<1>1. CASE UNCHANGED vars
  BY <1>1 DEF vars, reqVars, IInv, PromiseKept, Saving
<1> QED
  BY <1>1, RequestKeeps, PeersKeep, SaveKeeps, RestartKeeps DEF Next

LEMMA PromisePersists == IInv => Persisted
  BY DEF IInv, PromiseKept, Persisted

-----------------------------------------------------------------------------
(* Every variable has its type, however requests overlap and whenever the
   process ends. *)
THEOREM TypeCorrect == Spec => []TypeOK
BY InitInPlace, NextInPlace, PTL DEF Spec, InPlace

(* The peers a PUT or DELETE has stored stay in the file until another request
   changes them or a save is interrupted, through any number of requests and
   restarts, as long as no two saves overlap.  rest_server.go has no lock that
   sees to it: ConfigConcurrent shows what happens without. *)
THEOREM SavesApartPersist == Spec /\ []SavesApart => []Persisted
<1>1. Init => IInv
  BY InitInPlace DEF Init, IInv, PromiseKept
<1> QED
  BY <1>1, NextKeeps, PromisePersists, PTL DEF Spec

(* So they do if one client makes one request at a time. *)
THEOREM OneAtATimePersists ==
    ASSUME \A g, h \in Handler : g = h
    PROVE  Spec => []Persisted
<1>1. SavesApart
  BY DEF SavesApart
<1> QED  BY <1>1, SavesApartPersist, PTL
=============================================================================
