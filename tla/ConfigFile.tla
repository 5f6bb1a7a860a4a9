---------------------------- MODULE ConfigFile ----------------------------
(***************************************************************************)
(* Changes of the configuration through the REST interface and how they    *)
(* reach the file: the peers and nodeinfo handlers with savePeers and      *)
(* saveConfig (src/src/restapi/rest_server.go), ReadConfig and WriteConfig *)
(* (src/src/defaults/defaults.go), setNodeInfo (src/src/core/nodeinfo.go), *)
(* and the start of the node from the file (src/cmd/mesh/main.go).         *)
(*                                                                         *)
(* Every request carries the header that asks for a save.  Requests run    *)
(* concurrently, one goroutine each, and nothing orders their saves:       *)
(* os.WriteFile first truncates the file, then writes it.                  *)
(***************************************************************************)
EXTENDS Integers, FiniteSets

CONSTANTS
    Handler,   \* concurrent requests
    Method,    \* the kinds of request that are made: "PUT", "POST", "DELETE", "nodeinfo"
    Peer,      \* peer URIs (with their interface)
    Invalid,   \* those AddPeer rejects
    NodeInfo,  \* values for the nodeinfo
    TooLong,   \* those setNodeInfo rejects
    Default,   \* the nodeinfo of a generated configuration
    Empty,     \* the truncated file
    None

ASSUME ConfigFileAssumption ==
    /\ Invalid \subseteq Peer /\ TooLong \subseteq NodeInfo
    /\ Default \in NodeInfo \ TooLong
    /\ Method \subseteq {"PUT", "POST", "DELETE", "nodeinfo"}
    /\ \A s \in SUBSET Peer : s # None
    /\ Empty \notin [key : {"own", "new"}, peers : SUBSET Peer, info : NodeInfo]

VARIABLES
    running,  \* Core.config._peers
    nodeinfo, \* nodeinfo.myNodeInfo
    key,      \* the key the node runs with: the one it always had, or a new one
    up,       \* the node runs
    file,     \* the configuration file
    pc,       \* where each request is
    req,      \* its method and its body
    todo,     \* the peers of the body that are still to be added
    cfg,      \* the configuration it has read and changed
    promised \* the peer list the last PUT or DELETE has stored, or None

coreVars  == <<running, nodeinfo, key, up>>
reqVars   == <<pc, req, todo, cfg>>
vars == <<coreVars, file, reqVars, promised>>

Generated == [key |-> "new", peers |-> {}, info |-> Default]
Request   == [method : Method, peers : SUBSET Peer, info : NodeInfo]

(* ReadConfig lays what the file says over a generated configuration. *)
ReadConfig(f) == IF f = Empty THEN Generated ELSE f

Init ==
    /\ file \in [key : {"own"}, peers : SUBSET (Peer \ Invalid), info : {Default}]
    /\ running = file.peers /\ nodeinfo = file.info /\ key = file.key /\ up = TRUE
    /\ pc = [h \in Handler |-> "idle"]
    /\ req = [h \in Handler |-> None]
    /\ todo = [h \in Handler |-> {}]
    /\ cfg = [h \in Handler |-> None]
    /\ promised = None

Goto(h, l) == pc' = [pc EXCEPT ![h] = l]

End(h) ==
    /\ Goto(h, "idle")
    /\ req' = [req EXCEPT ![h] = None]
    /\ todo' = [todo EXCEPT ![h] = {}]
    /\ cfg' = [cfg EXCEPT ![h] = None]

(* A request arrives.  What an earlier one has promised about the peers ends
   when another one is about to change them. *)
request(h) ==
    /\ up /\ pc[h] = "idle"
    /\ \E r \in Request :
        /\ r.method = "nodeinfo" => r.peers = {}
        /\ r.method = "DELETE" => r.peers = {}
        /\ r.method # "nodeinfo" => r.info = Default
        /\ req' = [req EXCEPT ![h] = r]
        /\ todo' = [todo EXCEPT ![h] = r.peers]
        /\ Goto(h, CASE r.method \in {"PUT", "DELETE"} -> "remove"
                     [] r.method = "POST" -> "add"
                     [] r.method = "nodeinfo" -> "set")
        /\ promised' = IF r.method = "nodeinfo" THEN promised ELSE None
    /\ UNCHANGED <<coreVars, file, cfg>>

doDeletePeers(h) ==
    /\ pc[h] = "remove"
    /\ running' = {}
    /\ Goto(h, IF req[h].method = "PUT" THEN "add" ELSE "read")
    /\ UNCHANGED <<nodeinfo, key, up, file, req, todo, cfg, promised>>

(* The body cannot be decoded.  A PUT ends with nothing saved; a POST goes on
   to save what the decoder has got so far, and has added none of it. *)
decodeFails(h) ==
    /\ pc[h] = "add" /\ todo[h] = req[h].peers
    /\ IF req[h].method = "PUT" THEN End(h)
       ELSE /\ \E decoded \in SUBSET req[h].peers : req' = [req EXCEPT ![h].peers = decoded]
            /\ todo' = [todo EXCEPT ![h] = {}]
            /\ Goto(h, "read")
            /\ UNCHANGED cfg
    /\ UNCHANGED <<coreVars, file, promised>>

(* AddPeer for one peer of the body.  An error ends a PUT with nothing saved;
   after a POST it is the error that leads to the save. *)
doPostPeers(h, p) ==
    /\ pc[h] = "add" /\ p \in todo[h]
    /\ IF p \in running \cup Invalid
         THEN /\ IF req[h].method = "PUT" THEN End(h)
                 ELSE Goto(h, "read") /\ UNCHANGED <<req, todo, cfg>>
              /\ UNCHANGED running
         ELSE /\ running' = running \cup {p}
              /\ todo' = [todo EXCEPT ![h] = @ \ {p}]
              /\ UNCHANGED <<pc, req, cfg>>
    /\ UNCHANGED <<nodeinfo, key, up, file, promised>>

(* All peers have been added: PUT saves, POST does not. *)
postPeersDone(h) ==
    /\ pc[h] = "add" /\ todo[h] = {}
    /\ IF req[h].method = "PUT"
         THEN Goto(h, "read") /\ UNCHANGED <<req, todo, cfg>>
         ELSE End(h)
    /\ UNCHANGED <<coreVars, file, promised>>

(* The handler does not look at the error of SetThisNodeInfo. *)
putApiNodeinfo(h) ==
    /\ pc[h] = "set"
    /\ nodeinfo' = IF req[h].info \in TooLong THEN nodeinfo ELSE req[h].info
    /\ Goto(h, "read")
    /\ UNCHANGED <<running, key, up, file, req, todo, cfg, promised>>

(* Mutant: the fields are set in a generated configuration. *)
setConfigFieldsOfDefaults(h, c) ==
    IF req[h].method = "nodeinfo" THEN [Generated EXCEPT !.info = req[h].info]
    ELSE [Generated EXCEPT !.peers = req[h].peers]

(* Mutant: a nodeinfo that was refused is stored as none at all. *)
setConfigFieldsNil(h, c) ==
    IF req[h].method = "nodeinfo"
      THEN [c EXCEPT !.info = IF req[h].info \in TooLong THEN None ELSE req[h].info]
      ELSE [c EXCEPT !.peers = req[h].peers]

setConfigFields(h, c) ==
    IF req[h].method = "nodeinfo" THEN [c EXCEPT !.info = req[h].info]
    ELSE [c EXCEPT !.peers = req[h].peers]

(* saveConfig reads the file and changes the fields ... *)
saveRead(h) ==
    /\ pc[h] = "read"
    /\ cfg' = [cfg EXCEPT ![h] = setConfigFields(h, ReadConfig(file))]
    /\ Goto(h, "truncate")
    /\ UNCHANGED <<coreVars, file, req, todo, promised>>

(* ... and os.WriteFile opens the file, which truncates it, ... *)
saveTruncate(h) ==
    /\ pc[h] = "truncate"
    /\ file' = Empty
    /\ Goto(h, "write")
    /\ UNCHANGED <<coreVars, req, todo, cfg, promised>>

(* ... and writes it.  The peer list is promised if no other request was
   about to change it. *)
saveWrite(h) ==
    /\ pc[h] = "write"
    /\ file' = cfg[h]
    /\ promised' =
         IF req[h].method \in {"PUT", "DELETE"} /\
            \A g \in Handler \ {h} : pc[g] = "idle" \/ req[g].method = "nodeinfo"
         THEN req[h].peers ELSE promised
    /\ End(h)
    /\ UNCHANGED coreVars

(* The file cannot be read or opened, or the write fails, which is only logged.
   A write that fails leaves the file truncated and ends every promise. *)
saveFails(h) ==
    /\ pc[h] \in {"read", "truncate", "write"}
    /\ promised' = IF pc[h] = "write" THEN None ELSE promised
    /\ End(h)
    /\ UNCHANGED <<coreVars, file>>

(* The process ends at any time and is started again from the file.  A
   nodeinfo that setNodeInfo rejects keeps it from starting.  A crash inside
   a write ends the promises. *)
restart ==
    LET c == ReadConfig(file) IN
    /\ up
    /\ up' = (c.info \notin TooLong)
    /\ running' = c.peers /\ nodeinfo' = c.info /\ key' = c.key
    /\ pc' = [h \in Handler |-> "idle"]
    /\ req' = [h \in Handler |-> None]
    /\ todo' = [h \in Handler |-> {}]
    /\ cfg' = [h \in Handler |-> None]
    /\ promised' = IF file = Empty THEN None ELSE promised
    /\ UNCHANGED file

Next ==
    \/ \E h \in Handler :
        \/ request(h) \/ doDeletePeers(h) \/ decodeFails(h) \/ postPeersDone(h)
        \/ putApiNodeinfo(h)
        \/ \E p \in Peer : doPostPeers(h, p)
        \/ saveRead(h) \/ saveTruncate(h) \/ saveWrite(h) \/ saveFails(h)
    \/ restart

Spec == Init /\ [][Next]_vars

-----------------------------------------------------------------------------
Stored == [key : {"own", "new"}, peers : SUBSET Peer, info : NodeInfo]

(* Every variable has its type. *)
TypeOK ==
    /\ running \subseteq Peer /\ nodeinfo \in NodeInfo
    /\ key \in {"own", "new"} /\ up \in BOOLEAN
    /\ file \in {Empty} \cup Stored
    /\ pc \in [Handler -> {"idle", "remove", "add", "set", "read", "truncate", "write"}]
    /\ req \in [Handler -> {None} \cup Request]
    /\ todo \in [Handler -> SUBSET Peer]
    /\ cfg \in [Handler -> {None} \cup Stored]
    /\ promised \in {None} \cup SUBSET Peer

(* The description of PUT /api/peers, rest_server.go:151: "Request header
   "Riv-Save-Config: true" persists changes": the peers a PUT or DELETE has
   stored are in the file, through later saves of the nodeinfo and restarts,
   until another request changes them or a save is interrupted. *)
Persisted == promised # None => file = Empty \/ file.peers = promised
=============================================================================
