----------------------------- MODULE Handshake -----------------------------
(***************************************************************************)
(* The exchange that opens a link: the middle part of link.handler         *)
(* (src/src/core/link.go) with the metadata of src/src/core/version.go, at *)
(* both ends of one connection.  The two nodes have their own versions,    *)
(* keys and configurations.  An end may run another program: it claims     *)
(* whatever metadata it likes, and accepts whatever it likes.  Either end  *)
(* may give up at any point, and may stop answering at any point, also     *)
(* after it has sent its metadata.                                         *)
(*                                                                         *)
(* HandleConn is the routing library (external): it returns when the       *)
(* connection is closed, and may return at any other time.                 *)
(*                                                                         *)
(* LinksProofs speaks of Links and of this module, hence the names of the  *)
(* specification here.                                                     *)
(***************************************************************************)
EXTENDS Integers, FiniteSets

CONSTANTS
    Key,      \* public keys
    Version,  \* the preamble with version and minor version: what check compares
    NoMeta    \* nothing has been sent

version_metadata == [ver : Version, key : Key]

ASSUME HandshakeAssumption == Cardinality(Key) > 1 /\ NoMeta \notin version_metadata

Side == {"dialer", "listener"}
Other(e) == IF e = "dialer" THEN "listener" ELSE "dialer"

VARIABLES
    runs,      \* the ends that run this program
    meta,      \* the version and the key that each node has
    pinned,    \* the dialer's pinned keys
    allowed,   \* the listener's AllowedPublicKeys
    linkLocal, \* the listener sees a link-local address: force
    at,        \* where the handler of each end is
    sent,      \* the metadata each end has sent
    closers    \* ends that have closed the connection

confVars == <<runs, meta, pinned, allowed, linkLocal>>
handshakeVars == <<confVars, at, sent, closers>>

HandshakeInit ==
    /\ runs \in SUBSET Side
    /\ meta \in [Side -> version_metadata]
    /\ pinned \in SUBSET Key /\ allowed \in SUBSET Key /\ linkLocal \in BOOLEAN
    /\ at = [e \in Side |-> "send"]
    /\ sent = [e \in Side |-> NoMeta]
    /\ closers = {}

(* Mutant: the version is not compared. *)
checkNothing(e, m) == TRUE

(* version_metadata.check: the version is this node's own. *)
check(e, m) == m.ver = meta[e].ver

(* A dialled link has the key it was pinned to, if it was. *)
isPinned(e, m) == e = "dialer" /\ pinned # {} => m.key \in pinned

(* An accepted link has an allowed key, unless it is link-local. *)
isAllowed(e, m) == e = "listener" /\ ~linkLocal /\ allowed # {} => m.key \in allowed

accepts(e, m) == check(e, m) /\ isPinned(e, m) /\ isAllowed(e, m)

(* The deferred Close of the handler. *)
leave(e) ==
    /\ at' = [at EXCEPT ![e] = "closed"]
    /\ closers' = closers \cup {e}

(* This program sends its own version and key, another one sends anything. *)
write(e) ==
    /\ at[e] = "send"
    /\ \E m \in version_metadata :
        /\ e \in runs => m = meta[e]
        /\ sent' = [sent EXCEPT ![e] = m]
    /\ at' = [at EXCEPT ![e] = "receive"]
    /\ UNCHANGED <<confVars, closers>>

(* The process or the network of an end stops answering, with nothing closed. *)
hang(e) ==
    /\ at[e] \in {"send", "receive", "up"}
    /\ at' = [at EXCEPT ![e] = "hung"]
    /\ UNCHANGED <<confVars, sent, closers>>

(* Mutant: there is no deadline. *)
failsNoDeadline(e) ==
    /\ at[e] \in {"send", "receive"} /\ closers # {}
    /\ leave(e)
    /\ UNCHANGED <<confVars, sent>>

(* Write or ReadFull fails: the other end has closed the connection, the
   network failed, or the six seconds are over. *)
fails(e) ==
    /\ at[e] \in {"send", "receive"}
    /\ leave(e)
    /\ UNCHANGED <<confVars, sent>>

(* The metadata of the other end arrives and is judged.  The deadline is
   cleared: from here on only HandleConn watches the connection. *)
read(e) ==
    LET m == sent[Other(e)] IN
    /\ at[e] = "receive"
    /\ m # NoMeta
    /\ \/ /\ e \in runs => accepts(e, m)
          /\ at' = [at EXCEPT ![e] = "up"] /\ UNCHANGED closers
       \/ /\ e \in runs => ~accepts(e, m)
          /\ leave(e)
    /\ UNCHANGED <<confVars, sent>>

(* Mutant: the handler stays in HandleConn. *)
droppedLocally(e) ==
    /\ at[e] = "up" /\ e \in closers
    /\ leave(e)
    /\ UNCHANGED <<confVars, sent>>

(* HandleConn returns, at any time, and surely when the other end is closed. *)
dropped(e) ==
    /\ at[e] = "up"
    /\ leave(e)
    /\ UNCHANGED <<confVars, sent>>

HandshakeNext == \E e \in Side : write(e) \/ hang(e) \/ fails(e) \/ read(e) \/ dropped(e)

HandshakeSpec == HandshakeInit /\ [][HandshakeNext]_handshakeVars

(* In this program the deadline passes, and a closed connection ends
   HandleConn; nothing is assumed of another program. *)
HandshakeFairSpec ==
    /\ HandshakeSpec
    /\ \A e \in Side :
        /\ WF_handshakeVars(e \in runs /\ fails(e))
        /\ WF_handshakeVars(e \in runs /\ Other(e) \in closers /\ dropped(e))

-----------------------------------------------------------------------------
(* What an end can know of the node at the other end: the node itself if it
   runs this program, and else no more than its claim. *)
remote(e) == IF Other(e) \in runs THEN meta[Other(e)] ELSE sent[Other(e)]

(* A link is up at an end that runs this program only with a node whose
   version and key its configuration admits, in whichever order the ends send,
   judge and close.  Of a node that runs this program too this is the truth;
   of any other one it is what that has claimed, and no proof of identity:
   "a bit of a weak check", as handler says itself (link.go:165). *)
Admitted ==
    \A e \in runs : at[e] = "up" =>
        /\ remote(e) \in version_metadata
        /\ remote(e).ver = meta[e].ver
        /\ e = "dialer" => pinned = {} \/ remote(e).key \in pinned
        /\ e = "listener" => linkLocal \/ allowed = {} \/ remote(e).key \in allowed

(* Two nodes that run this program agree in the end: a link that is up at one
   end comes up at the other one or ends, unless the other one stops answering.
   A node that stops after it has sent its metadata does leave this end up
   alone, until HandleConn gives up: the deadline ends with the handshake. *)
Agreement ==
    \A e \in Side :
        at[e] = "up" /\ runs = Side ~> (at[Other(e)] \in {"up", "hung"} \/ at[e] \in {"closed", "hung"})

(* Every handshake of this program ends, also when the other node never says
   anything, or says something that this one never expected. *)
HandshakeEnds ==
    \A e \in Side : at[e] \in {"send", "receive"} /\ e \in runs ~> at[e] \in {"up", "closed", "hung"}
=============================================================================
