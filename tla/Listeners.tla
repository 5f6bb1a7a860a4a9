----------------------------- MODULE Listeners -----------------------------
(***************************************************************************)
(* Listeners and their shutdown: the accept goroutines of the link types   *)
(* (listen in link_tcp.go, link_tls.go, link_unix.go, link_sctp_linux.go   *)
(* and link_mpath.go), Listener.Close and links.shutdown (link.go), as     *)
(* Core.Stop (core.go) and the multicast module call them.                 *)
(*                                                                         *)
(* Each link type is an actor that owns its map of listeners.  shutdown    *)
(* holds that actor while it waits for the accept goroutines to end, and   *)
(* an accept goroutine needs the actor to leave the map.  Node composes    *)
(* these actions with the callers of listen, Close and Stop.               *)
(***************************************************************************)
EXTENDS Integers, Sequences, LinkTypes

CONSTANTS
    Entry,      \* listeners
    SchemeOf    \* their link types

(* What a module that instantiates this one assumes of the constants. *)
ListenersConstants == SchemeOf \in [Entry -> LinkScheme \ {"socks"}]

VARIABLES
    loop,       \* where the listener is: see TypeOK
    registered, \* l._listeners of all link types together
    shut,       \* listeners whose socket somebody has closed
    closing,    \* listeners whose owner waits in Listener.Close
    stopping,   \* 0, or the position of Core.Stop in shutdownOrder, or past its end
    todo,       \* listeners the running iteration of shutdown has still to visit
    current     \* the one it waits for, if any

vars == <<loop, registered, shut, closing, stopping, todo, current>>

Stopped == stopping > Len(shutdownOrder)

(* The actor of link type s is free to run a function. *)
Free(s) == ~(stopping \in 1..Len(shutdownOrder) /\ shutdownOrder[stopping] = s)

(* The channel entry.closed has been closed. *)
Ended(e) == loop[e] \in {"leaving", "done"}

Init ==
    /\ loop = [e \in Entry |-> "none"]
    /\ registered = {} /\ shut = {} /\ closing = {} /\ todo = {} /\ current = {}
    /\ stopping = 0

(* listen opens the socket.  Nothing here refuses it while Core.Stop runs, or
   afterwards: that the callers are quiet by then is up to the program, see
   Node. *)
listen(e) ==
    /\ loop[e] = "none"
    /\ loop' = [loop EXCEPT ![e] = "bound"]
    /\ UNCHANGED <<registered, shut, closing, stopping, todo, current>>

(* Then the entry goes into the map and the accept goroutine starts. *)
register(e) ==
    /\ loop[e] = "bound"
    /\ Free(SchemeOf[e])
    /\ loop' = [loop EXCEPT ![e] = "accepting"]
    /\ registered' = IF links_init[SchemeOf[e]].registers THEN registered \cup {e} ELSE registered
    /\ UNCHANGED <<shut, closing, stopping, todo, current>>

(* Accept fails, because the socket was closed or for another reason; the
   goroutine closes the socket itself. *)
acceptFails(e) ==
    /\ loop[e] = "accepting"
    /\ loop' = [loop EXCEPT ![e] = "ending"]
    /\ shut' = shut \cup {e}
    /\ UNCHANGED <<registered, closing, stopping, todo, current>>

(* Mutant: the entry leaves the map before its channel is closed. *)
closeChannelLast(e) ==
    /\ loop[e] = "ending"
    /\ Free(SchemeOf[e])
    /\ loop' = [loop EXCEPT ![e] = "leaving"]
    /\ UNCHANGED <<registered, shut, closing, stopping, todo, current>>

closeChannel(e) ==
    /\ loop[e] = "ending"
    /\ loop' = [loop EXCEPT ![e] = "leaving"]
    /\ UNCHANGED <<registered, shut, closing, stopping, todo, current>>

(* The deferred delete, on the actor of the link type. *)
unregister(e) ==
    /\ loop[e] = "leaving"
    /\ Free(SchemeOf[e])
    /\ loop' = [loop EXCEPT ![e] = "done"]
    /\ registered' = registered \ {e}
    /\ UNCHANGED <<shut, closing, stopping, todo, current>>

(* Listener.Close, called by the multicast module for an interface that is
   gone: close the socket and wait for the channel. *)
Close(e) ==
    /\ loop[e] \in {"accepting", "ending", "leaving", "done"}
    /\ e \notin closing
    /\ shut' = shut \cup {e}
    /\ closing' = closing \cup {e}
    /\ UNCHANGED <<loop, registered, stopping, todo, current>>

CloseReturns(e) ==
    /\ e \in closing
    /\ Ended(e)
    /\ closing' = closing \ {e}
    /\ UNCHANGED <<loop, registered, shut, stopping, todo, current>>

(* Core.Stop reaches links.shutdown. *)
Stop ==
    /\ stopping = 0
    /\ stopping' = 1
    /\ todo' = {e \in registered : Len(shutdownOrder) > 0 /\ SchemeOf[e] = shutdownOrder[1]}
    /\ UNCHANGED <<loop, registered, shut, closing, current>>

(* shutdown calls Close for one entry after the other, on the actor ... *)
shutdownClose(e) ==
    /\ current = {} /\ e \in todo
    /\ shut' = shut \cup {e}
    /\ current' = {e}
    /\ todo' = todo \ {e}
    /\ UNCHANGED <<loop, registered, closing, stopping>>

(* ... and waits for it. *)
shutdownClosed(e) ==
    /\ e \in current
    /\ Ended(e)
    /\ current' = current \ {e}
    /\ UNCHANGED <<loop, registered, shut, closing, stopping, todo>>

(* The next link type, or the end of Stop. *)
shutdownNext ==
    /\ stopping \in 1..Len(shutdownOrder)
    /\ todo = {} /\ current = {}
    /\ stopping' = stopping + 1
    /\ todo' = {e \in registered : stopping < Len(shutdownOrder) /\ SchemeOf[e] = shutdownOrder[stopping + 1]}
    /\ UNCHANGED <<loop, registered, shut, closing, current>>

Shutdown == shutdownNext \/ \E e \in Entry : shutdownClose(e) \/ shutdownClosed(e)

(* What the accept goroutine does by itself once it is told. *)
Accept(e) == (e \in shut /\ acceptFails(e)) \/ closeChannel(e) \/ unregister(e)

Next ==
    \/ \E e \in Entry :
        \/ listen(e) \/ register(e)
        \/ acceptFails(e) \/ closeChannel(e) \/ unregister(e)
        \/ Close(e) \/ CloseReturns(e)
    \/ Stop \/ Shutdown

-----------------------------------------------------------------------------
(* Every variable has its type. *)
TypeOK ==
    /\ loop \in [Entry -> {"none", "bound", "accepting", "ending", "leaving", "done"}]
    /\ registered \subseteq Entry /\ shut \subseteq Entry
    /\ closing \subseteq Entry /\ todo \subseteq Entry /\ current \subseteq Entry
    /\ stopping \in 0..(Len(shutdownOrder) + 1)
=============================================================================
