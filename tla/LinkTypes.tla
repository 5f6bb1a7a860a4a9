----------------------------- MODULE LinkTypes -----------------------------
(***************************************************************************)
(* The link types of a node (the link_*.go files of src/src/core): in what *)
(* their dial and listen differ.                                           *)
(*                                                                         *)
(*   checks    - dial looks its linkInfo up in links._links first          *)
(*   context   - dial uses core.ctx, so it fails once the node is stopped  *)
(*   registers - listen puts its listener into the _listeners of the type  *)
(***************************************************************************)
LOCAL INSTANCE Integers
LOCAL INSTANCE Sequences

linkTCP   == [checks |-> TRUE,  context |-> TRUE,  registers |-> TRUE]
linkTLS   == [checks |-> TRUE,  context |-> TRUE,  registers |-> TRUE]
linkUNIX  == [checks |-> TRUE,  context |-> TRUE,  registers |-> TRUE]

(* The SOCKS dialer takes no context.  There is no SOCKS listener. *)
linkSOCKS == [checks |-> TRUE,  context |-> FALSE, registers |-> FALSE]

(* The registration of the listener is commented out. *)
linkSCTP  == [checks |-> TRUE,  context |-> FALSE, registers |-> FALSE]

linkMPATH == [checks |-> FALSE, context |-> TRUE,  registers |-> TRUE]

(* links.init; call and listen choose among them by the scheme of the URI. *)
links_init == [tcp |-> linkTCP, tls |-> linkTLS, unix |-> linkUNIX,
               socks |-> linkSOCKS, sctp |-> linkSCTP, mpath |-> linkMPATH]

LinkScheme == DOMAIN links_init

(* The types whose listeners links.shutdown closes, in its order. *)
shutdownOrder == <<"tcp", "tls", "unix">>

(* shutdown closes the listeners of scheme s. *)
ShutDown(s) == \E n \in 1..Len(shutdownOrder) : shutdownOrder[n] = s
=============================================================================
