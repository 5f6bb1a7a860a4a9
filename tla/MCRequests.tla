----------------------------- MODULE MCRequests -----------------------------
(***************************************************************************)
(* A small instance of Requests: calls compete for one slot of a debug      *)
(* table and one of nodeinfo.callbacks.                                    *)
(***************************************************************************)
EXTENDS Requests

CONSTANTS c1, c2, c3, debug, nodeinfo
=============================================================================
