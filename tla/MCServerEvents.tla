--------------------------- MODULE MCServerEvents ---------------------------
(* A small instance of ServerEvents. *)
EXTENDS ServerEvents

CONSTANTS h1, t1, t2, p1, p2
=============================================================================
