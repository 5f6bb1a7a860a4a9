--------------------------- MODULE MCConfigFile ---------------------------
(* Small instances of ConfigFile. *)
EXTENDS ConfigFile

CONSTANTS h1, h2, p1, p2, bad, i1, long
=============================================================================
