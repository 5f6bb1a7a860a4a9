---------------------------- MODULE MCHandshake ----------------------------
(* Small instances of Handshake: two versions that differ in the minor one. *)
EXTENDS Handshake, Sequences

CONSTANTS k1, k2

MCVersion == {<<0, 4>>, <<0, 5>>}
=============================================================================
