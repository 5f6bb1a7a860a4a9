---------------------------- MODULE MCKeyLookup ----------------------------
(* Small instances of KeyLookup. *)
EXTENDS KeyLookup

AllKeys == PublicKey

(* The lookup reaches its owner, or a node whose key differs in one bit. *)
Neighbours(key) == {key} \cup {[key EXCEPT ![i] = 1 - @] : i \in DOMAIN key}
=============================================================================
