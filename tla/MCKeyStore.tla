----------------------------- MODULE MCKeyStore -----------------------------
(***************************************************************************)
(* A small instance of KeyStore.  Two keys have an address each and share  *)
(* a subnet (64 bits of a 256-bit key, so sharing is possible); packets    *)
(* compete for the buffer of the subnet, and one has a foreign source.     *)
(***************************************************************************)
EXTENDS KeyStore, TLC

CONSTANTS k1, k2, a1, a2, s1, p1, p2, p3, i1, i2, b1, b2, other

MCAddrForKey   == k1 :> a1 @@ k2 :> a2
MCSubnetForKey == k1 :> s1 @@ k2 :> s1
MCDst          == p1 :> s1 @@ p2 :> s1 @@ p3 :> s1
=============================================================================
