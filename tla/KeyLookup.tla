----------------------------- MODULE KeyLookup -----------------------------
(***************************************************************************)
(* The key lookup between two nodes (src/src/ipv6rwc/ipv6rwc.go): a sender *)
(* that knows only the destination of a packet derives a partial key from  *)
(* it (writePC, sendToAddress, sendToSubnet), the network carries the      *)
(* lookup to some node, and that node answers if the partial key leads to  *)
(* its own subnet (oobHandler).  The arithmetic of addresses is in         *)
(* Address; the tables of the sender are in KeyStore.                      *)
(***************************************************************************)
EXTENDS Address

CONSTANTS
    Owner,       \* keys of the nodes a packet may be for
    Reached(_),  \* the keys of the nodes a lookup of an owner's partial key may reach
    Host,        \* the bits that follow a subnet in a packet's destination
    None

ASSUME KeyLookupAssumption ==
    Owner \subseteq PublicKey /\ None \notin {"address", "subnet", "response", "ignored"}

VARIABLES
    owner,     \* key of the node the packet is for
    host,      \* bits of the host inside the owner's subnet; None: the owner's address
    partial,   \* the key the lookup is sent to
    asked,     \* which lookup was sent
    node,      \* key of the node the lookup reaches
    answer     \* None, or what that node did

vars == <<owner, host, partial, asked, node, answer>>

(* The destination field of the packet, as an address. *)
destination ==
    IF host = None
      THEN AddrForKey(owner)
      ELSE LET snet == SubnetForKey(owner)
           IN  [snet EXCEPT !.bits = [i \in 0..(AddrBits - 1) |->
                   IF i < SubnetBits THEN snet.bits[i] ELSE host]]

Init ==
    /\ owner \in Owner
    /\ host \in Host \cup {None}
    /\ partial = owner /\ node = owner
    /\ asked = None /\ answer = None

(* writePC tries the address range first, then the subnet range. *)
sendToAddress ==
    /\ asked = None
    /\ IsValidAddress(destination)
    /\ asked' = "address"
    /\ partial' = GetAddressKey(destination)
    /\ UNCHANGED <<owner, host, node, answer>>

sendToSubnet ==
    /\ asked = None
    /\ ~IsValidAddress(destination)
    /\ IsValidSubnet(SubnetOf(destination))
    /\ asked' = "subnet"
    /\ partial' = GetSubnetKey(SubnetOf(destination))
    /\ UNCHANGED <<owner, host, node, answer>>

(* oobHandler of the node with key n. *)
oobHandler(n) ==
    /\ asked # None /\ answer = None
    /\ node' = n
    /\ answer' = IF SubnetForKey(partial) = SubnetForKey(n) THEN "response" ELSE "ignored"
    /\ UNCHANGED <<owner, host, partial, asked>>

Next == sendToAddress \/ sendToSubnet \/ \E n \in Reached(owner) : oobHandler(n)

Spec == Init /\ [][Next]_vars

-----------------------------------------------------------------------------
(* The owner of a destination answers the lookup for it: the lookup is made
   in the range of the destination, a host of a subnet never being taken for
   a node's own address, and the subnet of the partial key is the subnet of
   the key, for every key, although the address shows only part of the key,
   the last bits may fill no byte, and the count of ones may wrap. *)
OwnerAnswers ==
    /\ asked # None => (asked = "address" <=> host = None)
    /\ answer = "ignored" => node # owner

(* The partial key of an address agrees with the key on every bit the address
   shows, so the network carries the lookup towards the owner.  The key of
   zeros is the exception: its count of ones wraps to zero. *)
VisibleBits ==
    LET ones  == LeadingOnes(Inverted(owner))
        whole == ((KeyBits - ones - 1) \div Byte) * Byte
        shown == IF asked = "address" THEN AddrBits ELSE SubnetBits
        last  == ones + (IF whole < shown THEN whole ELSE shown)
    IN  asked # None /\ ones < KeyBits => \A i \in 0..last : partial[i] = owner[i]
=============================================================================
