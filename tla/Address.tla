------------------------------ MODULE Address ------------------------------
(***************************************************************************)
(* Addresses, subnets and partial keys: src/src/core/address.go, with the  *)
(* width of a byte and the lengths of keys, addresses and subnets as       *)
(* parameters.  A key is a function from bit positions to bits, most       *)
(* significant first.  An address or a subnet is a record of its prefix    *)
(* byte, the byte that counts ones, and the bits that follow.              *)
(***************************************************************************)
EXTENDS Integers, FiniteSets

CONSTANTS
    Byte,        \* bits of a byte: 8
    KeyBytes,    \* ed25519.PublicKeySize: 32
    AddrBytes,   \* 16
    SubnetBytes, \* 8
    Prefix       \* the byte GetPrefix returns: 0xfc

KeyBits    == Byte * KeyBytes
AddrBits   == Byte * (AddrBytes - 2)
SubnetBits == Byte * (SubnetBytes - 2)

(* "The 8th bit of the last byte is used to signal nodes (0) or /64 prefixes
   (1)": the prefix is even.  The counter of ones wraps exactly at the length
   of a key, as 2^8 = 8 * 32. *)
ASSUME AddressAssumption ==
    /\ Byte \in Nat \ {0} /\ KeyBytes \in Nat \ {0}
    /\ KeyBits = 2^Byte
    /\ SubnetBytes \in Nat /\ AddrBytes \in Nat
    /\ 2 <= SubnetBytes /\ SubnetBytes <= AddrBytes
    /\ Prefix \in 0..(2^Byte - 1) /\ Prefix % 2 = 0

PublicKey == [0..(KeyBits - 1) -> {0, 1}]

Inverted(key) == [i \in 0..(KeyBits - 1) |-> 1 - key[i]]

(* The number of leading ones, 0 to KeyBits. *)
LeadingOnes(buf) == Cardinality({i \in 0..(KeyBits - 1) : \A j \in 0..i : buf[j] = 1})

(* Mutant: the zero that ends the leading ones is not skipped. *)
AddrForKeyKeepsZero(key) ==
    LET buf   == Inverted(key)
        ones  == LeadingOnes(buf)
        whole == ((KeyBits - ones) \div Byte) * Byte
    IN  [prefix |-> Prefix,
         ones   |-> ones % 2^Byte,
         bits   |-> [i \in 0..(AddrBits - 1) |-> IF i < whole THEN buf[ones + i] ELSE 0]]

(* The bits after the first zero are appended to temp in whole bytes; a last
   incomplete byte is dropped, and what is missing stays zero. *)
AddrForKey(key) ==
    LET buf   == Inverted(key)
        ones  == LeadingOnes(buf)
        whole == ((KeyBits - ones - 1) \div Byte) * Byte
    IN  [prefix |-> Prefix,
         ones   |-> ones % 2^Byte,
         bits   |-> [i \in 0..(AddrBits - 1) |-> IF i < whole THEN buf[ones + 1 + i] ELSE 0]]

(* copy(snet[:], addr[:]): the first SubnetBytes of an address. *)
SubnetOf(addr) == [addr EXCEPT !.bits = [i \in 0..(SubnetBits - 1) |-> addr.bits[i]]]

(* prefix | 0x01. *)
Marked(prefix) == prefix + 1 - (prefix % 2)

SubnetForKey(key) == [SubnetOf(AddrForKey(key)) EXCEPT !.prefix = Marked(Prefix)]

IsValidAddress(a) == a.prefix = Prefix
IsValidSubnet(s)  == s.prefix = Marked(Prefix)

(* Mutant: the bits start one position too early. *)
GetAddressKeyOffByOne(a) ==
    Inverted([i \in 0..(KeyBits - 1) |->
        IF i < a.ones THEN 1
        ELSE IF i - a.ones < AddrBits THEN a.bits[i - a.ones]
        ELSE 0])

(* The key an address shows: its ones, a zero, its bits, and zeros, inverted. *)
GetAddressKey(a) ==
    Inverted([i \in 0..(KeyBits - 1) |->
        IF i < a.ones THEN 1
        ELSE IF i > a.ones /\ i - a.ones - 1 < AddrBits THEN a.bits[i - a.ones - 1]
        ELSE 0])

(* An address with the bits of a subnet and zeros. *)
GetSubnetKey(s) ==
    GetAddressKey([s EXCEPT !.bits =
        [i \in 0..(AddrBits - 1) |-> IF i < SubnetBits THEN s.bits[i] ELSE 0]])
=============================================================================
