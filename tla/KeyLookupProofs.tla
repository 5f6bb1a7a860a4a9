-------------------------- MODULE KeyLookupProofs --------------------------
(***************************************************************************)
(* Proofs about Address and KeyLookup for keys, addresses and subnets of   *)
(* any length: the run takes keys of 16 bits, the code keys of 256.        *)
(***************************************************************************)
EXTENDS KeyLookup, FiniteSetTheorems, WellFoundedInduction, TLAPS

-----------------------------------------------------------------------------
(* Lengths *)

LEMMA Lengths ==
    /\ KeyBits \in Nat \ {0} /\ KeyBits = 2^Byte
    /\ AddrBits \in Nat /\ SubnetBits \in Nat
    /\ SubnetBits <= AddrBits
<1>1. KeyBits \in Nat \ {0}
  <2>1. \A m, n \in Nat \ {0} : m * n \in Nat \ {0}
    OBVIOUS
  <2> QED  BY <2>1, AddressAssumption DEF KeyBits
<1>2. /\ AddrBits \in Nat /\ SubnetBits \in Nat
      /\ SubnetBits <= AddrBits
  <2>1. \A b \in Nat \ {0}, m, n \in Nat : m <= n => b * m \in Nat /\ b * m <= b * n
    OBVIOUS
  <2>2. AddrBytes - 2 \in Nat /\ SubnetBytes - 2 \in Nat /\ SubnetBytes - 2 <= AddrBytes - 2
    BY AddressAssumption
  <2> QED  BY <2>1, <2>2, AddressAssumption DEF AddrBits, SubnetBits
<1> QED  BY <1>1, <1>2, AddressAssumption DEF KeyBits

(* The whole bytes of x bits are at most x bits. *)
LEMMA WholeBytes ==
    ASSUME NEW x \in Int PROVE (x \div Byte) * Byte \in Int /\ (x \div Byte) * Byte <= x
  BY AddressAssumption

(* The byte that counts ones wraps at the length of a key. *)
LEMMA CountWraps ==
    ASSUME NEW n \in 0..KeyBits PROVE n % 2^Byte = IF n = KeyBits THEN 0 ELSE n
<1>1. \A k \in Nat \ {0} : \A m \in 0..k : m % k = IF m = k THEN 0 ELSE m
  OBVIOUS
<1> QED  BY <1>1, Lengths

-----------------------------------------------------------------------------
(* Leading ones *)

(* LeadingOnes is the position of the first zero, or the length of the key. *)
LEMMA LeadingOnesIs ==
    ASSUME NEW buf, NEW n \in 0..KeyBits,
           \A i \in 0..(n - 1) : buf[i] = 1,
           n < KeyBits => buf[n] # 1
    PROVE  LeadingOnes(buf) = n
<1>1. {i \in 0..(KeyBits - 1) : \A j \in 0..i : buf[j] = 1} = 0..(n - 1)
  <2>1. ASSUME NEW i \in 0..(KeyBits - 1), \A j \in 0..i : buf[j] = 1 PROVE i \in 0..(n - 1)
    BY <2>1, Lengths
  <2>2. ASSUME NEW i \in 0..(n - 1) PROVE i \in 0..(KeyBits - 1) /\ \A j \in 0..i : buf[j] = 1
    BY Lengths
  <2> QED  BY <2>1, <2>2
<1>2. Cardinality(0..(n - 1)) = n
  <2>1. n - 1 \in Int /\ n \in Nat
    BY Lengths
  <2>2. Cardinality(0..(n - 1)) = IF 0 > n - 1 THEN 0 ELSE (n - 1) - 0 + 1
    BY <2>1, FS_Interval
  <2> QED  BY <2>1, <2>2
<1> QED  BY <1>1, <1>2 DEF LeadingOnes

(* A nonempty set of natural numbers has a least element. *)
LEMMA Least ==
    ASSUME NEW S \in SUBSET Nat, S # {}
    PROVE  \E x \in S : \A y \in S : x <= y
<1>1. PICK x \in S : \A y \in S : ~(<<y, x>> \in OpToRel(<, Nat))
  BY NatLessThanWellFounded, WFMin
<1>2. \A y \in S : ~(y < x)
  BY <1>1 DEF OpToRel
<1> QED  BY <1>2

LEMMA LeadingOnesOf ==
    ASSUME NEW buf \in PublicKey
    PROVE  /\ LeadingOnes(buf) \in 0..KeyBits
           /\ \A i \in 0..(LeadingOnes(buf) - 1) : buf[i] = 1
           /\ LeadingOnes(buf) < KeyBits => buf[LeadingOnes(buf)] = 0
<1> DEFINE Zeros == {i \in 0..(KeyBits - 1) : buf[i] = 0}
<1>1. \A i \in 0..(KeyBits - 1) : buf[i] \in {0, 1}
  BY DEF PublicKey
<1>2. CASE Zeros = {}
  <2>1. \A i \in 0..(KeyBits - 1) : buf[i] = 1
    BY <1>1, <1>2
  <2>2. LeadingOnes(buf) = KeyBits
    BY <2>1, LeadingOnesIs, Lengths
  <2> QED  BY <2>1, <2>2, Lengths
<1>3. CASE Zeros # {}
  <2>1. Zeros \in SUBSET Nat
    BY Lengths
  <2>2. PICK n \in Zeros : \A i \in Zeros : n <= i
    BY <1>3, <2>1, Least
  <2>3. n \in 0..KeyBits /\ n < KeyBits /\ buf[n] = 0
    BY <2>2, Lengths
  <2>4. \A i \in 0..(n - 1) : buf[i] = 1
    <3> SUFFICES ASSUME NEW i \in 0..(n - 1) PROVE buf[i] = 1
      OBVIOUS
    <3>1. i \in 0..(KeyBits - 1) /\ ~(n <= i)
      BY <2>3, Lengths
    <3> QED  BY <1>1, <2>2, <3>1
  <2>5. LeadingOnes(buf) = n
    BY <2>3, <2>4, LeadingOnesIs
  <2> QED  BY <2>3, <2>4, <2>5
<1> QED  BY <1>2, <1>3

-----------------------------------------------------------------------------
(* What an address shows of its key *)

(* The bits of a key after its leading ones that an address can show. *)
Whole(ones) == ((KeyBits - ones - 1) \div Byte) * Byte

(* a shows w bits of what the address of the key shows: all of them, if it is
   that address, or those of the subnet. *)
Shows(a, key, w) ==
    /\ a.ones = AddrForKey(key).ones
    /\ \A i \in 0..(AddrBits - 1) : a.bits[i] = IF i < w THEN AddrForKey(key).bits[i] ELSE 0

LEMMA InverseType ==
    ASSUME NEW key \in PublicKey
    PROVE  Inverted(key) \in PublicKey /\ \A i \in 0..(KeyBits - 1) : Inverted(key)[i] = 1 - key[i]
<1>1. \A i \in 0..(KeyBits - 1) : 1 - key[i] \in {0, 1}
  BY DEF PublicKey
<1> QED  BY <1>1 DEF Inverted, PublicKey

LEMMA AddrForKeyIs ==
    ASSUME NEW key
    PROVE  LET b == Inverted(key)
               n == LeadingOnes(b)
           IN  AddrForKey(key) =
                 [prefix |-> Prefix, ones |-> n % 2^Byte,
                  bits |-> [i \in 0..(AddrBits - 1) |-> IF i < Whole(n) THEN b[n + 1 + i] ELSE 0]]
  BY DEF AddrForKey, Whole

LEMMA WholeType ==
    ASSUME NEW n \in 0..KeyBits
    PROVE  Whole(n) \in Int /\ Whole(n) <= KeyBits - n - 1
<1>1. KeyBits - n - 1 \in Int
  BY Lengths
<1> QED  BY <1>1, WholeBytes DEF Whole

(* The bits of an address are those of the inverted key behind its first zero,
   then zeros. *)
LEMMA BitsOfAddress ==
    ASSUME NEW key \in PublicKey, NEW i \in 0..(AddrBits - 1)
    PROVE  AddrForKey(key).bits[i] \in {0, 1}
<1> DEFINE b == Inverted(key)
           n == LeadingOnes(b)
<1>1. b \in PublicKey /\ n \in 0..KeyBits
  BY InverseType, LeadingOnesOf
<1>2. AddrForKey(key).bits[i] = IF i < Whole(n) THEN b[n + 1 + i] ELSE 0
  BY AddrForKeyIs
<1>3. i < Whole(n) => n + 1 + i \in 0..(KeyBits - 1)
  BY <1>1, WholeType, Lengths
<1> HIDE DEF b, n
<1> QED  BY <1>1, <1>2, <1>3 DEF PublicKey

(* The inverse of the key that GetAddressKey makes. *)
LEMMA GetAddressKeyIs ==
    ASSUME NEW key \in PublicKey, NEW w \in 0..AddrBits, NEW a, Shows(a, key, w)
    PROVE  /\ GetAddressKey(a) \in PublicKey
           /\ \A i \in 0..(KeyBits - 1) : Inverted(GetAddressKey(a))[i] =
                IF i < a.ones THEN 1
                ELSE IF i > a.ones /\ i - a.ones - 1 < AddrBits THEN a.bits[i - a.ones - 1]
                ELSE 0
<1> DEFINE shown == [i \in 0..(KeyBits - 1) |->
                IF i < a.ones THEN 1
                ELSE IF i > a.ones /\ i - a.ones - 1 < AddrBits THEN a.bits[i - a.ones - 1]
                ELSE 0]
<1>1. a.ones \in Nat
  <2>1. LeadingOnes(Inverted(key)) \in 0..KeyBits
    BY InverseType, LeadingOnesOf
  <2>2. a.ones = LeadingOnes(Inverted(key)) % 2^Byte
    BY AddrForKeyIs DEF Shows
  <2> QED  BY <2>1, <2>2, CountWraps, Lengths
<1>2. shown \in PublicKey
  <2> SUFFICES ASSUME NEW i \in 0..(KeyBits - 1) PROVE shown[i] \in {0, 1}
    BY DEF PublicKey
  <2>1. CASE i > a.ones /\ i - a.ones - 1 < AddrBits
    <3>1. i - a.ones - 1 \in 0..(AddrBits - 1)
      BY <1>1, <2>1, Lengths
    <3>2. a.bits[i - a.ones - 1] \in {0, 1}
      BY <3>1, BitsOfAddress DEF Shows
    <3> QED  BY <1>1, <2>1, <3>2, Lengths
  <2> QED  BY <1>1, <2>1
<1>3. GetAddressKey(a) = Inverted(shown)
  BY DEF GetAddressKey
<1> HIDE DEF shown
<1>4. Inverted(shown) \in PublicKey
  BY <1>2, InverseType
<1>5. \A i \in 0..(KeyBits - 1) : Inverted(Inverted(shown))[i] = shown[i]
  <2> SUFFICES ASSUME NEW i \in 0..(KeyBits - 1) PROVE Inverted(Inverted(shown))[i] = shown[i]
    OBVIOUS
  <2>1. Inverted(Inverted(shown))[i] = 1 - Inverted(shown)[i] /\ Inverted(shown)[i] = 1 - shown[i]
    BY <1>2, <1>4, InverseType
  <2>2. shown[i] \in Int
    BY <1>2 DEF PublicKey
  <2> QED  BY <2>1, <2>2
<1> QED  BY <1>3, <1>4, <1>5 DEF shown

(* The key made from what is shown has as many ones, and they are followed
   by the same bits; nothing but the key of zeros loses its ones. *)
LEMMA Recovered ==
    ASSUME NEW key \in PublicKey, NEW w \in 0..AddrBits, NEW a, Shows(a, key, w)
    PROVE  LET p == GetAddressKey(a) IN
           /\ AddrForKey(p).ones = AddrForKey(key).ones
           /\ \A i \in 0..(AddrBits - 1) :
                 i < w => AddrForKey(p).bits[i] = AddrForKey(key).bits[i]
           /\ LET n == LeadingOnes(Inverted(key)) IN
              n < KeyBits => \A i \in 0..(KeyBits - 1) :
                 i <= n + Whole(n) /\ i <= n + w => p[i] = key[i]
<1> DEFINE p == GetAddressKey(a)
           b == Inverted(key)
           c == Inverted(p)
           n == LeadingOnes(b)
<1>1. /\ b \in PublicKey /\ n \in 0..KeyBits
      /\ \A i \in 0..(n - 1) : b[i] = 1
      /\ n < KeyBits => b[n] = 0
  BY InverseType, LeadingOnesOf
<1>2. /\ p \in PublicKey
      /\ \A i \in 0..(KeyBits - 1) : c[i] =
            IF i < a.ones THEN 1
            ELSE IF i > a.ones /\ i - a.ones - 1 < AddrBits THEN a.bits[i - a.ones - 1]
            ELSE 0
  BY GetAddressKeyIs
<1>3. /\ AddrForKey(key).ones = n % 2^Byte
      /\ \A i \in 0..(AddrBits - 1) :
            AddrForKey(key).bits[i] = IF i < Whole(n) THEN b[n + 1 + i] ELSE 0
  BY AddrForKeyIs
<1>4. /\ AddrForKey(p).ones = LeadingOnes(c) % 2^Byte
      /\ \A i \in 0..(AddrBits - 1) :
            AddrForKey(p).bits[i] =
              IF i < Whole(LeadingOnes(c)) THEN c[LeadingOnes(c) + 1 + i] ELSE 0
  BY AddrForKeyIs
<1>5. /\ a.ones = n % 2^Byte
      /\ \A i \in 0..(AddrBits - 1) : a.bits[i] = IF i < w THEN AddrForKey(key).bits[i] ELSE 0
  BY <1>3 DEF Shows
<1>6. /\ \A i \in 0..(KeyBits - 1) : p[i] = 1 - c[i] /\ key[i] = 1 - b[i]
  <2> SUFFICES ASSUME NEW i \in 0..(KeyBits - 1) PROVE p[i] = 1 - c[i] /\ key[i] = 1 - b[i]
    OBVIOUS
  <2>1. c[i] = 1 - p[i] /\ b[i] = 1 - key[i]
    BY <1>2, InverseType
  <2>2. p[i] \in Int /\ key[i] \in Int
    BY <1>2 DEF PublicKey
  <2> QED  BY <2>1, <2>2
<1>7. Whole(n) \in Int /\ Whole(n) <= KeyBits - n - 1
  BY <1>1, WholeType
<1> HIDE DEF p, b, c, n
<1>8. CASE n = KeyBits
  <2>1. a.ones = 0
    BY <1>1, <1>5, <1>8, CountWraps
  <2>2. Whole(n) < 0
    BY <1>7, <1>8, Lengths
  <2>3. \A i \in 0..(AddrBits - 1) : AddrForKey(key).bits[i] = 0 /\ a.bits[i] = 0
    BY <1>3, <1>5, <1>7, <2>2, Lengths
  <2>4. \A i \in 0..(KeyBits - 1) : c[i] = 0
    <3> SUFFICES ASSUME NEW i \in 0..(KeyBits - 1) PROVE c[i] = 0
      OBVIOUS
    <3>1. i > 0 /\ i - 1 < AddrBits => i - 1 \in 0..(AddrBits - 1)
      BY Lengths
    <3>2. i - 0 - 1 = i - 1 /\ ~(i < 0)
      BY Lengths
    <3> QED  BY <1>2, <2>1, <2>3, <3>1, <3>2
  <2>5. LeadingOnes(c) = 0
    BY <2>4, LeadingOnesIs, Lengths
  <2>6. Whole(0) \in Int /\ Whole(0) <= KeyBits - 1
    BY WholeType, Lengths
  <2>7. AddrForKey(p).ones = AddrForKey(key).ones
    BY <1>3, <1>4, <1>5, <2>1, <2>5, CountWraps, Lengths
  <2>8. \A i \in 0..(AddrBits - 1) : AddrForKey(p).bits[i] = 0
    <3> SUFFICES ASSUME NEW i \in 0..(AddrBits - 1) PROVE AddrForKey(p).bits[i] = 0
      OBVIOUS
    <3>1. i < Whole(0) => 0 + 1 + i \in 0..(KeyBits - 1)
      BY <2>6, Lengths
    <3> QED  BY <1>4, <2>4, <2>5, <3>1
  <2> QED  BY <1>8, <2>3, <2>7, <2>8, Lengths DEF p, n, b
<1>9. CASE n < KeyBits
  <2>1. a.ones = n
    BY <1>1, <1>5, <1>9, CountWraps, Lengths
  <2>2. \A i \in 0..(KeyBits - 1) : i < n => c[i] = 1
    BY <1>2, <2>1
  <2>3. c[n] = 0
    BY <1>1, <1>2, <1>9, <2>1, Lengths
  <2>4. LeadingOnes(c) = n
    BY <1>1, <1>9, <2>2, <2>3, LeadingOnesIs, Lengths
  <2>5. ASSUME NEW i \in 0..(AddrBits - 1), i < w, i < Whole(n)
        PROVE  /\ n + 1 + i \in 0..(KeyBits - 1) /\ c[n + 1 + i] = b[n + 1 + i]
    <3>1. n + 1 + i \in 0..(KeyBits - 1) /\ n + 1 + i > n
          /\ (n + 1 + i) - n - 1 = i /\ i < AddrBits /\ ~(n + 1 + i < n)
      BY <1>1, <1>7, <2>5, Lengths
    <3>2. c[n + 1 + i] = a.bits[i]
      BY <1>2, <2>1, <3>1
    <3> QED  BY <1>3, <1>5, <2>5, <3>1, <3>2
  <2>6. AddrForKey(p).ones = AddrForKey(key).ones
    BY <1>3, <1>4, <2>4
  <2>7. ASSUME NEW i \in 0..(AddrBits - 1), i < w
        PROVE  AddrForKey(p).bits[i] = AddrForKey(key).bits[i]
    BY <1>3, <1>4, <2>4, <2>5, <2>7
  <2>8. ASSUME NEW i \in 0..(KeyBits - 1), i <= n + Whole(n), i <= n + w
        PROVE  p[i] = key[i]
    <3>1. CASE i < n
      BY <1>1, <1>6, <2>2, <3>1, Lengths
    <3>2. CASE i = n
      BY <1>1, <1>6, <1>9, <2>3, <3>2
    <3>3. CASE i > n
      <4>1. /\ i - n - 1 \in 0..(AddrBits - 1) /\ i - n - 1 < w /\ i - n - 1 < Whole(n)
            /\ n + 1 + (i - n - 1) = i
        BY <1>1, <1>7, <2>8, <3>3, Lengths
      <4>2. c[i] = b[i]
        BY <2>5, <4>1
      <4> QED  BY <1>6, <4>2
    <3> QED  BY <1>1, <3>1, <3>2, <3>3, Lengths
  <2> QED  BY <2>6, <2>7, <2>8 DEF p, n, b
<1> QED  BY <1>1, <1>8, <1>9, Lengths

-----------------------------------------------------------------------------
(* Subnets *)

(* Both are the first bits of an address, and the rest of its record. *)
LEMMA SubnetOfIs ==
    ASSUME NEW x, NEW n, NEW b
    PROVE  SubnetOf([prefix |-> x, ones |-> n, bits |-> b]) =
             [prefix |-> x, ones |-> n, bits |-> [i \in 0..(SubnetBits - 1) |-> b[i]]]
<1> DEFINE a == [prefix |-> x, ones |-> n, bits |-> b]
           first == [i \in 0..(SubnetBits - 1) |-> b[i]]
<1>1. SubnetOf(a) = [a EXCEPT !.bits = first]
  <2>1. a.bits = b
    OBVIOUS
  <2> HIDE DEF a
  <2> QED  BY <2>1 DEF SubnetOf
<1> HIDE DEF first
<1>2. [a EXCEPT !.bits = first] = [prefix |-> x, ones |-> n, bits |-> first]
  OBVIOUS
<1> QED  BY <1>1, <1>2 DEF first

LEMMA SubnetForKeyIs ==
    ASSUME NEW key
    PROVE  SubnetForKey(key) =
             [prefix |-> Marked(Prefix), ones |-> AddrForKey(key).ones,
              bits |-> [i \in 0..(SubnetBits - 1) |-> AddrForKey(key).bits[i]]]
<1> DEFINE a == AddrForKey(key)
           first == [i \in 0..(SubnetBits - 1) |-> a.bits[i]]
<1>1. a = [prefix |-> Prefix, ones |-> a.ones, bits |-> a.bits]
  BY AddrForKeyIs
<1> HIDE DEF a
<1>2. SubnetOf(a) = [prefix |-> Prefix, ones |-> a.ones, bits |-> first]
  <2>1. SubnetOf([prefix |-> Prefix, ones |-> a.ones, bits |-> a.bits]) =
          [prefix |-> Prefix, ones |-> a.ones, bits |-> first]
    BY SubnetOfIs, Zenon
  <2> QED  BY <1>1, <2>1, Zenon
<1> HIDE DEF first
<1>3. [SubnetOf(a) EXCEPT !.prefix = Marked(Prefix)] =
         [prefix |-> Marked(Prefix), ones |-> a.ones, bits |-> first]
  BY <1>2
<1> QED  BY <1>3 DEF SubnetForKey, a, first

(* A lookup of what is shown of a key finds the subnet of that key. *)
LEMMA RecoveredSubnet ==
    ASSUME NEW key \in PublicKey, NEW w \in SubnetBits..AddrBits, NEW a, Shows(a, key, w)
    PROVE  SubnetForKey(GetAddressKey(a)) = SubnetForKey(key)
<1> DEFINE p == GetAddressKey(a)
<1>1. w \in 0..AddrBits
  BY Lengths
<1>2. /\ AddrForKey(p).ones = AddrForKey(key).ones
      /\ \A i \in 0..(AddrBits - 1) :
            i < w => AddrForKey(p).bits[i] = AddrForKey(key).bits[i]
  BY <1>1, Recovered
<1> HIDE DEF p
<1>3. \A i \in 0..(SubnetBits - 1) : i \in 0..(AddrBits - 1) /\ i < w
  BY Lengths
<1> QED  BY <1>2, <1>3, SubnetForKeyIs DEF p

(* The address of a key shows all of it that an address can show. *)
LEMMA AddressShows ==
    ASSUME NEW key
    PROVE  Shows(AddrForKey(key), key, AddrBits)
  BY Lengths DEF Shows

(* Subnet lookups pad the subnet with zeros. *)
Padded(key) ==
    [SubnetForKey(key) EXCEPT !.bits =
        [i \in 0..(AddrBits - 1) |-> IF i < SubnetBits THEN SubnetForKey(key).bits[i] ELSE 0]]

LEMMA SubnetShows ==
    ASSUME NEW key
    PROVE  /\ GetSubnetKey(SubnetForKey(key)) = GetAddressKey(Padded(key))
           /\ Shows(Padded(key), key, SubnetBits)
<1>1. GetSubnetKey(SubnetForKey(key)) = GetAddressKey(Padded(key))
  BY DEF GetSubnetKey, Padded
<1>2. Padded(key).ones = AddrForKey(key).ones
  BY SubnetForKeyIs DEF Padded
<1>3. \A i \in 0..(AddrBits - 1) :
         Padded(key).bits[i] = IF i < SubnetBits THEN AddrForKey(key).bits[i] ELSE 0
  <2> SUFFICES ASSUME NEW i \in 0..(AddrBits - 1)
               PROVE  Padded(key).bits[i] = IF i < SubnetBits THEN AddrForKey(key).bits[i] ELSE 0
    OBVIOUS
  <2>1. Padded(key).bits[i] = IF i < SubnetBits THEN SubnetForKey(key).bits[i] ELSE 0
    BY SubnetForKeyIs DEF Padded
  <2>2. i < SubnetBits => i \in 0..(SubnetBits - 1)
    BY Lengths
  <2>3. i < SubnetBits => SubnetForKey(key).bits[i] = AddrForKey(key).bits[i]
    BY <2>2, SubnetForKeyIs
  <2> QED  BY <2>1, <2>3
<1> QED  BY <1>1, <1>2, <1>3 DEF Shows

-----------------------------------------------------------------------------
(* The lookup *)

(* The lookup is one for the destination, of its kind, and who ignores it has
   another subnet. *)
IInv ==
    /\ owner \in Owner
    /\ asked \in {None, "address", "subnet"}
    /\ asked = "address" => host = None /\ partial = GetAddressKey(AddrForKey(owner))
    /\ asked = "subnet" => host # None /\ partial = GetSubnetKey(SubnetForKey(owner))
    /\ answer = "ignored" => asked # None /\ SubnetForKey(partial) # SubnetForKey(node)

(* The mark of a subnet is odd, the prefix of an address even. *)
LEMMA Marks == Prefix # Marked(Prefix)
  BY AddressAssumption DEF Marked

LEMMA DestinationIs ==
    /\ host = None => /\ destination = AddrForKey(owner)
                      /\ IsValidAddress(destination)
    /\ host # None => /\ SubnetOf(destination) = SubnetForKey(owner)
                      /\ ~IsValidAddress(destination)
<1>1. CASE host = None
  <2>1. destination = AddrForKey(owner)
    BY <1>1 DEF destination
  <2> QED  BY <1>1, <2>1, AddrForKeyIs DEF IsValidAddress
<1>2. CASE host # None
  <2> DEFINE snet == SubnetForKey(owner)
             bits == [i \in 0..(AddrBits - 1) |-> IF i < SubnetBits THEN snet.bits[i] ELSE host]
  <2>1. destination = [snet EXCEPT !.bits = bits]
    BY <1>2 DEF destination
  <2>2. snet = [prefix |-> Marked(Prefix), ones |-> AddrForKey(owner).ones,
                bits |-> [i \in 0..(SubnetBits - 1) |-> AddrForKey(owner).bits[i]]]
    BY SubnetForKeyIs
  <2>3. \A i \in 0..(SubnetBits - 1) : bits[i] = snet.bits[i]
    BY Lengths
  <2> HIDE DEF snet, bits
  <2>4. destination = [prefix |-> Marked(Prefix), ones |-> AddrForKey(owner).ones, bits |-> bits]
    BY <2>1, <2>2
  <2>5. SubnetOf(destination) =
          [prefix |-> Marked(Prefix), ones |-> AddrForKey(owner).ones,
           bits |-> [i \in 0..(SubnetBits - 1) |-> bits[i]]]
    BY <2>4, SubnetOfIs
  <2>6. [i \in 0..(SubnetBits - 1) |-> bits[i]] = snet.bits
    BY <2>2, <2>3
  <2>7. SubnetOf(destination) = snet
    BY <2>2, <2>5, <2>6
  <2> QED  BY <1>2, <2>4, <2>7, Marks DEF IsValidAddress, snet
<1> QED  BY <1>1, <1>2

LEMMA InitInv == Init => IInv
  BY KeyLookupAssumption DEF Init, IInv

LEMMA NextInv == IInv /\ [Next]_vars => IInv'
<1> SUFFICES ASSUME IInv, [Next]_vars PROVE IInv'
  OBVIOUS
<1>1. CASE sendToAddress
  BY <1>1, DestinationIs, KeyLookupAssumption DEF sendToAddress, IInv
<1>2. CASE sendToSubnet
  BY <1>2, DestinationIs, KeyLookupAssumption DEF sendToSubnet, IInv
<1>3. ASSUME NEW n \in Reached(owner), oobHandler(n) PROVE IInv'
  BY <1>3, KeyLookupAssumption DEF oobHandler, IInv
<1>4. CASE UNCHANGED vars
  BY <1>4 DEF vars, IInv
<1> QED  BY <1>1, <1>2, <1>3, <1>4 DEF Next

LEMMA Invariant == Spec => []IInv
  BY InitInv, NextInv, PTL DEF Spec

(* What is asked for leads to the subnet of the owner. *)
LEMMA PartialSubnet ==
    ASSUME IInv, asked # None
    PROVE  SubnetForKey(partial) = SubnetForKey(owner)
<1>1. owner \in PublicKey
  BY KeyLookupAssumption DEF IInv
<1>2. SubnetBits \in SubnetBits..AddrBits /\ AddrBits \in SubnetBits..AddrBits
  BY Lengths
<1>3. CASE asked = "address"
  BY <1>1, <1>2, <1>3, AddressShows, RecoveredSubnet DEF IInv
<1>4. CASE asked = "subnet"
  BY <1>1, <1>2, <1>4, SubnetShows, RecoveredSubnet DEF IInv
<1> QED  BY <1>3, <1>4 DEF IInv

(* sendToAddress, sendToSubnet and oobHandler agree, for keys of any length
   with as many bits as a byte counts: a lookup for a destination is made in
   its range, and its owner answers it. *)
THEOREM OwnerRecognises == Spec => []OwnerAnswers
<1>1. IInv => OwnerAnswers
  <2> SUFFICES ASSUME IInv PROVE OwnerAnswers
    OBVIOUS
  <2>1. asked # None => (asked = "address" <=> host = None)
    BY DEF IInv
  <2>2. ASSUME answer = "ignored" PROVE node # owner
    BY <2>2, PartialSubnet DEF IInv
  <2> QED  BY <2>1, <2>2 DEF OwnerAnswers
<1> QED  BY <1>1, Invariant, PTL

(* GetAddressKey and GetSubnetKey give back every bit of the owner's key that
   AddrForKey and SubnetForKey have kept, except for the key of zeros. *)
THEOREM BitsRecovered == Spec => []VisibleBits
<1>1. IInv => VisibleBits
  <2> SUFFICES ASSUME IInv, asked # None, LeadingOnes(Inverted(owner)) < KeyBits
               PROVE  LET n == LeadingOnes(Inverted(owner))
                          w == IF asked = "address" THEN AddrBits ELSE SubnetBits
                          last == n + (IF Whole(n) < w THEN Whole(n) ELSE w)
                      IN  \A i \in 0..last : partial[i] = owner[i]
    BY DEF VisibleBits, Whole
  <2> DEFINE n == LeadingOnes(Inverted(owner))
             w == IF asked = "address" THEN AddrBits ELSE SubnetBits
             last == n + (IF Whole(n) < w THEN Whole(n) ELSE w)
  <2>1. owner \in PublicKey
    BY KeyLookupAssumption DEF IInv
  <2>2. n \in 0..KeyBits /\ Whole(n) \in Int /\ Whole(n) <= KeyBits - n - 1
    BY <2>1, InverseType, LeadingOnesOf, WholeType
  <2>3. w \in 0..AddrBits
    BY Lengths
  <2>4. PICK a : partial = GetAddressKey(a) /\ Shows(a, owner, w)
    <3>1. CASE asked = "address"
      BY <3>1, AddressShows DEF IInv
    <3>2. CASE asked = "subnet"
      BY <3>2, SubnetShows DEF IInv
    <3> QED  BY <3>1, <3>2 DEF IInv
  <2>5. \A i \in 0..(KeyBits - 1) :
           i <= n + Whole(n) /\ i <= n + w => partial[i] = owner[i]
    <3> HIDE DEF w
    <3> QED  BY <2>1, <2>3, <2>4, Recovered
  <2> HIDE DEF n, w
  <2>6. \A i \in 0..last :
           i \in 0..(KeyBits - 1) /\ i <= n + Whole(n) /\ i <= n + w
    BY <2>2, <2>3, Lengths
  <2>7. \A i \in 0..last : partial[i] = owner[i]
    BY <2>5, <2>6
  <2> QED  BY <2>7 DEF n, w
<1> QED  BY <1>1, Invariant, PTL
=============================================================================
