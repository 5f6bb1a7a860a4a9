\* Two keys that share a subnet and have an address each; no symmetry, since
\* liveness is checked.
SPECIFICATION FairSpec
CONSTANTS
    k1 = k1
    k2 = k2
    a1 = a1
    a2 = a2
    s1 = s1
    p1 = p1
    p2 = p2
    p3 = p3
    i1 = i1
    i2 = i2
    b1 = b1
    b2 = b2
    other = other
    Key = {k1, k2}
    Addr = {a1, a2}
    Subnet = {s1}
    AddrForKey <- MCAddrForKey
    SubnetForKey <- MCSubnetForKey
    Packet = {p1, p2, p3}
    LocalSrc = {p1, p2}
    Dst <- MCDst
    Other = other
    InfoId = {i1, i2}
    BufId = {b1, b2}
    MinMTU = 1
    MaxMTU = 2
    Size = {1, 2}
    Requested = {0, 3}
    Nil = Nil
INVARIANTS
    TypeOK
    NoWaitWhenKnown
    IndexConsistent
    IndexComplete
    NoLeak
PROPERTIES
    ReplyRoutable
    Routes
    QuiescentDrains
