\* Every key of 16 bits, bytes of four; the lookup reaches its owner
\* or a node whose key differs in one bit.
SPECIFICATION Spec
CONSTANTS
    Byte = 4
    KeyBytes = 4
    AddrBytes = 4
    SubnetBytes = 3
    Prefix = 12
    Owner <- AllKeys
    Reached <- Neighbours
    Host = {1}
    None = None
CHECK_DEADLOCK FALSE
INVARIANTS
    OwnerAnswers
    VisibleBits
