\* Every configuration of two nodes and two keys; an end that runs another
\* program may claim either key.
SPECIFICATION HandshakeFairSpec
CONSTANTS
    k1 = k1
    k2 = k2
    Key = {k1, k2}
    Version <- MCVersion
    NoMeta = NoMeta
CHECK_DEADLOCK FALSE
INVARIANTS
    Admitted
PROPERTIES
    Agreement
    HandshakeEnds
