\* Two requests at a time.
SPECIFICATION Spec
CONSTANTS
    h1 = h1
    h2 = h2
    p1 = p1
    p2 = p2
    bad = bad
    i1 = i1
    long = long
    Handler = {h1, h2}
    Method = {"PUT", "nodeinfo"}
    Peer = {p1, p2}
    Invalid = {}
    NodeInfo = {Default, i1}
    TooLong = {}
    Default = Default
    Empty = Empty
    None = None
CHECK_DEADLOCK FALSE
INVARIANTS
    Persisted
