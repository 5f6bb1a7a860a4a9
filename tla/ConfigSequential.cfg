\* One request at a time, with crashes.
SPECIFICATION Spec
CONSTANTS
    h1 = h1
    h2 = h2
    p1 = p1
    p2 = p2
    bad = bad
    i1 = i1
    long = long
    Handler = {h1}
    Method = {"PUT", "POST", "DELETE", "nodeinfo"}
    Peer = {p1, p2, bad}
    Invalid = {bad}
    NodeInfo = {Default, i1, long}
    TooLong = {long}
    Default = Default
    Empty = Empty
    None = None
CHECK_DEADLOCK FALSE
INVARIANTS
    TypeOK
    Persisted
