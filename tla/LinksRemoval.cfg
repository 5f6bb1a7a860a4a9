\* One static peer and one added at run time, removed together.
SPECIFICATION Spec
CONSTANTS
    p1 = p1
    p2 = p2
    addr1 = addr1
    name2 = name2
    addr2 = addr2
    t1 = t1
    t2 = t2
    t3 = t3
    Peer = {p1, p2}
    Static = {p1}
    Info = {addr1, addr2, name2}
    CallInfo <- MCCallInfo
    DialInfo <- MCDialInfo
    Scheme <- TlsScheme
    InboundInfo = {}
    ListenScheme <- TlsListener
    Task = {t1, t2}
    MaxAttempts = 3
    MaxActs = 1
    MaxAdds = 2
    Absent = Absent
    NoInfo = NoInfo
    None = None
SYMMETRY Symmetry
INVARIANTS
    RemovalSafe
