\* Two handlers of one linkInfo, both past the check.
SPECIFICATION Spec
CONSTANTS
    p1 = p1
    p2 = p2
    addr1 = addr1
    name2 = name2
    addr2 = addr2
    t1 = t1
    t2 = t2
    t3 = t3
    Peer = {p1}
    Static = {p1}
    Info = {addr1}
    CallInfo <- AddrInfo
    DialInfo <- AddrInfo
    Scheme <- TlsScheme
    InboundInfo = {addr1}
    ListenScheme <- TlsListener
    Task = {t1, t2, t3}
    MaxAttempts = 3
    MaxActs = 1
    MaxAdds = 2
    Absent = Absent
    NoInfo = NoInfo
    None = None
SYMMETRY Symmetry
INVARIANTS
    ConnectOnce
