\* One interface with two addresses and two entries that match it.
SPECIFICATION FairSpec
CONSTANTS
    eth = eth
    a1 = a1
    a2 = a2
    m1 = m1
    m2 = m2
    m3 = m3
    Iface = {eth}
    Addr = {a1, a2}
    Config <- TwoEntries
    MaxInterval = 2
    Timer = {m1, m2, m3}
    MaxLoops = 2
    Down = Down
    Absent = Absent
    Nil = Nil
CHECK_DEADLOCK FALSE
INVARIANTS
    TypeOK
    ReaderEndsQuietly
PROPERTIES
    BeaconsContinue
    ListenersFollow
    StopQuiet
