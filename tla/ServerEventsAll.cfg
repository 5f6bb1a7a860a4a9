\* A channel of one event, two health tests, two updates and two polls at a time.
SPECIFICATION FairSpec
CONSTANTS
    h1 = h1
    t1 = t1
    t2 = t2
    p1 = p1
    p2 = p2
    Capacity = 1
    Handler = {h1}
    Test = {t1, t2}
    Poller = {p1, p2}
    MaxUpdates = 2
CHECK_DEADLOCK FALSE
INVARIANTS
    TypeOK
PROPERTIES
    HandlerNotHeld
    HealthPrinted
    UpdatesPrinted
