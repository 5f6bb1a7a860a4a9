\* Two TLS listeners and two callers of RetryPeersNow.
SPECIFICATION MCSpec
CONSTANTS
    e1 = e1
    e2 = e2
    c1 = c1
    c2 = c2
    Entry = {e1, e2}
    SchemeOf <- MCSchemeOf
    Caller = {c1, c2}
    MaxLoops = 2
CHECK_DEADLOCK FALSE
INVARIANTS
    TypeOK
    StopClosesListeners
PROPERTIES
    ProgramEnds
    LoopKeepsRunning
    StopEndsLoop
    TunEnds
