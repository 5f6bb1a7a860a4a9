\* Three overlapping calls on a debug slot and a nodeinfo slot; no symmetry,
\* since liveness is checked.
SPECIFICATION FairSpec
CONSTANTS
    c1 = c1
    c2 = c2
    c3 = c3
    debug = debug
    nodeinfo = nodeinfo
    Call = {c1, c2, c3}
    Slot = {debug, nodeinfo}
    NodeInfoSlot = {nodeinfo}
    Nil = Nil
INVARIANTS
    TypeOK
    ActorNeverBlocks
    LiveRequestKept
    TableConsistent
PROPERTIES
    RequestsExpire
