SPECIFICATION EdgeSpec
CONSTANTS
    Peers = {p1, p2}
    Browser = p1
    Limit = 2
    Window = 5
    TicksPerSecond = 2
    MaxKeys = 1
    MaxTime = 6
    Owners = {o1, o2}
    Flows = {f1, f2}
    Callbacks = {c1, c2}
    StateTTL = 2
SYMMETRY MCSymmetry
INVARIANTS EdgeTypeOK WindowHolds RetrySuffices ConnectionsAreConsented AnsweredFlowsAreOver
CHECK_DEADLOCK FALSE
