SPECIFICATION Spec
CONSTANTS
    Offerers = {}
    Putters = {p1, p2}
    Getters = {g1, g2}
    Pollers = {}
    Cleaners = {c}
    MaxQueueSize = 1
    MaxNodes = 4
    NoThread = NoThread
    Null = Null
SYMMETRY Symmetry
INVARIANTS
    NodesAlive
    CleanupFreesReaders
CHECK_DEADLOCK FALSE
