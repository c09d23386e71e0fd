SPECIFICATION Spec
CONSTANTS
    Offerers = {o1, o2}
    Putters = {}
    Getters = {g}
    Pollers = {}
    Cleaners = {c}
    MaxQueueSize = 2
    MaxNodes = 4
    NoThread = NoThread
    Null = Null
SYMMETRY Symmetry
INVARIANT WithinCapacity
CHECK_DEADLOCK FALSE
