SPECIFICATION LSpec
CONSTANTS
    Main = m
    LogThread = l
    Offerers = {m, w}
    Putters = {}
    Getters = {l}
    Pollers = {l}
    Cleaners = {m}
    MaxQueueSize = 2
    MaxNodes = 2
    MayRequestStop = FALSE
    NoThread = NoThread
    Null = Null
INVARIANT QueueOutlivesReader
CHECK_DEADLOCK FALSE
