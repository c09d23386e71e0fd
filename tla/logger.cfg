SPECIFICATION LFairSpec
CONSTANTS
    Main = m
    LogThread = l
    Offerers = {m, w}
    Putters = {}
    Getters = {l}
    Pollers = {l}
    Cleaners = {m}
    MaxQueueSize = 2
    MaxNodes = 3
    MayRequestStop = TRUE
    NoThread = NoThread
    Null = Null
INVARIANTS
    LTypeOK
    WrittenOnceInOrder
    ListSound
    ReaderNotStranded
PROPERTIES
    EveryMessageWritten
    ExitEnds
    ImplementsItemQueue
CHECK_DEADLOCK FALSE
