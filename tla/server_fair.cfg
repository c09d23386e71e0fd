SPECIFICATION FairSpec
CONSTANTS
    HttpConns = {h}
    HttpsConns = {s}
    Workers = {w1}
    MaxFd = 2
    MaxTasks = 1
    Free = Free
    Stdin = Stdin
    None = None
INVARIANT TypeOK
PROPERTIES
    AcceptedIsClosed
    StopsIfAwake
CHECK_DEADLOCK FALSE
