SPECIFICATION Spec
CONSTANTS
    HttpConns = {h1, h2}
    HttpsConns = {}
    Workers = {w1}
    MaxFd = 1
    MaxTasks = 2
    Free = Free
    Stdin = Stdin
    None = None
INVARIANT HandlerGetsAccepted
CHECK_DEADLOCK FALSE
