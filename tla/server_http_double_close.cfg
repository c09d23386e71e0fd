SPECIFICATION Spec
CONSTANTS
    HttpConns = {h1, h2}
    HttpsConns = {}
    Workers = {w1, w2}
    MaxFd = 3
    MaxTasks = 2
    Free = Free
    Stdin = Stdin
    None = None
INVARIANT ClosesNoStranger
CHECK_DEADLOCK FALSE
