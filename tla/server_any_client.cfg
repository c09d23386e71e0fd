SPECIFICATION Spec
CONSTANTS
    HttpConns = {}
    HttpsConns = {s1, s2}
    Workers = {w1, w2}
    MaxFd = 2
    MaxTasks = 1
    Free = Free
    Stdin = Stdin
    None = None
SYMMETRY Symmetry
INVARIANTS
    OwnsWhatItUses
    EveryFdHasACloser
    ReturnedMeansDone
CHECK_DEADLOCK FALSE
