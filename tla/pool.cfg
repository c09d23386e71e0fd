SPECIFICATION FairSpec
CONSTANTS
    NumThreads = 2
    Tasks = {t1, t2, t3}
    Stoppers = {s1, s2}
    NoTask = NoTask
INVARIANTS
    TypeOK
    StartedInOrder
    PromisesKept
    NoLostWakeup
    NobodyStranded
    JoinedMeansDrained
PROPERTIES
    AcceptedRuns
    ShutdownReturns
    ImplementsTaskService
CHECK_DEADLOCK FALSE
