SPECIFICATION FairSpec
CONSTANTS
    MaxBody = 4
    MaxAnswer = 3
    MaxChunk = 2
    Room = 2
INVARIANTS
    TypeOK
    RequestInOrder
    AnswerOrPage
    CleanEndIsComplete
PROPERTIES
    RequestHandedOver
    RelayEnds
CHECK_DEADLOCK FALSE
