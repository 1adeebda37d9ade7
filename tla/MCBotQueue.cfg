SPECIFICATION Spec
CONSTANTS
    m1 = m1
    m2 = m2
    m3 = m3
    t1 = t1
    t2 = t2
    Message <- ThreeMessages
    Turn <- TwoTurns
    Kinds <- ThreeTasks
    Policies <- Queueing
    ChunksOf <- OneEach
    NoMessage = NoMessage
    NoTurn = NoTurn
    MaxChunks = 1
    MaxFaults = 1
    MaxRuns = 3
PROPERTIES
    RunOnlyUnanswered
    EverySettled
