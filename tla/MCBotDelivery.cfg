SPECIFICATION Spec
CONSTANTS
    m1 = m1
    m2 = m2
    m3 = m3
    t1 = t1
    t2 = t2
    Message <- TwoMessages
    Turn <- TwoTurns
    Kinds <- TaskThenAny
    Policies <- EveryMode
    ChunksOf <- TwoThenOne
    NoMessage = NoMessage
    NoTurn = NoTurn
    MaxChunks = 2
    MaxFaults = 2
    MaxRuns = 3
INVARIANTS
    NoSilentRepeat
    OneAnswerInOrder
PROPERTIES
    SettledMeansTold
