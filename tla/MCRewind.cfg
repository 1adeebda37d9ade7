SPECIFICATION Spec
CONSTANTS
    f1 = f1
    f2 = f2
    NoTurn = NoTurn
    File <- TwoFiles
    MaxTurn = 3
    MaxRewind = 2
    MaxFault = 1
SYMMETRY Symmetry
INVARIANTS
    RestoreExact
    RetiredStaysGone
    TurnIsWhole
PROPERTIES
    RewindIsWhole
CHECK_DEADLOCK FALSE
