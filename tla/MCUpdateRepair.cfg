SPECIFICATION Spec
CONSTANTS
    g1 = g1
    Dead = Dead
    Desktop = Desktop
    Guard = {g1}
    MaxVersion = 3
    Fragile = {3}
    Bad = {3}
    FailureLimit = 2
    MaxUpdate = 2
    MaxFault = 2
INVARIANT EvidenceKept
PROPERTY RollbackRestores RollbackHasCause BadReleaseIsLeft
CHECK_DEADLOCK FALSE
