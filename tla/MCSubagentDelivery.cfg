SPECIFICATION Spec
CONSTANTS
    p1 = p1
    r1 = r1
    r2 = r2
    s1 = s1
    s2 = s2
    None = None
    Runtime = {p1}
    Ref = {r1, r2}
    Session <- MCSession
    Parent <- MCParent
    MaxSeal = 1
    MaxLog = 2
    MaxFault = 1
SYMMETRY RefSymmetry
INVARIANTS
    AcceptanceRecorded
    AcceptedIsTrue
PROPERTIES
    
    WorkSurvives
CHECK_DEADLOCK FALSE
