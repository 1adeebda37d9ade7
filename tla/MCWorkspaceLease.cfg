SPECIFICATION Spec
CONSTANTS
    o1 = o1
    o2 = o2
    o3 = o3
    p1 = p1
    p2 = p2
    r1 = r1
    r2 = r2
    r3 = r3
    r4 = r4
    j1 = j1
    j2 = j2
    NoOwner = NoOwner
    Owner <- MCOwner
    Process <- MCProcess
    Run <- MCRun
    Job <- MCJob
    ProcessOf <- MCProcessOf
    OwnerOf <- MCOwnerOf
INVARIANTS
    WriterHolds
    NoLeak
PROPERTIES
    SomebodyGetsIt
    LeaseEnds
