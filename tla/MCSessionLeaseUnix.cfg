SPECIFICATION Spec
CONSTANTS
    a1 = a1
    a2 = a2
    a3 = a3
    p1 = p1
    p2 = p2
    NoActor = NoActor
    NoProcess = NoProcess
    Actor <- MCActor
    Process <- MCProcess
    ProcessOf <- MCProcessOf
    Tasks <- LeaseOnly
    Platform = "unix"
INVARIANTS
    LeaseExclusive
