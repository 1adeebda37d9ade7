SPECIFICATION SaveSpec
CONSTANTS
    r1 = r1
    r2 = r2
    NoRuntime = NoRuntime
    Runtime <- MCRuntime
    MaxEdit = 3
    MaxDepth = 1
    MaxStart = 2
    MaxFault = 1
    MaxRevision = 3
SYMMETRY Symmetry
PROPERTIES
    SavedIsStored
    ConflictIsForeign
    RemovedStays
    ImplementsPromise
CHECK_DEADLOCK FALSE
