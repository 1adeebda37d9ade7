SPECIFICATION Spec
CONSTANTS
    m1 = m1
    m2 = m2
    m3 = m3
    m4 = m4
    c1 = c1
    c2 = c2
    s1 = s1
    s2 = s2
    s3 = s3
    Message <- MCMessage
    Channel <- MCChannel
    Session <- MCSession
    ChannelOf <- MCChannelOf
    SessionOf <- MCSessionOf
    RecordLimit = 2
    MaxChunks = 2
    MaxSequence = 2
SYMMETRY SameUser
INVARIANTS
    LedgerReopens
    CheckpointExact
PROPERTIES
    AnsweredIsFinal
    AnswerIsKept
    ImplementsCursor
