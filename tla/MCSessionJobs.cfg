SPECIFICATION Spec
CONSTANTS
    s1 = s1
    s2 = s2
    task = task
    bash = bash
    NoSession = NoSession
    Session <- MCSession
    Job <- MCJob
    Recoverable <- MCRecoverable
    MaxProcess = 2
INVARIANTS
    CompletionsTold
    ClearedIsGone
    MutationIsIdle
CHECK_DEADLOCK FALSE
