SPECIFICATION PollingSpec
CONSTANTS
    Updates = 4
    Kind <- TaskAndMore
    ChannelCap = 1
    ApprovalTimeout = TRUE
    MaxPollingFaults = 2
INVARIANTS
    ForgottenIsAnswered
PROPERTIES
    NoSecondTurn
    EveryTaskAnswered
CHECK_DEADLOCK FALSE
