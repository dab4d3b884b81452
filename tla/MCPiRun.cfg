SPECIFICATION FairSpec
CONSTANTS
    MaxAttempts = 2
    MaxTurns = 2
    Timeout = 4
    AbortWrite = 1
    AbortGrace = 2
    EventBound = 3
INVARIANTS
    ResultIffRunSucceeded
    SuperviseReturnsInTime
    NoProcessLeft
    EveryAttemptBilled
PROPERTIES
    KeepsRetryPolicy
    CallReturns
CHECK_DEADLOCK FALSE
