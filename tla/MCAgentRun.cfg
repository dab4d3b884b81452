SPECIFICATION FairSpec
CONSTANTS
    MaxAttempts = 2
    Timeout = 1
    RetryBackoff = 1
    Window = 3
    FirstBackoff = 1
    MaxBackoff = 2
    KeepAfter = 1
INVARIANTS
    HardFailuresBounded
    UsageLimitIsFinal
    HeartbeatFollowsAttempt
    OneLiveConsumer
    LedgerHoldsFinalAttempt
PROPERTIES
    CallReturns
    KeepsRetryPolicy
CHECK_DEADLOCK FALSE
