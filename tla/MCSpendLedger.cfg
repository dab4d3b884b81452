SPECIFICATION Spec
CONSTANTS
    Tasks = {t1, t2}
    Stages = {find, verify}
    NoLabel = NoLabel
    MaxUsd = 2
    MaxTokens = 2
    WarnTenths = 5
    CallUsd = 2
    CallTokens = 1
    NoCheckpoint = NoCheckpoint
    MaxCalls = 4
SYMMETRY Alike
INVARIANTS
    OvershootBounded
    CheckpointIsRestored
PROPERTIES
    BreakerIsFinal
CHECK_DEADLOCK FALSE
