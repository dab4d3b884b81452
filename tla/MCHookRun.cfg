SPECIFICATION HookFairSpec
CONSTANTS
    Stages = {fetch, route, write}
    NoStage = NoStage
    MaxEntries = 4
INVARIANTS
    PairTellsTheEnd
PROPERTIES
    HangIsReported
CHECK_DEADLOCK FALSE
