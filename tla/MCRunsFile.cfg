SPECIFICATION FairSpec
CONSTANTS
    Writers = {w1, w2, w3}
    NoWriter = NoWriter
    MaxShort = 1
    MaxKills = 2
INVARIANTS
    WrittenRowIsRead
    LossIsCounted
PROPERTIES
    AppendReturns
CHECK_DEADLOCK FALSE
