SPECIFICATION FairSpec
CONSTANTS
    Messages = {1, 2, 3}
    MonthOf <- TheMonths
    ModelOf <- TheModels
    Runs = {101}
    RunMonth = 2
    Models = {"old", "new"}
    Bundled = {"old"}
    Fallback = Fallback
    NoTable = NoTable
    Unreadable = Unreadable
    MaxVersion = 1
    MaxFailures = 2
INVARIANTS
    RecordedOnce
    BundledStaysPriced
    PassUsesItsRefresh
PROPERTIES
    EveryMessageIsRecorded
CHECK_DEADLOCK FALSE
