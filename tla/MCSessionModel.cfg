SPECIFICATION SessionFairSpec
CONSTANTS
    Workers = {"main", "child"}
    Main = "main"
    Files = {"f"}
    Models <- TheModels
    CurrentModel <- TheFamily
    KnownEfforts = {"low", "high"}
    Unset = Unset
    Chunk = 2
    MaxBytes = 5
    MaxTears = 1
    Confs <- TheConfs
    Envs <- TheEnvs
INVARIANTS
    ScanFindsLast
PROPERTIES
    PinHolds
    LookUpReturns
CONSTRAINT OneAtWork
CHECK_DEADLOCK FALSE
