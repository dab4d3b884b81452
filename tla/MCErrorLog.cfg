SPECIFICATION LogSpec
CONSTANTS
    Loggers = {p1, p2}
    Retentions = {0, 2}
    Leftovers = {TRUE}
    NoFile = NoFile
    MaxDay = 2
    MaxLines = 2
SYMMETRY Alike
INVARIANTS
    NoLineLost
PROPERTIES
    SweepDeletesOldFiles
CHECK_DEADLOCK FALSE
