SPECIFICATION ArchiveSpec
CONSTANTS
    Procs = {"p", "q"}
    Capabilities <- MCCapabilities
    Blocks <- MCBlocks
    NameOf <- MCNameOf
    DeltasOf <- MCDeltasOf
    TableOf <- MCTableOf
    FirstFiles <- MCFirstFiles
    FirstArchive <- MCFirstArchive
    NoFile = NoFile
    MaxDay = 1
    MaxRuns = 2
INVARIANTS
    DeltasAreApplied
CONSTRAINT OneIsSound
CHECK_DEADLOCK FALSE
