SPECIFICATION Spec
CONSTANTS
    Dirs <- TheDirs
    Below <- TheBelow
    MemoryDir = "memory"
    Existing = {"root", "memory", "team", "other"}
    Names = {"a", "b"}
    Personal = "personal"
    NoName = NoName
    DefaultDir <- TheDefaultDir
    NoPath = NoPath
    BadPath = BadPath
    MaxEntries = 4
INVARIANTS
    OneBankPerFile
    RelocationIgnoresOrder
    FirstEntryDecides
CHECK_DEADLOCK FALSE
