SPECIFICATION FairSpec
CONSTANTS
    Names <- TheNames
    Procs = {"p", "q"}
    ThreadsOf <- TheThreads
    Plugins <- ThePlugins
    Versions = {"1", "2"}
    Oldest = "1"
    Home <- TheHome
    Clone <- TheClone
    Projects <- TheProjects
    Markable <- TheMarkable
    Managed <- TheManaged
    Workspaces <- TheWorkspaces
    OptionSets <- TheOptionSets
    None = None
    BadPath = BadPath
    MaxDepth = 2
    MaxEdits = 1
INVARIANTS
    OnePathsPerProcess
    ProcessesAgree
    DiscoveryIsNearest
PROPERTIES
    LockComesFree
CONSTRAINT OneAfterAnother
CHECK_DEADLOCK FALSE
