SPECIFICATION Spec
CONSTANTS
    NoRevision = NoRevision
    Files = {"plan", "specs"}
    Processes = {p1, p2}
    Component = FALSE
    MaxEdits = 3
SYMMETRY Alike
INVARIANTS
    ReadyIsOneSnapshot
    ReadyWasMarked
CHECK_DEADLOCK FALSE
