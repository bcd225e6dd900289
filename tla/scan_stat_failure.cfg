SPECIFICATION Spec
CONSTANTS
    Node <- TinyNodes
    Root = "root"
    Dir <- TinyDirs
    Parent <- TinyParent
    Above <- TinyAbove
    InitialDisk <- TinyDisk
    Stamp <- OneStamp
    ExcludeChoices <- NoExcludes
    MaxScans = 2
    Proc = {p1}
    NoProc = NoProc
    BatchRows = 1
    CheckpointRows = 1
    StatMayFail = TRUE
    MaxChanges = 1
    MaxCrashes = 0
CHECK_DEADLOCK FALSE
PROPERTIES GoneMeansMissing
