SPECIFICATION FairSpec
CONSTANTS
    Node <- TinyNodes
    Root = "root"
    Dir <- TinyDirs
    Parent <- TinyParent
    Above <- TinyAbove
    InitialDisk <- TinyDisk
    Stamp <- OneStamp
    ExcludeChoices <- NoExcludes
    MaxScans = 2
    Proc = {p1, p2}
    NoProc = NoProc
    BatchRows = 1
    CheckpointRows = 1
    StatMayFail = FALSE
    MaxChanges = 1
    MaxCrashes = 1
CHECK_DEADLOCK FALSE
INVARIANTS StagedXorMerged
PROPERTIES UnlistedUntouched ScanEnds
