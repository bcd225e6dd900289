SPECIFICATION Spec
CONSTANTS
    Node <- SmallNodes
    Root = "root"
    Dir <- SmallDirs
    Parent <- SmallParent
    Above <- SmallAbove
    InitialDisk <- SmallDisk
    Stamp <- TwoStamps
    ExcludeChoices <- ExcludeA
    MaxScans = 2
    Proc = {p1}
    NoProc = NoProc
    BatchRows = 2
    CheckpointRows = 2
    StatMayFail = TRUE
    MaxChanges = 1
    MaxCrashes = 1
CHECK_DEADLOCK FALSE
INVARIANTS QuietScanExact RollupAgrees TreeHolds
PROPERTIES TombstoneJustified
