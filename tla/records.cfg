SPECIFICATION Spec
CONSTANTS
    Topics = {"records", "bundles", "deltas"}
    Folders <- MCFolders
    Within <- MCChildren
    Subfolders <- MCChildren
    Programs = {p1, p2}
    NoProgram = NoProgram
    Titles = {"t"}
    MaxActs = 4
    MaxCrashes = 1
    Exporters = {p1, p2}
    Kinds <- MCKinds
    FilesOf <- MCFilesOf
    MaxFolders = 3
    MaxFaults = 1
    MaxScopings = 1
    MaxGrowth = 1
    Node <- MCNode
    Root = "root"
    Dir <- MCDir
    Parent <- MCParent
    Above <- MCAbove
    Stamp = {"v1"}
    MaxScans = 3
    EntryName <- MCName
    Content0 <- MCContent
    Moves <- MCMoves
    OtherDirs = 4
    MaxFrn = 4
    MaxRecords = 2
    MaxDeltaCrashes = 1
    MaxUnread = 1
CHECK_DEADLOCK FALSE
INVARIANTS ChainIntact Audited AcceptedIsHeld FinishedIsWhole CursorCovers
PROPERTIES DecisionStands LogOnlyGrows
