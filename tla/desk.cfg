SPECIFICATION FairSpec
CONSTANTS
    Topics = {"window", "helper", "upgrade", "gateway"}
    PoolThreads = {w1, w2}
    Shown = {"photos", "papers"}
    MaxTasks = 3
    Modes = {"query", "enum", "delta"}
    MaxBuffers = 2
    PipeSize = 2
    Openers = {p1, p2}
    Present = 3
    Oldest = 1
    Steps <- MCSteps
    OldParts <- MCOldParts
    DdlParts <- MCDdlParts
    MaxOpenCrashes = 1
    Paths <- MCReadPaths
    Drive <- MCReadDrive
    Readers <- MCReaders
    Ahead = 1
    Objects <- MCObjects
    FirstAt <- MCFirstAt
    LinkTo <- MCLinkTo
    FirstNature <- MCFirstNature
    Id <- MCId
    NoId = NoId
    Nothing = Nothing
    MaxSwaps = 2
CHECK_DEADLOCK FALSE
INVARIANTS WindowStandsFirm ResultIsComplete UpgradeIsWhole ReadsAsAllowed
PROPERTIES WindowFrees EverythingAnswers
