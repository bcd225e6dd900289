SPECIFICATION Spec
CONSTANTS
    File <- Trio
    Body <- Bodies
    Size <- AllLengths
    Sample <- AllSamples
    SmallSize <- Small
    InitialDisks <- LargeOrSmall
    NoBody = NoBody
    NoContent = NoContent
    Proc = {p}
    NoProc = NoProc
    ScopeChoices <- OneRootToo
    CheckpointRows = 2
    MaxChanges = 1
    MaxScans = 2
    MaxPasses = 3
CHECK_DEADLOCK FALSE
INVARIANTS QuietHashExact RotReported
