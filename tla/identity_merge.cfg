SPECIFICATION Spec
CONSTANTS
    File <- Pair
    Body <- Twins
    Size <- TwinLengths
    Sample <- TwinSamples
    SmallSize <- Small
    InitialDisks <- TwoCopies
    NoBody = NoBody
    NoContent = NoContent
    Proc = {p}
    NoProc = NoProc
    ScopeChoices <- EveryRoot
    CheckpointRows = 1
    MaxChanges = 1
    MaxScans = 2
    MaxPasses = 1
CHECK_DEADLOCK FALSE
INVARIANTS ChangedBytesDropIdentity
