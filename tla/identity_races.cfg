SPECIFICATION Spec
CONSTANTS
    File <- Pair
    Body <- Twins
    Size <- TwinLengths
    Sample <- TwinSamples
    SmallSize <- Small
    InitialDisks <- TwoTwins
    NoBody = NoBody
    NoContent = NoContent
    Proc = {p, q}
    NoProc = NoProc
    ScopeChoices <- EveryRoot
    CheckpointRows = 2
    MaxChanges = 1
    MaxScans = 2
    MaxPasses = 2
CHECK_DEADLOCK FALSE
SYMMETRY Programs
INVARIANTS ExactMeansSame IdentityIsCurrent
