SPECIFICATION Spec
CONSTANTS
    Topics = {"dataset", "plan", "campaign", "commands"}
    Roots = {"d1", "d2"}
    Unscoped = "outside"
    Names = {"file", "link", "new", "stray"}
    Planted <- MCPlanted
    Unsized = {"link"}
    Changes <- MCChanges
    MaxCommands = 3
    MaxMeddles = 1
    MaxKills = 1
    Drives <- MCDrives
    Device <- MCDevice
    Unidentified = {"D3"}
    Sizes <- MCSizes
    SmallFile = 8
    Fresh = {"n", "m"}
    Variants <- MCVariants
    Baselines <- MCBaselines
    MaxRepeats = 1
    MinCopies = 2
    MaxMistakes = 1
    Iterations = 2
    Requirements = {"R1", "R2"}
    Kept = {TRUE, FALSE}
    Shells = {s1, s2}
    Text <- MCText
    Verbs = {"hash", "scope add", "scope remove", "scope preview", "scan", "verify", "export", "gui"}
    Locations <- MCLocations
    LetterOf <- MCLetterOf
    Around <- MCAround
    Cards = {"sys", "usb", "spare"}
    System = "sys"
    NoVolume = "no volume"
    CatalogPlaces = {"C:cat", "E:cat"}
    ExportPlaces = {"C:home", "E:work"}
    MaxCommandRuns = 3
    MaxSwitches = 1
    MaxCatalogMoves = 1
    MaxKilled = 1
    MaxUnseen = 1
SYMMETRY Releases
CHECK_DEADLOCK FALSE
INVARIANTS PristineIsGenerated OracleAgrees JudgeDecides RunsAccounted
    WritesOutsideScope ReadsAfterAcceptance ExitTellsTruth
PROPERTIES ForeignKept
