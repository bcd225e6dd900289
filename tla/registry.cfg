SPECIFICATION Spec
CONSTANTS
    Topics = {"drives", "roots", "plans", "reports"}
    Volumes <- MCVolumes
    Disks <- MCDisks
    DiskOf <- MCDiskOf
    Serial <- MCSerial
    Layout <- MCLayout
    Absent = Absent
    Writers = {w1, w2}
    NoContent = NoContent
    NoFrn = NoFrn
    MaxDrives = 3
    MaxActs = 3
    Vols <- MCVols
    Letters <- TwoLetters
    Paths <- MCPaths
    FilesOn <- MCFilesOn
    Programs = {p1, p2}
    MaxMounts = 2
    MaxAdds = 2
    MaxRemovals = 1
    MaxScans = 2
    None = None
    Tree <- MCTree
    Over <- MCOver
    DriveIds = {1, 2, 3}
    TargetUnits = 2
    MinUnitBytes = 1
    ReserveFloor = 2
    DefaultCluster = 1
    SameBatch = 5
    SameZone = 10
    Scale = 100
    UnverifiedRate = 50
    UnitKeys <- MCUnitKeys
    Clusters = {1, 2}
    Inputs <- MCInputs
    Slots <- MCSlots
    FolderOfSlot <- MCFolderOfSlot
    SizeOf <- MCSizeOf
    BytesOf <- MCBytesOf
    VolumeOf <- MCVolumeOf
    RuleSets <- MCRuleSets
    Recognised = {1}
    Built <- MCBuilt
    BatchOf <- MCBatchOf
    Zones = {"home", "office"}
    Purchases = {0}
    Answers <- MCAnswers
    ShippedTable <- MCShipped
    ImportedTable <- MCImported
    Entries <- MCEntries
    AgeFactors <- MCAgeFactors
    BusFactor <- MCBusFactor
    SectorFactor <- MCSectorFactor
    DutyFactors <- MCDutyFactors
    MaxRate = 95
    MaxYears = 1
    MaxFacts = 2
SYMMETRY Alike
CHECK_DEADLOCK FALSE
INVARIANTS  EverythingOnce PlanIsSound BenchAcceptsPlan OneAnswer
PROPERTIES IdentityStands BoundReads EvidenceOnlyRaises
