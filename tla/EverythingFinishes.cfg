SPECIFICATION GcFairSpec
CONSTANTS
    p1 = p1
    p2 = p2
    g1 = g1
    g2 = g2
    g3 = g3
    g4 = g4
    c1 = c1
    c2 = c2
    None = None
    Procs <- OneProc
    Gens <- FourGens
    Contents <- TwoContents
    ExpectedSource = "manifest"
    PinChoices <- NeverPin
    MaxRevision = 2
    MaxCrashes = 0
    MaxPowerLosses = 0
    MaxFaults = 1
    MaxRemovals = 0
    RetainCount = 0
CHECK_DEADLOCK FALSE
INVARIANTS
    PreparedIsUntouched
    MetadataOutlivesDatabase
PROPERTIES
    EveryRunFinishes
    DeletionCompletes
    StoreHeals
