SPECIFICATION GcSpec
CONSTANTS
    p1 = p1
    p2 = p2
    g1 = g1
    g2 = g2
    g3 = g3
    g4 = g4
    c1 = c1
    c2 = c2
    None = None
    Procs <- TwoProcs
    Gens <- ThreeGens
    Contents <- TwoContents
    ExpectedSource = "cas"
    PinChoices <- AnyPin
    MaxRevision = 2
    MaxCrashes = 1
    MaxPowerLosses = 1
    MaxFaults = 0
    MaxRemovals = 1
    RetainCount = 0
SYMMETRY Symmetry
CONSTRAINT OneFailure
CHECK_DEADLOCK FALSE
INVARIANT
    PinnedIsKept
PROPERTY
    NamedIsKept
