CONSTANTS
    AutoThreads <- MCAuto
    Slots <- MCSlots
    StateIds <- MCStateIds
    MaxEdits = 1
    MaxEvents = 3
SPECIFICATION FairSpec
INVARIANT OneRunner
PROPERTIES SnapshotFreedOnlyByWatch DirtyTreeIsIndexed ShutdownCompletes
CHECK_DEADLOCK FALSE
