SPECIFICATION Spec
CONSTANTS
  Files <- MCFiles
  FullOnly <- MCFullOnly
  Calls <- MCCalls
  Coupled <- MCCoupled
  Hollow <- MCHollow
  Packages <- MCPackages
  MaxVersion = 3
  MaxRuns = 3
  MaxEdits = 2
  MaxFaults = 1
INVARIANTS RowsMatchGraph SuccessIsCurrent EdgesSurvive SimilarIsCurrent
PROPERTIES OnlyDumpsTear
CHECK_DEADLOCK FALSE
