SPECIFICATION Spec
CONSTANTS
  Files <- MCFiles
  FullOnly <- MCFullOnly
  Calls <- MCCalls
  Coupled <- MCCoupled
  Hollow <- MCHollow
  Packages <- MCPackages
  MaxVersion = 3
  MaxRuns = 3
  MaxEdits = 2
  MaxFaults = 0
PROPERTY AdrSurvives
CHECK_DEADLOCK FALSE
