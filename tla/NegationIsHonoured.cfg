SPECIFICATION Spec
CONSTANTS
  Letters <- MCLetters
  LowerOf <- MCLower
  MinHint = 3
  DefaultLimit = 10
  LanguageOf <- MCLanguages
  TopEntries = 2
  TopHot = 2
  TopBoundaries = 2
  BoundaryRoom = 3
  CoreFanIn = 1
  TopPackages = 2
  TreeDepth = 1
  TopClusters = 3
  TopNodes = 2
  ClusterPackages = 2
  MaxNumber = 9
  PatternsOfQueries = {}
  MaxVars = 6
  MaxEdgeVars = 3
  Growth = 10
  MaxDepth = 4
  PathLimit = 50
  Ceiling = 100
  Source <- MCSource
  Git <- MCGit
  LegacyAdr <- MCLegacy
  WordsOf <- MCWordsOf
  InnerLimit = 5
  SearchLimit = 4
  MaxAspects = 4
  HopLimit = 50
  ShownNames = 3
  SnippetLines = 2
  GrepLimit = 8
  MaxLines = 4
  MaxRaw = 2
  DirOrder <- MCDirOrder
  Versions <- MCVersions
  Calls <- NegatedCalls
  Interludes = {}
  StartDisks <- MCStartDisks
  Handle <- HandleTool
  Meanings <- NegatedMeanings
INVARIANT
  NegationIsHonoured
CHECK_DEADLOCK FALSE
