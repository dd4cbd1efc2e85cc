SPECIFICATION Spec
CONSTANTS
  Project = "p"
  Blank <- MCBlank
  Defs <- MCDefs
  Links <- MCLinks
  CallSets <- MCCallSets
  Edited <- MCEdited
  Log <- MCLog
  Modes = {"full", "fast"}
  Workers = {1, 2}
  MaxRelated = 1
  MinTogether = 2
  MaxFiles = 3
  Coupling = 30
  TestFiles <- MCTestFiles
  TestNames = {"test_fetch"}
  Untracked = {"vendor"}
  Stopwords = {"app"}
  ConfigExts = {"toml"}
  Manifests = {"app.toml"}
  Sections = {"dependencies"}
  ShortWords = {}
  MaxDepth = 8
  ServiceOfHost <- MCServiceOfHost
  Params = {":id", "{id}"}
  Groups = {"(app)"}
  WordsOf <- MCWordsOf
  Expansion <- MCExpansion
  BodyHints <- MCBodyHints
  CalleeHints <- MCCalleeHints
  NameHints <- MCNameHints
  ExtOf <- MCExtOf
  MaxTokens = 14
  MaxCallees = 2
  Window = 2
  Scale = 2
  Planes <- MCPlanes
  Rows = 2
  MaxBucket = 4
  Threshold = 25
  Jaccard = 75
  MaxSimilar = 2
CHECK_DEADLOCK FALSE
INVARIANTS TypeOK TestsMirrorCalls FlowsAreJustified CyclesAreFlagged RelatedWithinRace ClonesAreNotRelated
