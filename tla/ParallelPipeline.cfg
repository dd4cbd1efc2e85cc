SPECIFICATION Spec
CONSTANTS
  Project = "p"
  ServiceOf <- MCServiceOf
  StubOf <- MCStubOf
  Verbs <- MCVerbs
  Paths <- MCPaths
  Deep <- MCDeep
  Urls <- MCUrls
  Checked = {}
  TestWords = {"test", "mock"}
  Builtins = {"print"}
  Files <- MCFiles
  Source <- MCSource
  Folders <- MCFolders
  Outcomes <- MCOutcomes
  MaxWorkers = 2
  Budget = 4
  PerFile = 8
  CommandsOf <- FileCommands
  Expected <- SequentialEdges
INVARIANTS EveryFileIsAccounted RetainedWithinBudget OnlyChannelsClash SameEdges
