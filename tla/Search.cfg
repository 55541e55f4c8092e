CONSTANTS
  a = a
  Idle = Idle
  Repos <- MCRepos
  Git <- MCGit
  Paths <- MCPaths
  MaxChangesets = 3
  MaxFaults = 1
SPECIFICATION Spec
INVARIANTS
  TypeOK
  OneDocumentPerFile
  MarksComplete
PROPERTIES
  RunListsFiles
  CatchesUp
