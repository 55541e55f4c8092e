CONSTANTS
  w1 = w1
  w2 = w2
  b1 = b1
  Main = Main
  Workers = {w1, w2}
  Branches = {Main, b1}
  MaxChangesets = 3
  MaxRequests = 4
SPECIFICATION Spec
\* Every request is spent in the end.
CHECK_DEADLOCK FALSE
SYMMETRY WorkerSymmetry
INVARIANTS
  TypeOK
  CacheFollows
  EveryChangesetAnnounced
PROPERTIES
  EditsExtendBranch
