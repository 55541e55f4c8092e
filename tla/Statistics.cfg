CONSTANTS
  w1 = w1
  w2 = w2
  d1 = d1
  d2 = d2
  p1 = p1
  p2 = p2
  p3 = p3
  None = None
  Workers = {w1, w2}
  Keys = {d1}
  Pids = {p1, p2, p3}
  ParseLimit = 2
  RecurseLimit = 1
  MaxRevisions = 3
  MaxQueue = 1
  MaxCount = 2
SPECIFICATION Spec
INVARIANTS
  TypeOK
  NothingMissed
  CountedOnce
PROPERTIES
  CatchesUp
