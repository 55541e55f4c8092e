CONSTANTS
  x = x
  y = y
  g1 = g1
  g2 = g2
  r1 = r1
  r2 = r2
  t1 = t1
  t2 = t2
  None = None
  Plain = Plain
  Names = {x, y}
  GroupIds = {g1, g2}
  RepoIds = {r1, r2}
  Tasks = {t1, t2}
  MaxRequests = 5
  Foreign <- MCForeign
SPECIFICATION Spec
SYMMETRY StoreSymmetry
INVARIANTS
  TypeOK
  NamesFollowTree
  DirectoriesFollowRows
PROPERTIES
  DataLeavesWithItsRow
  RescanHeals
\* every request is spent in the end
CHECK_DEADLOCK FALSE
