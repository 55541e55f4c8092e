CONSTANTS
  n1 = n1
  n2 = n2
  lower = lower
  other = other
  e1 = e1
  e2 = e2
  key = key
  w1 = w1
  w2 = w2
  None = None
  Gone = Gone
  Ids = {1, 2}
  Names <- MCNames
  Lower <- MCLower
  Emails <- MCEmails
  Fingerprints <- MCFingerprints
  Workers <- MCWorkers
  AutoActive = TRUE
  MaxRequests = 3
SYMMETRY MCSymmetry
CHECK_DEADLOCK FALSE
SPECIFICATION Spec
INVARIANTS
  TypeOK
  AccountsDistinct
  SecondLookupAgrees
  FileFollowsKeys
PROPERTIES
  LoginsKeepAccounts
