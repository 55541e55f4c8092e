CONSTANTS
  u1 = u1
  u2 = u2
  r1 = r1
  w1 = w1
  w2 = w2
  NoPR = NoPR
  Idle = Idle
  Workers = {w1, w2}
  Users <- MCUsers
  SiteAdmins = {}
  RepoAdmins <- MCRepoAdmins
  Revisions = {r1}
  PullRequestIds <- MCPullRequestIds
  CommentIds <- MCCommentIds
  Choices <- MCChoices
  MaxVersion = 2
  Texts = {FALSE}
  Series <- MCSeries
  Panels <- MCPanels
  NewOwners = {}
SYMMETRY WorkerSymmetry
SPECIFICATION RequestsSpec
CHECK_DEADLOCK FALSE
INVARIANTS
  TablesConsistent
PROPERTIES
  ClosedStaysClosed
