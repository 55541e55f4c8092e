CONSTANTS
  u1 = u1
  u2 = u2
  r1 = r1
  r2 = r2
  NoPR = NoPR
  Users <- MCUsers
  SiteAdmins <- MCSiteAdmins
  RepoAdmins <- MCRepoAdmins
  Revisions <- MCRevisions
  PullRequestIds <- TwoPullRequests
  CommentIds <- ThreeComments
  Choices <- BothVerdicts
  MaxVersion = 2
  Texts = {FALSE}
  Series <- WholeSeries
  Panels <- MCPanels
  NewOwners = {}
SYMMETRY RevisionSymmetry
SPECIFICATION Spec
INVARIANTS
  TypeOK
  NewestFirst
  NoOrphans
  LatestVoteCounts
PROPERTIES
  ClosedVerdictFinal
  ImplementsLedger
