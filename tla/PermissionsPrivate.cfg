CONSTANTS
  admin = admin
  user = user
  staff = staff
  r1 = r1
  r2 = r2
  top = top
  below = below
  Default = Default
  NoGroup = NoGroup
  NoRepo = NoRepo
  Users <- MCUsers
  SiteAdmins <- MCSiteAdmins
  GroupAdmins <- MCGroupAdmins
  UserGroups <- MCUserGroups
  Repos <- TwoRepos
  RepoGroups <- OneGroup
  Parent <- MCParent
  Granted <- JustAdmin
  Fallbacks <- JustRead
  Grantees <- MCGrantees
  Memberships <- MCMemberships
  MaxRows = 2
  ViaApi = FALSE
  ForeignKeys = FALSE
SPECIFICATION Spec
INVARIANTS
  PrivateHidden
