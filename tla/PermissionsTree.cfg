CONSTANTS
  admin = admin
  user = user
  staff = staff
  r1 = r1
  r2 = r2
  top = top
  below = below
  Default = Default
  NoGroup = NoGroup
  NoRepo = NoRepo
  Users <- MCUsers
  SiteAdmins <- MCSiteAdmins
  GroupAdmins <- MCGroupAdmins
  UserGroups <- MCUserGroups
  Repos <- OneRepo
  RepoGroups <- TwoGroups
  Parent <- MCParent
  Granted <- JustAdmin
  Fallbacks <- JustRead
  Grantees <- MCGrantees
  Memberships <- OneMember
  MaxRows = 2
  ViaApi = TRUE
  ForeignKeys = TRUE
SPECIFICATION Spec
INVARIANTS
  TreeWhole
