--------------------------- MODULE MCRepoPermissions ---------------------------
\* Small instances of RepoPermissions.
EXTENDS RepoPermissions, TLC

CONSTANTS admin, user, staff, r1, r2, top, below

MCUsers == {admin, user}
MCSiteAdmins == {admin}
MCGroupAdmins == {user}
MCUserGroups == {staff}
OneRepo == {r1}
TwoRepos == {r1, r2}
TwoGroups == {top, below}
OneGroup == {top}
MCParent == [g \in RepoGroups |-> IF g = top THEN NoGroup ELSE top]
MCGrantees == {Default, user, staff}
MCMemberships == {{}, {user, Default}}
OneMember == {{}, {user}}
JustAdmin == {Admin}
JustRead == {Read}

\* The two repositories differ in nothing but their names.
RepoSymmetry == Permutations(TwoRepos)
=============================================================================
