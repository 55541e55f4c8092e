---------------------------- MODULE RepoPermissions ----------------------------
(*****************************************************************************)
(* Who may do what with repositories and repository groups: the permission   *)
(* rows the database holds, the operations that write them, and the level a  *)
(* request computes from them.  A row gives a level to a user, to a user     *)
(* group, or to the default user, who stands for everybody.                  *)
(*                                                                           *)
(* Every operation is one action, guarded by the level of the user who asks  *)
(* for it as computed from the rows of the same state.                       *)
(*****************************************************************************)
EXTENDS Integers, FiniteSets

CONSTANTS
  Users,         \* accounts other than the default user
  SiteAdmins,    \* those with User.admin
  GroupAdmins,   \* those with usergroup.admin on the user groups
  Default,       \* the default user: anonymous visitors, and the fallback
  UserGroups,
  Repos,         \* bound: the names repositories can be given
  RepoGroups,    \* bound: the names repository groups can be given
  Parent,        \* the group each group is created in
  NoGroup,       \* outside every group
  NoRepo,        \* no repository of that name
  Granted,       \* bound: the levels that are handed out
  Fallbacks,     \* bound: the levels new objects may give to everybody
  Grantees,      \* bound: the subjects that levels are handed out to
  Memberships,   \* bound: the sets of members user group forms carry
  MaxRows,       \* bound: how many rows subjects other than Default have
  ViaApi,        \* whether clients of the JSON-RPC interface are at work
  ForeignKeys    \* whether the database enforces them (SQLite does not)

None == 0
Read == 1
Write == 2
Admin == 3
Levels == None..Admin
NoRow == -1              \* weaker than repository.none

ASSUME PermissionsAssumption ==
  /\ SiteAdmins \subseteq Users
  /\ GroupAdmins \subseteq Users
  /\ Default \notin Users \cup UserGroups
  /\ Users \cap UserGroups = {}
  /\ Repos \cap RepoGroups = {}
  /\ NoGroup \notin RepoGroups
  /\ Parent \in [RepoGroups -> RepoGroups \cup {NoGroup}]
  /\ NoRepo \notin [owner : Users, private : BOOLEAN,
                    group : RepoGroups \cup {NoGroup}]
  /\ Granted \subseteq Levels
  /\ Fallbacks \subseteq Levels
  /\ Grantees \subseteq {Default} \cup Users \cup UserGroups
  /\ Memberships \subseteq SUBSET (Users \cup {Default})
  /\ MaxRows \in Nat
  /\ ViaApi \in BOOLEAN
  /\ ForeignKeys \in BOOLEAN

VARIABLES
  repo,       \* table repositories
  groups,     \* table groups: those that exist
  rows,       \* the four *_to_perm tables: the level of a subject on an object
  members,    \* users_groups_members
  active,     \* the user groups with users_group_active
  fallback    \* the default user's permissions for new repositories and groups

vars == <<repo, groups, rows, members, active, fallback>>

Objects == Repos \cup RepoGroups
Subjects == {Default} \cup Users \cup UserGroups
Repository ==
  [owner : Users, private : BOOLEAN, group : RepoGroups \cup {NoGroup}]

Exists(o) == IF o \in Repos THEN repo[o] # NoRepo ELSE o \in groups
Existing == {o \in Objects : Exists(o)}

\* With the foreign keys of the permission rows.
TypeOK ==
  /\ repo \in [Repos -> Repository \cup {NoRepo}]
  /\ groups \subseteq RepoGroups
  /\ rows \in [Objects -> [Subjects -> Levels \cup {NoRow}]]
  /\ \A o \in Objects, s \in Subjects : rows[o][s] # NoRow => Exists(o)
  /\ members \in [UserGroups -> SUBSET (Users \cup {Default})]
  /\ active \subseteq UserGroups
  /\ fallback \in [repo : Levels, group : Levels]

-----------------------------------------------------------------------------
(* lib/auth.py _cached_perms_data: the level a request computes.             *)

Private(o) == o \in Repos /\ repo[o] # NoRepo /\ repo[o].private
Owns(u, o) == o \in Repos /\ repo[o] # NoRepo /\ repo[o].owner = u

\* The subjects whose rows count for u.
Holds(u) == {u} \cup {g \in active : u \in members[g]}

\* Only objects with a row of the default user get into the table at all.
Listed(o) == rows[o][Default] # NoRow

Fallback(u, o) ==
  CASE Owns(u, o) -> Admin
    [] ~Owns(u, o) /\ Private(o) -> None
    [] ~Owns(u, o) /\ ~Private(o) -> rows[o][Default]

\* bump_permission looks the object up in the table: a KeyError when only
\* other subjects have rows.
Computable(u) ==
  u \in SiteAdmins \/ \A o \in Existing, s \in Holds(u) :
                         rows[o][s] # NoRow => Listed(o)

\* bump_permission keeps the highest of the fallback and the rows.
Reaches(u, o, level) ==
  /\ Listed(o)
  /\ \/ u \in SiteAdmins
     \/ Fallback(u, o) >= level
     \/ \E s \in Holds(u) : rows[o][s] >= level

\* Site administrators who call the JSON-RPC interface are not looked up.
AdminViaApi(u) == ViaApi /\ u \in SiteAdmins

May(u, o, level) ==
  /\ Exists(o)
  /\ Computable(u)
  /\ AdminViaApi(u) \/ Reaches(u, o, level)

-----------------------------------------------------------------------------
(* Writing rows.                                                             *)

Put(o, row) == [rows EXCEPT ![o] = row]

Grant(targets, s, level) ==
  [o \in Objects |-> IF o \in targets THEN [rows[o] EXCEPT ![s] = level] ELSE rows[o]]

NoRows == [s \in Subjects |-> NoRow]
DefaultOnly(level) == [NoRows EXCEPT ![Default] = level]

\* What a copy takes over; first a copy without the default user's row.
RowsOfOthers(o) == [rows[o] EXCEPT ![Default] = NoRow]
RowsOf(o) == rows[o]

FewRows ==
  Cardinality({p \in Objects \X (Subjects \ {Default}) : rows[p[1]][p[2]] # NoRow})
    <= MaxRows

\* The groups from g up to the top.
Up[g \in RepoGroups] ==
  IF Parent[g] = NoGroup THEN {g} ELSE {g} \cup Up[Parent[g]]

\* RepoGroup.recursive_groups_and_repos, filtered as the loops of
\* RepoGroupModel filter it.
Modes == {"none", "repos", "groups", "all"}
Targets(g, mode) ==
  {g}
  \cup {h \in groups : mode \in {"groups", "all"} /\ g \in Up[h]}
  \cup {r \in Repos : /\ mode \in {"repos", "all"}
                      /\ repo[r] # NoRepo
                      /\ repo[r].group # NoGroup
                      /\ g \in Up[repo[r].group]}

-----------------------------------------------------------------------------
(* Repositories.                                                             *)

\* CanWriteGroup: whoever may write to a group may put repositories there.  The
\* JSON-RPC calls do not ask.
MayPlace(u, g) == g # NoGroup /\ ~ViaApi => May(u, g, Write)

\* Whom new objects may be created for.
MayNameOwner(u, owner) == owner = u \/ AdminViaApi(u)

CreateRepo(u, owner, r, private, g, copied) ==
  /\ repo[r] = NoRepo
  /\ Computable(u)
  /\ MayNameOwner(u, owner)
  /\ MayPlace(u, g)
  /\ repo' = [repo EXCEPT ![r] = [owner |-> owner, private |-> private, group |-> g]]
  /\ rows' = Put(r, IF g # NoGroup /\ copied THEN RowsOf(g)
                    ELSE DefaultOnly(IF private THEN None ELSE fallback.repo))
  /\ UNCHANGED <<groups, members, active, fallback>>

ForkRepo(u, owner, source, r, private, g, copied) ==
  /\ repo[r] = NoRepo
  /\ May(u, source, Read)
  /\ MayNameOwner(u, owner)
  /\ MayPlace(u, g)
  /\ repo' = [repo EXCEPT ![r] = [owner |-> owner, private |-> private, group |-> g]]
  /\ rows' = Put(r, IF copied THEN RowsOf(source)
                    ELSE DefaultOnly(IF private THEN None ELSE fallback.repo))
  /\ UNCHANGED <<groups, members, active, fallback>>

\* The page always sends the flag; a JSON-RPC call may leave it as it is.
UpdateRepo(u, r, private, g, owner) ==
  /\ May(u, r, Admin)
  /\ g # repo[r].group => MayPlace(u, g)
  /\ repo' = [repo EXCEPT ![r] = [owner |-> owner, private |-> private, group |-> g]]
  /\ \/ rows' = IF private THEN Grant({r}, Default, None) ELSE rows
     \/ ViaApi /\ private = repo[r].private /\ rows' = rows
  /\ UNCHANGED <<groups, members, active, fallback>>

\* Without the cascade to the permission rows.
DeleteRowOnly(u, r) ==
  /\ May(u, r, Admin)
  /\ repo' = [repo EXCEPT ![r] = NoRepo]
  /\ UNCHANGED <<groups, rows, members, active, fallback>>
DeleteRepo(u, r) ==
  /\ May(u, r, Admin)
  /\ repo' = [repo EXCEPT ![r] = NoRepo]
  /\ rows' = Put(r, NoRows)
  /\ UNCHANGED <<groups, members, active, fallback>>

\* The permission page of a private repository shows no buttons for the
\* default user.
GrantOnRepo(u, r, s, level) ==
  /\ May(u, r, Admin)
  /\ ~(s = Default /\ Private(r))
  /\ rows' = Grant({r}, s, level)
  /\ UNCHANGED <<repo, groups, members, active, fallback>>

\* The page offers to revoke any row but the default user's.
RevokeOnRepo(u, r, s) ==
  /\ May(u, r, Admin)
  /\ s # Default
  /\ rows' = Grant({r}, s, NoRow)
  /\ UNCHANGED <<repo, groups, members, active, fallback>>

\* The calls that are about a user are for site administrators only.
GrantUserViaApi(u, r, s, level) ==
  /\ AdminViaApi(u)
  /\ Exists(r)
  /\ s \notin UserGroups
  /\ rows' = Grant({r}, s, level)
  /\ UNCHANGED <<repo, groups, members, active, fallback>>

RevokeUserViaApi(u, r, s) ==
  /\ AdminViaApi(u)
  /\ Exists(r)
  /\ s \notin UserGroups
  /\ rows' = Grant({r}, s, NoRow)
  /\ UNCHANGED <<repo, groups, members, active, fallback>>

GrantUserGroupViaApi(u, r, s, level) ==
  /\ ViaApi
  /\ May(u, r, Admin)
  /\ s \in UserGroups
  /\ rows' = Grant({r}, s, level)
  /\ UNCHANGED <<repo, groups, members, active, fallback>>

RevokeUserGroupViaApi(u, r, s) ==
  /\ ViaApi
  /\ May(u, r, Admin)
  /\ s \in UserGroups
  /\ rows' = Grant({r}, s, NoRow)
  /\ UNCHANGED <<repo, groups, members, active, fallback>>

-----------------------------------------------------------------------------
(* Repository groups.                                                        *)

MayCreateIn(u, parent) ==
  IF parent = NoGroup THEN u \in SiteAdmins ELSE May(u, parent, Admin)

\* The owner gets a row of their own, site administrators do not need one.
CreateGroup(u, owner, g, copied) ==
  LET inherited == IF Parent[g] # NoGroup /\ copied THEN RowsOf(Parent[g])
                   ELSE DefaultOnly(fallback.group)
  IN /\ g \notin groups
     /\ MayCreateIn(u, Parent[g])
     /\ MayNameOwner(u, owner)
     /\ groups' = groups \cup {g}
     /\ rows' = Put(g, IF owner \in SiteAdmins THEN inherited
                       ELSE [inherited EXCEPT ![owner] = Admin])
     /\ UNCHANGED <<repo, members, active, fallback>>

\* Checking for repositories only.
HoldsNoRepo(g) == \A r \in Repos : repo[r] # NoRepo => repo[r].group # g
Empty(g) ==
  /\ \A r \in Repos : repo[r] # NoRepo => repo[r].group # g
  /\ \A h \in groups : Parent[h] # g

\* The page counts first; the JSON-RPC call leaves it to the database.
DeleteGroup(u, g) ==
  /\ May(u, g, Admin)
  /\ Empty(g) \/ (AdminViaApi(u) /\ ~ForeignKeys)
  /\ groups' = groups \ {g}
  /\ rows' = Put(g, NoRows)
  /\ UNCHANGED <<repo, members, active, fallback>>

\* "private repos will not allow to change the default permissions using
\* recursive mode"
NothingSkipped(targets, s) == {}
Skipped(targets, s) == {o \in targets : s = Default /\ Private(o)}

\* The form: RepoGroupModel._update_permissions.
GrantOnGroup(u, g, s, level, mode) ==
  /\ May(u, g, Admin)
  /\ s = u /\ u \notin SiteAdmins => level = Admin
  /\ LET targets == Targets(g, mode)
     IN rows' = Grant(targets \ Skipped(targets, s), s, level)
  /\ UNCHANGED <<repo, groups, members, active, fallback>>

\* The page: nobody takes their own row away, and there is no button for the
\* default user's.
RevokeOnGroup(u, g, s, mode) ==
  /\ May(u, g, Admin)
  /\ s = u => u \in SiteAdmins
  /\ s # Default
  /\ rows' = Grant(Targets(g, mode), s, NoRow)
  /\ UNCHANGED <<repo, groups, members, active, fallback>>

\* The calls, RepoGroupModel.add_permission and delete_permission, skip nothing.
AddPermission(g, s, level, mode) ==
  /\ rows' = Grant(Targets(g, mode), s, level)
  /\ UNCHANGED <<repo, groups, members, active, fallback>>

DeletePermission(g, s, mode) ==
  /\ rows' = Grant(Targets(g, mode), s, NoRow)
  /\ UNCHANGED <<repo, groups, members, active, fallback>>

GrantUserOnGroupViaApi(u, g, s, level, mode) ==
  /\ ViaApi
  /\ May(u, g, Admin)
  /\ s \notin UserGroups
  /\ AddPermission(g, s, level, mode)

GrantUserGroupOnGroupViaApi(u, g, s, level, mode) ==
  /\ ViaApi
  /\ May(u, g, Admin)
  /\ s \in UserGroups
  /\ AddPermission(g, s, level, mode)

RevokeUserOnGroupViaApi(u, g, s, mode) ==
  /\ ViaApi
  /\ May(u, g, Admin)
  /\ s \notin UserGroups
  /\ DeletePermission(g, s, mode)

RevokeUserGroupOnGroupViaApi(u, g, s, mode) ==
  /\ ViaApi
  /\ May(u, g, Admin)
  /\ s \in UserGroups
  /\ DeletePermission(g, s, mode)

-----------------------------------------------------------------------------
(* User groups, accounts and defaults.                                       *)

\* Bound: whoever may administer one user group may administer all.
MayManage(u) == u \in SiteAdmins \cup GroupAdmins /\ Computable(u)

\* The form offers every account, the default user's too.
UpdateUserGroup(u, g, selected, isActive) ==
  /\ MayManage(u)
  /\ members' = [members EXCEPT ![g] = selected]
  /\ active' = IF isActive THEN active \cup {g} ELSE active \ {g}
  /\ UNCHANGED <<repo, groups, rows, fallback>>

\* add_user_to_user_group, remove_user_from_user_group and update_user_group.
AddUserToUserGroup(u, g, s) ==
  /\ ViaApi
  /\ MayManage(u)
  /\ members[g] \cup {s} \in Memberships
  /\ members' = [members EXCEPT ![g] = @ \cup {s}]
  /\ UNCHANGED <<repo, groups, rows, active, fallback>>

RemoveUserFromUserGroup(u, g, s) ==
  /\ ViaApi
  /\ MayManage(u)
  /\ members[g] \ {s} \in Memberships
  /\ members' = [members EXCEPT ![g] = @ \ {s}]
  /\ UNCHANGED <<repo, groups, rows, active, fallback>>

UpdateUserGroupViaApi(u, g, isActive) ==
  /\ ViaApi
  /\ MayManage(u)
  /\ active' = IF isActive THEN active \cup {g} ELSE active \ {g}
  /\ UNCHANGED <<repo, groups, rows, members, fallback>>

\* UserGroupModel.delete counts what the group may do with repositories only, and
\* takes the rest along.  What stays is a name for a new user group.
DeleteUserGroup(u, g) ==
  /\ MayManage(u)
  /\ \A r \in Repos : rows[r][g] = NoRow
  /\ rows' = Grant(RepoGroups, g, NoRow)
  /\ members' = [members EXCEPT ![g] = {}]
  /\ active' = active \cup {g}
  /\ UNCHANGED <<repo, groups, fallback>>

\* The call does the same.
DeleteUserGroupViaApi(u, g) == ViaApi /\ DeleteUserGroup(u, g)

\* UserModel.delete, with the cascades; an account of that name may be made anew.
DeleteUser(u, account) ==
  /\ u \in SiteAdmins
  /\ \A r \in Repos : ~Owns(account, r)
  /\ rows' = Grant(Objects, account, NoRow)
  /\ members' = [g \in UserGroups |-> members[g] \ {account}]
  /\ UNCHANGED <<repo, groups, active, fallback>>

\* PermissionModel.update: new defaults, and on request the same level
\* everywhere, private repositories excepted.
UpdateDefaults(u, onRepos, onGroups, overwriteRepos, overwriteGroups) ==
  /\ u \in SiteAdmins
  /\ fallback' = [repo |-> onRepos, group |-> onGroups]
  /\ LET reset == {r \in Repos : overwriteRepos /\ Listed(r) /\ ~Private(r)}
         opened == {g \in RepoGroups : overwriteGroups /\ Listed(g)}
     IN rows' = [o \in Objects |->
                   CASE o \in reset -> [rows[o] EXCEPT ![Default] = onRepos]
                     [] o \in opened -> [rows[o] EXCEPT ![Default] = onGroups]
                     [] o \notin reset \cup opened -> rows[o]]
  /\ UNCHANGED <<repo, groups, members, active>>

-----------------------------------------------------------------------------
\* A fresh installation, with accounts and user groups but nothing in them.
Init ==
  /\ repo = [r \in Repos |-> NoRepo]
  /\ groups = {}
  /\ rows = [o \in Objects |-> NoRows]
  /\ members = [g \in UserGroups |-> {}]
  /\ active = UserGroups
  /\ fallback = [repo |-> Read, group |-> Read]

PlaceRepos(u) ==
  \E r \in Repos, private \in BOOLEAN, g \in groups \cup {NoGroup}, owner \in Users :
    \/ \E copied \in BOOLEAN : CreateRepo(u, owner, r, private, g, copied)
    \/ \E source \in Repos, copied \in BOOLEAN :
         ForkRepo(u, owner, source, r, private, g, copied)
    \/ UpdateRepo(u, r, private, g, owner)

ManageRepos(u) ==
  \E r \in Repos :
    \/ DeleteRepo(u, r)
    \/ \E s \in Grantees, level \in Granted :
         \/ GrantOnRepo(u, r, s, level)
         \/ GrantUserViaApi(u, r, s, level)
         \/ GrantUserGroupViaApi(u, r, s, level)
    \/ \E s \in Grantees :
         \/ RevokeOnRepo(u, r, s)
         \/ RevokeUserViaApi(u, r, s)
         \/ RevokeUserGroupViaApi(u, r, s)

ManageGroups(u) ==
  \E g \in RepoGroups :
    \/ \E owner \in Users, copied \in BOOLEAN : CreateGroup(u, owner, g, copied)
    \/ DeleteGroup(u, g)
    \/ \E s \in Grantees, level \in Granted, mode \in Modes :
         \/ GrantOnGroup(u, g, s, level, mode)
         \/ GrantUserOnGroupViaApi(u, g, s, level, mode)
         \/ GrantUserGroupOnGroupViaApi(u, g, s, level, mode)
    \/ \E s \in Grantees, mode \in Modes :
         \/ RevokeOnGroup(u, g, s, mode)
         \/ RevokeUserOnGroupViaApi(u, g, s, mode)
         \/ RevokeUserGroupOnGroupViaApi(u, g, s, mode)

ManageUserGroups(u) ==
  \E g \in UserGroups :
    \/ \E selected \in Memberships, isActive \in BOOLEAN :
         UpdateUserGroup(u, g, selected, isActive)
    \/ \E s \in Users \cup {Default} :
         AddUserToUserGroup(u, g, s) \/ RemoveUserFromUserGroup(u, g, s)
    \/ \E isActive \in BOOLEAN : UpdateUserGroupViaApi(u, g, isActive)
    \/ DeleteUserGroup(u, g)
    \/ DeleteUserGroupViaApi(u, g)

ManageSettings(u) ==
  \/ \E account \in Users : DeleteUser(u, account)
  \/ \E onRepos, onGroups \in Fallbacks, overwriteRepos, overwriteGroups \in BOOLEAN :
       UpdateDefaults(u, onRepos, onGroups, overwriteRepos, overwriteGroups)

Step ==
  \E u \in Users :
    \/ PlaceRepos(u) \/ ManageRepos(u) \/ ManageGroups(u)
    \/ ManageUserGroups(u) \/ ManageSettings(u)

Next == Step /\ FewRows'

Spec == Init /\ [][Next]_vars

-----------------------------------------------------------------------------
(* Properties.                                                               *)

\* The permission table of every user can be computed: wherever a row counts
\* for the user, the object also has a row of the default user, the one that
\* enters it into the table (auth.py: bump_permission reads
\* permissions[kind][key]).  A copied, moved or re-created object that lost
\* that row would make every request of those users fail, on all pages.
PermissionsComputable == \A u \in Users \cup {Default} : Computable(u)

\* The tree has no loose ends: the group a repository or a group is in exists,
\* whichever interface deleted groups, as long as either the page that counts
\* what a group holds or the database stands in the way.  Recursive operations
\* and path names walk these links.
TreeWhole ==
  /\ \A r \in Repos : repo[r] # NoRepo => repo[r].group \in groups \cup {NoGroup}
  /\ \A g \in groups : Parent[g] \in groups \cup {NoGroup}

\* While a repository is private, and nobody lifts that, no operation on the
\* groups above it or on the defaults raises what everybody may do with it.
PrivateSealed ==
  [][\A r \in Repos : (Private(r) /\ Private(r)') =>
       rows'[r][Default] <= rows[r][Default]]_vars

\* A private repository can be read by its owner, by site administrators and
\* by those who were given a level, themselves or through a user group; the
\* page that sets the flag says so.
PrivateHidden ==
  \A r \in Repos, w \in Users \cup {Default} :
    Private(r) /\ Reaches(w, r, Read) =>
      \/ w \in SiteAdmins
      \/ Owns(w, r)
      \/ \E s \in Holds(w) \ {Default} : rows[r][s] >= Read
=============================================================================
