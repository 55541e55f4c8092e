------------------------- MODULE RepoPermissionsProofs -------------------------
(*****************************************************************************)
(* Proofs about RepoPermissions for any number of users, groups and          *)
(* repositories, any group tree and any levels.  As long as nobody uses the  *)
(* JSON-RPC interface to revoke the default user's row, every existing       *)
(* object has one, and that is what computing permissions relies on.         *)
(*****************************************************************************)
EXTENDS RepoPermissions, TLAPS

\* The default user has a row on everything that exists.
DefaultRows == ~ViaApi => \A o \in Existing : Listed(o)

\* Nothing is in a group that is gone, unless a call the database does not check
\* deleted it.
SafeTree == ForeignKeys \/ ~ViaApi => TreeWhole

IInv == TypeOK /\ DefaultRows /\ SafeTree

Row == [Subjects -> Levels \cup {NoRow}]

-----------------------------------------------------------------------------
(* Rows.                                                                     *)

LEMMA DefaultIsSubject == Default \in Subjects
BY DEF Subjects

LEMMA LevelsFacts ==
  /\ None \in Levels /\ Read \in Levels /\ Write \in Levels /\ Admin \in Levels
  /\ NoRow \notin Levels
BY DEF Levels, None, Read, Write, Admin, NoRow

LEMMA NoneLowest == \A level \in Levels : None <= level /\ level <= level
BY DEF Levels, None, Admin

LEMMA RowsType ==
  ASSUME TypeOK, NEW o \in Objects
  PROVE  rows[o] \in Row
BY DEF TypeOK, Row

\* Handing out one level on some objects changes nothing else.
Granting(targets, s, level) ==
  /\ Grant(targets, s, level) \in [Objects -> Row]
  /\ \A o \in Objects, t \in Subjects :
       Grant(targets, s, level)[o][t] =
         IF o \in targets /\ t = s THEN level ELSE rows[o][t]

LEMMA GrantKeeps ==
  ASSUME TypeOK, NEW targets, NEW s \in Subjects, NEW level \in Levels \cup {NoRow}
  PROVE  Granting(targets, s, level)
BY DEF Granting, Grant, TypeOK, Row

\* Writing all rows of one object leaves the other objects alone.
Putting(o, row) ==
  /\ Put(o, row) \in [Objects -> Row]
  /\ Put(o, row)[o] = row
  /\ \A other \in Objects \ {o} : Put(o, row)[other] = rows[other]

LEMMA PutKeeps ==
  ASSUME TypeOK, NEW o \in Objects, NEW row \in Row
  PROVE  Putting(o, row)
BY DEF Putting, Put, TypeOK, Row

LEMMA DefaultOnlyRow ==
  ASSUME NEW level \in Levels
  PROVE  DefaultOnly(level) \in Row /\ DefaultOnly(level)[Default] = level
BY DefaultIsSubject DEF DefaultOnly, NoRows, Row

LEMMA NoRowsRow == NoRows \in Row
BY DEF NoRows, Row

-----------------------------------------------------------------------------
(* One kind of change at a time.                                             *)

\* A new repository with a row of the default user, in a group that exists.
LEMMA AddRepo ==
  ASSUME IInv, NEW u \in Users, NEW r \in Repos, NEW private \in BOOLEAN,
         NEW g \in groups \cup {NoGroup}, NEW row \in Row,
         ~ViaApi => row[Default] # NoRow,
         repo' = [repo EXCEPT ![r] = [owner |-> u, private |-> private, group |-> g]],
         rows' = Put(r, row),
         UNCHANGED <<groups, members, active, fallback>>
  PROVE  IInv'
<1>1. r \in Objects
  BY DEF Objects
<1>2. Putting(r, row)
  BY <1>1, PutKeeps DEF IInv
<1>3. [owner |-> u, private |-> private, group |-> g] \in Repository
  BY DEF IInv, TypeOK, Repository
<1>4. [owner |-> u, private |-> private, group |-> g] # NoRepo
  BY <1>3, PermissionsAssumption DEF Repository
<1>5. \A o \in Objects : Exists(o)' <=> o = r \/ Exists(o)
  BY <1>4 DEF IInv, TypeOK, Exists
<1>6. TypeOK'
  <2>1. rows' \in [Objects -> [Subjects -> Levels \cup {NoRow}]]
    BY <1>2 DEF Putting, Row
  <2>2. \A o \in Objects, s \in Subjects : rows'[o][s] # NoRow => Exists(o)'
    BY <1>2, <1>5 DEF Putting, IInv, TypeOK
  <2> QED
    BY <2>1, <2>2, <1>3 DEF IInv, TypeOK
<1>7. DefaultRows'
  BY <1>2, <1>5, DefaultIsSubject DEF DefaultRows, IInv, Existing, Listed, Putting
<1>8. SafeTree'
  BY DEF SafeTree, TreeWhole, IInv, TypeOK
<1> QED
  BY <1>6, <1>7, <1>8 DEF IInv

\* Rows that change while what exists stays: none is lost that was the default
\* user's, none appears on what does not exist.
LEMMA ChangeRows ==
  ASSUME IInv, rows' \in [Objects -> Row],
         \A o \in Objects, s \in Subjects :
           rows'[o][s] # rows[o][s] =>
             /\ Exists(o)
             /\ ~ViaApi /\ s = Default => rows'[o][s] # NoRow,
         repo' \in [Repos -> Repository \cup {NoRepo}],
         groups' = groups,
         \A o \in Objects : Exists(o)' <=> Exists(o),
         SafeTree',
         members' \in [UserGroups -> SUBSET (Users \cup {Default})],
         active' \subseteq UserGroups,
         fallback' \in [repo : Levels, group : Levels]
  PROVE  IInv'
<1>1. TypeOK'
  BY DEF IInv, TypeOK, Row
<1>2. DefaultRows'
  BY DefaultIsSubject DEF DefaultRows, IInv, Existing, Listed
<1> QED
  BY <1>1, <1>2 DEF IInv

\* The same for rows alone.
LEMMA ChangeRowsOnly ==
  ASSUME IInv, rows' \in [Objects -> Row],
         \A o \in Objects, s \in Subjects :
           rows'[o][s] # rows[o][s] =>
             /\ Exists(o)
             /\ ~ViaApi /\ s = Default => rows'[o][s] # NoRow,
         UNCHANGED <<repo, groups, members, active>>,
         fallback' \in [repo : Levels, group : Levels]
  PROVE  IInv'
<1>1. \A o \in Objects : Exists(o)' <=> Exists(o)
  BY DEF Exists
<1>2. SafeTree'
  BY DEF SafeTree, TreeWhole, IInv
<1>3. /\ repo' \in [Repos -> Repository \cup {NoRepo}]
      /\ members' \in [UserGroups -> SUBSET (Users \cup {Default})]
      /\ active' \subseteq UserGroups
      /\ groups' = groups
  BY DEF IInv, TypeOK
<1> QED
  BY <1>1, <1>2, <1>3, ChangeRows

\* Granting or revoking on objects that exist, the default user's row only
\* by the JSON-RPC interface.
LEMMA GrantStep ==
  ASSUME IInv, NEW targets \in SUBSET Existing, NEW s \in Subjects,
         NEW level \in Levels \cup {NoRow},
         ~ViaApi /\ s = Default => level # NoRow,
         rows' = Grant(targets, s, level),
         UNCHANGED <<repo, groups, members, active, fallback>>
  PROVE  IInv'
<1>1. Granting(targets, s, level)
  BY GrantKeeps DEF IInv
<1>2. rows' \in [Objects -> Row]
  BY <1>1 DEF Granting
<1>3. \A o \in Objects, t \in Subjects :
        rows'[o][t] # rows[o][t] => o \in targets /\ t = s /\ rows'[o][t] = level
  BY <1>1 DEF Granting
<1>4. \A o \in Objects, t \in Subjects :
        rows'[o][t] # rows[o][t] =>
          /\ Exists(o)
          /\ ~ViaApi /\ t = Default => rows'[o][t] # NoRow
  BY <1>3 DEF Existing
<1>5. fallback' \in [repo : Levels, group : Levels]
  BY DEF IInv, TypeOK
<1> QED
  BY <1>2, <1>4, <1>5, ChangeRowsOnly

\* What the recursive modes reach exists.
LEMMA TargetsExist ==
  ASSUME TypeOK, NEW g \in RepoGroups, Exists(g), NEW mode \in Modes
  PROVE  Targets(g, mode) \in SUBSET Existing
<1>1. \A h \in groups : h \in Existing
  BY PermissionsAssumption DEF TypeOK, Existing, Exists, Objects
<1>2. \A r \in Repos : repo[r] # NoRepo => r \in Existing
  BY DEF Existing, Exists, Objects
<1>3. g \in Existing
  BY DEF Existing, Objects
<1> QED
  BY <1>1, <1>2, <1>3 DEF Targets

\* Deleting takes the rows along.
LEMMA RemoveRepo ==
  ASSUME IInv, NEW r \in Repos,
         repo' = [repo EXCEPT ![r] = NoRepo],
         rows' = Put(r, NoRows),
         UNCHANGED <<groups, members, active, fallback>>
  PROVE  IInv'
<1>1. Putting(r, NoRows)
  BY PutKeeps, NoRowsRow DEF IInv, Objects
<1>2. \A o \in Objects : Exists(o)' <=> o # r /\ Exists(o)
  BY DEF IInv, TypeOK, Exists
<1>3. TypeOK'
  <2>1. \A o \in Objects, s \in Subjects : rows'[o][s] # NoRow => Exists(o)'
    BY <1>1, <1>2 DEF Putting, IInv, TypeOK, NoRows
  <2>2. rows' \in [Objects -> [Subjects -> Levels \cup {NoRow}]]
    BY <1>1 DEF Putting, Row
  <2> QED
    BY <2>1, <2>2 DEF IInv, TypeOK
<1>4. DefaultRows'
  BY <1>1, <1>2 DEF DefaultRows, IInv, Existing, Listed, Putting
<1>5. SafeTree'
  BY DEF SafeTree, TreeWhole, IInv, TypeOK
<1> QED
  BY <1>3, <1>4, <1>5 DEF IInv

LEMMA RemoveGroup ==
  ASSUME IInv, NEW g \in RepoGroups, Empty(g) \/ (ViaApi /\ ~ForeignKeys),
         groups' = groups \ {g},
         rows' = Put(g, NoRows),
         UNCHANGED <<repo, members, active, fallback>>
  PROVE  IInv'
<1>1. Putting(g, NoRows)
  BY PutKeeps, NoRowsRow DEF IInv, Objects
<1>2. \A o \in Objects : Exists(o)' <=> o # g /\ Exists(o)
  BY PermissionsAssumption DEF Exists, Objects
<1>3. TypeOK'
  <2>1. \A o \in Objects, s \in Subjects : rows'[o][s] # NoRow => Exists(o)'
    BY <1>1, <1>2 DEF Putting, IInv, TypeOK, NoRows
  <2>2. rows' \in [Objects -> [Subjects -> Levels \cup {NoRow}]]
    BY <1>1 DEF Putting, Row
  <2> QED
    BY <2>1, <2>2 DEF IInv, TypeOK
<1>4. DefaultRows'
  BY <1>1, <1>2 DEF DefaultRows, IInv, Existing, Listed, Putting
<1>5. SafeTree'
  BY DEF SafeTree, TreeWhole, IInv, TypeOK, Empty
<1> QED
  BY <1>3, <1>4, <1>5 DEF IInv

\* A new group with a row of the default user, under a parent that exists.
LEMMA AddGroup ==
  ASSUME IInv, NEW g \in RepoGroups, NEW row \in Row,
         ~ViaApi => row[Default] # NoRow,
         Parent[g] \in groups \cup {NoGroup},
         groups' = groups \cup {g},
         rows' = Put(g, row),
         UNCHANGED <<repo, members, active, fallback>>
  PROVE  IInv'
<1>1. Putting(g, row)
  BY PutKeeps DEF IInv, Objects
<1>2. \A o \in Objects : Exists(o)' <=> o = g \/ Exists(o)
  BY PermissionsAssumption DEF Exists, Objects
<1>3. TypeOK'
  <2>1. \A o \in Objects, s \in Subjects : rows'[o][s] # NoRow => Exists(o)'
    BY <1>1, <1>2 DEF Putting, IInv, TypeOK
  <2>2. rows' \in [Objects -> [Subjects -> Levels \cup {NoRow}]]
    BY <1>1 DEF Putting, Row
  <2> QED
    BY <2>1, <2>2 DEF IInv, TypeOK
<1>4. DefaultRows'
  BY <1>1, <1>2 DEF DefaultRows, IInv, Existing, Listed, Putting
<1>5. SafeTree'
  BY DEF SafeTree, TreeWhole, IInv, TypeOK
<1> QED
  BY <1>3, <1>4, <1>5 DEF IInv
-----------------------------------------------------------------------------
(* The actions.                                                              *)

\* What a copy, or the default of a new object, writes.
LEMMA CopiedRow ==
  ASSUME IInv, NEW o \in Objects, Exists(o)
  PROVE  RowsOf(o) \in Row /\ (~ViaApi => RowsOf(o)[Default] # NoRow)
BY RowsType DEF IInv, RowsOf, DefaultRows, Existing, Listed

LEMMA NewRepoRow ==
  ASSUME IInv, NEW private \in BOOLEAN
  PROVE  /\ DefaultOnly(IF private THEN None ELSE fallback.repo) \in Row
         /\ DefaultOnly(IF private THEN None ELSE fallback.repo)[Default] # NoRow
<1>1. (IF private THEN None ELSE fallback.repo) \in Levels
  BY LevelsFacts DEF IInv, TypeOK
<1> QED
  BY <1>1, DefaultOnlyRow, LevelsFacts

LEMMA NewGroupRow ==
  ASSUME IInv
  PROVE  /\ DefaultOnly(fallback.group) \in Row
         /\ DefaultOnly(fallback.group)[Default] # NoRow
<1>1. fallback.group \in Levels
  BY DEF IInv, TypeOK
<1> QED
  BY <1>1, DefaultOnlyRow, LevelsFacts

LEMMA CreateRepoKeeps ==
  ASSUME IInv, NEW u \in Users, NEW owner \in Users, NEW r \in Repos,
         NEW private \in BOOLEAN, NEW g \in groups \cup {NoGroup}, NEW copied \in BOOLEAN,
         CreateRepo(u, owner, r, private, g, copied)
  PROVE  IInv'
<1> DEFINE row == IF g # NoGroup /\ copied THEN RowsOf(g)
                  ELSE DefaultOnly(IF private THEN None ELSE fallback.repo)
<1>1. row \in Row /\ (~ViaApi => row[Default] # NoRow)
  <2>1. CASE g # NoGroup /\ copied
    <3>1. g \in Objects /\ Exists(g)
      BY <2>1, PermissionsAssumption DEF IInv, TypeOK, Objects, Exists
    <3> QED
      BY <2>1, <3>1, CopiedRow
  <2>2. CASE ~(g # NoGroup /\ copied)
    BY <2>2, NewRepoRow
  <2> QED
    BY <2>1, <2>2
<1>2. /\ repo' = [repo EXCEPT ![r] = [owner |-> owner, private |-> private, group |-> g]]
      /\ rows' = Put(r, row)
      /\ UNCHANGED <<groups, members, active, fallback>>
  BY DEF CreateRepo
<1> HIDE DEF row
<1> QED
  BY <1>1, <1>2, AddRepo

LEMMA ForkRepoKeeps ==
  ASSUME IInv, NEW u \in Users, NEW owner \in Users, NEW source \in Repos,
         NEW r \in Repos, NEW private \in BOOLEAN,
         NEW g \in groups \cup {NoGroup}, NEW copied \in BOOLEAN,
         ForkRepo(u, owner, source, r, private, g, copied)
  PROVE  IInv'
<1> DEFINE row == IF copied THEN RowsOf(source)
                  ELSE DefaultOnly(IF private THEN None ELSE fallback.repo)
<1>1. row \in Row /\ (~ViaApi => row[Default] # NoRow)
  <2>1. source \in Objects /\ Exists(source)
    BY DEF ForkRepo, May, Objects
  <2> QED
    BY <2>1, CopiedRow, NewRepoRow
<1>2. /\ repo' = [repo EXCEPT ![r] = [owner |-> owner, private |-> private, group |-> g]]
      /\ rows' = Put(r, row)
      /\ UNCHANGED <<groups, members, active, fallback>>
  BY DEF ForkRepo
<1> HIDE DEF row
<1> QED
  BY <1>1, <1>2, AddRepo

LEMMA UpdateRepoKeeps ==
  ASSUME IInv, NEW u \in Users, NEW r \in Repos, NEW private \in BOOLEAN,
         NEW g \in groups \cup {NoGroup}, NEW owner \in Users,
         UpdateRepo(u, r, private, g, owner)
  PROVE  IInv'
<1> DEFINE row == [owner |-> owner, private |-> private, group |-> g]
<1>1. row \in Repository
  BY DEF IInv, TypeOK, Repository
<1>2. row # NoRepo
  BY <1>1, PermissionsAssumption DEF Repository
<1>3. repo[r] # NoRepo /\ Exists(r)
  BY DEF UpdateRepo, May, Exists
<1>4. repo' = [repo EXCEPT ![r] = row]
  BY DEF UpdateRepo
<1>5. Granting({r}, Default, None)
  BY GrantKeeps, LevelsFacts, DefaultIsSubject DEF IInv
<1>6. rows' = Grant({r}, Default, None) \/ rows' = rows
  BY DEF UpdateRepo
<1>7. rows' \in [Objects -> Row]
  BY <1>5, <1>6 DEF Granting, IInv, TypeOK, Row
<1>8. \A o \in Objects, s \in Subjects :
        rows'[o][s] # rows[o][s] => o = r /\ rows'[o][s] = None
  BY <1>5, <1>6 DEF Granting
<1>9. \A o \in Objects, s \in Subjects :
        rows'[o][s] # rows[o][s] =>
          /\ Exists(o)
          /\ ~ViaApi /\ s = Default => rows'[o][s] # NoRow
  BY <1>3, <1>8, LevelsFacts
<1>10. \A o \in Objects : Exists(o)' <=> Exists(o)
  BY <1>2, <1>3, <1>4 DEF Exists, UpdateRepo, IInv, TypeOK
<1>11. SafeTree'
  BY <1>4 DEF SafeTree, TreeWhole, UpdateRepo, IInv, TypeOK
<1>12. repo' \in [Repos -> Repository \cup {NoRepo}]
  BY <1>1, <1>4 DEF IInv, TypeOK
<1>13. /\ groups' = groups
       /\ members' \in [UserGroups -> SUBSET (Users \cup {Default})]
       /\ active' \subseteq UserGroups
       /\ fallback' \in [repo : Levels, group : Levels]
  BY DEF UpdateRepo, IInv, TypeOK
<1> QED
  BY <1>7, <1>9, <1>10, <1>11, <1>12, <1>13, ChangeRows

LEMMA CreateGroupKeeps ==
  ASSUME IInv, NEW u \in Users, NEW owner \in Users, NEW g \in RepoGroups,
         NEW copied \in BOOLEAN, CreateGroup(u, owner, g, copied)
  PROVE  IInv'
<1>1. Parent[g] \in groups \cup {NoGroup}
  BY PermissionsAssumption DEF CreateGroup, MayCreateIn, May, Exists
<1> DEFINE inherited == IF Parent[g] # NoGroup /\ copied THEN RowsOf(Parent[g])
                        ELSE DefaultOnly(fallback.group)
           row == IF owner \in SiteAdmins THEN inherited
                  ELSE [inherited EXCEPT ![owner] = Admin]
<1>2. inherited \in Row /\ (~ViaApi => inherited[Default] # NoRow)
  <2>1. CASE Parent[g] # NoGroup /\ copied
    <3>1. Parent[g] \in Objects /\ Exists(Parent[g])
      BY <1>1, <2>1, PermissionsAssumption DEF IInv, TypeOK, Objects, Exists
    <3> QED
      BY <2>1, <3>1, CopiedRow
  <2>2. CASE ~(Parent[g] # NoGroup /\ copied)
    BY <2>2, NewGroupRow
  <2> QED
    BY <2>1, <2>2
<1>3. groups' = groups \cup {g} /\ rows' = Put(g, row)
      /\ UNCHANGED <<repo, members, active, fallback>>
  BY DEF CreateGroup
<1> HIDE DEF inherited
<1>4. row \in Row /\ (~ViaApi => row[Default] # NoRow)
  BY <1>2, LevelsFacts, PermissionsAssumption DEF Row, Subjects
<1> HIDE DEF row
<1> QED
  BY <1>1, <1>3, <1>4, AddGroup

LEMMA GrantOnRepoKeeps ==
  ASSUME IInv, NEW u \in Users, NEW r \in Repos, NEW s \in Subjects, NEW level \in Levels,
         GrantOnRepo(u, r, s, level)
  PROVE  IInv'
<1>1. {r} \in SUBSET Existing
  BY DEF GrantOnRepo, May, Existing, Objects
<1>2. level \in Levels \cup {NoRow} /\ level # NoRow
  BY LevelsFacts
<1> QED
  BY <1>1, <1>2, GrantStep DEF GrantOnRepo

LEMMA RevokeOnRepoKeeps ==
  ASSUME IInv, NEW u \in Users, NEW r \in Repos, NEW s \in Subjects,
         RevokeOnRepo(u, r, s)
  PROVE  IInv'
<1>1. {r} \in SUBSET Existing
  BY DEF RevokeOnRepo, May, Existing, Objects
<1> QED
  BY <1>1, GrantStep DEF RevokeOnRepo

\* The JSON-RPC calls about one repository write rows of a repository that exists.
LEMMA RepoCallsKeep ==
  ASSUME IInv, NEW u \in Users, NEW r \in Repos, NEW s \in Subjects, NEW level \in Levels,
         \/ GrantUserViaApi(u, r, s, level)
         \/ GrantUserGroupViaApi(u, r, s, level)
         \/ RevokeUserViaApi(u, r, s)
         \/ RevokeUserGroupViaApi(u, r, s)
  PROVE  IInv'
<1>1. ViaApi /\ Exists(r)
  BY DEF GrantUserViaApi, GrantUserGroupViaApi, RevokeUserViaApi, RevokeUserGroupViaApi,
         AdminViaApi, May
<1>2. {r} \in SUBSET Existing
  BY <1>1 DEF Existing, Objects
<1>3. CASE GrantUserViaApi(u, r, s, level) \/ GrantUserGroupViaApi(u, r, s, level)
  BY <1>1, <1>2, <1>3, GrantStep DEF GrantUserViaApi, GrantUserGroupViaApi
<1>4. CASE RevokeUserViaApi(u, r, s) \/ RevokeUserGroupViaApi(u, r, s)
  BY <1>1, <1>2, <1>4, GrantStep DEF RevokeUserViaApi, RevokeUserGroupViaApi
<1> QED
  BY <1>3, <1>4

LEMMA GrantOnGroupKeeps ==
  ASSUME IInv, NEW u \in Users, NEW g \in RepoGroups, NEW s \in Subjects,
         NEW level \in Levels, NEW mode \in Modes, GrantOnGroup(u, g, s, level, mode)
  PROVE  IInv'
<1>1. Exists(g)
  BY DEF GrantOnGroup, May
<1>2. Targets(g, mode) \in SUBSET Existing
  BY <1>1, TargetsExist DEF IInv
<1>3. (Targets(g, mode) \ Skipped(Targets(g, mode), s)) \in SUBSET Existing
  BY <1>2
<1>4. level \in Levels \cup {NoRow} /\ level # NoRow
  BY LevelsFacts
<1> QED
  BY <1>3, <1>4, GrantStep DEF GrantOnGroup

LEMMA RevokeOnGroupKeeps ==
  ASSUME IInv, NEW u \in Users, NEW g \in RepoGroups, NEW s \in Subjects,
         NEW mode \in Modes, RevokeOnGroup(u, g, s, mode)
  PROVE  IInv'
<1>1. Targets(g, mode) \in SUBSET Existing
  BY TargetsExist DEF RevokeOnGroup, May, IInv
<1> QED
  BY <1>1, GrantStep DEF RevokeOnGroup

\* So do the calls about a repository group, on all that the mode reaches.
LEMMA GroupCallsKeep ==
  ASSUME IInv, NEW u \in Users, NEW g \in RepoGroups, NEW s \in Subjects,
         NEW level \in Levels, NEW mode \in Modes,
         \/ GrantUserOnGroupViaApi(u, g, s, level, mode)
         \/ GrantUserGroupOnGroupViaApi(u, g, s, level, mode)
         \/ RevokeUserOnGroupViaApi(u, g, s, mode)
         \/ RevokeUserGroupOnGroupViaApi(u, g, s, mode)
  PROVE  IInv'
<1>1. ViaApi /\ Exists(g)
  BY DEF GrantUserOnGroupViaApi, GrantUserGroupOnGroupViaApi, RevokeUserOnGroupViaApi,
         RevokeUserGroupOnGroupViaApi, May
<1>2. Targets(g, mode) \in SUBSET Existing
  BY <1>1, TargetsExist DEF IInv
<1>3. AddPermission(g, s, level, mode) \/ DeletePermission(g, s, mode)
  BY DEF GrantUserOnGroupViaApi, GrantUserGroupOnGroupViaApi, RevokeUserOnGroupViaApi,
         RevokeUserGroupOnGroupViaApi
<1>4. CASE AddPermission(g, s, level, mode)
  BY <1>1, <1>2, <1>4, GrantStep DEF AddPermission
<1>5. CASE DeletePermission(g, s, mode)
  BY <1>1, <1>2, <1>5, GrantStep DEF DeletePermission
<1> QED
  BY <1>3, <1>4, <1>5

\* Neither the form nor the calls that change members or the flag touch rows.
LEMMA MembershipKeeps ==
  ASSUME IInv,
         members' \in [UserGroups -> SUBSET (Users \cup {Default})],
         active' \subseteq UserGroups,
         UNCHANGED <<repo, groups, rows, fallback>>
  PROVE  IInv'
<1>1. rows' \in [Objects -> Row] /\ rows' = rows
  BY DEF IInv, TypeOK, Row
<1>2. \A o \in Objects : Exists(o)' <=> Exists(o)
  BY DEF Exists
<1>3. SafeTree'
  BY DEF SafeTree, TreeWhole, IInv
<1>4. /\ repo' \in [Repos -> Repository \cup {NoRepo}]
      /\ groups' = groups
      /\ fallback' \in [repo : Levels, group : Levels]
  BY DEF IInv, TypeOK
<1> QED
  BY <1>1, <1>2, <1>3, <1>4, ChangeRows

LEMMA UpdateUserGroupKeeps ==
  ASSUME IInv, NEW u \in Users, NEW g \in UserGroups,
         NEW selected \in SUBSET (Users \cup {Default}), NEW isActive \in BOOLEAN,
         UpdateUserGroup(u, g, selected, isActive) \/ UpdateUserGroupViaApi(u, g, isActive)
  PROVE  IInv'
<1>1. /\ members' \in [UserGroups -> SUBSET (Users \cup {Default})]
      /\ active' \subseteq UserGroups
      /\ UNCHANGED <<repo, groups, rows, fallback>>
  BY DEF UpdateUserGroup, UpdateUserGroupViaApi, IInv, TypeOK
<1> QED
  BY <1>1, MembershipKeeps

LEMMA MemberCallsKeep ==
  ASSUME IInv, NEW u \in Users, NEW g \in UserGroups, NEW s \in Users \cup {Default},
         AddUserToUserGroup(u, g, s) \/ RemoveUserFromUserGroup(u, g, s)
  PROVE  IInv'
<1>1. /\ members' \in [UserGroups -> SUBSET (Users \cup {Default})]
      /\ UNCHANGED <<repo, groups, rows, active, fallback>>
  BY DEF AddUserToUserGroup, RemoveUserFromUserGroup, IInv, TypeOK
<1>2. active' \subseteq UserGroups
  BY <1>1 DEF IInv, TypeOK
<1> QED
  BY <1>1, <1>2, MembershipKeeps

\* Taking all levels from a user or a user group, and members from user groups.
LEMMA WithdrawKeeps ==
  ASSUME IInv, NEW targets \in SUBSET Objects, NEW s \in Subjects, s # Default,
         rows' = Grant(targets, s, NoRow),
         members' \in [UserGroups -> SUBSET (Users \cup {Default})],
         active' \subseteq UserGroups,
         UNCHANGED <<repo, groups, fallback>>
  PROVE  IInv'
<1>1. Granting(targets, s, NoRow)
  BY GrantKeeps DEF IInv
<1>2. rows' \in [Objects -> Row]
  BY <1>1 DEF Granting
<1>3. \A o \in Objects, t \in Subjects :
        rows'[o][t] # rows[o][t] => t = s /\ rows[o][t] # NoRow
  BY <1>1 DEF Granting
<1>4. \A o \in Objects, t \in Subjects :
        rows'[o][t] # rows[o][t] =>
          /\ Exists(o)
          /\ ~ViaApi /\ t = Default => rows'[o][t] # NoRow
  BY <1>3 DEF IInv, TypeOK
<1>5. \A o \in Objects : Exists(o)' <=> Exists(o)
  BY DEF Exists
<1>6. SafeTree'
  BY DEF SafeTree, TreeWhole, IInv
<1>7. /\ repo' \in [Repos -> Repository \cup {NoRepo}]
      /\ groups' = groups
      /\ fallback' \in [repo : Levels, group : Levels]
  BY DEF IInv, TypeOK
<1> QED
  BY <1>2, <1>4, <1>5, <1>6, <1>7, ChangeRows

LEMMA DeleteUserGroupKeeps ==
  ASSUME IInv, NEW u \in Users, NEW g \in UserGroups, DeleteUserGroup(u, g)
  PROVE  IInv'
<1>1. g \in Subjects /\ g # Default /\ RepoGroups \in SUBSET Objects
  BY PermissionsAssumption DEF Subjects, Objects
<1>2. /\ members' \in [UserGroups -> SUBSET (Users \cup {Default})]
      /\ active' \subseteq UserGroups
  BY DEF DeleteUserGroup, IInv, TypeOK
<1> QED
  BY <1>1, <1>2, WithdrawKeeps DEF DeleteUserGroup

LEMMA DeleteUserKeeps ==
  ASSUME IInv, NEW u \in Users, NEW account \in Users, DeleteUser(u, account)
  PROVE  IInv'
<1>1. account \in Subjects /\ account # Default
  BY PermissionsAssumption DEF Subjects
<1>2. /\ members' \in [UserGroups -> SUBSET (Users \cup {Default})]
      /\ active' \subseteq UserGroups
  BY DEF DeleteUser, IInv, TypeOK
<1> QED
  BY <1>1, <1>2, WithdrawKeeps DEF DeleteUser

LEMMA UpdateDefaultsKeeps ==
  ASSUME IInv, NEW u \in Users, NEW onRepos \in Levels, NEW onGroups \in Levels,
         NEW overwriteRepos \in BOOLEAN, NEW overwriteGroups \in BOOLEAN,
         UpdateDefaults(u, onRepos, onGroups, overwriteRepos, overwriteGroups)
  PROVE  IInv'
<1> DEFINE reset == {r \in Repos : overwriteRepos /\ Listed(r) /\ ~Private(r)}
           opened == {g \in RepoGroups : overwriteGroups /\ Listed(g)}
<1>1. rows' = [o \in Objects |->
                 CASE o \in reset -> [rows[o] EXCEPT ![Default] = onRepos]
                   [] o \in opened -> [rows[o] EXCEPT ![Default] = onGroups]
                   [] o \notin reset \cup opened -> rows[o]]
  BY DEF UpdateDefaults
<1>2. reset \cap opened = {}
  BY PermissionsAssumption
<1>3. \A o \in reset \cup opened : o \in Objects /\ Exists(o)
  BY DefaultIsSubject DEF IInv, TypeOK, Listed, Objects
<1> HIDE DEF reset, opened
<1>4. ASSUME NEW o \in Objects
      PROVE  /\ rows'[o] \in Row
             /\ \A s \in Subjects :
                  rows'[o][s] # rows[o][s] =>
                    /\ o \in reset \cup opened
                    /\ s = Default /\ rows'[o][s] \in Levels
  <2>1. rows[o] \in Row
    BY RowsType DEF IInv
  <2>2. CASE o \in reset
    BY <1>1, <1>2, <2>1, <2>2, DefaultIsSubject DEF Row
  <2>3. CASE o \in opened
    BY <1>1, <1>2, <2>1, <2>3, DefaultIsSubject DEF Row
  <2>4. CASE o \notin reset \cup opened
    BY <1>1, <2>1, <2>4
  <2> QED
    BY <2>2, <2>3, <2>4
<1>5. rows' \in [Objects -> Row]
  BY <1>1, <1>4
<1>6. \A o \in Objects, s \in Subjects :
        rows'[o][s] # rows[o][s] =>
          /\ Exists(o)
          /\ ~ViaApi /\ s = Default => rows'[o][s] # NoRow
  BY <1>3, <1>4, LevelsFacts
<1>7. UNCHANGED <<repo, groups, members, active>>
      /\ fallback' \in [repo : Levels, group : Levels]
  BY DEF UpdateDefaults
<1> QED
  BY <1>5, <1>6, <1>7, ChangeRowsOnly
-----------------------------------------------------------------------------
(* The theorems.                                                             *)

LEMMA InitIInv == Init => IInv
<1> SUFFICES ASSUME Init PROVE IInv
  OBVIOUS
<1>1. TypeOK
  BY LevelsFacts DEF Init, TypeOK, NoRows
<1>2. \A o \in Objects : ~Exists(o)
  BY DEF Init, Exists
<1>3. DefaultRows
  BY <1>2 DEF DefaultRows, Existing
<1>4. SafeTree
  BY DEF Init, SafeTree, TreeWhole
<1> QED
  BY <1>1, <1>3, <1>4 DEF IInv

LEMMA StepIInv == IInv /\ [Next]_vars => IInv'
<1> SUFFICES ASSUME IInv, [Next]_vars PROVE IInv'
  OBVIOUS
<1>1. CASE UNCHANGED vars
  BY <1>1 DEF vars, IInv, TypeOK, DefaultRows, SafeTree, TreeWhole, Existing, Listed, Exists
<1>2. ASSUME NEW u \in Users, NEW owner \in Users, NEW r \in Repos, NEW private \in BOOLEAN,
             NEW g \in groups \cup {NoGroup}, NEW copied \in BOOLEAN,
             CreateRepo(u, owner, r, private, g, copied)
      PROVE  IInv'
  BY <1>2, CreateRepoKeeps
<1>3. ASSUME NEW u \in Users, NEW owner \in Users, NEW r \in Repos, NEW private \in BOOLEAN,
             NEW g \in groups \cup {NoGroup}, NEW source \in Repos, NEW copied \in BOOLEAN,
             ForkRepo(u, owner, source, r, private, g, copied)
      PROVE  IInv'
  BY <1>3, ForkRepoKeeps
<1>4. ASSUME NEW u \in Users, NEW r \in Repos, NEW private \in BOOLEAN,
             NEW g \in groups \cup {NoGroup}, NEW owner \in Users,
             UpdateRepo(u, r, private, g, owner)
      PROVE  IInv'
  BY <1>4, UpdateRepoKeeps
<1>5. ASSUME NEW u \in Users, NEW r \in Repos, DeleteRepo(u, r)
      PROVE  IInv'
  BY <1>5, RemoveRepo DEF DeleteRepo
<1>6. ASSUME NEW u \in Users, NEW r \in Repos, NEW s \in Grantees, NEW level \in Granted,
             GrantOnRepo(u, r, s, level)
      PROVE  IInv'
  BY <1>6, GrantOnRepoKeeps, PermissionsAssumption DEF Subjects
<1>7. ASSUME NEW u \in Users, NEW r \in Repos, NEW s \in Grantees, RevokeOnRepo(u, r, s)
      PROVE  IInv'
  BY <1>7, RevokeOnRepoKeeps, PermissionsAssumption DEF Subjects
<1>20. ASSUME NEW u \in Users, NEW r \in Repos, NEW s \in Grantees, NEW level \in Granted,
              GrantUserViaApi(u, r, s, level) \/ GrantUserGroupViaApi(u, r, s, level)
       PROVE  IInv'
  BY <1>20, RepoCallsKeep, PermissionsAssumption DEF Subjects
<1>21. ASSUME NEW u \in Users, NEW r \in Repos, NEW s \in Grantees,
              RevokeUserViaApi(u, r, s) \/ RevokeUserGroupViaApi(u, r, s)
       PROVE  IInv'
  BY <1>21, RepoCallsKeep, LevelsFacts, PermissionsAssumption DEF Subjects
<1>8. ASSUME NEW u \in Users, NEW owner \in Users, NEW g \in RepoGroups, NEW copied \in BOOLEAN,
             CreateGroup(u, owner, g, copied)
      PROVE  IInv'
  BY <1>8, CreateGroupKeeps
<1>9. ASSUME NEW u \in Users, NEW g \in RepoGroups, DeleteGroup(u, g)
      PROVE  IInv'
  BY <1>9, RemoveGroup DEF DeleteGroup, AdminViaApi
<1>10. ASSUME NEW u \in Users, NEW g \in RepoGroups, NEW s \in Grantees,
              NEW level \in Granted, NEW mode \in Modes, GrantOnGroup(u, g, s, level, mode)
       PROVE  IInv'
  BY <1>10, GrantOnGroupKeeps, PermissionsAssumption DEF Subjects
<1>11. ASSUME NEW u \in Users, NEW g \in RepoGroups, NEW s \in Grantees, NEW mode \in Modes,
              RevokeOnGroup(u, g, s, mode)
       PROVE  IInv'
  BY <1>11, RevokeOnGroupKeeps, PermissionsAssumption DEF Subjects
<1>22. ASSUME NEW u \in Users, NEW g \in RepoGroups, NEW s \in Grantees,
              NEW level \in Granted, NEW mode \in Modes,
              \/ GrantUserOnGroupViaApi(u, g, s, level, mode)
              \/ GrantUserGroupOnGroupViaApi(u, g, s, level, mode)
       PROVE  IInv'
  BY <1>22, GroupCallsKeep, PermissionsAssumption DEF Subjects
<1>23. ASSUME NEW u \in Users, NEW g \in RepoGroups, NEW s \in Grantees, NEW mode \in Modes,
              \/ RevokeUserOnGroupViaApi(u, g, s, mode)
              \/ RevokeUserGroupOnGroupViaApi(u, g, s, mode)
       PROVE  IInv'
  BY <1>23, GroupCallsKeep, LevelsFacts, PermissionsAssumption DEF Subjects
<1>12. ASSUME NEW u \in Users, NEW g \in UserGroups, NEW selected \in Memberships,
              NEW isActive \in BOOLEAN, UpdateUserGroup(u, g, selected, isActive)
       PROVE  IInv'
  BY <1>12, UpdateUserGroupKeeps, PermissionsAssumption
<1>24. ASSUME NEW u \in Users, NEW g \in UserGroups, NEW isActive \in BOOLEAN,
              UpdateUserGroupViaApi(u, g, isActive)
       PROVE  IInv'
  BY <1>24, UpdateUserGroupKeeps
<1>25. ASSUME NEW u \in Users, NEW g \in UserGroups, NEW s \in Users \cup {Default},
              AddUserToUserGroup(u, g, s) \/ RemoveUserFromUserGroup(u, g, s)
       PROVE  IInv'
  BY <1>25, MemberCallsKeep
<1>13. ASSUME NEW u \in Users, NEW onRepos \in Fallbacks, NEW onGroups \in Fallbacks,
              NEW overwriteRepos \in BOOLEAN, NEW overwriteGroups \in BOOLEAN,
              UpdateDefaults(u, onRepos, onGroups, overwriteRepos, overwriteGroups)
       PROVE  IInv'
  BY <1>13, UpdateDefaultsKeeps, PermissionsAssumption
<1>18. ASSUME NEW u \in Users, NEW g \in UserGroups, DeleteUserGroup(u, g)
       PROVE  IInv'
  BY <1>18, DeleteUserGroupKeeps
<1>27. ASSUME NEW u \in Users, NEW g \in UserGroups, DeleteUserGroupViaApi(u, g)
       PROVE  IInv'
  BY <1>18, <1>27 DEF DeleteUserGroupViaApi
<1>19. ASSUME NEW u \in Users, NEW account \in Users, DeleteUser(u, account)
       PROVE  IInv'
  BY <1>19, DeleteUserKeeps
<1>14. ASSUME NEW u \in Users, PlaceRepos(u)
       PROVE  IInv'
  <2>1. PICK r \in Repos, private \in BOOLEAN, g \in groups \cup {NoGroup}, owner \in Users :
          \/ \E copied \in BOOLEAN : CreateRepo(u, owner, r, private, g, copied)
          \/ \E source \in Repos, copied \in BOOLEAN :
               ForkRepo(u, owner, source, r, private, g, copied)
          \/ UpdateRepo(u, r, private, g, owner)
    BY <1>14, Zenon DEF PlaceRepos
  <2>2. CASE \E copied \in BOOLEAN : CreateRepo(u, owner, r, private, g, copied)
    BY <1>2, <2>2
  <2>3. CASE \E source \in Repos, copied \in BOOLEAN :
               ForkRepo(u, owner, source, r, private, g, copied)
    BY <1>3, <2>3
  <2>4. CASE UpdateRepo(u, r, private, g, owner)
    BY <1>4, <2>4
  <2> QED
    BY <2>1, <2>2, <2>3, <2>4
<1>15. \A u \in Users : ManageRepos(u) => IInv'
  BY <1>5, <1>6, <1>7, <1>20, <1>21, Zenon DEF ManageRepos
<1>16. \A u \in Users : ManageGroups(u) => IInv'
  BY <1>8, <1>9, <1>10, <1>11, <1>22, <1>23, Zenon DEF ManageGroups
<1>26. \A u \in Users : ManageUserGroups(u) => IInv'
  BY <1>12, <1>18, <1>24, <1>25, <1>27, Zenon DEF ManageUserGroups
<1>17. \A u \in Users : ManageSettings(u) => IInv'
  BY <1>13, <1>19, Zenon DEF ManageSettings
<1> QED
  BY <1>1, <1>14, <1>15, <1>16, <1>17, <1>26 DEF Next, Step

\* The tables stay typed, permission rows belong to objects that exist, and the
\* tree of groups has no loose ends, whichever interface is used.
THEOREM PermissionsInvariant == Spec => []IInv
<1> QED
  BY InitIInv, StepIInv, PTL DEF Spec

\* Permission rows have the types and foreign keys of their tables.
THEOREM PermissionsTypeTheorem == Spec => []TypeOK
<1>1. IInv => TypeOK
  BY DEF IInv
<1> QED
  BY <1>1, PermissionsInvariant, PTL

\* Groups are never deleted from under what they contain, if the page that counts
\* first is the only way to delete them or the database enforces foreign keys.
THEOREM TreeTheorem ==
  ASSUME ForeignKeys \/ ~ViaApi
  PROVE  Spec => []TreeWhole
<1>1. IInv => TreeWhole
  BY DEF IInv, SafeTree
<1> QED
  BY <1>1, PermissionsInvariant, PTL

\* With the web interface alone, no sequence of operations leaves a user whose
\* permissions cannot be computed.
THEOREM ComputableTheorem ==
  ASSUME ~ViaApi
  PROVE  Spec => []PermissionsComputable
<1>1. IInv => PermissionsComputable
  BY DEF IInv, DefaultRows, PermissionsComputable, Computable
<1> QED
  BY <1>1, PermissionsInvariant, PTL
-----------------------------------------------------------------------------
(* Private repositories.                                                     *)

\* What a step may do to the default user's row of a repository that is and
\* stays private: nothing, or take everything away.
KeptShut(r) ==
  Private(r) /\ Private(r)' =>
    rows'[r][Default] = rows[r][Default] \/ rows'[r][Default] = None

\* Creating or deleting one object changes the rows of that object only.
LEMMA ElsewhereShut ==
  ASSUME IInv, NEW o \in Objects, NEW row \in Row, rows' = Put(o, row),
         NEW r \in Repos, ~(Private(o) /\ Private(o)')
  PROVE  KeptShut(r)
<1>1. r \in Objects
  BY DEF Objects
<1>2. Putting(o, row)
  BY PutKeeps DEF IInv
<1> QED
  BY <1>1, <1>2 DEF Putting, KeptShut

\* A level for another subject, or on other objects, leaves the row alone.
LEMMA GrantShut ==
  ASSUME IInv, NEW targets, NEW s \in Subjects, NEW level \in Levels \cup {NoRow},
         rows' = Grant(targets, s, level), NEW r \in Repos,
         s = Default => \A o \in targets : ~Private(o)
  PROVE  KeptShut(r)
<1>1. r \in Objects
  BY DEF Objects
<1>2. Granting(targets, s, level)
  BY GrantKeeps DEF IInv
<1> QED
  BY <1>1, <1>2, DefaultIsSubject DEF Granting, KeptShut

LEMMA StepShut ==
  ASSUME ~ViaApi, IInv, [Next]_vars, NEW r \in Repos
  PROVE  KeptShut(r)
<1>1. CASE UNCHANGED vars
  BY <1>1 DEF vars, KeptShut
<1>2. ASSUME NEW u \in Users, NEW owner \in Users, NEW q \in Repos, NEW private \in BOOLEAN,
             NEW g \in groups \cup {NoGroup}, NEW copied \in BOOLEAN,
             CreateRepo(u, owner, q, private, g, copied)
      PROVE  KeptShut(r)
  <2>1. \E row \in Row : rows' = Put(q, row)
    <3>1. CASE g # NoGroup /\ copied
      <4>1. g \in Objects /\ Exists(g)
        BY <3>1, PermissionsAssumption DEF IInv, TypeOK, Objects, Exists
      <4>2. RowsOf(g) \in Row
        BY <4>1, CopiedRow
      <4>3. rows' = Put(q, RowsOf(g))
        BY <1>2, <3>1 DEF CreateRepo
      <4> QED
        BY <4>2, <4>3
    <3>2. CASE ~(g # NoGroup /\ copied)
      <4>1. rows' = Put(q, DefaultOnly(IF private THEN None ELSE fallback.repo))
        BY <1>2, <3>2 DEF CreateRepo
      <4> QED
        BY <4>1, NewRepoRow
    <3> QED
      BY <3>1, <3>2
  <2>2. ~Private(q) /\ q \in Objects
    BY <1>2 DEF CreateRepo, Private, Objects
  <2> QED
    BY <2>1, <2>2, ElsewhereShut
<1>3. ASSUME NEW u \in Users, NEW owner \in Users, NEW q \in Repos, NEW private \in BOOLEAN,
             NEW g \in groups \cup {NoGroup}, NEW source \in Repos, NEW copied \in BOOLEAN,
             ForkRepo(u, owner, source, q, private, g, copied)
      PROVE  KeptShut(r)
  <2>1. \E row \in Row : rows' = Put(q, row)
    <3>1. CASE copied
      <4>1. source \in Objects /\ Exists(source)
        BY <1>3 DEF ForkRepo, May, Objects
      <4>2. RowsOf(source) \in Row
        BY <4>1, CopiedRow
      <4>3. rows' = Put(q, RowsOf(source))
        BY <1>3, <3>1 DEF ForkRepo
      <4> QED
        BY <4>2, <4>3
    <3>2. CASE ~copied
      <4>1. rows' = Put(q, DefaultOnly(IF private THEN None ELSE fallback.repo))
        BY <1>3, <3>2 DEF ForkRepo
      <4> QED
        BY <4>1, NewRepoRow
    <3> QED
      BY <3>1, <3>2
  <2>2. ~Private(q) /\ q \in Objects
    BY <1>3 DEF ForkRepo, Private, Objects
  <2> QED
    BY <2>1, <2>2, ElsewhereShut
<1>4. ASSUME NEW u \in Users, NEW q \in Repos, NEW private \in BOOLEAN,
             NEW g \in groups \cup {NoGroup}, NEW owner \in Users,
             UpdateRepo(u, q, private, g, owner)
      PROVE  KeptShut(r)
  <2>1. rows' = Grant({q}, Default, None) \/ rows' = rows
    BY <1>4 DEF UpdateRepo
  <2>2. Granting({q}, Default, None)
    BY GrantKeeps, LevelsFacts, DefaultIsSubject DEF IInv
  <2>3. r \in Objects
    BY DEF Objects
  <2> QED
    BY <2>1, <2>2, <2>3, DefaultIsSubject DEF Granting, KeptShut
<1>5. ASSUME NEW u \in Users, NEW q \in Repos, DeleteRepo(u, q)
      PROVE  KeptShut(r)
  <2>1. rows' = Put(q, NoRows) /\ ~Private(q)'
    BY <1>5 DEF DeleteRepo, Private, IInv, TypeOK
  <2>2. q \in Objects
    BY DEF Objects
  <2> QED
    BY <2>1, <2>2, NoRowsRow, ElsewhereShut
<1>6. ASSUME NEW u \in Users, NEW q \in Repos, NEW s \in Grantees, NEW level \in Granted,
             GrantOnRepo(u, q, s, level)
      PROVE  KeptShut(r)
  <2>1. s \in Subjects /\ level \in Levels \cup {NoRow}
    BY PermissionsAssumption DEF Subjects
  <2>2. rows' = Grant({q}, s, level) /\ (s = Default => \A o \in {q} : ~Private(o))
    BY <1>6 DEF GrantOnRepo
  <2> QED
    BY <2>1, <2>2, GrantShut
<1>7. ASSUME NEW u \in Users, NEW q \in Repos, NEW s \in Grantees, RevokeOnRepo(u, q, s)
      PROVE  KeptShut(r)
  <2>1. s \in Subjects /\ s # Default /\ rows' = Grant({q}, s, NoRow)
    BY <1>7, PermissionsAssumption DEF RevokeOnRepo, Subjects
  <2> QED
    BY <2>1, GrantShut
<1>8. ASSUME NEW u \in Users, NEW owner \in Users, NEW g \in RepoGroups, NEW copied \in BOOLEAN,
             CreateGroup(u, owner, g, copied)
      PROVE  KeptShut(r)
  <2>1. \E row : rows' = Put(g, row)
    BY <1>8 DEF CreateGroup
  <2>2. r \in Objects /\ r # g
    BY PermissionsAssumption DEF Objects
  <2> QED
    BY <2>1, <2>2 DEF Put, KeptShut, IInv, TypeOK
<1>9. ASSUME NEW u \in Users, NEW g \in RepoGroups, DeleteGroup(u, g)
      PROVE  KeptShut(r)
  <2>1. rows' = Put(g, NoRows) /\ g \in Objects /\ ~Private(g)
    BY <1>9, PermissionsAssumption DEF DeleteGroup, Private, Objects
  <2> QED
    BY <2>1, NoRowsRow, ElsewhereShut
<1>10. ASSUME NEW u \in Users, NEW g \in RepoGroups, NEW s \in Grantees,
              NEW level \in Granted, NEW mode \in Modes, GrantOnGroup(u, g, s, level, mode)
       PROVE  KeptShut(r)
  <2> DEFINE targets == Targets(g, mode) \ Skipped(Targets(g, mode), s)
  <2>1. s \in Subjects /\ level \in Levels \cup {NoRow}
    BY PermissionsAssumption DEF Subjects
  <2>2. rows' = Grant(targets, s, level)
    BY <1>10 DEF GrantOnGroup
  <2>3. s = Default => \A o \in targets : ~Private(o)
    BY DEF Skipped
  <2> HIDE DEF targets
  <2> QED
    BY <2>1, <2>2, <2>3, GrantShut
<1>11. ASSUME NEW u \in Users, NEW g \in RepoGroups, NEW s \in Grantees, NEW mode \in Modes,
              RevokeOnGroup(u, g, s, mode)
       PROVE  KeptShut(r)
  <2>1. s \in Subjects /\ s # Default /\ rows' = Grant(Targets(g, mode), s, NoRow)
    BY <1>11, PermissionsAssumption DEF RevokeOnGroup, Subjects
  <2> QED
    BY <2>1, GrantShut
<1>20. ASSUME NEW u \in Users, NEW q \in Repos, NEW s \in Grantees, NEW level \in Granted,
              GrantUserViaApi(u, q, s, level) \/ GrantUserGroupViaApi(u, q, s, level)
       PROVE  KeptShut(r)
  BY <1>20 DEF GrantUserViaApi, GrantUserGroupViaApi, AdminViaApi
<1>21. ASSUME NEW u \in Users, NEW q \in Repos, NEW s \in Grantees,
              RevokeUserViaApi(u, q, s) \/ RevokeUserGroupViaApi(u, q, s)
       PROVE  KeptShut(r)
  BY <1>21 DEF RevokeUserViaApi, RevokeUserGroupViaApi, AdminViaApi
<1>22. ASSUME NEW u \in Users, NEW g \in RepoGroups, NEW s \in Grantees,
              NEW level \in Granted, NEW mode \in Modes,
              \/ GrantUserOnGroupViaApi(u, g, s, level, mode)
              \/ GrantUserGroupOnGroupViaApi(u, g, s, level, mode)
       PROVE  KeptShut(r)
  BY <1>22 DEF GrantUserOnGroupViaApi, GrantUserGroupOnGroupViaApi
<1>23. ASSUME NEW u \in Users, NEW g \in RepoGroups, NEW s \in Grantees, NEW mode \in Modes,
              \/ RevokeUserOnGroupViaApi(u, g, s, mode)
              \/ RevokeUserGroupOnGroupViaApi(u, g, s, mode)
       PROVE  KeptShut(r)
  BY <1>23 DEF RevokeUserOnGroupViaApi, RevokeUserGroupOnGroupViaApi
<1>24. ASSUME NEW u \in Users, NEW g \in UserGroups, NEW isActive \in BOOLEAN,
              UpdateUserGroupViaApi(u, g, isActive)
       PROVE  KeptShut(r)
  BY <1>24 DEF UpdateUserGroupViaApi
<1>25. ASSUME NEW u \in Users, NEW g \in UserGroups, NEW s \in Users \cup {Default},
              AddUserToUserGroup(u, g, s) \/ RemoveUserFromUserGroup(u, g, s)
       PROVE  KeptShut(r)
  BY <1>25 DEF AddUserToUserGroup, RemoveUserFromUserGroup
<1>12. ASSUME NEW u \in Users, NEW g \in UserGroups, NEW selected \in Memberships,
              NEW isActive \in BOOLEAN, UpdateUserGroup(u, g, selected, isActive)
       PROVE  KeptShut(r)
  BY <1>12 DEF UpdateUserGroup, KeptShut
<1>13. ASSUME NEW u \in Users, NEW onRepos \in Fallbacks, NEW onGroups \in Fallbacks,
              NEW overwriteRepos \in BOOLEAN, NEW overwriteGroups \in BOOLEAN,
              UpdateDefaults(u, onRepos, onGroups, overwriteRepos, overwriteGroups)
       PROVE  KeptShut(r)
  <2> DEFINE reset == {q \in Repos : overwriteRepos /\ Listed(q) /\ ~Private(q)}
             opened == {g \in RepoGroups : overwriteGroups /\ Listed(g)}
  <2>1. rows' = [o \in Objects |->
                   CASE o \in reset -> [rows[o] EXCEPT ![Default] = onRepos]
                     [] o \in opened -> [rows[o] EXCEPT ![Default] = onGroups]
                     [] o \notin reset \cup opened -> rows[o]]
    BY <1>13 DEF UpdateDefaults
  <2>2. r \in Objects /\ r \notin opened /\ (Private(r) => r \notin reset)
    BY PermissionsAssumption DEF Objects
  <2> HIDE DEF reset, opened
  <2>3. Private(r) => rows'[r] = rows[r]
    BY <2>1, <2>2
  <2> QED
    BY <2>3 DEF KeptShut
<1>18. ASSUME NEW u \in Users, NEW g \in UserGroups, DeleteUserGroup(u, g)
       PROVE  KeptShut(r)
  <2>1. g \in Subjects /\ g # Default /\ rows' = Grant(RepoGroups, g, NoRow)
    BY <1>18, PermissionsAssumption DEF DeleteUserGroup, Subjects
  <2> QED
    BY <2>1, GrantShut
<1>27. ASSUME NEW u \in Users, NEW g \in UserGroups, DeleteUserGroupViaApi(u, g)
       PROVE  KeptShut(r)
  BY <1>27 DEF DeleteUserGroupViaApi
<1>19. ASSUME NEW u \in Users, NEW account \in Users, DeleteUser(u, account)
       PROVE  KeptShut(r)
  <2>1. account \in Subjects /\ account # Default /\ rows' = Grant(Objects, account, NoRow)
    BY <1>19, PermissionsAssumption DEF DeleteUser, Subjects
  <2> QED
    BY <2>1, GrantShut
<1>14. ASSUME NEW u \in Users, PlaceRepos(u)
       PROVE  KeptShut(r)
  <2>1. PICK q \in Repos, private \in BOOLEAN, g \in groups \cup {NoGroup}, owner \in Users :
          \/ \E copied \in BOOLEAN : CreateRepo(u, owner, q, private, g, copied)
          \/ \E source \in Repos, copied \in BOOLEAN :
               ForkRepo(u, owner, source, q, private, g, copied)
          \/ UpdateRepo(u, q, private, g, owner)
    BY <1>14, Zenon DEF PlaceRepos
  <2>2. CASE \E copied \in BOOLEAN : CreateRepo(u, owner, q, private, g, copied)
    BY <1>2, <2>2
  <2>3. CASE \E source \in Repos, copied \in BOOLEAN :
               ForkRepo(u, owner, source, q, private, g, copied)
    BY <1>3, <2>3
  <2>4. CASE UpdateRepo(u, q, private, g, owner)
    BY <1>4, <2>4
  <2> QED
    BY <2>1, <2>2, <2>3, <2>4
<1>15. \A u \in Users : ManageRepos(u) => KeptShut(r)
  BY <1>5, <1>6, <1>7, <1>20, <1>21, Zenon DEF ManageRepos
<1>16. \A u \in Users : ManageGroups(u) => KeptShut(r)
  BY <1>8, <1>9, <1>10, <1>11, <1>22, <1>23, Zenon DEF ManageGroups
<1>26. \A u \in Users : ManageUserGroups(u) => KeptShut(r)
  BY <1>12, <1>18, <1>24, <1>25, <1>27, Zenon DEF ManageUserGroups
<1>17. \A u \in Users : ManageSettings(u) => KeptShut(r)
  BY <1>13, <1>19, Zenon DEF ManageSettings
<1> QED
  BY <1>1, <1>14, <1>15, <1>16, <1>17, <1>26 DEF Next, Step

\* With the web interface alone, no recursive or bulk change opens a private
\* repository to everybody.
THEOREM SealedTheorem ==
  ASSUME ~ViaApi
  PROVE  Spec => PrivateSealed
<1>1. IInv /\ [Next]_vars =>
        [\A r \in Repos : (Private(r) /\ Private(r)') =>
           rows'[r][Default] <= rows[r][Default]]_vars
  <2> SUFFICES ASSUME IInv, [Next]_vars, NEW r \in Repos, Private(r), Private(r)'
               PROVE  rows'[r][Default] <= rows[r][Default]
    OBVIOUS
  <2>1. rows'[r][Default] = rows[r][Default] \/ rows'[r][Default] = None
    BY StepShut DEF KeptShut
  <2>2. r \in Objects /\ r \in Existing
    BY DEF Objects, Existing, Exists, Private
  <2>3. rows[r][Default] \in Levels
    BY <2>2, DefaultIsSubject DEF IInv, TypeOK, DefaultRows, Listed
  <2> QED
    BY <2>1, <2>3, NoneLowest
<1> QED
  BY <1>1, PermissionsInvariant, PTL DEF Spec, PrivateSealed
=============================================================================
