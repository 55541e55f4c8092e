--------------------------- MODULE RepositoryStore ---------------------------
(***************************************************************************)
(* Where repositories are: the rows of repositories and repository groups, *)
(* each with its full path for a name, and the directories below the       *)
(* repositories' root.  Every operation changes the two together (model/   *)
(* repo.py, model/repo_group.py, lib/celerylib/tasks.py, lib/utils.py),    *)
(* but only the rows are undone when a transaction fails.                  *)
(*                                                                         *)
(* A request of the web interface, or of the JSON-RPC API, whose checks    *)
(* are fewer, is one step, in which the commit comes last and may fail;    *)
(* foreign keys are enforced.  Creating a repository takes several: the    *)
(* form is checked, a task commits the row, makes the directory and        *)
(* commits the state.  A rescan takes two: the directories are listed,     *)
(* then the rows are brought in line with the list.                        *)
(*                                                                         *)
(* A directory is plain or holds a repository, which is known by the id of *)
(* the row that it was made for (or by a spare id: it was put there by     *)
(* other means).  What is archived under an rm__ name is gone for every    *)
(* operation modelled here.  Names differ in more than case.               *)
(***************************************************************************)
EXTENDS Naturals, Sequences, FiniteSets

CONSTANTS
  Names,      \* what repositories and groups can be called
  GroupIds,
  RepoIds,    \* ids of rows, and repositories on disk
  Tasks,      \* creations that can be in progress
  Foreign,    \* what may be on disk at first: a set of paths
  MaxRequests, \* bound: requests, creations and rescans that are started
  None, Plain

ASSUME StoreAssumption ==
  /\ None \notin GroupIds \cup RepoIds
  /\ Plain \notin RepoIds
  /\ IsFiniteSet(GroupIds) /\ IsFiniteSet(RepoIds)
  /\ Foreign \subseteq Seq(Names)
  /\ None \notin [name : Seq(Names), parent : GroupIds \cup {None}]    \* no row
  /\ None \notin [name : Seq(Names), group : GroupIds \cup {None},
                  fork : RepoIds \cup {None}, state : {"pending", "created"},
                  data : RepoIds \cup {None}]

VARIABLES
  groups,     \* groups[g]: the row of group g, or None
  repos,      \* repos[r]: the row of repository r, or None
  disk,       \* disk[p]: what is at path p, for the paths that there are
  tasks,      \* tasks[t]: a creation in progress, or None
  scan,       \* the repositories that a rescan has listed, or None
  requests,   \* started so far
  suspect     \* rows and directories may disagree: a commit failed after the
              \* directories were changed, a directory was archived or moved
              \* that was another's, a group was changed while a repository was created
              \* in it, or a rescan used a list that was out of date

vars == <<groups, repos, disk, tasks, scan, requests, suspect>>

Init ==
  /\ groups = [g \in GroupIds |-> None]
  /\ repos = [r \in RepoIds |-> None]
  /\ \E r \in RepoIds, p \in Foreign \cup {<<>>} :
       disk = [q \in {SubSeq(p, 1, k) : k \in 1 .. Len(p)} |->
                 IF q = p THEN r ELSE Plain]
  /\ tasks = [t \in Tasks |-> None]
  /\ scan = None
  /\ requests = 0
  /\ suspect = FALSE

-----------------------------------------------------------------------------
(* Names and paths.                                                        *)

Groups == {g \in GroupIds : groups[g] # None}
Repos == {r \in RepoIds : repos[r] # None}
Prefixes(p) == {SubSeq(p, 1, k) : k \in 1 .. Len(p)}
Below(p, q) == p \in Prefixes(q)   \* q is p or lies under it
Own(name) == name[Len(name)]       \* just_name of a repository, name of a group

RepoNamed(name) == {r \in Repos : repos[r].name = name}
GroupNamed(name) == {g \in Groups : groups[g].name = name}

PathOf(g) == IF g \in Groups THEN groups[g].name ELSE <<>>
NewName(g, own) == PathOf(g) \o <<own>>   \* get_new_name

\* The group k levels above g, None from the root on.
Up(g) ==
  LET up[k \in 0 .. Cardinality(GroupIds)] ==
        IF k = 0 THEN g
        ELSE IF up[k - 1] = None THEN None ELSE groups[up[k - 1]].parent
  IN  up

LevelsAbove(g, h) == {k \in DOMAIN Up(h) : Up(h)[k] = g}
GroupsBelow(g) == {h \in Groups : LevelsAbove(g, h) # {}}

\* The full name of a group once the group g above it is called path.
Renamed(g, path, h) ==
  LET d == CHOOSE k \in LevelsAbove(g, h) : TRUE
  IN  path \o [i \in 1 .. d |-> Own(groups[Up(h)[d - i]].name)]

-----------------------------------------------------------------------------
(* Directories.                                                            *)

IsDir(p) == p \in DOMAIN disk
HoldsRepo(p) == IsDir(p) /\ disk[p] # Plain

\* is_valid_repo_group, which the routes of groups ask: nothing in the way that
\* is a repository.
NoRepoAt(p) == ~HoldsRepo(p) /\ ~HoldsRepo(SubSeq(p, 1, Len(p) - 1))
HoldsGroup(p) == IsDir(p) /\ NoRepoAt(p)

\* get_filesystem_repos does not look for a repository in another one.
RepoPaths ==
  {p \in DOMAIN disk : HoldsRepo(p) /\ \A q \in Prefixes(p) \ {p} : ~HoldsRepo(q)}

\* The directory p with what, and the plain ones it needs above it.
Made(p, what) ==
  [q \in DOMAIN disk \cup Prefixes(p) |->
     IF q = p THEN what ELSE IF IsDir(q) THEN disk[q] ELSE Plain]

Archived(p) == [q \in {q \in DOMAIN disk : ~Below(p, q)} |-> disk[q]]

\* shutil.move of a directory to a path that does not exist.
Moved(from, to) ==
  LET inside == {q \in DOMAIN disk : Below(from, q)}
      Target(q) == to \o SubSeq(q, Len(from) + 1, Len(q))
      stays == DOMAIN disk \ inside
      targets == {Target(q) : q \in inside}
  IN  [p \in stays \cup targets \cup (Prefixes(to) \ inside) |->
         IF p \in targets THEN disk[CHOOSE q \in inside : Target(q) = p]
         ELSE IF p \in stays THEN disk[p] ELSE Plain]

\* Archiving by name takes what is there, be it the repository of row r or not.
DataOf(r) == IF repos[r].state = "created" THEN repos[r].data ELSE r
TakesAnother(r) == IsDir(repos[r].name) /\ disk[repos[r].name] # DataOf(r)

\* The move raises if there is nothing to move, or if the target is inside it.
CanMove(from, to) ==
  /\ IsDir(from)
  /\ ~IsDir(to)
  /\ ~Below(from, to)

\* The commit at the end of a request, after the directories were changed.
Commit(newGroups, newRepos) ==
  \/ /\ groups' = newGroups
     /\ repos' = newRepos
     /\ UNCHANGED suspect
  \/ /\ suspect' = TRUE
     /\ UNCHANGED <<groups, repos>>

-----------------------------------------------------------------------------
(* Repository groups: controllers/admin/repo_groups.py and RepoGroupModel. *)

\* ValidRepoGroup: a group's full name is compared with a name of one level.
GroupNameFree(parent, own) ==
  /\ parent = None => GroupNamed(<<own>>) = {}
  /\ RepoNamed(<<own>>) = {}

\* Ids are never given twice; one that no task remembers is as good as new.
FreshGroups ==
  GroupIds \ (Groups \cup {tasks[t].group : t \in {t \in Tasks : tasks[t] # None}})

\* RepoGroupModel.create
AddGroup(g, parent, own) ==
  LET name == NewName(parent, own) IN
  /\ g \in FreshGroups
  /\ GroupNamed(name) = {}           \* unique in the database
  /\ ~IsDir(name)
  /\ disk' = Made(name, Plain)
  /\ Commit([groups EXCEPT ![g] = [name |-> name, parent |-> parent]], repos)
  /\ UNCHANGED <<tasks, scan>>

CreateGroup(g, parent, own) == GroupNameFree(parent, own) /\ AddGroup(g, parent, own)

\* The API looks for no repository, and for a group as if there was no parent.
CreateGroupViaApi(g, parent, own) == GroupNamed(<<own>>) = {} /\ AddGroup(g, parent, own)

\* Every row below the group gets the name that the tree gives it.
UpdatedGroups(g, parent, path) ==
  [h \in GroupIds |->
     IF h = g THEN [name |-> path, parent |-> parent]
     ELSE IF h \in GroupsBelow(g) THEN [groups[h] EXCEPT !.name = Renamed(g, path, h)]
     ELSE groups[h]]

\* Wrong: only what is in the group itself is renamed.
UpdatedReposHere(g, path) ==
  [r \in RepoIds |->
     IF r \in Repos /\ repos[r].group = g
     THEN [repos[r] EXCEPT !.name = path \o <<Own(@)>>]
     ELSE repos[r]]

UpdatedRepos(g, path) ==
  [r \in RepoIds |->
     IF r \in Repos /\ repos[r].group \in GroupsBelow(g)
     THEN [repos[r] EXCEPT !.name = Renamed(g, path, repos[r].group) \o <<Own(@)>>]
     ELSE repos[r]]

Unique(rows) ==
  \A i, j \in DOMAIN rows :
    i # j /\ rows[i] # None /\ rows[j] # None => rows[i].name # rows[j].name

\* RepoGroupModel.update
ChangeGroup(g, parent, own) ==
  LET path == NewName(parent, own)
      newGroups == UpdatedGroups(g, parent, path)
      newRepos == UpdatedRepos(g, path)
  IN
  /\ Unique(newGroups) /\ Unique(newRepos)
  /\ IF path = groups[g].name THEN UNCHANGED disk
     ELSE /\ CanMove(groups[g].name, path)
          /\ disk' = Moved(groups[g].name, path)
  /\ Commit(newGroups, newRepos)
  /\ UNCHANGED <<tasks, scan>>

UpdateGroup(g, parent, own) ==
  /\ g \in Groups /\ HoldsGroup(groups[g].name)
  /\ parent \notin GroupsBelow(g)    \* itself: not a choice; below: endless
  /\ groups[g].name # <<own>> => GroupNameFree(parent, own)
  /\ ChangeGroup(g, parent, own)

\* The API takes a parent but passes it under a name that nothing reads.
UpdateGroupViaApi(g, own) == g \in Groups /\ ChangeGroup(g, groups[g].parent, own)

\* RepoGroupModel.delete for a group that nothing refers to.
RemoveGroup(g) ==
  /\ disk' = Archived(groups[g].name)
  /\ Commit([groups EXCEPT ![g] = None], repos)
  /\ UNCHANGED <<tasks, scan>>

EmptyGroup(g) ==
  /\ \A r \in Repos : repos[r].group # g
  /\ \A h \in Groups : groups[h].parent # g

\* Wrong: only the groups in it are counted.
DeleteGroupWithRepos(g) ==
  /\ g \in Groups /\ NoRepoAt(groups[g].name)
  /\ \A h \in Groups : groups[h].parent # g
  /\ RemoveGroup(g)

DeleteGroup(g) ==
  /\ g \in Groups /\ NoRepoAt(groups[g].name)
  /\ EmptyGroup(g)
  /\ RemoveGroup(g)

\* The API counts nothing: the foreign keys of what is in the group fail the
\* commit, but its directory has been archived by then.
DeleteGroupViaApi(g) ==
  /\ g \in Groups
  /\ IF EmptyGroup(g) THEN RemoveGroup(g)
     ELSE /\ disk' = Archived(groups[g].name)
          /\ suspect' = TRUE
          /\ UNCHANGED <<groups, repos, tasks, scan>>

-----------------------------------------------------------------------------
(* Repositories: controllers/admin/repos.py and RepoModel.                 *)

\* ValidRepoName: inside a group only repositories are looked at.
RepoNameFree(group, own) ==
  /\ RepoNamed(NewName(group, own)) = {}
  /\ group = None => GroupNamed(<<own>>) = {}

\* RepoModel.update.  A name that is taken, by a row without a directory, fails
\* the commit after the directory was moved.
ChangeRepo(r, group, own) ==
  LET name == NewName(group, own)
      changed == [repos EXCEPT ![r].name = name, ![r].group = group]
  IN
  /\ IF name = repos[r].name THEN UNCHANGED disk
     ELSE /\ CanMove(repos[r].name, name)
          /\ disk' = Moved(repos[r].name, name)
  /\ IF ~Unique(changed)
     THEN suspect' = TRUE /\ UNCHANGED <<groups, repos>>
     ELSE IF name # repos[r].name /\ TakesAnother(r)
     THEN suspect' = TRUE /\ repos' \in {repos, changed} /\ UNCHANGED groups
     ELSE Commit(groups, changed)
  /\ UNCHANGED <<tasks, scan>>

\* The routes lead to a repository on disk, and BaseRepoController to none that
\* is pending.
Reached(r) == r \in Repos /\ repos[r].state = "created" /\ HoldsRepo(repos[r].name)

UpdateRepo(r, group, own) ==
  /\ Reached(r)
  /\ NewName(group, own) # repos[r].name => RepoNameFree(group, own)
  /\ ChangeRepo(r, group, own)

\* The API moves pending ones too, into any group but not out of all of them.
UpdateRepoViaApi(r, group, own) ==
  /\ r \in Repos
  /\ group \in Groups \cup {repos[r].group}
  /\ ChangeRepo(r, group, own)

Forks(r) == {s \in Repos : repos[s].fork = r}

\* Wrong: forks still name what they were forked from.
WithoutRows(gone) == [s \in RepoIds |-> IF s \in gone THEN None ELSE repos[s]]

Without(gone) ==
  [s \in RepoIds |->
     IF s \in gone \cup {q \in RepoIds : repos[q] = None} THEN None
     ELSE IF repos[s].fork \in gone THEN [repos[s] EXCEPT !.fork = None]
     ELSE repos[s]]

\* r and, once for each generation, the forks of what is deleted already.
WithForks(r) ==
  LET with[k \in 0 .. Cardinality(RepoIds)] ==
        IF k = 0 THEN {r}
        ELSE with[k - 1] \cup UNION {Forks(s) : s \in with[k - 1]}
  IN  with[Cardinality(RepoIds)]

\* The forks stay ("detach"), go too ("delete"), or must not be there.
RemoveRepo(r, forks) ==
  LET gone == IF forks = "delete" THEN WithForks(r) ELSE {r} IN
  /\ r \in Repos
  /\ forks = None => Forks(r) = {}
  /\ disk' = [q \in {q \in DOMAIN disk : \A s \in gone : ~Below(repos[s].name, q)}
                |-> disk[q]]
  /\ IF \E s \in gone : TakesAnother(s)
     THEN /\ suspect' = TRUE
          /\ repos' \in {repos, Without(gone)}
          /\ UNCHANGED groups
     ELSE Commit(groups, Without(gone))
  /\ UNCHANGED <<tasks, scan>>

\* Neither interface asks whether the repository's task has ended.
DeleteRepo(r, forks) == RemoveRepo(r, forks)
DeleteRepoViaApi(r, forks) == RemoveRepo(r, forks)

-----------------------------------------------------------------------------
(* tasks.create_repo and create_repo_fork.  What the form found is not     *)
(* looked at again.                                                        *)

OnDisk == {disk[p] : p \in DOMAIN disk}
InTasks == {tasks[t].repo : t \in {t \in Tasks : tasks[t] # None}}
Fresh(r) == r \notin Repos \cup OnDisk \cup InTasks

Submit(t, group, own, fork) ==
  /\ tasks[t] = None
  /\ tasks' = [tasks EXCEPT ![t] =
                 [at |-> "queued", own |-> own, full |-> NewName(group, own),
                  group |-> group, fork |-> fork, repo |-> None]]
  /\ UNCHANGED <<groups, repos, disk, scan, suspect>>

SubmitRepo(t, group, own) ==
  /\ RepoNameFree(group, own)
  /\ Submit(t, group, own, None)

SubmitFork(t, group, own, source) ==
  /\ Reached(source)
  /\ RepoNameFree(group, own)
  /\ Submit(t, group, own, source)

\* The API looks for a repository of that name only, and forks pending ones too.
SubmitRepoViaApi(t, group, own) ==
  /\ RepoNamed(NewName(group, own)) = {}
  /\ Submit(t, group, own, None)

SubmitForkViaApi(t, group, own, source) ==
  /\ source \in Repos
  /\ RepoNamed(NewName(group, own)) = {}
  /\ Submit(t, group, own, source)

\* The group may be gone by now; the name is the one that the form made up.
Existing(g) == IF g \in Groups THEN g ELSE None

\* _create_filesystem_repo: below the group as it is called now.
Target(t) == NewName(Existing(tasks[t].group), tasks[t].own)

Ended(t) == tasks' = [tasks EXCEPT ![t] = None]

\* "rollback things manually": the row that has the name now, and the
\* directory that its name leads to.
CleanUp(t) ==
  /\ Ended(t)
  /\ \A r \in RepoNamed(tasks[t].full) :
       /\ repos' = Without({r})
       /\ disk' = Archived(tasks[t].full)
       /\ suspect' = (suspect \/ TakesAnother(r))
  /\ RepoNamed(tasks[t].full) = {} => UNCHANGED <<repos, disk, suspect>>
  /\ UNCHANGED <<groups, scan>>

\* A name that is taken fails the flush, and the clean-up with it.
InsertRow(t, r) ==
  /\ tasks[t] # None /\ tasks[t].at = "queued"
  /\ tasks[t].fork # None => tasks[t].fork \in Repos
  /\ IF RepoNamed(tasks[t].full) # {}
     THEN /\ Ended(t)
          /\ UNCHANGED repos
     ELSE /\ Fresh(r)
          /\ repos' = [repos EXCEPT ![r] =
               [name |-> tasks[t].full, group |-> Existing(tasks[t].group),
                fork |-> tasks[t].fork, state |-> "pending", data |-> None]]
          /\ tasks' = [tasks EXCEPT ![t].at = "row", ![t].repo = r]
  /\ suspect' = (suspect \/ Target(t) # tasks[t].full)
  /\ UNCHANGED <<groups, disk, scan>>

\* The source of the fork is gone: the clean-up undoes the row in the same
\* transaction and takes whatever directory has its name.
SourceGone(t) ==
  /\ tasks[t] # None /\ tasks[t].at = "queued"
  /\ tasks[t].fork \notin Repos \cup {None}
  /\ Ended(t)
  /\ disk' = IF RepoNamed(tasks[t].full) = {} THEN Archived(tasks[t].full) ELSE disk
  /\ suspect' = (suspect \/ disk' # disk)
  /\ UNCHANGED <<groups, repos, scan>>

\* Wrong: what is there already is not looked at.
MakeDirectoryOver(t) ==
  /\ tasks[t] # None /\ tasks[t].at = "row"
  /\ disk' = Made(Target(t), tasks[t].repo)
  /\ tasks' = [tasks EXCEPT ![t].at = "dir"]
  /\ UNCHANGED <<groups, repos, scan, suspect>>

\* A fork is cloned from where its source is.
MakeDirectory(t) ==
  /\ tasks[t] # None /\ tasks[t].at = "row"
  /\ ~IsDir(Target(t))
  /\ tasks[t].fork # None => tasks[t].fork \in Repos /\ HoldsRepo(repos[tasks[t].fork].name)
  /\ disk' = Made(Target(t), tasks[t].repo)
  /\ tasks' = [tasks EXCEPT ![t].at = "dir"]
  /\ UNCHANGED <<groups, repos, scan, suspect>>

\* "This path is a valid repository" or "group", or the clone goes wrong.
MakeDirectoryFails(t) ==
  /\ tasks[t] # None /\ tasks[t].at = "row"
  /\ CleanUp(t)

\* update_changeset_cache opens the directory that the row's name leads to.
SetCreated(t) ==
  /\ tasks[t] # None /\ tasks[t].at = "dir"
  /\ HoldsRepo(tasks[t].full)
  /\ \E r \in RepoNamed(tasks[t].full) :
       repos' = [repos EXCEPT ![r].state = "created", ![r].data = disk[tasks[t].full]]
  /\ Ended(t)
  /\ UNCHANGED <<groups, disk, scan, suspect>>

\* No row of that name any more, nothing where it leads, or a late failure.
SetCreatedFails(t) ==
  /\ tasks[t] # None /\ tasks[t].at = "dir"
  /\ CleanUp(t)

\* The worker is killed.
TaskDies(t) ==
  /\ tasks[t] # None
  /\ Ended(t)
  /\ UNCHANGED <<groups, repos, disk, scan, suspect>>

-----------------------------------------------------------------------------
(* repo2db_mapper(repo_scan(), remove_obsolete).                           *)

Scan ==
  /\ scan = None
  /\ scan' = RepoPaths
  /\ UNCHANGED <<groups, repos, disk, tasks, suspect>>

\* Wrong: groups that are missing are not added for a repository.
NewPathsInGroups ==
  {p \in scan : RepoNamed(p) = {} /\ \A q \in Prefixes(p) \ {p} : GroupNamed(q) # {}}

NewPaths == {p \in scan : RepoNamed(p) = {}}

\* map_groups: the groups that are missing above repositories.
MissingGroups(paths) ==
  (UNION {Prefixes(p) \ {p} : p \in paths}) \ {groups[g].name : g \in Groups}

Injections(A, B) == {f \in [A -> B] : \A a, b \in A : f[a] = f[b] => a = b}

WithMissing(f) ==
  LET named == [g \in {f[p] : p \in DOMAIN f} |-> CHOOSE p \in DOMAIN f : f[p] = g]
      GroupAt(p) == IF p \in DOMAIN f THEN f[p] ELSE CHOOSE g \in GroupNamed(p) : TRUE
      Parent(p) == IF Len(p) = 1 THEN None ELSE GroupAt(SubSeq(p, 1, Len(p) - 1))
  IN  [g \in GroupIds |->
         IF g \in DOMAIN named THEN [name |-> named[g], parent |-> Parent(named[g])]
         ELSE groups[g]]

GroupIn(rows, name) ==
  IF Len(name) = 1 THEN None
  ELSE CHOOSE g \in GroupIds : rows[g] # None /\ rows[g].name = SubSeq(name, 1, Len(name) - 1)

\* A rescan does nothing for a group that has lost its directory, nor for a row
\* whose name is not where its group is.
InTree(row) == row.name = NewName(row.group, Own(row.name))
GroupsInPlace == \A g \in Groups : IsDir(groups[g].name) /\ ~HoldsRepo(groups[g].name)

\* What the list says but is not there any more, and the rows of what is not listed.
Gone == {p \in NewPaths : ~HoldsRepo(p)}
Obsolete == {r \in Repos : repos[r].name \notin scan}

\* A repository that is not there any more stops the rescan when it is opened,
\* after its row was committed.
Additions ==
  IF Gone = {} THEN {NewPaths}
  ELSE {{p} \cup others : p \in Gone, others \in SUBSET (NewPaths \ Gone)}

Kept(removeObsolete) == IF removeObsolete /\ Gone = {} THEN Without(Obsolete) ELSE repos

Heals(removeObsolete) ==
  /\ removeObsolete /\ scan = RepoPaths /\ GroupsInPlace
  /\ \A r \in Repos \ Obsolete : InTree(repos[r])

NewRow(rows, p) ==
  [name |-> p, group |-> GroupIn(rows, p), fork |-> None, state |-> "created",
   data |-> IF HoldsRepo(p) THEN disk[p] ELSE None]

\* Repositories are known by name only: what is there is the row's from now on.
KeptRow(row, heals) ==
  IF heals /\ row # None /\ row.state = "created"
  THEN [row EXCEPT !.data = disk[row.name]] ELSE row

Mapped(kept, rows, added, id, heals) ==
  [r \in RepoIds |->
     IF \E p \in added : id[p] = r
     THEN NewRow(rows, CHOOSE p \in added : id[p] = r)
     ELSE KeptRow(kept[r], heals)]

\* The groups missing above a repository that has a row are made too, but it
\* takes a later commit to keep them: those of rows that go come after them all.
MapRepos(removeObsolete) ==
  /\ scan # None
  /\ \E added \in Additions, known \in SUBSET (scan \ NewPaths) :
     \E f \in Injections(MissingGroups(added \cup known), FreshGroups),
        id \in Injections(added, {r \in RepoIds : r \notin Repos \cup InTasks}) :
       /\ IF Kept(removeObsolete) # repos THEN known = scan \ NewPaths
          ELSE known # {} => added # {}
       /\ groups' = WithMissing(f)
       /\ repos' = Mapped(Kept(removeObsolete), groups', added, id, Heals(removeObsolete))
  /\ suspect' =
       (~Heals(removeObsolete) /\ (suspect \/ ~(NewPaths \subseteq RepoPaths)))
  /\ scan' = None
  /\ UNCHANGED <<disk, tasks>>

-----------------------------------------------------------------------------
GroupRequest ==
  \E g \in GroupIds :
    \/ DeleteGroup(g)
    \/ DeleteGroupViaApi(g)
    \/ \E own \in Names : UpdateGroupViaApi(g, own)
    \/ \E parent \in Groups \cup {None}, own \in Names :
         \/ CreateGroup(g, parent, own) \/ UpdateGroup(g, parent, own)
         \/ CreateGroupViaApi(g, parent, own)

RepoRequest ==
  \/ \E r \in RepoIds, forks \in {None, "detach", "delete"} :
       DeleteRepo(r, forks) \/ DeleteRepoViaApi(r, forks)
  \/ \E group \in Groups \cup {None}, own \in Names :
       \/ \E r \in RepoIds : UpdateRepo(r, group, own) \/ UpdateRepoViaApi(r, group, own)
       \/ \E t \in Tasks :
            \/ SubmitRepo(t, group, own) \/ SubmitRepoViaApi(t, group, own)
            \/ \E source \in Repos :
                 SubmitFork(t, group, own, source) \/ SubmitForkViaApi(t, group, own, source)

TaskStep(t) ==
  \/ \E r \in RepoIds : InsertRow(t, r)
  \/ SourceGone(t) \/ MakeDirectory(t) \/ MakeDirectoryFails(t)
  \/ SetCreated(t) \/ SetCreatedFails(t) \/ TaskDies(t)

Next ==
  \/ /\ requests < MaxRequests
     /\ requests' = requests + 1
     /\ GroupRequest \/ RepoRequest \/ Scan
  \/ /\ UNCHANGED requests
     /\ \/ \E t \in Tasks : TaskStep(t)
        \/ \E removeObsolete \in BOOLEAN : MapRepos(removeObsolete)

Spec == Init /\ [][Next]_vars

-----------------------------------------------------------------------------
IsName(p) == p \in Seq(Names) /\ p # <<>>

TypeOK ==
  /\ \A g \in Groups : /\ IsName(groups[g].name)
                       /\ groups[g].parent \in Groups \cup {None}
  /\ \A r \in Repos : /\ IsName(repos[r].name)
                      /\ repos[r].group \in Groups \cup {None}
                      /\ repos[r].fork \in Repos \cup {None}
                      /\ repos[r].state \in {"pending", "created"}
                      /\ repos[r].data \in RepoIds \cup {None}
  /\ Unique(groups) /\ Unique(repos)
  /\ \A p \in DOMAIN disk : IsName(p) /\ Prefixes(p) \subseteq DOMAIN disk
  /\ OnDisk \subseteq RepoIds \cup {Plain}
  /\ suspect \in BOOLEAN

\* The name of a row is the path of the group it is in and its own name, for
\* groups always and for repositories unless the group was changed while they
\* were created: renaming and moving groups keeps the tree below them in step.
NamesFollowTree ==
  /\ \A g \in Groups : groups[g].name = NewName(groups[g].parent, Own(groups[g].name))
  /\ ~suspect => \A r \in Repos : InTree(repos[r])

\* Where its name leads, a group finds its directory and a created repository
\* its own data, unless something has gone wrong that no rescan has put right.
DirectoriesFollowRows ==
  ~suspect =>
    /\ GroupsInPlace
    /\ \A r \in Repos :
         repos[r].state = "created" =>
           HoldsRepo(repos[r].name) /\ disk[repos[r].name] = repos[r].data

\* No directory that a row counts on is archived without that row: groups with
\* repositories are not deleted, and a clean-up that takes what is not its own
\* is known to be suspect.
DataLeavesWithItsRow ==
  [][\A r \in Repos :
       repos[r].state = "created" /\ repos[r].data \in OnDisk /\ ~suspect' =>
         \/ repos[r].data \in {disk'[p] : p \in DOMAIN disk'}
         \/ repos'[r] = None]_vars

\* A rescan that removes what is obsolete, with a list that is still right,
\* brings rows and directories together whatever had gone wrong with them.
RescanHeals ==
  [][scan # None /\ scan' = None /\ ~suspect' /\ suspect =>
       {repos'[r].name : r \in {r \in RepoIds : repos'[r] # None}} = RepoPaths]_vars
=============================================================================
