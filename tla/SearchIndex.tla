------------------------------ MODULE SearchIndex ------------------------------
(*****************************************************************************)
(* The full text search index: one document for every file and one for every *)
(* changeset.  "kallithea-cli index-create", run by cron or by hand, and the *)
(* task an administrator starts from the settings page both bring it up to   *)
(* date.  Their locks are different files, so that one of each can run at a  *)
(* time, while pushes go on.                                                 *)
(*                                                                           *)
(* A run first updates the files in one transaction of Whoosh.  It knows the *)
(* revisions of a repository as they were then, because the repository       *)
(* object caches them.  A git repository is listed again when its changesets *)
(* are indexed, and a changeset it did not know then ends the run.           *)
(*                                                                           *)
(* Whoosh (external): a writer holds a lock from its creation to its commit, *)
(* the run that does not get it fails; a searcher sees the index as it was   *)
(* when the searcher was opened.  Changesets are dated in the order they are *)
(* made, and nothing else runs while an index is built anew.                 *)
(*****************************************************************************)
EXTENDS Naturals, FiniteSets, FiniteSetsExt

CONSTANTS
  Repos,           \* repositories, numbered in the order of their names
  Git,             \* those that are git repositories; the others are Mercurial's
  Paths,
  MaxChangesets,   \* bound: changesets made in all
  MaxFaults,       \* bound: runs that fail or die, or pass over files
  Idle             \* no run in progress

ASSUME SearchAssumption ==
  /\ Repos \subseteq Nat /\ IsFiniteSet(Repos)
  /\ Git \subseteq Repos
  /\ MaxChangesets \in Nat /\ MaxFaults \in Nat

VARIABLES
  changes,   \* what changeset i did, for every one ever made
  revs,      \* revs[r]: the changesets of a repository; a greater one is younger
  exists,    \* both indexes exist
  files,     \* documents of the file index
  docs,      \* documents of the changeset index
  run,       \* the run in progress of the command and of the task
  faults

vars == <<changes, revs, exists, files, docs, run, faults>>

Runners == {"cli", "task"}
Changesets == 1..MaxChangesets

FileDoc == [repo : Repos, path : Paths, modtime : Changesets]
ChangesetDoc == [repo : Repos, id : Changesets, last : BOOLEAN]
Run ==
  [at : {"building", "listed", "searching"}, scope : SUBSET Repos,
   snap : [Repos -> SUBSET Changesets], seen : SUBSET ChangesetDoc]

-----------------------------------------------------------------------------
(* Repositories.                                                           *)

Push(r, path, gone) ==
  /\ Cardinality(DOMAIN changes) < MaxChangesets
  /\ LET id == Cardinality(DOMAIN changes) + 1
     IN  /\ changes' = [i \in 1..id |-> IF i = id THEN [path |-> path, gone |-> gone]
                                                  ELSE changes[i]]
         /\ revs' = [revs EXCEPT ![r] = @ \cup {id}]
  /\ UNCHANGED <<exists, files, docs, run, faults>>

\* A push that git had to be forced to takes the youngest changesets away.
ForcePush(r, tip) ==
  /\ r \in Git
  /\ tip \in revs[r] /\ tip # Max(revs[r])
  /\ revs' = [revs EXCEPT ![r] = {i \in @ : i <= tip}]
  /\ UNCHANGED <<changes, exists, files, docs, run, faults>>

\* The changesets that touched a path; the last of them dates the file.
Touching(ids, path) == {i \in ids : changes[i].path = path}

\* get_paths with get_node_mtime: the files of a repository at its tip.
Tree(r, ids) ==
  {[repo |-> r, path |-> path, modtime |-> Max(Touching(ids, path))] :
     path \in {q \in Paths : Touching(ids, q) # {} /\ ~changes[Max(Touching(ids, q))].gone}}

-----------------------------------------------------------------------------
(* The file index.                                                         *)

SameFile(d, e) == d.repo = e.repo /\ d.path = e.path

HasDocument(f) == \E d \in files : SameFile(d, f)

\* The files update_file_index deletes to index them again: only repositories
\* that --update-only names are compared.  A document whose file is gone stays,
\* because a whole path is no term of the field it is looked for in.
Outdated(scope, refresh) ==
  {f \in UNION {Tree(r, revs[r]) : r \in scope} :
     refresh /\ \E d \in files : SameFile(d, f) /\ f.modtime > d.modtime}

\* delete_by_term('fileid', ...).  (Bug: the path for the fileid.)
WithoutNone(ds, fs) == ds

Without(ds, fs) == {d \in ds : \A f \in fs : ~SameFile(d, f)}

\* The files it adds: those, and the ones no document has yet.
\* (Bug: those just deleted are taken for indexed.)
ToAddNew(scope, refresh) ==
  {f \in UNION {Tree(r, revs[r]) : r \in scope} : ~HasDocument(f)}

ToAdd(scope, refresh) ==
  Outdated(scope, refresh) \cup
    {f \in UNION {Tree(r, revs[r]) : r \in scope} : ~HasDocument(f)}

Start(w, at, scope) ==
  /\ run[w] = Idle
  /\ \A v \in Runners : run[v] # Idle => run[v].at # "building"
  /\ run' = [run EXCEPT ![w] = [at |-> at, scope |-> scope, snap |-> revs, seen |-> {}]]

\* update_file_index
UpdateFiles(w, scope, refresh) ==
  /\ exists
  /\ Start(w, "listed", scope)
  /\ files' = Without(files, Outdated(scope, refresh)) \cup ToAdd(scope, refresh)
  /\ UNCHANGED <<changes, revs, exists, docs, faults>>

\* It fails part of the way, and what was done is committed all the same.  All
\* deletions come before the first addition.
UpdateFilesFails(w, scope, refresh) ==
  /\ exists
  /\ run[w] = Idle
  /\ \A v \in Runners : run[v] # Idle => run[v].at # "building"
  /\ faults < MaxFaults
  /\ \E deleted \in SUBSET Outdated(scope, refresh), added \in SUBSET ToAdd(scope, refresh) :
       /\ added # {} => deleted = Outdated(scope, refresh)
       /\ files' = Without(files, deleted) \cup added
  /\ faults' = faults + 1
  /\ UNCHANGED <<changes, revs, exists, docs, run>>

\* What cannot be read in a broken repository is passed over, by get_paths, add_doc
\* and where documents are compared, and the run goes on: what it did not compare it
\* does not delete, and what it deleted it may not add again.
UpdateFilesSkips(w, scope, refresh) ==
  /\ exists
  /\ Start(w, "listed", scope)
  /\ faults < MaxFaults
  /\ \E deleted \in SUBSET Outdated(scope, refresh), added \in SUBSET ToAdd(scope, refresh) :
       /\ \A f \in added : HasDocument(f) => f \in deleted
       /\ files' = Without(files, deleted) \cup added
  /\ faults' = faults + 1
  /\ UNCHANGED <<changes, revs, exists, docs>>

-----------------------------------------------------------------------------
(* The changeset index: the youngest changeset of a repository is marked as  *)
(* the last, and the next run goes on from there.                            *)

Marks(ds, r) == {d.id : d \in {e \in ds : e.repo = r /\ e.last}}

\* update_changeset_index opens its searcher before it has the writer.
OpenSearcher(w) ==
  /\ run[w] # Idle /\ run[w].at = "listed"
  /\ run' = [run EXCEPT ![w].at = "searching", ![w].seen = {d \in docs : d.last}]
  /\ UNCHANGED <<changes, revs, exists, files, docs, faults>>

\* Where it can start: at any one of the marks, or at the oldest changeset if
\* that mark is unknown or there is none.
Starts(marks, ids) ==
  (marks \cap ids) \cup
    (IF marks = {} \/ ~(marks \subseteq ids) THEN {Min(ids)} ELSE {})

\* "there are new changesets to index or a new repo to index"
\* (Bug: off by one.)
ToIndexOffByOne(ids, start) ==
  ids # {} /\ (start = Min(ids) \/ Cardinality({i \in ids : i > start}) > 1)

ToIndex(ids, start) == ids # {} /\ (start = Min(ids) \/ start # Max(ids))

\* Repository.get_changesets: Mercurial lists what the object has cached, git
\* what is there now, all of it if the start is not.  (Bug: what comes after.)
ListingAfter(r, ids, start) ==
  IF r \in Git
  THEN {i \in revs[r] : start \in revs[r] => i > start}
  ELSE {i \in ids : i > start}

Listing(r, ids, start) ==
  IF r \in Git
  THEN {i \in revs[r] : start \in revs[r] => i >= start}
  ELSE {i \in ids : i >= start}

Rows(r) == {d \in docs : d.repo = r}

\* The marks that were seen are deleted, if they still are marks ...
Kept(r, seen) == {d \in Rows(r) : d.last => d.id \notin Marks(seen, r)}

\* ... and what is listed is added, and marked if it is the youngest known.
\* (Bug: numbers of revisions, which begin with 0, for their ids.)
AddedByNumber(r, ids, added) ==
  {[repo |-> r, id |-> i - 1, last |-> i = Max(ids)] : i \in added}

Added(r, ids, added) ==
  {[repo |-> r, id |-> i, last |-> i = Max(ids)] : i \in added}

\* Where a run starts in each of its repositories (0 where there is nothing).
StartChoices(w) ==
  {start \in [run[w].scope -> Changesets \cup {0}] :
     \A r \in run[w].scope :
       LET ids == run[w].snap[r]
       IN  IF ids = {} THEN start[r] = 0
                       ELSE start[r] \in Starts(Marks(run[w].seen, r), ids)}

Updates(w, r, start) == ToIndex(run[w].snap[r], start[r])

Listed(w, r, start) == Listing(r, run[w].snap[r], start[r])

Indexed(w, r, start) ==
  IF Updates(w, r, start)
  THEN Kept(r, run[w].seen) \cup Added(r, run[w].snap[r], Listed(w, r, start))
  ELSE Rows(r)

\* get_changeset raises for a changeset the repository object does not know.
Overtaken(w, r, start) ==
  Updates(w, r, start) /\ ~(Listed(w, r, start) \subseteq run[w].snap[r])

Finish(w) == run' = [run EXCEPT ![w] = Idle]

\* update_changeset_index
UpdateChangesets(w) ==
  /\ run[w] # Idle /\ run[w].at = "searching"
  /\ \E start \in StartChoices(w) :
       /\ \A r \in run[w].scope : ~Overtaken(w, r, start)
       /\ docs' = UNION {IF r \in run[w].scope THEN Indexed(w, r, start) ELSE Rows(r) : r \in Repos}
  /\ Finish(w)
  /\ UNCHANGED <<changes, revs, exists, files, faults>>

\* It ends at the repository named stop, whose documents are then rows.  Nothing
\* is committed unless an earlier repository has been indexed whole.
EndsAt(w, start, stop, rows) ==
  LET before == {r \in run[w].scope : r < stop}
  IN  /\ \A r \in before : ~Overtaken(w, r, start)
      /\ docs' = IF \E r \in before : Updates(w, r, start)
                 THEN UNION {IF r \in before THEN Indexed(w, r, start)
                             ELSE IF r = stop THEN rows ELSE Rows(r) : r \in Repos}
                 ELSE docs
      /\ Finish(w)
      /\ UNCHANGED <<changes, revs, exists, files>>

\* What the documents of a repository are when some of the list has been added.
PartOf(w, r, start, added) == Kept(r, run[w].seen) \cup Added(r, run[w].snap[r], added)

\* A push to a git repository came after the list of files.
UpdateOvertaken(w) ==
  /\ run[w] # Idle /\ run[w].at = "searching"
  /\ \E start \in StartChoices(w), r \in run[w].scope :
       /\ Overtaken(w, r, start)
       /\ EndsAt(w, start, r, PartOf(w, r, start, Listed(w, r, start) \cap run[w].snap[r]))
  /\ UNCHANGED faults

\* Anything else fails: between two repositories, or in the middle of one.
UpdateFails(w) ==
  /\ run[w] # Idle /\ run[w].at = "searching"
  /\ faults < MaxFaults
  /\ \E start \in StartChoices(w), r \in run[w].scope :
       \/ EndsAt(w, start, r, Rows(r))
       \/ /\ Updates(w, r, start)
          /\ \E end \in Changesets :
               EndsAt(w, start, r, PartOf(w, r, start,
                 {i \in Listed(w, r, start) \cap run[w].snap[r] : i < end}))
  /\ faults' = faults + 1

-----------------------------------------------------------------------------
(* Building anew, with --full or where there is no index yet.              *)

\* build_indexes begins by removing both indexes.
Recreate(w, scope) ==
  /\ \A v \in Runners : run[v] = Idle
  /\ Start(w, "building", scope)
  /\ exists' = TRUE
  /\ files' = {} /\ docs' = {}
  /\ UNCHANGED <<changes, revs, faults>>

\* Every repository is listed from its oldest changeset.
Oldest(w) ==
  [r \in run[w].scope |-> IF run[w].snap[r] = {} THEN 0 ELSE Min(run[w].snap[r])]

\* It ends with two commits.
Build(w) ==
  /\ run[w] # Idle /\ run[w].at = "building"
  /\ \A r \in run[w].scope : ~Overtaken(w, r, Oldest(w))
  /\ files' = UNION {Tree(r, run[w].snap[r]) : r \in run[w].scope}
  /\ docs' = UNION {Indexed(w, r, Oldest(w)) : r \in run[w].scope}
  /\ Finish(w)
  /\ UNCHANGED <<changes, revs, exists, faults>>

\* The same, but files that cannot be read are passed over.
BuildSkips(w) ==
  /\ run[w] # Idle /\ run[w].at = "building"
  /\ faults < MaxFaults
  /\ \A r \in run[w].scope : ~Overtaken(w, r, Oldest(w))
  /\ files' \in SUBSET UNION {Tree(r, run[w].snap[r]) : r \in run[w].scope}
  /\ docs' = UNION {Indexed(w, r, Oldest(w)) : r \in run[w].scope}
  /\ faults' = faults + 1
  /\ Finish(w)
  /\ UNCHANGED <<changes, revs, exists>>

\* The list of changesets that ends an update ends a build before it commits.
BuildOvertaken(w) ==
  /\ run[w] # Idle /\ run[w].at = "building"
  /\ \E r \in run[w].scope : Overtaken(w, r, Oldest(w))
  /\ Finish(w)
  /\ UNCHANGED <<changes, revs, exists, files, docs, faults>>

\* It dies after the first commit.
BuildFilesOnly(w) ==
  /\ run[w] # Idle /\ run[w].at = "building"
  /\ faults < MaxFaults
  /\ files' = UNION {Tree(r, run[w].snap[r]) : r \in run[w].scope}
  /\ faults' = faults + 1
  /\ Finish(w)
  /\ UNCHANGED <<changes, revs, exists, docs>>

\* A run dies between its commits, or does not get Whoosh's lock.
Die(w) ==
  /\ run[w] # Idle
  /\ faults < MaxFaults
  /\ faults' = faults + 1
  /\ Finish(w)
  /\ UNCHANGED <<changes, revs, exists, files, docs>>

-----------------------------------------------------------------------------
(* What starts a run.                                                      *)

\* The line of crontab in the documentation, and the task without full_index.
WholeRun(w) == UpdateFiles(w, Repos, FALSE) \/ (~exists /\ Recreate(w, Repos))

\* By hand: --index-only, --update-only, --full.
ByHand(scope) ==
  \/ UpdateFiles("cli", scope, FALSE)
  \/ UpdateFiles("cli", scope, TRUE)
  \/ Recreate("cli", scope)

Continue(w) ==
  \/ OpenSearcher(w)
  \/ UpdateChangesets(w) \/ UpdateOvertaken(w)
  \/ Build(w) \/ BuildOvertaken(w)

Fail(w) ==
  \/ \E scope \in SUBSET Repos \ {{}}, refresh \in BOOLEAN :
       /\ w = "cli" \/ (scope = Repos /\ ~refresh)
       /\ UpdateFilesFails(w, scope, refresh) \/ UpdateFilesSkips(w, scope, refresh)
  \/ UpdateFails(w) \/ BuildSkips(w) \/ BuildFilesOnly(w) \/ Die(w)

Init ==
  /\ changes = <<>>
  /\ revs = [r \in Repos |-> {}]
  /\ exists = FALSE
  /\ files = {} /\ docs = {}
  /\ run = [w \in Runners |-> Idle]
  /\ faults = 0

Next ==
  \/ \E r \in Repos :
       \/ \E path \in Paths : Push(r, path, FALSE)
       \/ \E f \in Tree(r, revs[r]) : Push(r, f.path, TRUE)
       \/ \E tip \in revs[r] : ForcePush(r, tip)
  \/ \E scope \in SUBSET Repos \ {{}} : ByHand(scope)
  \/ Recreate("task", Repos)
  \/ \E w \in Runners : WholeRun(w) \/ Continue(w) \/ Fail(w)

\* cron starts the command again and again, and a run that has begun goes on to
\* its end unless it fails; nothing is assumed of pushes or of what is started
\* by hand.
Fairness ==
  /\ SF_vars(WholeRun("cli"))
  /\ \A w \in Runners : WF_vars(Continue(w))

Spec == Init /\ [][Next]_vars /\ Fairness

-----------------------------------------------------------------------------
(* What makes the index right.                                             *)

TypeOK ==
  /\ DOMAIN changes \subseteq Changesets
  /\ revs \in [Repos -> SUBSET Changesets]
  /\ exists \in BOOLEAN
  /\ files \subseteq FileDoc
  /\ docs \subseteq ChangesetDoc
  /\ \A w \in Runners : run[w] = Idle \/ run[w] \in Run
  /\ faults \in 0..MaxFaults

\* A search finds a file once: whatever runs failed half-way or overlapped, no
\* two documents are of the same file.
OneDocumentPerFile == \A d, e \in files : SameFile(d, e) => d = e

Found(r, id) == \E d \in docs : d.repo = r /\ d.id = id

\* A mark tells the truth: a changeset that is marked as the last one, and still
\* is in its repository, has only changesets before it that a search finds.  So
\* going on from any mark leaves nothing out, also from one that a run which
\* began earlier or knew less has left behind.
MarksComplete ==
  \A d \in docs :
    d.last /\ d.id \in revs[d.repo] =>
      \A i \in revs[d.repo] : i <= d.id => Found(d.repo, i)

\* A run that gets past its files, and could read them all, has every file of its
\* repositories in the index, also those whose documents it, or a run that failed
\* or passed over them, has deleted; with --update-only none is there as it was
\* before its last change.
RunListsFiles ==
  [][\A scope \in SUBSET Repos, refresh \in BOOLEAN :
       UpdateFiles("cli", scope, refresh) =>
         \A r \in scope : \A f \in Tree(r, revs[r]) :
           \E d \in files' : SameFile(d, f) /\ (refresh => d.modtime >= f.modtime)]_vars

Complete ==
  \A r \in Repos :
    /\ \A i \in revs[r] : Found(r, i)
    /\ \A f \in Tree(r, revs[r]) : \E d \in files : SameFile(d, f)

\* Again and again the index has every file and every changeset, although runs
\* overlap, are overtaken by pushes, fail, pass over files that could not be read
\* then, and begin from marks of other runs.
CatchesUp == []<>Complete
=============================================================================
