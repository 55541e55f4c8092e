------------------------- MODULE RepositoryActivity -------------------------
(***************************************************************************)
(* How a repository changes under Kallithea: by a push, by a fetch from    *)
(* its clone URL, and by editing, deleting or adding a file on the web     *)
(* (controllers/files.py, ScmModel in model/scm.py).  After each of them   *)
(* the hooks put what arrived into the journal and bring the changeset     *)
(* cache of the repository's row up to date (lib/hooks.py, Repository in   *)
(* model/db.py).  The repository lies on disk and the row in the database: *)
(* nothing makes the two a single step, and workers interleave.            *)
(*                                                                         *)
(* Changesets are numbered as they are made, and dated in that order.  The *)
(* two back ends differ: a git branch is a reference that the commit sets, *)
(* a Mercurial changeset says which branch it is on.                       *)
(***************************************************************************)
EXTENDS Integers, Sequences, FiniteSets

CONSTANTS
  Workers,
  Branches,
  Main,           \* DEFAULT_BRANCH_NAME: "master" or "default"
  MaxChangesets,  \* bound of the repository
  MaxRequests     \* bound on what the workers and the world outside start

ASSUME ActivityAssumption ==
  /\ Main \in Branches
  /\ {MaxChangesets, MaxRequests} \subseteq Nat

VARIABLES
  kind,         \* "git" or "hg", for good
  log,          \* the changesets: their parent (0: none) and their branch
  refs,         \* git: the changeset each branch is at, 0 if it is not there
  head,         \* git: the branch that HEAD names
  journal,      \* the changesets in the journal
  cache,        \* the changeset_cache of the row, 0 before the first
  workers,      \* what each worker is doing
  requests,     \* how much was started
  unannounced,  \* changesets that the hooks need not have told of
  suspect       \* the cache may be stale: see CacheFollows

vars == <<kind, log, refs, head, journal, cache, workers, requests,
          unannounced, suspect>>

Ops == {"edit", "delete", "add", "push", "fetch", "local"}
Steps == {"idle", "resolve", "commit", "journal", "row", "tip", "write"}

Idle == [step |-> "idle", op |-> "local", cs |-> 0, branch |-> Main,
         old |-> 0, row |-> 0, tip |-> 0, overtaken |-> FALSE, alone |-> FALSE]

Changesets == 1 .. Len(log)
Largest(S) == CHOOSE c \in S : \A d \in S : d <= c

\* c and all it descends from.
Ancestors(c) ==
  LET above[d \in 0 .. Len(log)] ==
        IF d = 0 THEN {} ELSE {d} \cup above[log[d].parent]
  IN above[c]

Children(c, b) == {d \in Changesets : log[d].parent = c /\ log[d].branch = b}

Heads(b) ==
  IF kind = "git" THEN {refs[b]} \ {0}
  ELSE {c \in Changesets : log[c].branch = b /\ Children(c, b) = {}}

Reachable ==
  IF kind = "git" THEN UNION {Ancestors(refs[b]) : b \in Branches}
  ELSE Changesets

Empty == IF kind = "git" THEN refs[head] = 0 ELSE log = <<>>

\* get_changeset() of a new instance that is not empty.
Tip == Largest(Reachable)

\* What "branches" of an instance maps the names to.
BranchTips ==
  IF Empty THEN {} ELSE {Largest(Heads(b)) : b \in {a \in Branches : Heads(a) # {}}}

Init ==
  /\ kind \in {"git", "hg"}
  /\ log = <<>>
  /\ refs = [b \in Branches |-> 0]
  /\ head = Main
  /\ journal = {}
  /\ cache = 0
  /\ workers = [w \in Workers |-> Idle]
  /\ requests = 0
  /\ unannounced = {}
  /\ suspect = FALSE

-----------------------------------------------------------------------------
Begin(w, r) ==
  /\ workers[w].step = "idle"
  /\ requests < MaxRequests
  /\ requests' = requests + 1
  /\ workers' = [workers EXCEPT ![w] = r]

\* The repository has changed under the requests of the others.
Overtaken(r) ==
  [r EXCEPT !.overtaken = @ \/ r.step \in {"resolve", "commit"}]

\* The others that are about to write the cache may not see the last change.
Disturbed(r) == [r EXCEPT !.alone = FALSE]

Made(parent, b) ==
  Append(log, [parent |-> parent, branch |-> IF kind = "git" THEN Main ELSE b])

Pointed(b, c) == IF kind = "git" THEN [refs EXCEPT ![b] = c] ELSE refs

\* One changeset more on b, forced or not; or, with git, b comes to be at
\* one that is there, or is deleted if HEAD does not name it.
Arrives(b, c) ==
  /\ \/ /\ c = Len(log) + 1
        /\ c <= MaxChangesets
        /\ \E p \in {0} \cup Reachable : log' = Made(p, b)
     \/ /\ kind = "git"
        /\ c \in ({0} \cup Reachable) \ {refs[b]}
        /\ c = 0 => b # head
        /\ log' = log
  /\ refs' = Pointed(b, c)

\* What the hooks are told: git names each branch with its two ends, before and
\* after; Mercurial names the changesets.
Told(op, b, c) ==
  LET told == [Idle EXCEPT !.step = "journal", !.cs = c]
  IN IF kind = "hg" THEN told
     ELSE IF op = "fetch" THEN [told EXCEPT !.op = op]
     ELSE [told EXCEPT !.op = op, !.branch = b, !.old = refs[b]]

\* The repository has changed before the hooks are called.
Receive(w, op, b) ==
  \E c \in 0 .. Len(log) + 1 :
    /\ workers[w].step = "idle"
    /\ requests < MaxRequests
    /\ requests' = requests + 1
    /\ Arrives(b, c)
    /\ workers' = [v \in Workers |->
         IF v = w THEN Told(op, b, c) ELSE Overtaken(workers[v])]
    /\ UNCHANGED <<kind, head, journal, cache, unannounced, suspect>>

\* From a client of git or hg, through the hooks that Kallithea installs.
Push(w) == \E b \in Branches : Receive(w, "push", b)

\* pull_changes: with git, what the branches of the clone URL are at.
PullChanges(w, b) == Receive(w, "fetch", b)

\* On the page of the remote: from the clone URL, or from the fork's origin.
EditRemote(w) == \E b \in Branches : PullChanges(w, b)

\* By JSON-RPC, from any URL.
PullViaApi(w) == \E b \in Branches : PullChanges(w, b)

\* A push past Kallithea, in the file system: no hook tells of it.
PushOutside(b) ==
  \E c \in 0 .. Len(log) + 1 :
    /\ requests < MaxRequests
    /\ requests' = requests + 1
    /\ Arrives(b, c)
    /\ workers' = [v \in Workers |-> Disturbed(Overtaken(workers[v]))]
    /\ unannounced' = unannounced \cup (Len(log) + 1 .. Len(log'))
    /\ suspect' = TRUE
    /\ UNCHANGED <<kind, head, journal, cache>>

-----------------------------------------------------------------------------
\* A request that has found its changeset, and its file in it.
Open(w, op, c) ==
  /\ Begin(w, [Idle EXCEPT !.step = "resolve", !.op = op, !.cs = c])
  /\ UNCHANGED <<kind, log, refs, head, journal, cache, unannounced, suspect>>

\* Wrong: the revision of an edit need not be a branch.
EditAnywhere(w) == ~Empty /\ \E c \in Reachable : Open(w, "edit", c)

\* "check if revision is a branch name or branch hash"
Edit(w) == \E c \in BranchTips : Open(w, "edit", c)
Delete(w) == \E c \in BranchTips : Open(w, "delete", c)

\* Adding is not checked; an empty repository has no changeset to start from.
Add(w) == \E c \in IF Empty THEN {0} ELSE Reachable : Open(w, "add", c)

\* cs.branch, which commit takes for DEFAULT_BRANCH_NAME if there is none.
BranchesOf(c) ==
  LET at == {b \in Branches : refs[b] = c}
  IN IF c = 0 THEN {Main}
     ELSE IF kind = "hg" THEN {log[c].branch}
     ELSE IF at = {} THEN {Main} ELSE at

Resolve(w) ==
  /\ workers[w].step = "resolve"
  /\ \E b \in BranchesOf(workers[w].cs) :
       workers' = [workers EXCEPT ![w].step = "commit", ![w].branch = b]
  /\ UNCHANGED <<kind, log, refs, head, journal, cache, requests, unannounced,
                 suspect>>

\* commit of the back end, from the changeset that the request has opened.
Commit(w) ==
  LET r == workers[w]
      new == Len(log) + 1
  IN /\ r.step = "commit"
     /\ new <= MaxChangesets
     /\ log' = Made(r.cs, r.branch)
     /\ refs' = Pointed(r.branch, new)
     /\ workers' = [v \in Workers |->
          IF v = w THEN [Idle EXCEPT !.step = "journal", !.cs = new]
          ELSE Overtaken(workers[v])]
     /\ UNCHANGED <<kind, head, journal, cache, requests, unannounced, suspect>>

\* commit raises.  commit_change, for an edit, still refreshes the cache.
CommitFails(w) ==
  /\ workers[w].step = "commit"
  /\ workers' = [workers EXCEPT ![w] =
       IF workers[w].op = "edit" THEN [Idle EXCEPT !.step = "row"] ELSE Idle]
  /\ UNCHANGED <<kind, log, refs, head, journal, cache, requests, unannounced,
                 suspect>>

-----------------------------------------------------------------------------
\* git log: what is on the new branch and on no other one, or what is new on
\* an old branch.
OnOtherBranches(b) == UNION {Ancestors(refs[a]) : a \in Branches \ {b}}

\* Wrong: the list of the other branches still has the new one in it.
GitRevsOfNone(r) ==
  IF r.old = 0 THEN Ancestors(r.cs) \ UNION {Ancestors(refs[a]) : a \in Branches}
  ELSE Ancestors(r.cs) \ Ancestors(r.old)

GitRevs(r) ==
  IF r.old = 0 THEN Ancestors(r.cs) \ OnOtherBranches(r.branch)
  ELSE Ancestors(r.cs) \ Ancestors(r.old)

\* Wrong: a fetch tells of what the branch came to be at, if it was deleted too.
RevsOfFetch(r) ==
  IF kind = "hg" \/ r.op \in {"local", "fetch"} THEN {r.cs} ELSE GitRevs(r)

\* The revisions that process_pushed_raw_ids is called with.
Revs(r) ==
  IF kind = "hg" \/ r.op = "local" THEN {r.cs}
  ELSE IF r.op = "fetch" THEN {} ELSE GitRevs(r)

\* The git hook of a push finds the repository empty: HEAD names no branch.
NewHead(r) ==
  IF kind = "git" /\ r.op = "push" /\ r.old = 0 /\ Empty THEN r.branch ELSE head

\* Git: what a fetch brought, and what a push brought if another branch has it.
Untold(r) ==
  {c \in {r.cs} \ {0} :
     /\ kind = "git"
     /\ \/ r.op = "fetch"
        \/ r.op = "push" /\ c \in OnOtherBranches(r.branch)}

\* action_logger, which commits.
Journal(w) ==
  LET r == workers[w]
  IN /\ r.step = "journal"
     /\ head' = NewHead(r)
     /\ journal' = journal \cup Revs(r)
     /\ unannounced' = unannounced \cup Untold(r)
     /\ workers' = [workers EXCEPT ![w] = [Idle EXCEPT !.step = "row"]]
     /\ UNCHANGED <<kind, log, refs, cache, requests, suspect>>

Window == {"tip", "write"}

\* mark_for_invalidation loads the row.
ReadRow(w) ==
  /\ workers[w].step = "row"
  /\ LET others == {v \in Workers \ {w} : workers[v].step \in Window}
     IN workers' = [v \in Workers |->
          IF v = w THEN [Idle EXCEPT !.step = "tip", !.row = cache,
                                     !.alone = (others = {})]
          ELSE Disturbed(workers[v])]
  /\ UNCHANGED <<kind, log, refs, head, journal, cache, requests, unannounced,
                 suspect>>

\* update_changeset_cache opens the repository anew.
ReadTip(w) ==
  /\ workers[w].step = "tip"
  /\ ~Empty
  /\ workers' = [workers EXCEPT ![w].step = "write", ![w].tip = Tip]
  /\ UNCHANGED <<kind, log, refs, head, journal, cache, requests, unannounced,
                 suspect>>

\* EmptyRepositoryError: nothing catches it.
NoTip(w) ==
  /\ workers[w].step = "tip"
  /\ Empty
  /\ workers' = [workers EXCEPT ![w] = Idle]
  /\ suspect' = TRUE
  /\ UNCHANGED <<kind, log, refs, head, journal, cache, requests, unannounced>>

\* Wrong: "and" for "or", so that the cache is only ever filled.
CacheOnce(r) == IF r.row = 0 THEN r.tip ELSE cache

CacheAfter(r) == IF r.tip # r.row THEN r.tip ELSE cache

WriteCache(w) ==
  /\ workers[w].step = "write"
  /\ cache' = CacheAfter(workers[w])
  /\ suspect' = ~workers[w].alone
  /\ workers' = [workers EXCEPT ![w] = Idle]
  /\ UNCHANGED <<kind, log, refs, head, journal, requests, unannounced>>

-----------------------------------------------------------------------------
Refresh(w) ==
  /\ Begin(w, [Idle EXCEPT !.step = "row"])
  /\ UNCHANGED <<kind, log, refs, head, journal, cache, unannounced, suspect>>

\* kallithea-cli repo-update-metadata, for one of its repositories.
UpdateMetadata(w) == Refresh(w)

\* The JSON-RPC call.
InvalidateCache(w) == Refresh(w)

\* The worker is killed, or the database fails it.
Crash(w) ==
  LET r == workers[w]
      told == r.step # "journal"
  IN /\ r.step # "idle"
     /\ IF r.step \in {"resolve", "commit"}
        THEN /\ workers' = [workers EXCEPT ![w] = Idle]
             /\ UNCHANGED <<unannounced, suspect>>
        ELSE /\ workers' = [v \in Workers |->
                  IF v = w THEN Idle ELSE Disturbed(workers[v])]
             /\ unannounced' = unannounced \cup (IF told THEN {} ELSE {r.cs} \ {0})
             /\ suspect' = TRUE
     /\ UNCHANGED <<kind, log, refs, head, journal, cache, requests>>

WebStep(w) ==
  \/ Edit(w) \/ Delete(w) \/ Add(w)
  \/ Resolve(w)
  \/ Commit(w)
  \/ CommitFails(w)

HookStep(w) == Journal(w) \/ ReadRow(w) \/ ReadTip(w) \/ NoTip(w) \/ WriteCache(w)

Next ==
  \/ \E b \in Branches : PushOutside(b)
  \/ \E w \in Workers :
       \/ Push(w)
       \/ EditRemote(w) \/ PullViaApi(w)
       \/ WebStep(w)
       \/ HookStep(w)
       \/ UpdateMetadata(w) \/ InvalidateCache(w)
       \/ Crash(w)

Spec == Init /\ [][Next]_vars

-----------------------------------------------------------------------------
\* The types of the variables; a changeset comes after its parent.
Known == 0 .. Len(log)

TypeOK ==
  /\ kind \in {"git", "hg"}
  /\ Len(log) <= MaxChangesets
  /\ \A c \in Changesets :
       log[c].parent \in 0 .. c - 1 /\ log[c].branch \in Branches
  /\ refs \in [Branches -> Known]
  /\ head \in Branches
  /\ journal \subseteq Changesets
  /\ cache \in Known
  /\ workers \in [Workers ->
       [step : Steps, op : Ops, cs : Known, branch : Branches, old : Known,
        row : Known, tip : Known, overtaken : BOOLEAN, alone : BOOLEAN]]
  /\ requests \in 0 .. MaxRequests
  /\ unannounced \subseteq Changesets
  /\ suspect \in BOOLEAN

Quiet == \A w \in Workers : workers[w].step = "idle"

\* "In normal operation, Kallithea will keep caches up-to-date automatically"
\* (kallithea-cli repo-update-metadata): once nobody is at work, the row names
\* the tip of the repository.  The exceptions, until a worker that nobody
\* disturbs has refreshed the cache: two workers refreshed it at a time and
\* the one that saw the older tip may have been the last; one died after its
\* change; a branch that HEAD names was not there; or a push went past the
\* hooks.  repo-update-metadata repairs each of them.
CacheFollows == (Quiet /\ ~suspect /\ ~Empty) => cache = Tip

\* Every changeset that came through Kallithea is in the journal, or soon will
\* be.  The exceptions: git, fetched from a clone URL or pushed with a new
\* branch while another branch came to have it before the hook looked; and
\* those whose worker died before it wrote.
EveryChangesetAnnounced ==
  \A c \in Changesets :
    \/ c \in journal \cup unannounced
    \/ \E w \in Workers : workers[w].step = "journal" /\ workers[w].cs = c

\* "we cannot create multiple heads via file editing" (files.py): an edit or a
\* deletion on the web that nobody overtakes leaves a branch with no more
\* heads than it had, and takes no changeset away from the branches.
EditsExtendBranch ==
  [][\A w \in Workers :
       (/\ workers[w].step = "commit" /\ workers'[w].step = "journal"
        /\ workers[w].op # "add" /\ ~workers[w].overtaken)
       => /\ Reachable \subseteq Reachable'
          /\ \A b \in Branches : Cardinality(Heads(b)') <= Cardinality(Heads(b))]_vars
=============================================================================
