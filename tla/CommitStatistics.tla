-------------------------- MODULE CommitStatistics --------------------------
(***************************************************************************)
(* get_commits_stats in lib/celerylib/tasks.py: a task that counts the     *)
(* next revisions of a repository into its row of statistics and puts      *)
(* itself back into the queue until all are counted.  A visit to the       *)
(* statistics page starts one; the name of its lock has the day in it, so  *)
(* that around midnight two tasks for the repository have two locks.       *)
(*                                                                         *)
(* Revisions are numbered from 0 and only ever added: nothing is stripped. *)
(* The counts by author and by day are columns of the row, next to the     *)
(* revision they go up to; here they are how often each revision was       *)
(* counted.                                                                *)
(***************************************************************************)
EXTENDS DaemonLock, Sequences

CONSTANTS
  ParseLimit,     \* commit_parse_limit
  RecurseLimit,
  MaxRevisions,   \* bound of the repository
  MaxQueue,       \* bound on the queue for a visit to add to it
  MaxCount        \* larger counts are this one

Revisions == 0 .. MaxRevisions - 1

Rows == [on : Revisions, counts : [Revisions -> 0 .. MaxCount]]

\* With a limit of 1, last_rev + 1 is never reached: the task stays at revision 0.
ASSUME StatisticsAssumption ==
  /\ ParseLimit \in Nat /\ ParseLimit > 1
  /\ {RecurseLimit, MaxRevisions, MaxQueue, MaxCount} \subseteq Nat
  /\ MaxRevisions > 0 /\ MaxCount > 1
  /\ None \notin Rows

VARIABLES
  size,       \* number of revisions of the repository
  row,        \* the row of statistics, or None
  queue,      \* tasks that wait for a worker
  limit,      \* limit[w]: recurse_limit of the task of w, 0 if it has none
  seen,       \* seen[w]: the size of the repository as w opened it, or 0
  cur_stats,  \* cur_stats[w]: the row that w has read, or None
  overlap,    \* two tasks worked on the statistics at the same time
  erased      \* revisions that the row went on naming when a task that had not come
              \* to them wrote its counts over those of another

statVars == <<size, row, queue, limit, seen, cur_stats, overlap, erased>>
vars == <<lockVars, statVars>>

Init ==
  /\ LockInit
  /\ size \in 0 .. 1
  /\ row = None
  /\ queue = <<>>
  /\ limit = [w \in Workers |-> 0]
  /\ seen = [w \in Workers |-> 0]
  /\ cur_stats = [w \in Workers |-> None]
  /\ overlap = FALSE
  /\ erased = {}

-----------------------------------------------------------------------------
Push ==
  /\ size < MaxRevisions
  /\ size' = size + 1
  /\ UNCHANGED <<lockVars, row, queue, limit, seen, cur_stats, overlap, erased>>

\* The statistics page, on the day of k.
Visit(k) ==
  /\ Len(queue) < MaxQueue
  /\ queue' = Append(queue, [key |-> k, limit |-> RecurseLimit])
  /\ UNCHANGED <<lockVars, size, row, limit, seen, cur_stats, overlap, erased>>

Take(w) ==
  /\ queue # <<>>
  /\ StartLock(w, Head(queue).key)
  /\ limit' = [limit EXCEPT ![w] = Head(queue).limit]
  /\ queue' = Tail(queue)
  /\ UNCHANGED <<size, row, seen, cur_stats, overlap, erased>>

\* The variables of a task are gone with it.
Forgotten(w) ==
  /\ limit' = IF at'[w] = "idle" THEN [limit EXCEPT ![w] = 0] ELSE limit
  /\ seen' = IF at'[w] = "idle" THEN [seen EXCEPT ![w] = 0] ELSE seen
  /\ cur_stats' = IF at'[w] \in {"idle", "done"} THEN [cur_stats EXCEPT ![w] = None]
                  ELSE cur_stats
  /\ UNCHANGED <<size, row, queue, overlap, erased>>

LockStep(w) ==
  /\ trylock(w) \/ RemoveStale(w) \/ makelock(w) \/ WriteLock(w)
  /\ Forgotten(w)

Working(w) == at[w] \in {"opened", "parse"}

\* repo.scm_instance and repo.count()
OpenRepository(w) ==
  /\ at[w] = "locked"
  /\ seen' = [seen EXCEPT ![w] = size]
  /\ Goto(w, IF size < 1 THEN "done" ELSE "opened")
  /\ overlap' = (overlap \/ \E v \in Workers \ {w} : Working(v))
  /\ UNCHANGED <<file, pid, key, held, size, row, queue, limit, cur_stats, erased>>

\* "pass silently without any work" at the last revision, if it is not the first
ReadRow(w) ==
  /\ at[w] = "opened"
  /\ IF row # None /\ row.on = seen[w] - 1 /\ seen[w] > 1
     THEN Goto(w, "done") /\ UNCHANGED cur_stats
     ELSE Goto(w, "parse") /\ cur_stats' = [cur_stats EXCEPT ![w] = row]
  /\ UNCHANGED <<file, pid, key, held, size, row, queue, limit, seen, overlap, erased>>

\* The repository is gone, or something raises.
TaskFails(w) ==
  /\ at[w] \in {"locked", "opened", "parse"}
  /\ EndTask(w)
  /\ Forgotten(w)

\* Wrong: the slice begins with the last revision that was counted.
firstAgain(stats) == IF stats = None THEN 0 ELSE stats.on

\* last_rev, after the row was read: for None and for 0 it is 0.
first(stats) == IF stats = None \/ stats.on = 0 THEN 0 ELSE stats.on + 1

Smaller(m, n) == IF m < n THEN m ELSE n

\* Wrong: the row is said to be up to date with the repository.
countedToEnd(stats, n) ==
  LET from == first(stats)
      to == Smaller(from + ParseLimit, n)
      before == IF stats = None THEN [r \in Revisions |-> 0] ELSE stats.counts
  IN  [on |-> n - 1,
       counts |-> [r \in Revisions |->
         IF r \in from .. to - 1 THEN Smaller(before[r] + 1, MaxCount) ELSE before[r]]]

\* The row after the next slice of a repository with n revisions.
counted(stats, n) ==
  LET from == first(stats)
      to == Smaller(from + ParseLimit, n)
      before == IF stats = None THEN [r \in Revisions |-> 0] ELSE stats.counts
  IN  [on |-> IF from < to THEN to - 1 ELSE 0,
       counts |-> [r \in Revisions |->
         IF r \in from .. to - 1 THEN Smaller(before[r] + 1, MaxCount) ELSE before[r]]]

\* Only the columns that differ from what the task has read are written; the counts
\* differ if the slice is not empty.
Written(now, stats, n) ==
  LET new == counted(stats, n)
  IN  [on |-> IF new.on = stats.on THEN now.on ELSE new.on,
       counts |-> IF first(stats) < n THEN new.counts ELSE now.counts]

\* The row is unique: of two tasks that found none, one fails.
CommitRow(w) ==
  /\ at[w] = "parse"
  /\ cur_stats[w] = None => row = None
  /\ row' = IF cur_stats[w] = None THEN counted(None, seen[w])
            ELSE Written(row, cur_stats[w], seen[w])
  /\ erased' = erased \cup
       {r \in Revisions : counted(cur_stats[w], seen[w]).on < r /\ r <= row'.on}
  /\ cur_stats' = [cur_stats EXCEPT ![w] = None]
  /\ Goto(w, "more")
  /\ UNCHANGED <<file, pid, key, held, size, queue, limit, seen, overlap>>

CommitFails(w) ==
  /\ at[w] = "parse"
  /\ Goto(w, "done")
  /\ Forgotten(w)
  /\ UNCHANGED <<file, pid, key, held>>

\* Another task takes over, unless there is nothing more that it could do.
ReleaseLock(w) ==
  /\ at[w] \in {"done", "more"}
  /\ release(w, IF at[w] = "more" /\ seen[w] > 1 /\ limit[w] > 0
                THEN "again" ELSE "idle")
  /\ Forgotten(w)

Again(w) ==
  /\ at[w] = "again"
  /\ EndTask(w)
  /\ queue' = Append(queue, [key |-> key[w], limit |-> limit[w] - 1])
  /\ limit' = [limit EXCEPT ![w] = 0]
  /\ seen' = [seen EXCEPT ![w] = 0]
  /\ UNCHANGED <<size, row, cur_stats, overlap, erased>>

-----------------------------------------------------------------------------
\* The row that makes the insertion fail is there.
Rejected(w) == CommitFails(w) /\ cur_stats[w] = None /\ row # None

Step(w) ==
  \/ Take(w) \/ LockStep(w)
  \/ OpenRepository(w) \/ ReadRow(w) \/ CommitRow(w) \/ Rejected(w)
  \/ ReleaseLock(w) \/ Again(w)
  \/ Restart(w) /\ UNCHANGED statVars

Trouble(w) ==
  \/ TaskFails(w) \/ CommitFails(w)
  \/ Kill(w) /\ Forgotten(w)
  \/ Exit(w) /\ UNCHANGED statVars

Next ==
  \/ Push
  \/ \E k \in Keys : Visit(k)
  \/ \E w \in Workers : Step(w) \/ Trouble(w)

\* A worker goes on with its task, takes the next one, and is replaced when its
\* process ends.  Nobody has to visit the page or push, and nothing has to fail.
Spec == Init /\ [][Next]_vars /\ \A w \in Workers : WF_vars(Step(w))

-----------------------------------------------------------------------------
TypeOK ==
  /\ LockTypeOK
  /\ at \in [Workers -> {"idle", "locked", "opened", "parse", "done", "more", "again"}
                          \cup Trying]
  /\ size \in 0 .. MaxRevisions
  /\ row \in Rows \cup {None}
  /\ \A i \in DOMAIN queue : queue[i].key \in Keys /\ queue[i].limit \in 0 .. RecurseLimit
  /\ seen \in [Workers -> 0 .. MaxRevisions]
  /\ overlap \in BOOLEAN /\ erased \subseteq Revisions

\* However many tasks get past the lock and write over each other's columns, the
\* counts leave out no revision up to the one that the row names, except those that
\* a task which had found the first revision alone has erased.
NothingMissed ==
  row # None => \A r \in 0 .. row.on : row.counts[r] > 0 \/ r \in erased

\* Unless two tasks worked at the same time, a revision is counted once when the
\* row has come to it and not before; the first revision is counted again by
\* every task that finds the row at it.
CountedOnce ==
  ~overlap /\ row # None =>
    \A r \in Revisions \ {0} : row.counts[r] = (IF r <= row.on THEN 1 ELSE 0)

\* If the page is visited again and again, and from some time on no worker ends,
\* no task fails and no lock is left where nobody holds it, the statistics come
\* to the last revision: dead workers' locks are taken over, and the tasks that
\* overwrite each other's row in a race cannot do so forever.
CaughtUp == size = 0 \/ (row # None /\ row.on = size - 1)
CatchesUp ==
  /\ <>[][~\E w \in Workers : Trouble(w) /\ ~Rejected(w)]_vars
  /\ <>[](\A k \in Keys : ~Blocked(k))
  /\ []<><<\E k \in Keys : Visit(k)>>_vars
  => []<>CaughtUp
=============================================================================
