------------------------ MODULE CommitStatisticsProofs ------------------------
(***************************************************************************)
(* Proofs about CommitStatistics for any number of workers, lock files,    *)
(* revisions and tasks in the queue.  The lock does not keep two tasks     *)
(* apart, so what holds of the counts rests on the row and on the copies   *)
(* of it that tasks have read, and not on the lock.                        *)
(***************************************************************************)
EXTENDS CommitStatistics, SequenceTheorems, TLAPS

-----------------------------------------------------------------------------
(* The lock files: whoever has one open is writing the lock of its task.   *)

Places == {"idle", "locked", "opened", "parse", "done", "more", "again"} \cup Trying

LockFiles == [text : Pids \cup {""}, open : SUBSET Workers]

LockInv ==
  /\ file \in [Keys -> LockFiles \cup {None}]
  /\ \A k \in Keys : file[k] # None =>
       \A w \in file[k].open : at[w] = "write" /\ key[w] = k
  /\ pid \in [Workers -> Pids \cup {None}]
  /\ at \in [Workers -> Places]
  /\ key \in [Workers -> Keys \cup {None}]
  /\ held \in [Workers -> SUBSET Keys]
  /\ \A w \in Workers : /\ at[w] # "idle" => pid[w] # None
                        /\ at[w] = "idle" <=> key[w] = None

(* The statistics: rows, whether in the database or read by a task.        *)

Tasks == [key : Keys, limit : 0 .. RecurseLimit]

StatInv ==
  /\ size \in 0 .. MaxRevisions
  /\ row \in Rows \cup {None}
  /\ cur_stats \in [Workers -> Rows \cup {None}]
  /\ queue \in Seq(Tasks)
  /\ limit \in [Workers -> 0 .. RecurseLimit]
  /\ seen \in [Workers -> 0 .. MaxRevisions]
  /\ overlap \in BOOLEAN
  /\ erased \subseteq Revisions

\* A task works on a repository that has revisions, and it comes back only as
\* often as it may.
TaskInv ==
  \A w \in Workers : /\ Working(w) => seen[w] >= 1
                     /\ at[w] = "again" => limit[w] > 0

\* What a task has read is there: no row is deleted.
ReadInv == \A w \in Workers : cur_stats[w] # None => row # None

TypeInv == LockInv /\ StatInv /\ TaskInv /\ ReadInv

-----------------------------------------------------------------------------
(* What the counts say.                                                    *)

Complete(r) == r # None => \A i \in 0 .. r.on : r.counts[i] > 0 \/ i \in erased

CompleteInv == Complete(row) /\ \A w \in Workers : Complete(cur_stats[w])

\* The row never names a revision that the repository does not have.
SizeInv ==
  /\ row # None => row.on < size
  /\ \A w \in Workers : seen[w] <= size

Exact(r) ==
  r # None => \A i \in Revisions \ {0} : r.counts[i] = (IF i <= r.on THEN 1 ELSE 0)

\* As long as no two tasks have worked at the same time, the one at work has
\* read the row that is there, and it is not the last one of the repository
\* that the task has opened.
AloneInv ==
  ~overlap =>
    /\ Exact(row)
    /\ \A v, w \in Workers : Working(v) /\ Working(w) => v = w
    /\ \A w \in Workers : Working(w) /\ row # None => row.on <= seen[w] - 1
    /\ \A w \in Workers : at[w] = "parse" =>
         /\ cur_stats[w] = row
         /\ row # None /\ seen[w] > 1 => row.on # seen[w] - 1

-----------------------------------------------------------------------------
(* The lock.                                                               *)

\* Where the next thing a task does is set, and its lock forgotten with it.
LEMMA Placed ==
  ASSUME LockInv, NEW w \in Workers, NEW place \in Places, at[w] # "idle", Proceed(w, place)
  PROVE  /\ at' \in [Workers -> Places]
         /\ key' \in [Workers -> Keys \cup {None}]
         /\ \A v \in Workers \ {w} : at'[v] = at[v] /\ key'[v] = key[v]
         /\ at'[w] = place /\ (place # "idle" => key'[w] = key[w])
         /\ \A v \in Workers : at'[v] = "idle" <=> key'[v] = None
         /\ \A v \in Workers : at'[v] # "idle" => pid[v] # None
<1>1. at' \in [Workers -> Places] /\ at'[w] = place /\ \A v \in Workers \ {w} : at'[v] = at[v]
  BY DEF LockInv, Proceed, Goto
<1>2. key' \in [Workers -> Keys \cup {None}] /\ \A v \in Workers \ {w} : key'[v] = key[v]
  BY DEF LockInv, Proceed
<1>3. key'[w] = IF place = "idle" THEN None ELSE key[w]
  BY DEF LockInv, Proceed
<1> QED
  BY <1>1, <1>2, <1>3 DEF LockInv

\* A step to a place other than the end is such a step.
LEMMA GotoIs ==
  ASSUME NEW w, NEW place, place # "idle", Goto(w, place), UNCHANGED key
  PROVE  Proceed(w, place)
BY DEF Proceed

\* Whoever has a file open is about to write the lock of its task.
LEMMA OpenedBy ==
  ASSUME LockInv, NEW k \in Keys, file[k] # None
  PROVE  /\ file[k] \in LockFiles /\ file[k].open \subseteq Workers
         /\ \A v \in file[k].open : v \in Workers /\ at[v] = "write" /\ key[v] = k
<1>1. file[k] \in LockFiles
  BY DEF LockInv
<1>2. file[k].open \subseteq Workers
  BY <1>1 DEF LockFiles
<1> QED
  BY <1>1, <1>2 DEF LockInv

\* A task that goes on, or ends, without touching a file it has not open.
LEMMA MovesLock ==
  ASSUME LockInv, NEW w \in Workers, NEW place \in Places, at[w] \notin {"idle", "write"},
         Proceed(w, place), UNCHANGED <<file, pid, held>>
  PROVE  LockInv'
<1>1. \A k \in Keys : file'[k] # None =>
        \A v \in file'[k].open : at'[v] = "write" /\ key'[v] = k
  <2> SUFFICES ASSUME NEW k \in Keys, file[k] # None, NEW v \in file[k].open
               PROVE  at'[v] = "write" /\ key'[v] = k
    OBVIOUS
  <2>1. v \in Workers /\ at[v] = "write" /\ key[v] = k
    BY OpenedBy
  <2> QED
    BY <2>1, Placed
<1> QED
  BY <1>1, Placed DEF LockInv

\* The same with a file removed, as a stale one or on release.
LEMMA RemovesLock ==
  ASSUME LockInv, NEW w \in Workers, NEW place \in Places, at[w] \notin {"idle", "write"},
         Proceed(w, place), file' = Removed(key[w]), UNCHANGED pid,
         held' \in [Workers -> SUBSET Keys]
  PROVE  LockInv'
<1>1. file' \in [Keys -> LockFiles \cup {None}]
  BY DEF LockInv, Removed
<1>2. \A k \in Keys : file'[k] = file[k] \/ file'[k] = None
  BY DEF LockInv, Removed
<1>3. \A k \in Keys : file'[k] # None =>
        \A v \in file'[k].open : at'[v] = "write" /\ key'[v] = k
  <2> SUFFICES ASSUME NEW k \in Keys, file'[k] # None, NEW v \in file'[k].open
               PROVE  at'[v] = "write" /\ key'[v] = k
    OBVIOUS
  <2>1. file[k] # None /\ file[k] = file'[k]
    BY <1>2
  <2>2. v \in Workers /\ at[v] = "write" /\ key[v] = k
    BY <2>1, OpenedBy
  <2> QED
    BY <2>2, Placed
<1> QED
  BY <1>1, <1>3, Placed DEF LockInv

\* Opening the lock file, new or there already, and writing it.
LEMMA OpensLock ==
  ASSUME LockInv, NEW w \in Workers, makelock(w)
  PROVE  LockInv'
<1>1. at[w] = "makelock" /\ Proceed(w, "write") /\ "write" \in Places
  BY GotoIs DEF makelock, Places, Trying
<1>2. key[w] \in Keys /\ UNCHANGED <<pid, held, key>>
  BY <1>1 DEF LockInv, makelock
<1> DEFINE k == key[w]
           mine == {w} \cup (IF file[k] = None THEN {} ELSE file[k].open)
<1>3. file' = [file EXCEPT ![k] = [text |-> "", open |-> mine]]
  BY DEF makelock
<1>4. mine \subseteq Workers
  BY <1>2, OpenedBy
<1>5. file' \in [Keys -> LockFiles \cup {None}]
  <2>1. [text |-> "", open |-> mine] \in LockFiles
    BY <1>4 DEF LockFiles
  <2> QED
    BY <1>3, <2>1 DEF LockInv
<1>6. \A j \in Keys : file'[j] # None =>
        \A v \in file'[j].open : at'[v] = "write" /\ key'[v] = j
  <2> SUFFICES ASSUME NEW j \in Keys, file'[j] # None, NEW v \in file'[j].open
               PROVE  at'[v] = "write" /\ key'[v] = j
    OBVIOUS
  <2>1. CASE v = w /\ j = k
    BY <1>1, <2>1, Placed
  <2>2. CASE ~(v = w /\ j = k)
    <3>1. file[j] # None /\ v \in file[j].open
      BY <1>2, <1>3, <2>2 DEF LockInv
    <3>2. v \in Workers /\ at[v] = "write" /\ key[v] = j
      BY <3>1, OpenedBy
    <3> QED
      BY <1>1, <3>2, Placed
  <2> QED
    BY <2>1, <2>2
<1> QED
  BY <1>1, <1>2, <1>5, <1>6, Placed DEF LockInv

LEMMA WritesLock ==
  ASSUME LockInv, NEW w \in Workers, WriteLock(w)
  PROVE  LockInv'
<1>1. at[w] = "write" /\ Proceed(w, "locked") /\ "locked" \in Places
  BY GotoIs DEF WriteLock, Places
<1>2. key[w] \in Keys /\ UNCHANGED <<pid, key>> /\ pid[w] \in Pids
  BY <1>1 DEF LockInv, WriteLock
<1> DEFINE k == key[w]
           closed == [text |-> pid[w], open |-> file[k].open \ {w}]
<1>3. \/ file' = file /\ ~(file[k] # None /\ w \in file[k].open)
      \/ file' = [file EXCEPT ![k] = closed] /\ file[k] # None
  BY DEF WriteLock
<1>4. file' \in [Keys -> LockFiles \cup {None}]
  <2>1. ASSUME file[k] # None PROVE closed \in LockFiles
    <3>1. file[k].open \ {w} \subseteq Workers
      BY <1>2, <2>1, OpenedBy
    <3> QED
      BY <1>2, <3>1 DEF LockFiles
  <2> HIDE DEF closed
  <2> QED
    BY <1>3, <2>1 DEF LockInv
<1>5. \A j \in Keys : file'[j] # None =>
        \A v \in file'[j].open : at'[v] = "write" /\ key'[v] = j
  <2> SUFFICES ASSUME NEW j \in Keys, file'[j] # None, NEW v \in file'[j].open
               PROVE  at'[v] = "write" /\ key'[v] = j
    OBVIOUS
  <2>1. file[j] # None /\ v \in file[j].open /\ (j = k => v # w)
    BY <1>2, <1>3 DEF LockInv
  <2>2. v \in Workers /\ at[v] = "write" /\ key[v] = j
    BY <2>1, OpenedBy
  <2>3. v # w
    BY <2>1, <2>2
  <2> QED
    BY <1>1, <2>2, <2>3, Placed
<1>6. held' \in [Workers -> SUBSET Keys]
  BY <1>2 DEF WriteLock, LockInv
<1> QED
  BY <1>1, <1>2, <1>4, <1>5, <1>6, Placed DEF LockInv

\* A process begins, ends in an orderly way, or is killed.
LEMMA ProcessLock ==
  ASSUME LockInv, NEW w \in Workers, Restart(w) \/ Exit(w) \/ Kill(w)
  PROVE  LockInv'
<1>1. CASE Restart(w)
  <2>1. pid' \in [Workers -> Pids \cup {None}] /\ \A v \in Workers \ {w} : pid'[v] = pid[v]
    BY <1>1 DEF Restart, LockInv
  <2>2. at[w] = "idle"
    BY <1>1 DEF Restart, LockInv
  <2> QED
    BY <1>1, <2>1, <2>2 DEF Restart, LockInv
<1>2. CASE Exit(w)
  <2>1. file' = [k \in Keys |-> IF k \in held[w] THEN None ELSE file[k]]
    BY <1>2 DEF Exit
  <2>2. \A k \in Keys : file'[k] = file[k] \/ file'[k] = None
    BY <2>1
  <2>3. file' \in [Keys -> LockFiles \cup {None}]
    BY <2>1 DEF LockInv
  <2>4. /\ pid' \in [Workers -> Pids \cup {None}] /\ \A v \in Workers \ {w} : pid'[v] = pid[v]
        /\ held' \in [Workers -> SUBSET Keys] /\ at[w] = "idle" /\ UNCHANGED <<at, key>>
    BY <1>2 DEF Exit, LockInv
  <2> QED
    BY <2>2, <2>3, <2>4 DEF LockInv
<1>3. CASE Kill(w)
  <2>1. file' = [k \in Keys |-> IF file[k] = None THEN None
                                ELSE [file[k] EXCEPT !.open = @ \ {w}]]
    BY <1>3 DEF Kill
  <2>2. file' \in [Keys -> LockFiles \cup {None}]
    <3> SUFFICES ASSUME NEW k \in Keys, file[k] # None
                 PROVE  [file[k] EXCEPT !.open = @ \ {w}] \in LockFiles
      BY <2>1
    <3>1. file[k] \in LockFiles /\ file[k].open \ {w} \subseteq Workers
      BY OpenedBy
    <3> QED
      BY <3>1 DEF LockFiles
  <2>3. \A k \in Keys : file'[k] # None => file[k] # None /\ file'[k].open = file[k].open \ {w}
    <3> SUFFICES ASSUME NEW k \in Keys, file'[k] # None
                 PROVE  file[k] # None /\ file'[k].open = file[k].open \ {w}
      OBVIOUS
    <3>1. file[k] # None /\ file'[k] = [file[k] EXCEPT !.open = @ \ {w}]
      BY <2>1
    <3>2. file[k] \in LockFiles
      BY <3>1 DEF LockInv
    <3> QED
      BY <3>1, <3>2 DEF LockFiles
  <2>4. /\ pid' \in [Workers -> Pids \cup {None}] /\ \A v \in Workers \ {w} : pid'[v] = pid[v]
        /\ held' \in [Workers -> SUBSET Keys]
        /\ at' = [at EXCEPT ![w] = "idle"] /\ key' = [key EXCEPT ![w] = None]
    BY <1>3 DEF Kill, Proceed, Goto, LockInv
  <2>5. /\ at' \in [Workers -> Places] /\ key' \in [Workers -> Keys \cup {None}]
        /\ at'[w] = "idle" /\ key'[w] = None
        /\ \A v \in Workers \ {w} : at'[v] = at[v] /\ key'[v] = key[v]
    BY <2>4 DEF LockInv, Places
  <2>6. \A k \in Keys : file'[k] # None =>
          \A v \in file'[k].open : at'[v] = "write" /\ key'[v] = k
    <3> SUFFICES ASSUME NEW k \in Keys, file'[k] # None, NEW v \in file'[k].open
                 PROVE  at'[v] = "write" /\ key'[v] = k
      OBVIOUS
    <3>1. file[k] # None /\ v \in file[k].open /\ v # w
      BY <2>3
    <3>2. v \in Workers /\ at[v] = "write" /\ key[v] = k
      BY <3>1, OpenedBy
    <3> QED
      BY <2>5, <3>1, <3>2
  <2> QED
    BY <2>2, <2>4, <2>5, <2>6 DEF LockInv
<1> QED
  BY <1>1, <1>2, <1>3

-----------------------------------------------------------------------------
(* The steps of a task, apart from the three that open the repository,     *)
(* read the row and commit it.                                             *)

QuietStep(w) ==
  \/ Take(w) \/ LockStep(w) \/ TaskFails(w) \/ CommitFails(w) \/ ReleaseLock(w) \/ Again(w)
  \/ Restart(w) /\ UNCHANGED statVars
  \/ Kill(w) /\ Forgotten(w)
  \/ Exit(w) /\ UNCHANGED statVars

\* The first task in the queue.
LEMMA FirstTask ==
  ASSUME StatInv, queue # <<>>
  PROVE  Head(queue) \in Tasks /\ Tail(queue) \in Seq(Tasks)
BY HeadTailProperties DEF StatInv

\* They keep the lock's invariant, ...
LEMMA QuietLock ==
  ASSUME TypeInv, NEW w \in Workers, QuietStep(w)
  PROVE  LockInv'
<1> USE DEF TypeInv
<1>1. CASE Take(w)
  <2> DEFINE k == Head(queue).key
  <2>1. k \in Keys
    BY <1>1, FirstTask DEF Take, Tasks
  <2>2. /\ at[w] = "idle" /\ pid[w] # None /\ UNCHANGED <<file, pid, held>>
        /\ at' = [at EXCEPT ![w] = "trylock"] /\ key' = [key EXCEPT ![w] = k]
    BY <1>1 DEF Take, StartLock, Goto
  <2> HIDE DEF k
  <2>3. /\ at' \in [Workers -> Places] /\ key' \in [Workers -> Keys \cup {None}]
        /\ at'[w] = "trylock" /\ key'[w] = k
        /\ \A v \in Workers \ {w} : at'[v] = at[v] /\ key'[v] = key[v]
    BY <2>1, <2>2 DEF LockInv, Places, Trying
  <2>4. \A j \in Keys : file[j] # None =>
          \A v \in file[j].open : at'[v] = "write" /\ key'[v] = j
    BY <2>2, <2>3, OpenedBy
  <2> QED
    BY <2>1, <2>2, <2>3, <2>4, LockAssumption DEF LockInv
<1>2. CASE LockStep(w)
  <2>1. CASE trylock(w)
    <3> DEFINE found == file[key[w]]
               place == IF found = None THEN "makelock"
                        ELSE IF found.text = "" \/ Alive(found.text) THEN "idle" ELSE "stale"
    <3>1. Proceed(w, place) /\ at[w] = "trylock" /\ UNCHANGED <<file, pid, held>>
      BY <2>1 DEF trylock
    <3>2. place \in Places
      BY DEF Places, Trying
    <3> HIDE DEF place
    <3> QED
      BY <3>1, <3>2, MovesLock
  <2>2. CASE RemoveStale(w)
    BY <2>2, RemovesLock, GotoIs DEF RemoveStale, LockInv, Places, Trying
  <2>3. CASE makelock(w)
    BY <2>3, OpensLock
  <2>4. CASE WriteLock(w)
    BY <2>4, WritesLock
  <2> QED
    BY <1>2, <2>1, <2>2, <2>3, <2>4 DEF LockStep
<1>3. CASE TaskFails(w)
  BY <1>3, MovesLock DEF TaskFails, EndTask, Places
<1>4. CASE CommitFails(w)
  BY <1>4, MovesLock, GotoIs DEF CommitFails, Places
<1>5. CASE ReleaseLock(w)
  <2> DEFINE place == IF at[w] = "more" /\ seen[w] > 1 /\ limit[w] > 0 THEN "again" ELSE "idle"
  <2>1. /\ at[w] \in {"done", "more"} /\ Proceed(w, place) /\ file' = Removed(key[w])
        /\ UNCHANGED pid /\ (held' = held \/ held' = [held EXCEPT ![w] = @ \ {key[w]}])
    BY <1>5 DEF ReleaseLock, release
  <2>2. place \in Places
    BY DEF Places
  <2>3. held' \in [Workers -> SUBSET Keys]
    BY <2>1 DEF LockInv
  <2> HIDE DEF place
  <2> QED
    BY <2>1, <2>2, <2>3, RemovesLock
<1>6. CASE Again(w)
  BY <1>6, MovesLock DEF Again, EndTask, Places
<1>7. CASE Restart(w) \/ Kill(w) \/ Exit(w)
  BY <1>7, ProcessLock
<1> QED
  BY <1>1, <1>2, <1>3, <1>4, <1>5, <1>6, <1>7 DEF QuietStep

\* ... they are about one worker, which does not start to work by them, ...
LEMMA QuietPlaces ==
  ASSUME TypeInv, NEW w \in Workers, QuietStep(w)
  PROVE  /\ \A v \in Workers \ {w} : at'[v] = at[v]
         /\ at'[w] \notin {"opened", "parse"}
         /\ at'[w] = "again" => limit[w] > 0 /\ limit'[w] = limit[w]
<1> USE DEF TypeInv, LockInv
<1>1. CASE Take(w)
  <2>1. at' = [at EXCEPT ![w] = "trylock"]
    BY <1>1 DEF Take, StartLock, Goto
  <2> QED
    BY <2>1
<1>2. CASE LockStep(w)
  <2>1. \E p \in {"idle", "makelock", "stale", "write", "locked"} : Goto(w, p)
    BY <1>2 DEF LockStep, trylock, RemoveStale, makelock, WriteLock, Proceed
  <2> QED
    BY <2>1 DEF Goto
<1>3. CASE TaskFails(w) \/ Again(w)
  BY <1>3 DEF TaskFails, Again, EndTask, Goto, Proceed
<1>4. CASE CommitFails(w)
  BY <1>4 DEF CommitFails, Goto
<1>5. CASE ReleaseLock(w)
  <2>1. /\ \A v \in Workers \ {w} : at'[v] = at[v]
        /\ at'[w] = "idle" \/ (at'[w] = "again" /\ limit[w] > 0)
    BY <1>5 DEF ReleaseLock, release, Proceed, Goto
  <2>2. at'[w] = "again" => limit' = limit
    BY <1>5 DEF ReleaseLock, Forgotten
  <2> QED
    BY <2>1, <2>2
<1>6. CASE (Restart(w) \/ Exit(w)) /\ UNCHANGED statVars
  <2>1. at' = at /\ at[w] = "idle"
    BY <1>6 DEF Restart, Exit
  <2> QED
    BY <2>1
<1>7. CASE Kill(w)
  BY <1>7 DEF Kill, Goto, Proceed
<1> QED
  BY <1>1, <1>2, <1>3, <1>4, <1>5, <1>6, <1>7 DEF QuietStep

\* ... and they leave the row alone; at most the worker forgets what it knew.
LEMMA QuietFrame ==
  ASSUME TypeInv, NEW w \in Workers, QuietStep(w)
  PROVE  /\ UNCHANGED <<size, row, overlap, erased>>
         /\ seen' \in [Workers -> 0 .. MaxRevisions]
         /\ cur_stats' \in [Workers -> Rows \cup {None}]
         /\ \A v \in Workers : seen'[v] \in {0, seen[v]} /\ cur_stats'[v] \in {None, cur_stats[v]}
         /\ \A v \in Workers \ {w} : /\ seen'[v] = seen[v] /\ cur_stats'[v] = cur_stats[v]
                                     /\ limit'[v] = limit[v]
<1> USE DEF TypeInv, StatInv
<1>1. CASE Take(w)
  BY <1>1 DEF Take
<1>2. CASE Forgotten(w)
  <2>1. UNCHANGED <<size, row, overlap, erased>>
    BY <1>2 DEF Forgotten
  <2>2. seen' = seen \/ seen' = [seen EXCEPT ![w] = 0]
    BY <1>2 DEF Forgotten
  <2>3. cur_stats' = cur_stats \/ cur_stats' = [cur_stats EXCEPT ![w] = None]
    BY <1>2 DEF Forgotten
  <2>4. limit' = limit \/ limit' = [limit EXCEPT ![w] = 0]
    BY <1>2 DEF Forgotten
  <2>5. 0 \in 0 .. MaxRevisions
    BY StatisticsAssumption
  <2>6. seen' \in [Workers -> 0 .. MaxRevisions] /\ \A v \in Workers : seen'[v] \in {0, seen[v]}
    BY <2>2, <2>5
  <2>7. /\ cur_stats' \in [Workers -> Rows \cup {None}]
        /\ \A v \in Workers : cur_stats'[v] \in {None, cur_stats[v]}
    BY <2>3
  <2>8. \A v \in Workers \ {w} : /\ seen'[v] = seen[v] /\ cur_stats'[v] = cur_stats[v]
                                 /\ limit'[v] = limit[v]
    BY <2>2, <2>3, <2>4
  <2> QED
    BY <2>1, <2>6, <2>7, <2>8
<1>3. CASE Again(w)
  <2>1. 0 \in 0 .. MaxRevisions
    BY StatisticsAssumption
  <2>2. /\ seen' = [seen EXCEPT ![w] = 0] /\ limit' = [limit EXCEPT ![w] = 0]
        /\ UNCHANGED <<size, row, cur_stats, overlap, erased>>
    BY <1>3 DEF Again
  <2> QED
    BY <2>1, <2>2
<1>4. CASE UNCHANGED statVars
  BY <1>4 DEF statVars
<1> QED
  BY <1>1, <1>2, <1>3, <1>4
     DEF QuietStep, LockStep, TaskFails, CommitFails, ReleaseLock

\* So they keep the types.
LEMMA QuietTypes ==
  ASSUME TypeInv, NEW w \in Workers, QuietStep(w)
  PROVE  TypeInv'
<1>1. LockInv'
  BY QuietLock
<1>2. queue' \in Seq(Tasks) /\ limit' \in [Workers -> 0 .. RecurseLimit]
  <2> USE DEF TypeInv, StatInv
  <2>1. CASE Take(w)
    <3>1. Head(queue) \in Tasks /\ Tail(queue) \in Seq(Tasks)
      BY <2>1, FirstTask DEF Take
    <3>2. Head(queue).limit \in 0 .. RecurseLimit
      BY <3>1 DEF Tasks
    <3> QED
      BY <2>1, <3>1, <3>2 DEF Take
  <2>2. CASE Again(w)
    <3>1. key[w] \in Keys /\ limit[w] > 0
      BY <2>2 DEF Again, LockInv, TaskInv
    <3>2. limit[w] - 1 \in 0 .. RecurseLimit
      BY <3>1, StatisticsAssumption
    <3>3. [key |-> key[w], limit |-> limit[w] - 1] \in Tasks
      BY <3>1, <3>2 DEF Tasks
    <3>4. queue' \in Seq(Tasks)
      BY <2>2, <3>3, AppendProperties DEF Again
    <3>5. limit' \in [Workers -> 0 .. RecurseLimit]
      BY <2>2, StatisticsAssumption DEF Again
    <3> QED
      BY <3>4, <3>5
  <2>3. CASE Forgotten(w)
    BY <2>3, StatisticsAssumption DEF Forgotten
  <2>4. CASE UNCHANGED statVars
    BY <2>4 DEF statVars
  <2> QED
    BY <2>1, <2>2, <2>3, <2>4
       DEF QuietStep, LockStep, TaskFails, CommitFails, ReleaseLock
<1>3. StatInv'
  BY <1>2, QuietFrame DEF TypeInv, StatInv
<1>4. TaskInv'
  <2> SUFFICES ASSUME NEW v \in Workers
               PROVE  (Working(v)' => seen'[v] >= 1) /\ (at'[v] = "again" => limit'[v] > 0)
    BY DEF TaskInv
  <2>1. CASE v = w
    BY <2>1, QuietPlaces DEF Working
  <2>2. CASE v # w
    BY <2>2, QuietPlaces, QuietFrame DEF TypeInv, TaskInv, Working
  <2> QED
    BY <2>1, <2>2
<1>5. ReadInv'
  BY QuietFrame DEF TypeInv, ReadInv
<1> QED
  BY <1>1, <1>3, <1>4, <1>5 DEF TypeInv

-----------------------------------------------------------------------------
(* The next slice of a repository with n revisions.                        *)

\* What the bounds are.
LEMMA Bounds ==
  /\ ParseLimit \in Nat /\ ParseLimit > 1 /\ RecurseLimit \in Nat
  /\ MaxRevisions \in Nat /\ MaxRevisions > 0 /\ MaxCount \in Nat /\ MaxCount > 1
  /\ 0 \in Revisions /\ Revisions \subseteq Nat
BY StatisticsAssumption DEF Revisions

\* What is in a row.
LEMMA RowIs ==
  ASSUME NEW stats \in Rows \cup {None}, stats # None
  PROVE  /\ stats.on \in Revisions /\ stats.on \in Nat
         /\ stats.counts \in [Revisions -> 0 .. MaxCount]
<1>1. stats \in Rows
  OBVIOUS
<1> QED
  BY <1>1, Bounds DEF Rows

\* There is a row or there is none.
LEMMA NoneIsNoRow == \A r \in Rows : r # None
BY StatisticsAssumption

\* A slice begins after the revision of the row, unless that is the first one.
LEMMA FirstIs ==
  ASSUME NEW stats \in Rows \cup {None}
  PROVE  /\ first(stats) \in Nat
         /\ first(stats) > 0 => stats # None /\ first(stats) = stats.on + 1
         /\ first(stats) = 0 => stats = None \/ stats.on = 0
<1>1. stats # None => stats.on \in Nat
  BY RowIs
<1> QED
  BY <1>1 DEF first

\* The counts of the revisions of the slice go up by one, the others stay, and
\* the row goes on to the last of the slice, if there is one.
LEMMA CountedIs ==
  ASSUME NEW stats \in Rows \cup {None}, NEW n \in 1 .. MaxRevisions
  PROVE  \E to \in 0 .. n :
           /\ counted(stats, n).on = IF first(stats) < to THEN to - 1 ELSE 0
           /\ first(stats) < n => first(stats) < to
           /\ \A r \in Revisions :
                counted(stats, n).counts[r] =
                  LET before == IF stats = None THEN 0 ELSE stats.counts[r]
                  IN  IF r \in first(stats) .. to - 1
                      THEN Smaller(before + 1, MaxCount) ELSE before
<1> DEFINE to == Smaller(first(stats) + ParseLimit, n)
<1>1. first(stats) \in Nat
  BY FirstIs
<1>2. to \in 0 .. n /\ (first(stats) < n => first(stats) < to)
  BY <1>1, Bounds DEF Smaller
<1>3. counted(stats, n).on = IF first(stats) < to THEN to - 1 ELSE 0
  BY DEF counted
<1>4. ASSUME NEW r \in Revisions
      PROVE  counted(stats, n).counts[r] =
               LET before == IF stats = None THEN 0 ELSE stats.counts[r]
               IN  IF r \in first(stats) .. to - 1
                   THEN Smaller(before + 1, MaxCount) ELSE before
  BY DEF counted
<1> HIDE DEF to
<1> QED
  BY <1>2, <1>3, <1>4

\* It is a row again, and names a revision that the task has seen.
LEMMA CountedIsRow ==
  ASSUME NEW stats \in Rows \cup {None}, NEW n \in 1 .. MaxRevisions
  PROVE  counted(stats, n) \in Rows /\ counted(stats, n).on < n
<1> DEFINE new == counted(stats, n)
<1>1. PICK to \in 0 .. n :
        /\ new.on = IF first(stats) < to THEN to - 1 ELSE 0
        /\ \A r \in Revisions :
             new.counts[r] = LET before == IF stats = None THEN 0 ELSE stats.counts[r]
                             IN  IF r \in first(stats) .. to - 1
                                 THEN Smaller(before + 1, MaxCount) ELSE before
  BY CountedIs
<1>2. first(stats) \in Nat
  BY FirstIs
<1>3. new.on \in Revisions /\ new.on < n
  BY <1>1, <1>2, Bounds DEF Revisions
<1>4. \A r \in Revisions : new.counts[r] \in 0 .. MaxCount
  <2> SUFFICES ASSUME NEW r \in Revisions PROVE new.counts[r] \in 0 .. MaxCount
    OBVIOUS
  <2> DEFINE before == IF stats = None THEN 0 ELSE stats.counts[r]
  <2>1. before \in 0 .. MaxCount
    BY Bounds DEF Rows
  <2>2. new.counts[r] = before \/ new.counts[r] = Smaller(before + 1, MaxCount)
    BY <1>1
  <2> HIDE DEF before
  <2> QED
    BY <2>1, <2>2, Bounds DEF Smaller
<1>5. new = [on |-> new.on, counts |-> [r \in Revisions |-> new.counts[r]]]
  BY DEF counted
<1> HIDE DEF new
<1>6. [r \in Revisions |-> new.counts[r]] \in [Revisions -> 0 .. MaxCount]
  BY <1>4
<1>7. new \in Rows
  BY <1>3, <1>5, <1>6 DEF Rows
<1> QED
  BY <1>3, <1>7 DEF new

\* Nothing is left out by it if nothing was before.
LEMMA CountedComplete ==
  ASSUME NEW stats \in Rows \cup {None}, NEW n \in 1 .. MaxRevisions, Complete(stats)
  PROVE  Complete(counted(stats, n))
<1> DEFINE new == counted(stats, n)
<1> SUFFICES ASSUME NEW i \in 0 .. new.on, i \notin erased PROVE new.counts[i] > 0
  BY DEF Complete
<1>1. PICK to \in 0 .. n :
        /\ new.on = IF first(stats) < to THEN to - 1 ELSE 0
        /\ first(stats) < n => first(stats) < to
        /\ \A r \in Revisions :
             new.counts[r] = LET before == IF stats = None THEN 0 ELSE stats.counts[r]
                             IN  IF r \in first(stats) .. to - 1
                                 THEN Smaller(before + 1, MaxCount) ELSE before
  BY CountedIs
<1>2. first(stats) \in Nat /\ new.on \in Revisions
  BY CountedIsRow, FirstIs DEF Rows
<1>3. i \in Revisions /\ i \in Nat
  BY <1>2, Bounds DEF Revisions
<1> DEFINE before == IF stats = None THEN 0 ELSE stats.counts[i]
<1>4. before \in 0 .. MaxCount
  BY <1>3, Bounds DEF Rows
<1>5. new.counts[i] = IF i \in first(stats) .. to - 1 THEN Smaller(before + 1, MaxCount)
                      ELSE before
  BY <1>1, <1>3
<1>6. CASE i \in first(stats) .. to - 1
  <2> HIDE DEF before
  <2> QED
    BY <1>4, <1>5, <1>6, Bounds DEF Smaller
<1>7. CASE i \notin first(stats) .. to - 1
  <2>1. i < first(stats)
    <3> HIDE DEF before, new
    <3>1. i \in 0 .. (IF first(stats) < to THEN to - 1 ELSE 0) /\ to \in Nat
      BY <1>1, Bounds
    <3>2. CASE first(stats) < to
      BY <1>2, <1>3, <1>7, <3>1, <3>2
    <3>3. CASE ~(first(stats) < to)
      <4>1. i = 0 /\ ~(first(stats) < n)
        BY <1>1, <3>1, <3>3
      <4> QED
        BY <1>2, <4>1
    <3> QED
      BY <3>2, <3>3
  <2>2. stats # None /\ i \in 0 .. stats.on
    BY <1>2, <1>3, <2>1, FirstIs, RowIs
  <2> QED
    BY <1>5, <1>7, <2>2 DEF Complete
<1> QED
  BY <1>6, <1>7

\* There is something left to count if the row is not at the end, or at the first
\* revision.
LEMMA SomethingLeft ==
  ASSUME NEW stats \in Rows \cup {None}, NEW n \in 1 .. MaxRevisions,
         stats # None => stats.on <= n - 1 /\ (n > 1 => stats.on # n - 1)
  PROVE  first(stats) < n
<1>1. n \in Nat /\ n > 0
  BY Bounds
<1>2. CASE first(stats) = 0
  BY <1>1, <1>2
<1>3. CASE first(stats) > 0
  <2>1. stats # None /\ first(stats) = stats.on + 1
    BY <1>3, FirstIs
  <2>2. stats.on \in Nat /\ stats.on <= n - 1 /\ (n > 1 => stats.on # n - 1)
    BY <2>1, RowIs
  <2>3. stats.on # 0
    BY <2>1, <2>2 DEF first
  <2> QED
    BY <1>1, <2>1, <2>2, <2>3
<1> QED
  BY <1>2, <1>3, FirstIs

\* Columns of two tasks make a complete row of two, but for the revisions of the one
\* that had come further than the one whose counts they are.
LEMMA WrittenComplete ==
  ASSUME NEW now \in Rows, NEW stats \in Rows, stats # None, now # None,
         NEW n \in 1 .. MaxRevisions, Complete(now), Complete(stats),
         NEW i \in 0 .. Written(now, stats, n).on
  PROVE  \/ Written(now, stats, n).counts[i] > 0
         \/ i \in erased
         \/ counted(stats, n).on < i
<1>1. PICK new : new = counted(stats, n)
  OBVIOUS
<1>2. PICK both : both = Written(now, stats, n)
  OBVIOUS
<1>3. new \in Rows /\ Complete(new) /\ new.on \in Nat
  <2>1. new \in Rows /\ Complete(new)
    BY <1>1, CountedIsRow, CountedComplete
  <2> QED
    BY <2>1, Bounds DEF Rows
<1>4. /\ both.on = IF new.on = stats.on THEN now.on ELSE new.on
      /\ both.counts = IF first(stats) < n THEN new.counts ELSE now.counts
  BY <1>1, <1>2 DEF Written
<1>5. now.on \in Nat /\ stats.on \in Nat /\ both.on \in Nat /\ i \in 0 .. both.on
  BY <1>2, <1>3, <1>4, Bounds DEF Rows
<1>6. CASE first(stats) < n
  <2>1. new.on < i \/ i \in 0 .. new.on
    BY <1>3, <1>5
  <2>2. new # None
    BY <1>3, NoneIsNoRow
  <2> QED
    BY <1>1, <1>2, <1>3, <1>4, <1>6, <2>1, <2>2 DEF Complete
<1>7. CASE ~(first(stats) < n)
  <2>1. stats.on # 0
    BY <1>7, Bounds DEF first
  <2>2. new.on = 0
    <3>1. PICK to \in 0 .. n : new.on = IF first(stats) < to THEN to - 1 ELSE 0
      BY <1>1, CountedIs
    <3> QED
      BY <1>7, <3>1, FirstIs, Bounds
  <2>3. both.on = 0 /\ both.counts = now.counts
    BY <1>4, <1>7, <2>1, <2>2
  <2>4. now.counts[0] > 0 \/ 0 \in erased
    BY <1>5 DEF Complete
  <2>5. i = 0
    BY <1>5, <2>3
  <2> QED
    BY <1>2, <2>3, <2>4, <2>5
<1> QED
  BY <1>6, <1>7

\* It counts once what was not counted, if there is something left to count or
\* the row is at the first revision, or there is none.
LEMMA CountedExact ==
  ASSUME NEW stats \in Rows \cup {None}, NEW n \in 1 .. MaxRevisions, Exact(stats),
         stats # None => stats.on <= n - 1 /\ (n > 1 => stats.on # n - 1)
  PROVE  Exact(counted(stats, n))
<1> DEFINE new == counted(stats, n)
<1> SUFFICES ASSUME NEW i \in Revisions \ {0}
             PROVE  new.counts[i] = IF i <= new.on THEN 1 ELSE 0
  BY DEF Exact
<1>1. PICK to \in 0 .. n :
        /\ new.on = IF first(stats) < to THEN to - 1 ELSE 0
        /\ first(stats) < n => first(stats) < to
        /\ \A r \in Revisions :
             new.counts[r] = LET before == IF stats = None THEN 0 ELSE stats.counts[r]
                             IN  IF r \in first(stats) .. to - 1
                                 THEN Smaller(before + 1, MaxCount) ELSE before
  BY CountedIs
<1> DEFINE before == IF stats = None THEN 0 ELSE stats.counts[i]
<1>2. new.counts[i] = IF i \in first(stats) .. to - 1 THEN Smaller(before + 1, MaxCount)
                      ELSE before
  BY <1>1
<1>3. i \in Nat /\ i > 0 /\ n \in Nat /\ to \in Nat /\ (stats # None => stats.on \in Nat)
  <2>1. i \in Nat /\ i > 0
    BY Bounds
  <2>2. n \in Nat /\ to \in Nat
    BY Bounds
  <2>3. stats # None => stats.on \in Nat
    BY RowIs
  <2> QED
    BY <2>1, <2>2, <2>3
<1>4. first(stats) \in Nat /\ first(stats) < n
  BY SomethingLeft, FirstIs
<1>5. new.on = to - 1 /\ first(stats) <= to - 1
  BY <1>1, <1>3, <1>4
<1>6. before = IF i < first(stats) THEN 1 ELSE 0
  <2>1. CASE stats = None \/ stats.on = 0
    BY <1>3, <2>1, Bounds DEF first, Exact
  <2>2. CASE stats # None /\ stats.on # 0
    BY <1>3, <2>2, Bounds DEF first, Exact
  <2> QED
    BY <2>1, <2>2
<1> HIDE DEF new, before
<1>7. CASE i < first(stats)
  BY <1>2, <1>3, <1>4, <1>5, <1>6, <1>7
<1>8. CASE i \in first(stats) .. to - 1
  BY <1>2, <1>3, <1>4, <1>5, <1>6, <1>8, Bounds DEF Smaller
<1>9. CASE i > to - 1
  BY <1>2, <1>3, <1>4, <1>5, <1>6, <1>9
<1> QED
  BY <1>3, <1>4, <1>7, <1>8, <1>9

-----------------------------------------------------------------------------
(* The steps that work on the statistics, and those from outside.          *)

CoreStep(w) == OpenRepository(w) \/ ReadRow(w) \/ CommitRow(w)

OutsideStep == Push \/ (\E k \in Keys : Visit(k)) \/ UNCHANGED vars

\* What is done is one of the three kinds of steps.
LEMMA KindsOfSteps ==
  ASSUME [Next]_vars
  PROVE  OutsideStep \/ \E w \in Workers : QuietStep(w) \/ CoreStep(w)
BY DEF Next, Step, Trouble, Rejected, OutsideStep, QuietStep, CoreStep

\* Revisions are only added, and nobody's task is changed from outside.
LEMMA OutsideFrame ==
  ASSUME TypeInv, OutsideStep
  PROVE  /\ UNCHANGED <<lockVars, row, limit, seen, cur_stats, overlap, erased>>
         /\ size' \in {size, size + 1} /\ size' \in 0 .. MaxRevisions
         /\ queue' \in Seq(Tasks)
<1>1. CASE Push
  BY <1>1, Bounds DEF Push, TypeInv, StatInv
<1>2. ASSUME NEW k \in Keys, Visit(k)
      PROVE  UNCHANGED <<lockVars, row, limit, seen, cur_stats, overlap, erased, size>>
             /\ queue' \in Seq(Tasks)
  <2>1. [key |-> k, limit |-> RecurseLimit] \in Tasks
    BY Bounds DEF Tasks
  <2> QED
    BY <1>2, <2>1, AppendProperties DEF Visit, TypeInv, StatInv
<1>3. CASE UNCHANGED vars
  BY <1>3 DEF vars, statVars, TypeInv, StatInv
<1> QED
  BY <1>1, <1>2, <1>3 DEF OutsideStep, TypeInv, StatInv

\* The place of a task that works on the statistics.
LEMMA CorePlaces ==
  ASSUME TypeInv, NEW w \in Workers, CoreStep(w)
  PROVE  /\ LockInv'
         /\ \A v \in Workers \ {w} : at'[v] = at[v]
         /\ at'[w] \in {"opened", "parse", "done", "more"}
         /\ OpenRepository(w) => at'[w] \in {"opened", "done"}
         /\ ReadRow(w) => at'[w] \in {"parse", "done"}
         /\ CommitRow(w) => at'[w] = "more"
<1>1. at[w] \in {"locked", "opened", "parse"} /\ UNCHANGED <<file, pid, key, held>>
  BY DEF CoreStep, OpenRepository, ReadRow, CommitRow
<1>2. PICK p \in {"opened", "parse", "done", "more"} :
        /\ Goto(w, p)
        /\ OpenRepository(w) => p \in {"opened", "done"}
        /\ ReadRow(w) => p \in {"parse", "done"}
        /\ CommitRow(w) => p = "more"
  <2>1. CASE OpenRepository(w)
    BY <2>1 DEF OpenRepository, ReadRow, CommitRow
  <2>2. CASE ReadRow(w)
    BY <2>2 DEF OpenRepository, ReadRow, CommitRow
  <2>3. CASE CommitRow(w)
    BY <2>3 DEF OpenRepository, ReadRow, CommitRow
  <2> QED
    BY <2>1, <2>2, <2>3 DEF CoreStep
<1>3. Proceed(w, p) /\ p \in Places
  BY <1>1, <1>2, GotoIs DEF Places
<1>4. LockInv'
  BY <1>1, <1>3, MovesLock DEF TypeInv
<1>5. at' = [at EXCEPT ![w] = p] /\ w \in DOMAIN at
  BY <1>2 DEF Goto, TypeInv, LockInv
<1> QED
  BY <1>2, <1>4, <1>5

\* What those steps change: the copy that the task has, or the row.
LEMMA CoreFrame ==
  ASSUME TypeInv, NEW w \in Workers, CoreStep(w)
  PROVE  /\ UNCHANGED <<size, queue, limit>>
         /\ \A v \in Workers \ {w} : seen'[v] = seen[v] /\ cur_stats'[v] = cur_stats[v]
         /\ OpenRepository(w) => seen'[w] = size /\ UNCHANGED <<row, cur_stats, erased>>
         /\ ReadRow(w) => /\ UNCHANGED <<row, seen, overlap, erased>>
                          /\ at'[w] = "parse" => cur_stats'[w] = row
         /\ CommitRow(w) => /\ UNCHANGED <<seen, overlap>> /\ cur_stats'[w] = None
                            /\ at[w] = "parse"
                            /\ row' = IF cur_stats[w] = None THEN counted(None, seen[w])
                                      ELSE Written(row, cur_stats[w], seen[w])
                            /\ erased' = erased \cup
                                 {r \in Revisions :
                                    counted(cur_stats[w], seen[w]).on < r /\ r <= row'.on}
<1>1. CASE OpenRepository(w)
  BY <1>1 DEF OpenRepository, ReadRow, CommitRow, TypeInv, StatInv
<1>2. CASE ReadRow(w)
  <2>1. at[w] = "opened" /\ UNCHANGED <<size, row, queue, limit, seen, overlap, erased>>
    BY <1>2 DEF ReadRow
  <2>2. \/ Goto(w, "done") /\ UNCHANGED cur_stats
        \/ Goto(w, "parse") /\ cur_stats' = [cur_stats EXCEPT ![w] = row]
    BY <1>2 DEF ReadRow
  <2>3. Goto(w, "done") => at'[w] = "done"
    BY DEF Goto, TypeInv, LockInv
  <2> QED
    BY <2>1, <2>2, <2>3 DEF OpenRepository, CommitRow, TypeInv, StatInv
<1>3. CASE CommitRow(w)
  BY <1>3 DEF OpenRepository, ReadRow, CommitRow, TypeInv, StatInv
<1> QED
  BY <1>1, <1>2, <1>3 DEF CoreStep

\* What a commit starts from.
LEMMA CommittedRow ==
  ASSUME TypeInv, NEW w \in Workers, at[w] = "parse"
  PROVE  /\ cur_stats[w] \in Rows \cup {None} /\ seen[w] \in 1 .. MaxRevisions
         /\ cur_stats[w] # None => cur_stats[w] \in Rows /\ row \in Rows
BY Bounds DEF TypeInv, StatInv, TaskInv, ReadInv, Working

\* The row of a commit is one, and what it names is what the task has come to or
\* what was there.
LEMMA CommitIsRow ==
  ASSUME TypeInv, NEW w \in Workers, CommitRow(w)
  PROVE  /\ row' \in Rows
         /\ row'.on < seen[w] \/ (row # None /\ row'.on = row.on)
<1>1. /\ at[w] = "parse"
      /\ row' = IF cur_stats[w] = None THEN counted(None, seen[w])
                ELSE Written(row, cur_stats[w], seen[w])
  BY CoreFrame DEF CoreStep
<1>2. counted(cur_stats[w], seen[w]) \in Rows /\ counted(cur_stats[w], seen[w]).on < seen[w]
  BY <1>1, CommittedRow, CountedIsRow
<1>3. CASE cur_stats[w] = None
  BY <1>1, <1>2, <1>3
<1>4. CASE cur_stats[w] # None
  <2>1. row \in Rows /\ row # None /\ row' = Written(row, cur_stats[w], seen[w])
    BY <1>1, <1>4, CommittedRow DEF TypeInv, ReadInv
  <2>2. /\ row' \in Rows
        /\ row'.on \in {row.on, counted(cur_stats[w], seen[w]).on}
    BY <1>2, <2>1 DEF Written, Rows
  <2> QED
    BY <1>2, <2>1, <2>2
<1> QED
  BY <1>3, <1>4

\* They keep the types.
LEMMA CoreTypes ==
  ASSUME TypeInv, NEW w \in Workers, CoreStep(w)
  PROVE  TypeInv'
<1>1. LockInv'
  BY CorePlaces
<1>2. StatInv'
  <2> USE DEF TypeInv, StatInv
  <2>1. CASE OpenRepository(w)
    BY <2>1 DEF OpenRepository
  <2>2. CASE ReadRow(w)
    BY <2>2 DEF ReadRow
  <2>3. CASE CommitRow(w)
    <3>1. row' \in Rows
      BY <2>3, CommitIsRow
    <3>2. erased' \subseteq Revisions
      BY <2>3 DEF CommitRow
    <3> QED
      BY <2>3, <3>1, <3>2 DEF CommitRow
  <2> QED
    BY <2>1, <2>2, <2>3 DEF CoreStep
<1>3. TaskInv'
  <2> SUFFICES ASSUME NEW v \in Workers
               PROVE  (Working(v)' => seen'[v] >= 1) /\ (at'[v] = "again" => limit'[v] > 0)
    BY DEF TaskInv
  <2>1. CASE v # w
    BY <2>1, CorePlaces, CoreFrame DEF TypeInv, TaskInv, Working
  <2>2. CASE v = w
    <3>1. CASE OpenRepository(w)
      <4>1. at' = [at EXCEPT ![w] = IF size < 1 THEN "done" ELSE "opened"] /\ w \in DOMAIN at
        BY <3>1 DEF OpenRepository, Goto, TypeInv, LockInv
      <4>2. seen'[w] = size /\ size \in Nat
        BY <3>1, CoreFrame, Bounds DEF TypeInv, StatInv
      <4> QED
        BY <2>2, <4>1, <4>2 DEF Working
    <3>2. CASE ReadRow(w)
      BY <2>2, <3>2, CorePlaces, CoreFrame DEF TypeInv, TaskInv, Working, ReadRow
    <3>3. CASE CommitRow(w)
      BY <2>2, <3>3, CorePlaces DEF Working
    <3> QED
      BY <3>1, <3>2, <3>3 DEF CoreStep
  <2> QED
    BY <2>1, <2>2
<1>4. ReadInv'
  <2>1. CASE OpenRepository(w)
    BY <2>1, CoreFrame DEF TypeInv, ReadInv
  <2>2. CASE ReadRow(w)
    <3>1. row' = row /\ cur_stats'[w] \in {cur_stats[w], row}
      BY <2>2 DEF ReadRow, TypeInv, StatInv
    <3> QED
      BY <3>1, CoreFrame DEF TypeInv, ReadInv
  <2>3. CASE CommitRow(w)
    BY <2>3, CommitIsRow, NoneIsNoRow DEF ReadInv
  <2> QED
    BY <2>1, <2>2, <2>3 DEF CoreStep
<1> QED
  BY <1>1, <1>2, <1>3, <1>4 DEF TypeInv

\* At the start nothing is known and nobody works.
LEMMA InitTypes == Init => TypeInv
<1> SUFFICES ASSUME Init PROVE TypeInv
  OBVIOUS
<1>1. LockInv
  BY LockAssumption DEF Init, LockInit, LockInv, Places
<1>2. StatInv
  <2>1. size \in 0 .. MaxRevisions /\ queue \in Seq(Tasks)
    BY Bounds DEF Init
  <2>2. limit \in [Workers -> 0 .. RecurseLimit] /\ seen \in [Workers -> 0 .. MaxRevisions]
    BY Bounds DEF Init
  <2> QED
    BY <2>1, <2>2 DEF Init, StatInv
<1>3. TaskInv /\ ReadInv
  BY DEF Init, LockInit, TaskInv, ReadInv, Working
<1> QED
  BY <1>1, <1>2, <1>3 DEF TypeInv

\* Every step keeps the types.
LEMMA NextTypes ==
  ASSUME TypeInv, [Next]_vars
  PROVE  TypeInv'
<1>1. CASE OutsideStep
  BY <1>1, OutsideFrame DEF TypeInv, StatInv, LockInv, lockVars, TaskInv, ReadInv, Working
<1> QED
  BY <1>1, KindsOfSteps, QuietTypes, CoreTypes

\* Every part of the state has its type in every reachable state: a task that
\* has a place has a process, only the worker that writes a lock has its file
\* open, and a task that comes back has an attempt left.
THEOREM TypesCorrect == Spec => []TypeOK
<1>1. TypeInv => TypeOK
  <2> SUFFICES ASSUME TypeInv PROVE TypeOK
    OBVIOUS
  <2>1. LockTypeOK
    <3>1. \A k \in Keys : file[k] # None =>
            /\ file[k].text \in Pids \cup {""}
            /\ file[k].open \in SUBSET {w \in Workers : at[w] = "write"}
      BY OpenedBy DEF TypeInv, LockFiles
    <3> QED
      BY <3>1 DEF TypeInv, LockInv, LockTypeOK
  <2>2. row \in Rows \cup {None}
    BY DEF TypeInv, StatInv
  <2>3. \A i \in DOMAIN queue : queue[i].key \in Keys /\ queue[i].limit \in 0 .. RecurseLimit
    <3>1. \A i \in DOMAIN queue : queue[i] \in Tasks
      BY ElementOfSeq, LenProperties DEF TypeInv, StatInv
    <3> QED
      BY <3>1 DEF Tasks
  <2> QED
    BY <2>1, <2>2, <2>3 DEF TypeInv, LockInv, StatInv, TypeOK, Places
<1> QED
  BY <1>1, InitTypes, NextTypes, PTL DEF Spec

-----------------------------------------------------------------------------
(* The counts.                                                             *)

\* Only a task that found the first revision alone erases any.
LEMMA ErasedByTheFirst ==
  ASSUME TypeInv, NEW w \in Workers, CommitRow(w), erased' # erased
  PROVE  seen[w] = 1
<1> DEFINE new == counted(cur_stats[w], seen[w])
<1>1. /\ at[w] = "parse"
      /\ row' = IF cur_stats[w] = None THEN counted(None, seen[w])
                ELSE Written(row, cur_stats[w], seen[w])
      /\ erased' = erased \cup {r \in Revisions : new.on < r /\ r <= row'.on}
  BY CoreFrame DEF CoreStep
<1>2. /\ cur_stats[w] \in Rows \cup {None} /\ seen[w] \in 1 .. MaxRevisions
      /\ seen[w] \in Nat /\ seen[w] > 0
  BY <1>1, CommittedRow, Bounds
<1>3. new.on \in Nat /\ \A r \in Revisions : r \in Nat
  BY <1>2, CountedIsRow, Bounds DEF Rows
<1>4. ~(row'.on = new.on)
  BY <1>1, <1>3
<1>5. cur_stats[w] # None /\ new.on = cur_stats[w].on
  <2>1. cur_stats[w] # None
    BY <1>1, <1>4
  <2> QED
    BY <1>1, <1>4, <2>1 DEF Written
<1>6. cur_stats[w].on \in Nat
  BY <1>3, <1>5
<1>7. PICK from, to :
        /\ from = first(cur_stats[w]) /\ to = Smaller(from + ParseLimit, seen[w])
        /\ new.on = IF from < to THEN to - 1 ELSE 0
  BY DEF counted
<1>8. from = IF cur_stats[w].on = 0 THEN 0 ELSE cur_stats[w].on + 1
  BY <1>5, <1>7 DEF first
<1> HIDE DEF new
<1>9. cur_stats[w].on = 0
  BY <1>2, <1>5, <1>6, <1>7, <1>8, Bounds DEF Smaller
<1>10. from = 0 /\ new.on = 0
  BY <1>5, <1>8, <1>9
<1> QED
  BY <1>2, <1>7, <1>10, Bounds DEF Smaller

\* Every step keeps every row complete, and every copy that is to be one.
LEMMA NextComplete ==
  ASSUME TypeInv, CompleteInv, [Next]_vars
  PROVE  CompleteInv'
<1>1. CASE OutsideStep
  BY <1>1, OutsideFrame DEF CompleteInv, Complete
<1>2. ASSUME NEW w \in Workers, QuietStep(w) PROVE CompleteInv'
  <2>1. /\ row' = row /\ erased' = erased
        /\ \A v \in Workers : cur_stats'[v] \in {None, cur_stats[v]}
    BY <1>2, QuietFrame
  <2> QED
    BY <2>1 DEF CompleteInv, Complete
<1>3. ASSUME NEW w \in Workers, CoreStep(w) PROVE CompleteInv'
  <2>1. erased \subseteq erased'
    BY <1>3, CoreFrame DEF CoreStep
  <2>2. \A v \in Workers : cur_stats'[v] \in {None, row, cur_stats[v]}
    <3>1. cur_stats'[w] \in {None, row, cur_stats[w]}
      BY <1>3 DEF CoreStep, OpenRepository, ReadRow, CommitRow, TypeInv, StatInv
    <3> QED
      BY <1>3, <3>1, CoreFrame
  <2>3. Complete(row)'
    <3>1. CASE CommitRow(w)
      <4>1. /\ at[w] = "parse"
            /\ row' = IF cur_stats[w] = None THEN counted(None, seen[w])
                      ELSE Written(row, cur_stats[w], seen[w])
            /\ erased' = erased \cup
                 {r \in Revisions : counted(cur_stats[w], seen[w]).on < r /\ r <= row'.on}
        BY <1>3, <3>1, CoreFrame
      <4>2. seen[w] \in 1 .. MaxRevisions
        BY <4>1, CommittedRow
      <4>3. CASE cur_stats[w] = None
        <5>1. row' = counted(None, seen[w]) /\ Complete(None)
          BY <4>1, <4>3 DEF Complete
        <5>2. Complete(counted(None, seen[w]))
          BY <4>2, <5>1, CountedComplete
        <5> QED
          BY <2>1, <5>1, <5>2 DEF Complete
      <4>4. CASE cur_stats[w] # None
        <5>1. cur_stats[w] \in Rows /\ row \in Rows /\ row # None
          BY <4>1, <4>4, CommittedRow DEF TypeInv, ReadInv
        <5>2. row' = Written(row, cur_stats[w], seen[w]) /\ row' \in Rows
          BY <3>1, <4>1, <4>4, CommitIsRow
        <5>3. \A i \in 0 .. row'.on : /\ i \in Revisions
                                      /\ i <= row'.on
          BY <5>2, Bounds DEF Rows, Revisions
        <5>4. \A i \in 0 .. row'.on : \/ row'.counts[i] > 0
                                      \/ i \in erased
                                      \/ counted(cur_stats[w], seen[w]).on < i
          BY <4>2, <4>4, <5>1, <5>2, WrittenComplete DEF CompleteInv
        <5> QED
          BY <4>1, <5>3, <5>4 DEF Complete
      <4> QED
        BY <4>3, <4>4
    <3>2. CASE ~CommitRow(w)
      <4>1. row' = row
        BY <1>3, <3>2, CoreFrame DEF CoreStep
      <4> QED
        BY <2>1, <4>1 DEF CompleteInv, Complete
    <3> QED
      BY <3>1, <3>2
  <2> QED
    BY <2>1, <2>2, <2>3 DEF CompleteInv, Complete
<1> QED
  BY <1>1, <1>2, <1>3, KindsOfSteps

\* However many tasks get past the lock and write over each other's columns, the
\* counts leave out no revision up to the one that the row names, except those that
\* a task which had found the first revision alone has erased.
THEOREM NothingIsMissed == Spec => []NothingMissed
<1>1. Init => CompleteInv
  BY DEF Init, CompleteInv, Complete
<1>2. CompleteInv => NothingMissed
  BY DEF CompleteInv, Complete, NothingMissed
<1> QED
  BY <1>1, <1>2, InitTypes, NextTypes, NextComplete, PTL DEF Spec

\* The exception of NothingMissed is no wider than it says: revisions are erased by
\* the commit of a task that opened the repository with one revision, and by no
\* other step.
THEOREM OneRevisionErases ==
  Spec => [][erased' # erased => \E w \in Workers : CommitRow(w) /\ seen[w] = 1]_vars
<1>1. ASSUME TypeInv, [Next]_vars, erased' # erased
      PROVE  \E w \in Workers : CommitRow(w) /\ seen[w] = 1
  <2>1. PICK w \in Workers : CoreStep(w)
    BY <1>1, KindsOfSteps, OutsideFrame, QuietFrame
  <2>2. CommitRow(w)
    BY <1>1, <2>1, CoreFrame DEF CoreStep
  <2> QED
    BY <1>1, <2>2, ErasedByTheFirst
<1>2. TypeInv /\ [Next]_vars =>
        [erased' # erased => \E w \in Workers : CommitRow(w) /\ seen[w] = 1]_vars
  BY <1>1
<1> QED
  BY <1>2, InitTypes, NextTypes, PTL DEF Spec

\* The row never goes beyond the repository, ...
LEMMA NextSize ==
  ASSUME TypeInv, SizeInv, [Next]_vars
  PROVE  SizeInv'
<1>0. size \in Nat /\ \A v \in Workers : seen[v] \in Nat
  BY Bounds DEF TypeInv, StatInv
<1>1. CASE OutsideStep
  <2>1. row # None => row.on \in Nat
    BY RowIs DEF TypeInv, StatInv
  <2> QED
    BY <1>0, <1>1, <2>1, OutsideFrame DEF SizeInv
<1>2. ASSUME NEW w \in Workers, QuietStep(w) PROVE SizeInv'
  BY <1>0, <1>2, QuietFrame DEF SizeInv
<1>3. ASSUME NEW w \in Workers, CoreStep(w) PROVE SizeInv'
  <2>1. size' = size
    BY <1>3, CoreFrame
  <2>2. \A v \in Workers : seen'[v] <= size
    <3>1. seen'[w] \in {seen[w], size}
      BY <1>3, CoreFrame DEF CoreStep
    <3> QED
      BY <1>0, <1>3, <3>1, CoreFrame DEF SizeInv
  <2>3. row' # None => row'.on < size
    <3>1. CASE CommitRow(w)
      <4>1. row' \in Rows /\ (row'.on < seen[w] \/ (row # None /\ row'.on = row.on))
        BY <3>1, CommitIsRow
      <4>2. row'.on \in Nat
        BY <4>1, Bounds DEF Rows
      <4>3. seen[w] <= size /\ (row # None => row.on < size)
        BY DEF SizeInv
      <4> QED
        BY <1>0, <4>1, <4>2, <4>3
    <3>2. CASE ~CommitRow(w)
      BY <1>3, <3>2, CoreFrame DEF CoreStep, SizeInv
    <3> QED
      BY <3>1, <3>2
  <2> QED
    BY <2>1, <2>2, <2>3 DEF SizeInv
<1> QED
  BY <1>1, <1>2, <1>3, KindsOfSteps

\* ... a task that works alone goes on from it, and so it stays exact.
LEMMA NextAlone ==
  ASSUME TypeInv, TypeInv', SizeInv, AloneInv, [Next]_vars
  PROVE  AloneInv'
<1> SUFFICES ASSUME ~overlap' PROVE AloneInv'
  BY DEF AloneInv
<1>1. CASE OutsideStep
  BY <1>1, OutsideFrame DEF AloneInv, Exact, Working, lockVars
<1>2. ASSUME NEW w \in Workers, QuietStep(w) PROVE AloneInv'
  <2>1. ~overlap /\ row' = row
    BY <1>2, QuietFrame
  <2>2. \A v \in Workers : Working(v)' => v # w /\ Working(v) /\ at'[v] = at[v]
    BY <1>2, QuietPlaces DEF Working
  <2>3. \A v \in Workers \ {w} : seen'[v] = seen[v] /\ cur_stats'[v] = cur_stats[v]
    BY <1>2, QuietFrame
  <2>4. \A v \in Workers : at'[v] = "parse" => v # w /\ at[v] = "parse"
    BY <1>2, QuietPlaces
  <2> QED
    BY <2>1, <2>2, <2>3, <2>4 DEF AloneInv, Exact
<1>3. ASSUME NEW w \in Workers, OpenRepository(w) PROVE AloneInv'
  <2>0. CoreStep(w)
    BY <1>3 DEF CoreStep
  <2>1. ~overlap /\ \A v \in Workers \ {w} : ~Working(v)
    BY <1>3 DEF OpenRepository, TypeInv, StatInv
  <2>2. \A v \in Workers : Working(v)' => v = w
    BY <2>0, <2>1, CorePlaces DEF Working
  <2>3. \A v \in Workers : at'[v] # "parse"
    BY <1>3, <2>0, <2>2, CorePlaces DEF Working
  <2>4. row' = row /\ seen'[w] = size
    BY <1>3, <2>0, CoreFrame
  <2>5. row # None => row.on <= size - 1
    <3>1. row # None => row.on < size /\ row.on \in Nat
      BY RowIs DEF SizeInv, TypeInv, StatInv
    <3>2. size \in Nat
      BY Bounds DEF TypeInv, StatInv
    <3> QED
      BY <3>1, <3>2
  <2> QED
    BY <2>1, <2>2, <2>3, <2>4, <2>5 DEF AloneInv, Exact
<1>4. ASSUME NEW w \in Workers, ReadRow(w) PROVE AloneInv'
  <2>0. CoreStep(w)
    BY <1>4 DEF CoreStep
  <2>1. ~overlap /\ row' = row /\ seen' = seen /\ at[w] = "opened" /\ Working(w)
    BY <1>4, <2>0, CoreFrame DEF ReadRow, Working
  <2>2. \A v \in Workers : Working(v)' => v = w
    BY <2>0, <2>1, CorePlaces DEF Working, AloneInv
  <2>3. at'[w] = "parse" => cur_stats'[w] = row
    BY <1>4, <2>0, CoreFrame
  <2>4. at'[w] = "parse" => ~(row # None /\ row.on = seen[w] - 1 /\ seen[w] > 1)
    <3>1. w \in DOMAIN at
      BY DEF TypeInv, LockInv
    <3> QED
      BY <1>4, <3>1 DEF ReadRow, Goto
  <2>5. \A v \in Workers : at'[v] = "parse" => v = w
    BY <2>2 DEF Working
  <2> QED
    BY <2>1, <2>2, <2>3, <2>4, <2>5 DEF AloneInv, Exact
<1>5. ASSUME NEW w \in Workers, CommitRow(w) PROVE AloneInv'
  <2>0. CoreStep(w)
    BY <1>5 DEF CoreStep
  <2>1. /\ ~overlap /\ at[w] = "parse" /\ Working(w)
        /\ row' = IF cur_stats[w] = None THEN counted(None, seen[w])
                  ELSE Written(row, cur_stats[w], seen[w])
    BY <1>5, <2>0, CoreFrame DEF Working
  <2>2. \A v \in Workers : ~Working(v)' /\ at'[v] # "parse"
    BY <1>5, <2>0, <2>1, CorePlaces DEF Working, AloneInv
  <2>3. cur_stats[w] = row /\ Exact(row)
    BY <2>1 DEF AloneInv
  <2>4. row # None => row.on <= seen[w] - 1 /\ (seen[w] > 1 => row.on # seen[w] - 1)
    BY <2>1 DEF AloneInv
  <2>5. Exact(counted(cur_stats[w], seen[w]))
    BY <2>1, <2>3, <2>4, CommittedRow, CountedExact
  <2>6. Exact(row')
    <3>1. first(cur_stats[w]) < seen[w]
      BY <2>1, <2>3, <2>4, CommittedRow, SomethingLeft
    <3>2. CASE cur_stats[w] = None
      BY <2>1, <2>5, <3>2
    <3>3. CASE cur_stats[w] # None
      <4>1. /\ row' # None /\ row'.on = counted(cur_stats[w], seen[w]).on
            /\ row'.counts = counted(cur_stats[w], seen[w]).counts
        BY <1>5, <2>1, <2>3, <3>1, <3>3, CommitIsRow, NoneIsNoRow DEF Written
      <4>2. counted(cur_stats[w], seen[w]) # None
        BY <2>1, CommittedRow, CountedIsRow, NoneIsNoRow
      <4> QED
        BY <2>5, <4>1, <4>2 DEF Exact
    <3> QED
      BY <3>2, <3>3
  <2> QED
    BY <2>1, <2>2, <2>6 DEF AloneInv, Exact
<1> QED
  BY <1>1, <1>2, <1>3, <1>4, <1>5, KindsOfSteps DEF CoreStep

\* Unless two tasks have worked on the statistics at the same time, a revision
\* that the row has come to was counted once, and one beyond it was not counted;
\* only the first revision is counted again while the row is still at it.
THEOREM EachCountedOnce == Spec => []CountedOnce
<1>1. Init => SizeInv /\ AloneInv
  <2> SUFFICES ASSUME Init PROVE SizeInv /\ AloneInv
    OBVIOUS
  <2>1. row = None /\ size \in 0 .. 1 /\ \A w \in Workers : seen[w] = 0 /\ at[w] = "idle"
    BY DEF Init, LockInit
  <2> QED
    BY <2>1 DEF SizeInv, AloneInv, Exact, Working
<1>2. AloneInv => CountedOnce
  BY DEF AloneInv, Exact, CountedOnce
<1> QED
  BY <1>1, <1>2, InitTypes, NextTypes, NextSize, NextAlone, PTL DEF Spec
=============================================================================
