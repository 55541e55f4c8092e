----------------------------- MODULE DaemonLock -----------------------------
(***************************************************************************)
(* lib/pidlock.py: a lock that is a file with the number of the process    *)
(* that holds it.  Looking for the file, removing one that a dead process  *)
(* left, opening a new one and writing it are four separate steps of the   *)
(* operating system, and other processes act between them.                 *)
(*                                                                         *)
(* The workers run as one user, so that a signal to a process of theirs    *)
(* that is alive is never refused (EPERM).  A process of another program   *)
(* never gets the number of a worker that ended; another worker may.       *)
(* An empty file is read as -1, and kill(-1, 0) succeeds as long as there  *)
(* is any process that may be signalled.                                   *)
(***************************************************************************)
EXTENDS Naturals, FiniteSets

CONSTANTS
  Workers,    \* what runs one task at a time, in a process of its own
  Keys,       \* names of lock files
  Pids,       \* numbers that processes get
  None

ASSUME LockAssumption == None \notin Pids \cup Workers \cup Keys

VARIABLES
  file,       \* file[k]: its text, and the workers that have it open; or None
  pid,        \* pid[w]: number of the process of w, None if it has ended
  at,         \* at[w]: what w does next
  key,        \* key[w]: the lock of the task that w has
  held        \* held[w]: the locks that its process would release at exit

lockVars == <<file, pid, at, key, held>>

LockInit ==
  /\ file = [k \in Keys |-> None]
  /\ pid \in [Workers -> Pids]
  /\ \A v, w \in Workers : v # w => pid[v] # pid[w]
  /\ at = [w \in Workers |-> "idle"]
  /\ key = [w \in Workers |-> None]
  /\ held = [w \in Workers |-> {}]

Alive(p) == \E w \in Workers : pid[w] = p

Goto(w, place) == at' = [at EXCEPT ![w] = place]

\* The next thing the task does; its lock is forgotten with the task.
Proceed(w, place) ==
  /\ Goto(w, place)
  /\ key' = IF place = "idle" THEN [key EXCEPT ![w] = None] ELSE key

\* DaemonLock(k)
StartLock(w, k) ==
  /\ at[w] = "idle" /\ pid[w] # None
  /\ Goto(w, "trylock")
  /\ key' = [key EXCEPT ![w] = k]
  /\ UNCHANGED <<file, pid, held>>

\* Wrong: a file with the number of a process that has ended is respected too.
trylockStrict(w) ==
  LET found == file[key[w]] IN
  /\ at[w] = "trylock"
  /\ Proceed(w, IF found = None THEN "makelock" ELSE "idle")
  /\ UNCHANGED <<file, pid, held>>

\* LockHeld ends the task.
trylock(w) ==
  LET found == file[key[w]] IN
  /\ at[w] = "trylock"
  /\ Proceed(w, IF found = None THEN "makelock"
                ELSE IF found.text = "" \/ Alive(found.text) THEN "idle" ELSE "stale")
  /\ UNCHANGED <<file, pid, held>>

Removed(k) == [file EXCEPT ![k] = None]

\* Whatever file has the name now is removed; it is no error if none has.
RemoveStale(w) ==
  /\ at[w] = "stale"
  /\ Goto(w, "makelock")
  /\ file' = Removed(key[w])
  /\ UNCHANGED <<pid, key, held>>

\* open(pidfile, 'w') makes the file or empties the one there is.
makelock(w) ==
  LET found == file[key[w]] IN
  /\ at[w] = "makelock"
  /\ Goto(w, "write")
  /\ file' = [file EXCEPT ![key[w]] =
       [text |-> "", open |-> {w} \cup (IF found = None THEN {} ELSE found.open)]]
  /\ UNCHANGED <<pid, key, held>>

\* Wrong: the file is never closed.
WriteLockOpen(w) ==
  LET found == file[key[w]] IN
  /\ at[w] = "write"
  /\ Goto(w, "locked")
  /\ file' = IF found # None /\ w \in found.open
             THEN [file EXCEPT ![key[w]].text = pid[w]]
             ELSE file
  /\ held' = [held EXCEPT ![w] = @ \cup {key[w]}]
  /\ UNCHANGED <<pid, key>>

\* The text reaches the file when it is closed, if it has not been removed.
WriteLock(w) ==
  LET found == file[key[w]] IN
  /\ at[w] = "write"
  /\ Goto(w, "locked")
  /\ file' = IF found # None /\ w \in found.open
             THEN [file EXCEPT ![key[w]] =
                     [text |-> pid[w], open |-> found.open \ {w}]]
             ELSE file
  /\ held' = [held EXCEPT ![w] = @ \cup {key[w]}]
  /\ UNCHANGED <<pid, key>>

\* release(): held is only reset if there was a file.
release(w, place) ==
  /\ Proceed(w, place)
  /\ file' = Removed(key[w])
  /\ held' = IF file[key[w]] = None THEN held ELSE [held EXCEPT ![w] = @ \ {key[w]}]
  /\ UNCHANGED pid

\* A task that ends otherwise leaves its lock, if it has one.
EndTask(w) ==
  /\ Proceed(w, "idle")
  /\ UNCHANGED <<file, pid, held>>

\* _on_finalize, when the process ends in an orderly way.
Exit(w) ==
  /\ pid[w] # None /\ at[w] = "idle"
  /\ file' = [k \in Keys |-> IF k \in held[w] THEN None ELSE file[k]]
  /\ pid' = [pid EXCEPT ![w] = None]
  /\ held' = [held EXCEPT ![w] = {}]
  /\ UNCHANGED <<at, key>>

Kill(w) ==
  /\ pid[w] # None
  /\ pid' = [pid EXCEPT ![w] = None]
  /\ held' = [held EXCEPT ![w] = {}]
  /\ file' = [k \in Keys |-> IF file[k] = None THEN None
                             ELSE [file[k] EXCEPT !.open = @ \ {w}]]
  /\ Proceed(w, "idle")

\* The pool starts a process for one that has ended.
Restart(w) ==
  /\ pid[w] = None
  /\ \E p \in Pids : ~Alive(p) /\ pid' = [pid EXCEPT ![w] = p]
  /\ UNCHANGED <<file, at, key, held>>

-----------------------------------------------------------------------------
Trying == {"trylock", "stale", "makelock", "write"}

LockTypeOK ==
  /\ \A k \in Keys :
       file[k] # None => /\ file[k].text \in Pids \cup {""}
                         /\ file[k].open \in SUBSET {w \in Workers : at[w] = "write"}
  /\ pid \in [Workers -> Pids \cup {None}]
  /\ key \in [Workers -> Keys \cup {None}]
  /\ held \in [Workers -> SUBSET Keys]
  /\ \A w \in Workers : /\ at[w] # "idle" => pid[w] # None
                         /\ at[w] = "idle" <=> key[w] = None

\* Nobody who wants the lock gets it any more: the file is empty and nobody
\* writes it, or it names a live process that has no task with this lock.
Blocked(k) ==
  /\ file[k] # None
  /\ \/ file[k].text = "" /\ file[k].open = {}
     \/ \E w \in Workers :
          file[k].text = pid[w] /\ (at[w] \in Trying \/ key[w] # k)
=============================================================================
