---------------------------- MODULE SubprocessIO ----------------------------
(***************************************************************************)
(* lib/vcs/subprocessio.py: a program run with a thread that feeds its     *)
(* standard input and a thread that reads each of its outputs, while the   *)
(* caller iterates over what has been read.  There are two callers: the    *)
(* WSGI server that answers a Git client (pygrack.py, "wsgi") and          *)
(* GitRepository._run_git_command ("command").                             *)
(*                                                                         *)
(* Left out: the event data_added, whose waits are all timed and followed  *)
(* by a new look at what it announces; the content of the chunks, which    *)
(* are numbered in the order in which the program writes them.             *)
(***************************************************************************)
EXTENDS Naturals, Sequences

CONSTANTS
  Starting,       \* how many chunks are put in front of the output
  ChunkCountMax,  \* chunk_count_max of the reader of the output
  ErrLimit,       \* maxlen of the bottomless buffer
  Programs,       \* what is run: chunks it writes to each output, chunks of
                  \* input it is given, and how many of those it reads
  PipeSize        \* chunks that a pipe of the operating system holds

ASSUME SubprocessAssumption ==
  /\ Starting \in Nat /\ ChunkCountMax \in Nat
  /\ {ErrLimit, PipeSize} \subseteq Nat \ {0}
  /\ Starting <= ChunkCountMax
  /\ Programs \subseteq [out : Nat, err : Nat, given : Nat, wants : Nat]
  /\ \A p \in Programs : p.wants <= p.given

Streams == {"out", "err"}

VARIABLES
  use,        \* who is the caller
  child,      \* the program: "running", gone but not yet for poll(), or how it ended
  wants,      \* chunks of input that it will still read
  todo,       \* todo[s]: chunks that it has still to write to s
  wrote,      \* wrote[s]: chunks it wrote, the starting values included
  pipe,       \* pipe[s]: how many of them are still in the pipe
  feeder,     \* the thread that writes the input
  input,      \* chunks of input: still to be fed, in the pipe, and its read end
  reader,     \* reader[s]: where the thread that reads s is
  held,       \* held[s]: the chunk it has read, 0 for b''
  buffer,     \* buffer[s]: the deque it fills
  keep,       \* keep_reading, go, EOF of each reader
  go,
  eof,
  closed,     \* closed[s]: the caller's end of the pipe is closed
  main,       \* what the caller is doing
  discarded,  \* output joined after a program that failed at once
  delivered,  \* output handed to the WSGI server, or joined by the command
  outcome,    \* "open", then "complete" or "cut"
  error       \* the exception that the caller saw

childVars == <<child, wants, todo, wrote>>
inputVars == <<feeder, input>>
events == <<keep, go, eof, closed>>
results == <<discarded, delivered, outcome, error>>
vars == <<use, childVars, pipe, inputVars, reader, held, buffer, events,
          main, results>>

UpTo(n) == [i \in 1 .. n |-> i]
At(doing, step) == main = [doing |-> doing, step |-> step]
GoTo(doing, step) == main' = [doing |-> doing, step |-> step]

Failed == child \in {"failed", "shallow"}

Init ==
  /\ use \in {"wsgi", "command"}
  /\ child = "running"
  /\ \E p \in Programs :
       /\ todo = [s \in Streams |-> p[s]]
       /\ input = [left |-> p.given, piped |-> 0, open |-> TRUE]
       /\ wants = p.wants
  /\ wrote = [s \in Streams |-> IF s = "out" THEN Starting ELSE 0]
  /\ pipe = [s \in Streams |-> 0]
  /\ feeder = IF input.left = 0 THEN "done" ELSE "feeding"
  /\ reader = [s \in Streams |-> "read"]
  /\ held = [s \in Streams |-> 0]
  /\ buffer = [s \in Streams |-> UpTo(wrote[s])]
  /\ keep = [s \in Streams |-> TRUE]
  /\ go = [s \in Streams |-> TRUE]
  /\ eof = [s \in Streams |-> FALSE]
  /\ closed = [s \in Streams |-> FALSE]
  /\ main = [doing |-> "start", step |-> "wait"]
  /\ discarded = <<>>
  /\ delivered = <<>>
  /\ outcome = "open"
  /\ error = "none"

-----------------------------------------------------------------------------
(* The program: it reads as much of its input as it wants and then writes  *)
(* its output; it may write errors at any time.  When it ends, its pipes   *)
(* are closed before poll() can tell.  "shallow" is the failure that a     *)
(* shallow clone ends with.                                                *)

ReadInput ==
  /\ child = "running" /\ wants > 0 /\ input.piped > 0
  /\ wants' = wants - 1
  /\ input' = [input EXCEPT !.piped = @ - 1]
  /\ UNCHANGED <<use, child, todo, wrote, pipe, feeder, reader, held, buffer, events,
                 main, results>>

Write(s) ==
  /\ child = "running" /\ todo[s] > 0 /\ pipe[s] < PipeSize
  /\ s = "out" => wants = 0
  /\ todo' = [todo EXCEPT ![s] = @ - 1]
  /\ wrote' = [wrote EXCEPT ![s] = @ + 1]
  /\ pipe' = [pipe EXCEPT ![s] = @ + 1]
  /\ UNCHANGED <<use, child, wants, inputVars, reader, held, buffer, events, main, results>>

Becomes(status) ==
  /\ child' = status
  /\ UNCHANGED <<use, wants, todo, wrote, pipe, inputVars, reader, held, buffer, events,
                 main, results>>

Leave ==
  /\ child = "running"
  /\ todo = [s \in Streams |-> 0] /\ wants = 0
  /\ Becomes("leaving")

Crash ==
  /\ child = "running"
  /\ Becomes("dying")

Exit ==
  \/ child = "dying" /\ Becomes("failed")
  \/ child = "leaving" /\ \E how \in {"ok", "failed", "shallow"} : Becomes(how)

-----------------------------------------------------------------------------
(* StreamFeeder.run.  A write to a pipe that nobody can read any more      *)
(* fails; this process holds a read end of its own until close().          *)

Feed ==
  /\ feeder = "feeding"
  /\ \/ /\ child # "running" /\ ~input.open
        /\ feeder' = "done"
        /\ UNCHANGED input
     \/ /\ child = "running" \/ input.open
        /\ input.piped < PipeSize
        /\ input' = [input EXCEPT !.left = @ - 1, !.piped = @ + 1]
        /\ feeder' = IF input.left = 1 THEN "done" ELSE "feeding"
  /\ UNCHANGED <<use, childVars, pipe, reader, held, buffer, events, main, results>>

-----------------------------------------------------------------------------
(* InputStreamChunker.run, one step for each access to shared state.       *)

Move(s, from, to) ==
  /\ reader[s] = from
  /\ reader' = [reader EXCEPT ![s] = to]

\* read() on a closed file is a ValueError, taken for the end.  From here on
\* the file's lock is held, and a close() waits for it.
BeginRead(s) ==
  /\ IF closed[s] THEN Move(s, "read", "finish") ELSE Move(s, "read", "reading")
  /\ UNCHANGED <<use, childVars, pipe, inputVars, held, buffer, events, main, results>>

EndRead(s) ==
  /\ \/ /\ pipe[s] > 0
        /\ Move(s, "reading", "loop")
        /\ held' = [held EXCEPT ![s] = wrote[s] - pipe[s] + 1]
        /\ pipe' = [pipe EXCEPT ![s] = @ - 1]
     \/ /\ pipe[s] = 0 /\ child # "running"
        /\ Move(s, "reading", "finish")
        /\ held' = [held EXCEPT ![s] = 0]
        /\ UNCHANGED pipe
  /\ UNCHANGED <<use, childVars, inputVars, buffer, events, main, results>>

Loop(s) ==
  /\ Move(s, "loop", IF go[s] THEN "measure" ELSE "finish")
  /\ UNCHANGED <<use, childVars, pipe, inputVars, held, buffer, events, main, results>>

\* The count of the bottomless reader is one more than its buffer can hold.
CountMax(s) == IF s = "out" THEN ChunkCountMax ELSE ErrLimit + 1

\* A reader that pauses one chunk later.
MeasureLate(s) ==
  /\ Move(s, "measure", IF Len(buffer[s]) > CountMax(s) + 1 THEN "clear" ELSE "append")
  /\ UNCHANGED <<use, childVars, pipe, inputVars, held, buffer, events, main, results>>

Measure(s) ==
  /\ Move(s, "measure", IF Len(buffer[s]) > CountMax(s) THEN "clear" ELSE "append")
  /\ UNCHANGED <<use, childVars, pipe, inputVars, held, buffer, events, main, results>>

ClearKeep(s) ==
  /\ Move(s, "clear", "waiting")
  /\ keep' = [keep EXCEPT ![s] = FALSE]
  /\ UNCHANGED <<use, childVars, pipe, inputVars, held, buffer, go, eof, closed, main, results>>

\* Both waits: until keep_reading is set, or the IOError that ends the thread.
WaitKeep(s) ==
  /\ Move(s, "waiting", IF keep[s] THEN "append" ELSE "dead")
  /\ UNCHANGED <<use, childVars, pipe, inputVars, held, buffer, events, main, results>>

\* A deque with a maxlen drops what is at its other end.
Appended(s) ==
  LET all == Append(buffer[s], held[s])
  IN  IF s = "err" /\ Len(buffer[s]) = ErrLimit THEN Tail(all) ELSE all

AppendChunk(s) ==
  /\ Move(s, "append", "read")
  /\ buffer' = [buffer EXCEPT ![s] = Appended(s)]
  /\ UNCHANGED <<use, childVars, pipe, inputVars, held, events, main, results>>

\* A reader that forgets to set EOF.
FinishSilently(s) ==
  /\ Move(s, "finish", "done")
  /\ UNCHANGED <<use, childVars, pipe, inputVars, held, buffer, events, main, results>>

Finish(s) ==
  /\ Move(s, "finish", "done")
  /\ eof' = [eof EXCEPT ![s] = TRUE]
  /\ UNCHANGED <<use, childVars, pipe, inputVars, held, buffer, keep, go, closed, main, results>>

ReaderStep(s) ==
  \/ BeginRead(s) \/ EndRead(s) \/ Loop(s) \/ Measure(s) \/ ClearKeep(s)
  \/ WaitKeep(s) \/ AppendChunk(s) \/ Finish(s)

-----------------------------------------------------------------------------
(* The caller.  What it does, and the stream it does it to:                *)

StreamOf ==
  [discard  |-> "out",   \* __init__ after a failure: join the output
   collect  |-> "err",   \*   then the errors
   serve    |-> "out",   \* iterate over the output
   drain    |-> "err",   \* the command joins the errors too
   abort    |-> "out",   \* __next__ after a failure: stop the output
   report   |-> "err",   \*   then stop and join the errors
   closeOut |-> "out",   \* close()
   closeErr |-> "err"]

Serving == GoTo("serve", IF use = "wsgi" THEN "poll" ELSE "look")

\* __init__: until the end of the output or a full buffer, then poll().
Start ==
  /\ At("start", "wait")
  /\ eof["out"] \/ ~keep["out"]
  /\ GoTo("start", "poll")
  /\ UNCHANGED <<use, childVars, pipe, inputVars, reader, held, buffer, events, results>>

FirstPoll ==
  /\ At("start", "poll")
  /\ IF Failed THEN GoTo("discard", "stop") ELSE Serving
  /\ UNCHANGED <<use, childVars, pipe, inputVars, reader, held, buffer, events, results>>

\* __next__: poll() before each chunk.
Poll ==
  /\ At("serve", "poll")
  /\ IF Failed THEN GoTo("abort", "stop") ELSE GoTo("serve", "look")
  /\ UNCHANGED <<use, childVars, pipe, inputVars, reader, held, buffer, events, results>>

\* InputStreamChunker.stop: the two flags, then the file.
StopFlags ==
  /\ main.step = "stop"
  /\ LET s == StreamOf[main.doing] IN
       /\ go' = [go EXCEPT ![s] = FALSE]
       /\ eof' = [eof EXCEPT ![s] = TRUE]
  /\ GoTo(main.doing, "close")
  /\ UNCHANGED <<use, childVars, pipe, inputVars, reader, held, buffer, keep, closed, results>>

AfterClose ==
  CASE main.doing = "abort"    -> GoTo("report", "stop")
    [] main.doing = "closeOut" -> GoTo("closeErr", "stop")
    [] main.doing = "closeErr" -> GoTo("closeInput", "close")
    [] OTHER                   -> GoTo(main.doing, "look")

\* A close() that does not wait for the file's lock.
CloseFileUnlocked ==
  /\ main.step = "close" /\ main.doing \in DOMAIN StreamOf
  /\ closed' = [closed EXCEPT ![StreamOf[main.doing]] = TRUE]
  /\ AfterClose
  /\ UNCHANGED <<use, childVars, pipe, inputVars, reader, held, buffer, keep, go, eof, results>>

CloseFile ==
  /\ main.step = "close" /\ main.doing \in DOMAIN StreamOf
  /\ LET s == StreamOf[main.doing] IN
       /\ reader[s] # "reading"
       /\ closed' = [closed EXCEPT ![s] = TRUE]
  /\ AfterClose
  /\ UNCHANGED <<use, childVars, pipe, inputVars, reader, held, buffer, keep, go, eof, results>>

\* BufferedGenerator.__next__: while there is nothing and it is not the end ...
Look ==
  /\ main.step = "look"
  /\ GoTo(main.doing, IF buffer[StreamOf[main.doing]] # <<>> THEN "take" ELSE "ask")
  /\ UNCHANGED <<use, childVars, pipe, inputVars, reader, held, buffer, events, results>>

\* StopIteration as soon as EOF is set.
AskOnce ==
  /\ main.step = "ask"
  /\ GoTo(main.doing, IF eof[StreamOf[main.doing]] THEN "end" ELSE "look")
  /\ UNCHANGED <<use, childVars, pipe, inputVars, reader, held, buffer, events, results>>

Ask ==
  /\ main.step = "ask"
  /\ GoTo(main.doing, IF eof[StreamOf[main.doing]] THEN "recheck" ELSE "look")
  /\ UNCHANGED <<use, childVars, pipe, inputVars, reader, held, buffer, events, results>>

\* ... and a second look once the end is known.
Recheck ==
  /\ main.step = "recheck"
  /\ GoTo(main.doing, IF buffer[StreamOf[main.doing]] # <<>> THEN "take" ELSE "end")
  /\ UNCHANGED <<use, childVars, pipe, inputVars, reader, held, buffer, events, results>>

Take ==
  /\ main.step = "take"
  /\ keep' = [keep EXCEPT ![StreamOf[main.doing]] = TRUE]
  /\ GoTo(main.doing, "pop")
  /\ UNCHANGED <<use, childVars, pipe, inputVars, reader, held, buffer, go, eof, closed, results>>

Pop ==
  /\ main.step = "pop"
  /\ LET s == StreamOf[main.doing] IN
       /\ buffer' = [buffer EXCEPT ![s] = Tail(@)]
       /\ discarded' = IF main.doing = "discard"
                       THEN Append(discarded, Head(buffer[s])) ELSE discarded
       /\ delivered' = IF main.doing = "serve"
                       THEN Append(delivered, Head(buffer[s])) ELSE delivered
       \* ''.join of bytes in __next__
       /\ error' = IF main.doing = "report" THEN "TypeError" ELSE error
  /\ IF main.doing = "serve" THEN Serving ELSE GoTo(main.doing, "look")
  /\ UNCHANGED <<use, childVars, pipe, inputVars, reader, held, events, outcome>>

\* StopIteration of each loop.
DiscardEnds ==
  /\ At("discard", "end")
  /\ GoTo("collect", "stop")
  /\ UNCHANGED <<use, childVars, pipe, inputVars, reader, held, buffer, events, results>>

\* The output of a shallow clone is handed out after all, in one piece; what
\* there is of it and of the message decides.  Any other failure is raised by
\* __init__, and there is no object to close.
CollectEnds ==
  /\ At("collect", "end")
  /\ \/ /\ child = "shallow"
        /\ GoTo("joined", "next")
        /\ UNCHANGED results
     \/ /\ GoTo("over", "raised")
        /\ outcome' = "cut"
        /\ error' = "EnvironmentError"
        /\ UNCHANGED <<discarded, delivered>>
  /\ UNCHANGED <<use, childVars, pipe, inputVars, reader, held, buffer, events>>

Joined ==
  /\ At("joined", "next")
  /\ delivered' = discarded
  /\ GoTo("joined", "end")
  /\ UNCHANGED <<use, childVars, pipe, inputVars, reader, held, buffer, events,
                 discarded, outcome, error>>

\* No process and no generator any more: close() closes the rest.
JoinedEnds ==
  /\ At("joined", "end")
  /\ outcome' = "cut"
  /\ GoTo("closeErr", "stop")
  /\ UNCHANGED <<use, childVars, pipe, inputVars, reader, held, buffer, events,
                 discarded, delivered, error>>

ServeEnds ==
  /\ At("serve", "end")
  /\ outcome' = "complete"
  /\ IF use = "command" THEN GoTo("drain", "look") ELSE GoTo("terminate", "close")
  /\ UNCHANGED <<use, childVars, pipe, inputVars, reader, held, buffer, events,
                 discarded, delivered, error>>

DrainEnds ==
  /\ At("drain", "end")
  /\ GoTo("terminate", "close")
  /\ UNCHANGED <<use, childVars, pipe, inputVars, reader, held, buffer, events, results>>

ReportEnds ==
  /\ At("report", "end")
  /\ outcome' = "cut"
  /\ error' = IF error = "none" THEN "EnvironmentError" ELSE error
  /\ GoTo("terminate", "close")
  /\ UNCHANGED <<use, childVars, pipe, inputVars, reader, held, buffer, events,
                 discarded, delivered>>

\* The WSGI server closes what it has not read to the end: the client is gone.
GiveUp ==
  /\ At("serve", "poll")
  /\ outcome' = "cut"
  /\ GoTo("terminate", "close")
  /\ UNCHANGED <<use, childVars, pipe, inputVars, reader, held, buffer, events,
                 discarded, delivered, error>>

\* close(): terminate(), then both generators, then the read end of the input.
Terminate ==
  /\ main.doing = "terminate"
  /\ child' = IF child = "running" THEN "dying" ELSE child
  /\ GoTo("closeOut", "stop")
  /\ UNCHANGED <<use, wants, todo, wrote, pipe, inputVars, reader, held, buffer, events,
                 results>>

\* A close() that leaves the read end of the input open.
CloseInputNever ==
  /\ main.doing = "closeInput"
  /\ GoTo("over", "closed")
  /\ UNCHANGED <<use, childVars, pipe, inputVars, reader, held, buffer, events, results>>

CloseInput ==
  /\ main.doing = "closeInput"
  /\ input' = [input EXCEPT !.open = FALSE]
  /\ GoTo("over", "closed")
  /\ UNCHANGED <<use, childVars, pipe, feeder, reader, held, buffer, events, results>>

Iterate == Look \/ Ask \/ Recheck \/ Take \/ Pop

IterationEnds ==
  DiscardEnds \/ CollectEnds \/ JoinedEnds \/ ServeEnds \/ DrainEnds \/ ReportEnds

CallerStep ==
  \/ Start \/ FirstPoll \/ Poll \/ StopFlags \/ CloseFile \/ Iterate
  \/ IterationEnds \/ Joined \/ Terminate \/ CloseInput

ChildStep == ReadInput \/ Leave \/ Exit \/ \E s \in Streams : Write(s)

Next ==
  \/ ChildStep \/ Crash \/ Feed
  \/ \E s \in Streams : ReaderStep(s)
  \/ CallerStep \/ GiveUp

\* The program runs to its end unless it is blocked, every thread is scheduled
\* and every timed wait ends; nothing makes a program crash or a client leave.
Fairness ==
  /\ WF_vars(ReadInput) /\ WF_vars(Leave) /\ WF_vars(Exit)
  /\ WF_vars(Feed) /\ WF_vars(CallerStep)
  /\ \A s \in Streams : WF_vars(Write(s)) /\ WF_vars(ReaderStep(s))

Spec == Init /\ [][Next]_vars /\ Fairness

-----------------------------------------------------------------------------
ReaderEnded(s) == reader[s] \in {"done", "dead"}

\* What each part of the state may be, and the file's lock: an end that has
\* been closed is not being read.
TypeOK ==
  /\ use \in {"wsgi", "command"}
  /\ child \in {"running", "leaving", "dying", "ok", "failed", "shallow"}
  /\ wants \in Nat
  /\ todo \in [Streams -> Nat]
  /\ wrote \in [Streams -> Nat]
  /\ pipe \in [Streams -> 0 .. PipeSize]
  /\ \A s \in Streams : pipe[s] <= wrote[s]
  /\ input \in [left : Nat, piped : 0 .. PipeSize, open : BOOLEAN]
  /\ feeder \in {"feeding", "done"}
  /\ reader \in [Streams -> {"read", "reading", "loop", "measure", "clear",
                             "waiting", "append", "finish", "done", "dead"}]
  /\ held \in [Streams -> Nat]
  /\ \A s \in Streams : buffer[s] \in Seq(Nat)
  /\ {keep, go, eof, closed} \subseteq [Streams -> BOOLEAN]
  /\ \A s \in Streams : closed[s] => reader[s] # "reading"
  /\ discarded \in Seq(Nat) /\ delivered \in Seq(Nat)
  /\ outcome \in {"open", "complete", "cut"}
  /\ error \in {"none", "EnvironmentError", "TypeError"}

\* The output waits in memory only up to the limit: the reader lets the buffer
\* grow to chunk_count_max + 1 before it pauses, and the caller, who sets
\* keep_reading before it takes a chunk, lets it add one more.  Errors never
\* take more than their maxlen, and their reader never waits for anybody, or a
\* program that writes errors only would block on its pipe while __init__ waits
\* for its output.
BufferBounded ==
  /\ Len(buffer["out"]) <= ChunkCountMax + 2
  /\ Len(buffer["err"]) <= ErrLimit
  /\ reader["err"] \notin {"clear", "waiting", "dead"}

\* The caller gets the chunks of the output in order, none twice and none left
\* out, and an ordinary end only after the last one.
Channel == INSTANCE OutputChannel
             WITH sent <- wrote["out"], received <- delivered, status <- outcome
ImplementsChannel == Channel!Spec

\* __init__ comes to an end: the program ends or fills the buffer.  The caller
\* comes to an end too, unless the reader of the output gave up waiting for it
\* (it ends without setting EOF).
CallerEnds ==
  /\ <>(main.doing # "start")
  /\ <>(main.doing = "over" \/ reader["out"] = "dead")

\* No thread is left behind by a caller that is done: the readers end, and the
\* feeder does unless __init__ raised, which leaves the input open.
ThreadsEnd ==
  main.doing = "over" ~> /\ \A s \in Streams : ReaderEnded(s)
                         /\ feeder = "done" \/ At("over", "raised")
=============================================================================
