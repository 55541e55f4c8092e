--------------------------- MODULE SubprocessIOProofs ---------------------------
(***************************************************************************)
(* Proofs about SubprocessIO for programs that write and are given any     *)
(* number of chunks, and pipes and buffers of any size.  The invariant has *)
(* three parts: the types with the places of the caller, the bound on the  *)
(* buffers, and the flow of the output, which is one sequence spread over  *)
(* what was handed out, the buffer, the reader and the pipe.               *)
(***************************************************************************)
EXTENDS SubprocessIO, SequenceTheorems, TLAPS

-----------------------------------------------------------------------------
(* Where the caller can be.                                                *)

Iterating == {"look", "ask", "recheck", "take", "pop", "end"}

Doings ==
  {"start", "discard", "collect", "joined", "serve", "drain", "abort", "report",
   "terminate", "closeOut", "closeErr", "closeInput", "over"}
Steps ==
  {"wait", "poll", "stop", "close", "next", "raised", "closed"} \cup Iterating

MainOK ==
  /\ main \in [doing : Doings, step : Steps]
  /\ main.doing = "start" => main.step \in {"wait", "poll"}
  /\ main.doing \in {"discard", "collect", "report"} =>
       main.step \in {"stop", "close"} \cup Iterating
  /\ main.doing = "serve" => main.step \in {"poll"} \cup Iterating
  /\ main.doing = "drain" => main.step \in Iterating
  /\ main.doing \in {"abort", "closeOut", "closeErr"} => main.step \in {"stop", "close"}
  /\ main.doing = "joined" => main.step \in {"next", "end"}
  /\ main.doing \in {"terminate", "closeInput"} => main.step = "close"
  /\ main.doing = "over" => main.step \in {"raised", "closed"}

(* The types, part by part, so that a step is looked at only for the parts *)
(* it touches.                                                             *)

PipesOK ==
  /\ use \in {"wsgi", "command"}
  /\ child \in {"running", "leaving", "dying", "ok", "failed", "shallow"}
  /\ wants \in Nat
  /\ todo \in [Streams -> Nat]
  /\ wrote \in [Streams -> Nat]
  /\ pipe \in [Streams -> 0 .. PipeSize]
  /\ \A s \in Streams : pipe[s] <= wrote[s]

\* A feeder that is at work has something to feed.
InputOK ==
  /\ input \in [left : Nat, piped : 0 .. PipeSize, open : BOOLEAN]
  /\ feeder \in {"feeding", "done"}
  /\ feeder = "feeding" => input.left > 0

ReaderPlaces ==
  {"read", "reading", "loop", "measure", "clear", "waiting", "append", "finish",
   "done", "dead"}

ReadersOK ==
  /\ reader \in [Streams -> ReaderPlaces]
  /\ held \in [Streams -> Nat]
  /\ closed \in [Streams -> BOOLEAN]
  /\ \A s \in Streams : closed[s] => reader[s] # "reading"

EventsOK ==
  /\ keep \in [Streams -> BOOLEAN]
  /\ go \in [Streams -> BOOLEAN]
  /\ eof \in [Streams -> BOOLEAN]

\* A caller that is about to take a chunk has seen one, and nobody else takes any.
BuffersOK ==
  /\ buffer \in [Streams -> Seq(Nat)]
  /\ main.step \in {"take", "pop"} => buffer[StreamOf[main.doing]] # <<>>

ResultsOK ==
  /\ discarded \in Seq(Nat) /\ delivered \in Seq(Nat)
  /\ outcome \in {"open", "complete", "cut"}
  /\ error \in {"none", "EnvironmentError", "TypeError"}

TypeInv ==
  PipesOK /\ InputOK /\ ReadersOK /\ EventsOK /\ BuffersOK /\ ResultsOK /\ MainOK

-----------------------------------------------------------------------------
(* The bound.  The caller that has set keep_reading and not yet taken its  *)
(* chunk is what lets the buffer grow by one more.                         *)

Popping == main.step = "pop" /\ main.doing \in {"discard", "serve"}
Extra == IF Popping THEN 1 ELSE 0

Bound ==
  /\ reader["err"] \notin {"clear", "waiting", "dead"}
  /\ Len(buffer["err"]) <= ErrLimit
  /\ Len(buffer["out"]) <= ChunkCountMax + 1 + Extra
  /\ reader["out"] = "append" \/ (reader["out"] = "waiting" /\ keep["out"]) =>
       Len(buffer["out"]) <= ChunkCountMax + Extra

-----------------------------------------------------------------------------
(* The flow of the output: what was taken, then the buffer, then what the  *)
(* reader holds, then the pipe are the chunks 1, 2, ... in this order.     *)

Out == IF discarded = <<>> THEN delivered ELSE discarded

Holding == reader["out"] \in {"loop", "measure", "clear", "waiting", "append"}
Passed == Len(Out) + Len(buffer["out"]) + (IF Holding THEN 1 ELSE 0)

Ordered ==
  /\ \A i \in 1 .. Len(Out) : Out[i] = i
  /\ \A i \in 1 .. Len(buffer["out"]) : buffer["out"][i] = Len(Out) + i
  /\ Holding => held["out"] = Len(Out) + Len(buffer["out"]) + 1

\* Nothing is lost on the way, unless the reader gave up or was stopped.
Counted ==
  /\ Passed <= wrote["out"]
  /\ reader["out"] \notin {"finish", "done", "dead"} => Passed + pipe["out"] = wrote["out"]
  /\ reader["out"] \in {"finish", "done"} /\ go["out"] /\ ~closed["out"] =>
       Passed = wrote["out"] /\ child # "running"

\* What the caller has done so far, from where it is.
Progress ==
  /\ main.doing \in {"start", "discard", "collect"} \/ At("joined", "next") =>
       delivered = <<>>
  /\ main.doing \in {"start", "serve"} =>
       /\ discarded = <<>> /\ go["out"] /\ ~closed["out"]
       /\ eof["out"] => reader["out"] = "done"
  /\ main.doing \in {"start", "discard", "collect", "joined", "serve", "abort", "report"} =>
       outcome = "open"
  /\ main.doing = "serve" /\ main.step \in {"recheck", "end"} => eof["out"]
  /\ At("serve", "end") => buffer["out"] = <<>>

FlowInv == Ordered /\ Counted /\ Progress

-----------------------------------------------------------------------------
\* The limits are counts, and a buffer and a pipe can hold something.
LEMMA Limits ==
  /\ Starting \in Nat /\ ChunkCountMax \in Nat /\ Starting <= ChunkCountMax
  /\ ErrLimit \in Nat /\ ErrLimit > 0 /\ PipeSize \in Nat /\ PipeSize > 0
BY SubprocessAssumption

\* Which stream a part of the caller works on.
LEMMA StreamOfIs ==
  /\ DOMAIN StreamOf = {"discard", "collect", "serve", "drain", "abort", "report",
                        "closeOut", "closeErr"}
  /\ \A d \in DOMAIN StreamOf :
       StreamOf[d] = IF d \in {"discard", "serve", "abort", "closeOut"} THEN "out" ELSE "err"
BY DEF StreamOf

\* The caller works on a stream at every step that looks at one.
LEMMA StreamKnown ==
  ASSUME MainOK, main.step \in {"stop", "look", "ask", "recheck", "take", "pop"}
  PROVE  main.doing \in DOMAIN StreamOf /\ StreamOf[main.doing] \in Streams
BY StreamOfIs DEF MainOK, Doings, Iterating, Streams

\* The first n chunks as a sequence.
LEMMA UpToIs ==
  ASSUME NEW n \in Nat
  PROVE  UpTo(n) \in Seq(Nat) /\ Len(UpTo(n)) = n /\ \A i \in 1 .. n : UpTo(n)[i] = i
<1>1. UpTo(n) \in [1 .. n -> Nat] /\ DOMAIN UpTo(n) = 1 .. n
  BY DEF UpTo
<1>2. UpTo(n) \in Seq(Nat)
  BY <1>1, SeqDef
<1> QED
  BY <1>1, <1>2, LenProperties DEF UpTo

-----------------------------------------------------------------------------
(* The types are an invariant, shown for one actor after the other.        *)

CallerMoves == CallerStep \/ GiveUp

\* The first state has the types.
LEMMA InitTypes == Init => TypeInv
<1> SUFFICES ASSUME Init PROVE TypeInv
  OBVIOUS
<1> PICK p \in Programs : /\ todo = [s \in Streams |-> p[s]]
                          /\ input = [left |-> p.given, piped |-> 0, open |-> TRUE]
                          /\ wants = p.wants
  BY DEF Init
<1>1. p \in [out : Nat, err : Nat, given : Nat, wants : Nat] /\ Starting \in Nat /\ PipeSize \in Nat
  BY SubprocessAssumption
<1>2. todo \in [Streams -> Nat] /\ wrote \in [Streams -> Nat]
  BY <1>1 DEF Init, Streams
<1>3. PipesOK
  BY <1>1, <1>2 DEF Init, PipesOK
<1>4. InputOK
  BY <1>1 DEF Init, InputOK
<1>5. ReadersOK /\ EventsOK
  BY DEF Init, ReadersOK, EventsOK, ReaderPlaces
<1>6. \A s \in Streams : UpTo(wrote[s]) \in Seq(Nat)
  BY <1>2, UpToIs
<1>7. BuffersOK /\ ResultsOK
  BY <1>6 DEF Init, BuffersOK, ResultsOK
<1>8. MainOK
  BY DEF Init, MainOK, Doings, Steps, Iterating
<1> QED
  BY <1>3, <1>4, <1>5, <1>7, <1>8 DEF TypeInv

\* The program and its end change the pipes only.
LEMMA ChildTypes ==
  ASSUME TypeInv, ChildStep \/ Crash
  PROVE  TypeInv'
<1>1. UNCHANGED <<feeder, reader, held, buffer, events, main, results>>
  BY DEF ChildStep, Crash, ReadInput, Write, Leave, Exit, Becomes, inputVars
<1>2. (ReadersOK /\ EventsOK /\ BuffersOK /\ ResultsOK /\ MainOK)'
  BY <1>1 DEF TypeInv, ReadersOK, EventsOK, BuffersOK, ResultsOK, MainOK, events, results
<1>3. PipesOK' /\ InputOK'
  <2>1. CASE ReadInput
    <3>1. input.piped \in 0 .. PipeSize /\ input.piped > 0 /\ input.piped - 1 \in 0 .. PipeSize
      BY <2>1, Limits DEF ReadInput, TypeInv, InputOK
    <3>2. InputOK'
      BY <2>1, <3>1 DEF ReadInput, TypeInv, InputOK
    <3>3. PipesOK'
      BY <2>1 DEF ReadInput, TypeInv, PipesOK
    <3> QED
      BY <3>2, <3>3
  <2>2. ASSUME NEW s \in Streams, Write(s) PROVE PipesOK' /\ InputOK'
    <3>1. pipe'[s] = pipe[s] + 1 /\ wrote'[s] = wrote[s] + 1 /\ pipe'[s] \in 0 .. PipeSize
      BY <2>2, SubprocessAssumption DEF Write, TypeInv, PipesOK
    <3>2. \A t \in Streams \ {s} : pipe'[t] = pipe[t] /\ wrote'[t] = wrote[t]
      BY <2>2 DEF Write, TypeInv, PipesOK
    <3>3. todo' \in [Streams -> Nat] /\ wrote' \in [Streams -> Nat]
      BY <2>2 DEF Write, TypeInv, PipesOK
    <3>4. pipe' \in [Streams -> 0 .. PipeSize]
      BY <2>2, <3>1 DEF Write, TypeInv, PipesOK
    <3>5. \A t \in Streams : pipe'[t] <= wrote'[t]
      BY <3>1, <3>2 DEF TypeInv, PipesOK
    <3>6. UNCHANGED <<use, child, wants, input, feeder>>
      BY <2>2 DEF Write, inputVars
    <3> QED
      BY <3>3, <3>4, <3>5, <3>6 DEF TypeInv, PipesOK, InputOK
  <2>3. ASSUME NEW status \in {"leaving", "dying", "ok", "failed", "shallow"}, Becomes(status)
        PROVE  PipesOK' /\ InputOK'
    BY <2>3 DEF Becomes, TypeInv, PipesOK, InputOK, inputVars
  <2> QED
    BY <2>1, <2>2, <2>3 DEF ChildStep, Crash, Leave, Exit
<1> QED
  BY <1>2, <1>3 DEF TypeInv

\* So does the feeder.
LEMMA FeedTypes ==
  ASSUME TypeInv, Feed
  PROVE  TypeInv'
<1>1. InputOK'
  <2>1. CASE UNCHANGED input /\ feeder' = "done"
    BY <2>1 DEF TypeInv, InputOK
  <2>2. CASE /\ input.piped < PipeSize
             /\ input' = [input EXCEPT !.left = @ - 1, !.piped = @ + 1]
             /\ feeder' = IF input.left = 1 THEN "done" ELSE "feeding"
    <3>1. input.left - 1 \in Nat /\ input.piped + 1 \in 0 .. PipeSize
      BY <2>2, Limits DEF Feed, TypeInv, InputOK
    <3>2. input' \in [left : Nat, piped : 0 .. PipeSize, open : BOOLEAN]
      BY <2>2, <3>1 DEF TypeInv, InputOK
    <3>3. input'.left = input.left - 1
      BY <2>2 DEF TypeInv, InputOK
    <3>4. feeder' \in {"feeding", "done"} /\ (feeder' = "feeding" => input.left # 1)
      BY <2>2
    <3>5. input.left \in Nat
      BY DEF TypeInv, InputOK
    <3> QED
      BY <3>1, <3>2, <3>3, <3>4, <3>5 DEF InputOK
  <2> QED
    BY <2>1, <2>2 DEF Feed
<1>2. (PipesOK /\ ReadersOK /\ EventsOK /\ BuffersOK /\ ResultsOK /\ MainOK)'
  BY DEF Feed, TypeInv, PipesOK, ReadersOK, EventsOK, BuffersOK, ResultsOK, MainOK,
         events, results, childVars
<1> QED
  BY <1>1, <1>2 DEF TypeInv

-----------------------------------------------------------------------------
(* The readers.                                                            *)

\* What a buffer becomes when a chunk is appended: the errors lose their oldest.
LEMMA AppendedIs ==
  ASSUME NEW s \in Streams, buffer[s] \in Seq(Nat), held[s] \in Nat
  PROVE  /\ Appended(s) \in Seq(Nat)
         /\ Appended(s) # <<>>
         /\ s = "out" => /\ Len(Appended(s)) = Len(buffer[s]) + 1
                         /\ \A i \in 1 .. Len(buffer[s]) : Appended(s)[i] = buffer[s][i]
                         /\ Appended(s)[Len(buffer[s]) + 1] = held[s]
         /\ s = "err" /\ Len(buffer[s]) <= ErrLimit => Len(Appended(s)) <= ErrLimit
<1> DEFINE all == Append(buffer[s], held[s])
<1>1. /\ all \in Seq(Nat) /\ Len(all) = Len(buffer[s]) + 1 /\ Len(buffer[s]) \in Nat
      /\ \A i \in 1 .. Len(buffer[s]) : all[i] = buffer[s][i]
      /\ all[Len(buffer[s]) + 1] = held[s]
  BY AppendProperties, LenProperties
<1>2. CASE s = "err" /\ Len(buffer[s]) = ErrLimit
  <2>1. Appended(s) = Tail(all)
    BY <1>2 DEF Appended
  <2>2. all # <<>>
    BY <1>1
  <2>3. Tail(all) \in Seq(Nat) /\ Len(Tail(all)) = Len(buffer[s])
    BY <1>1, <2>2, HeadTailProperties
  <2>4. Len(buffer[s]) # 0 /\ Len(<<>>) = 0
    BY <1>2, Limits
  <2> QED
    BY <1>2, <2>1, <2>3, <2>4
<1>3. CASE ~(s = "err" /\ Len(buffer[s]) = ErrLimit)
  <2>1. Appended(s) = all
    BY <1>3 DEF Appended
  <2> QED
    BY <1>1, <1>3, <2>1, Limits
<1> QED
  BY <1>2, <1>3

\* A reader changes its own place, chunk, buffer and events.
LEMMA ReaderTypes ==
  ASSUME TypeInv, NEW s \in Streams, ReaderStep(s)
  PROVE  TypeInv'
<1>1. UNCHANGED <<use, childVars, inputVars, closed, go, main, results>>
  BY DEF ReaderStep, BeginRead, EndRead, Loop, Measure, ClearKeep, WaitKeep, AppendChunk,
         Finish, events
<1>2. (InputOK /\ ResultsOK /\ MainOK)'
  BY <1>1 DEF TypeInv, InputOK, ResultsOK, MainOK, inputVars, results
<1>3. PipesOK'
  <2>1. CASE EndRead(s) /\ pipe' # pipe
    <3>1. pipe' = [pipe EXCEPT ![s] = @ - 1] /\ pipe[s] > 0
      BY <2>1 DEF EndRead
    <3> QED
      BY <1>1, <3>1, Limits DEF TypeInv, PipesOK, childVars
  <2>2. pipe' = pipe => PipesOK'
    BY <1>1 DEF TypeInv, PipesOK, childVars
  <2> QED
    BY <2>1, <2>2 DEF ReaderStep, BeginRead, Loop, Measure, ClearKeep, WaitKeep,
                      AppendChunk, Finish
<1>4. ReadersOK'
  <2>1. \/ BeginRead(s) /\ held' = held
        \/ EndRead(s)
        \/ reader' \in [Streams -> ReaderPlaces] /\ reader'[s] # "reading" /\ held' = held
           /\ \A t \in Streams \ {s} : reader'[t] = reader[t]
    BY DEF ReaderStep, BeginRead, Loop, Measure, ClearKeep, WaitKeep, AppendChunk, Finish,
           Move, TypeInv, ReadersOK, ReaderPlaces
  <2>2. CASE BeginRead(s) /\ held' = held
    BY <1>1, <2>2 DEF BeginRead, Move, TypeInv, ReadersOK, ReaderPlaces
  <2>3. CASE EndRead(s)
    <3>1. wrote[s] - pipe[s] + 1 \in Nat
      BY DEF TypeInv, PipesOK
    <3>2. held' \in [Streams -> Nat]
      BY <2>3, <3>1 DEF EndRead, TypeInv, ReadersOK
    <3>3. /\ reader' \in [Streams -> ReaderPlaces] /\ reader'[s] # "reading"
          /\ \A t \in Streams \ {s} : reader'[t] = reader[t]
      BY <2>3 DEF EndRead, Move, TypeInv, ReadersOK, ReaderPlaces
    <3> QED
      BY <1>1, <3>2, <3>3 DEF TypeInv, ReadersOK
  <2> QED
    BY <1>1, <2>1, <2>2, <2>3 DEF TypeInv, ReadersOK
<1>5. EventsOK'
  <2>1. keep' = keep \/ keep' = [keep EXCEPT ![s] = FALSE]
    BY DEF ReaderStep, BeginRead, EndRead, Loop, Measure, ClearKeep, WaitKeep, AppendChunk,
           Finish, events
  <2>2. eof' = eof \/ eof' = [eof EXCEPT ![s] = TRUE]
    BY DEF ReaderStep, BeginRead, EndRead, Loop, Measure, ClearKeep, WaitKeep, AppendChunk,
           Finish, events
  <2> QED
    BY <1>1, <2>1, <2>2 DEF TypeInv, EventsOK
<1>6. BuffersOK'
  <2>1. CASE AppendChunk(s)
    <3>1. buffer' = [buffer EXCEPT ![s] = Appended(s)] /\ main' = main
      BY <2>1 DEF AppendChunk
    <3>2. Appended(s) \in Seq(Nat) /\ Appended(s) # <<>>
      BY AppendedIs DEF TypeInv, BuffersOK, ReadersOK
    <3> QED
      BY <3>1, <3>2 DEF TypeInv, BuffersOK
  <2>2. buffer' = buffer /\ main' = main => BuffersOK'
    BY DEF TypeInv, BuffersOK
  <2> QED
    BY <2>1, <2>2 DEF ReaderStep, BeginRead, EndRead, Loop, Measure, ClearKeep, WaitKeep,
                      Finish
<1> QED
  BY <1>2, <1>3, <1>4, <1>5, <1>6 DEF TypeInv
-----------------------------------------------------------------------------
(* The caller.                                                             *)

\* Taking the first chunk of a buffer.
LEMMA TailIs ==
  ASSUME NEW b \in Seq(Nat), b # <<>>
  PROVE  /\ Head(b) = b[1] /\ Head(b) \in Nat
         /\ Tail(b) \in Seq(Nat) /\ Len(Tail(b)) = Len(b) - 1
         /\ Len(b) \in Nat /\ Len(b) > 0
         /\ \A i \in 1 .. Len(b) - 1 : Tail(b)[i] = b[i + 1]
BY HeadTailProperties, LenProperties, EmptySeq, ElementOfSeq

\* What the caller leaves alone.
LEMMA CallerFrame ==
  ASSUME CallerMoves
  PROVE  UNCHANGED <<use, wants, todo, wrote, pipe, feeder, reader, held>>
BY DEF CallerMoves, CallerStep, Start, FirstPoll, Poll, StopFlags, CloseFile, Iterate, Look,
       Ask, Recheck, Take, Pop, IterationEnds, DiscardEnds, CollectEnds, JoinedEnds,
       ServeEnds, DrainEnds, ReportEnds, Joined, Terminate, CloseInput, GiveUp,
       childVars, inputVars

\* The child is changed by terminate(), the input by the last step of close().
LEMMA CallerPipes ==
  ASSUME TypeInv, CallerMoves
  PROVE  PipesOK' /\ InputOK'
<1>1. child' = child \/ child' = "dying"
  BY DEF CallerMoves, CallerStep, Start, FirstPoll, Poll, StopFlags, CloseFile, Iterate, Look,
       Ask, Recheck, Take, Pop, IterationEnds, DiscardEnds, CollectEnds, JoinedEnds,
       ServeEnds, DrainEnds, ReportEnds, Joined, Terminate, CloseInput, GiveUp, childVars
<1>2. input' = input \/ input' = [input EXCEPT !.open = FALSE]
  BY DEF CallerMoves, CallerStep, Start, FirstPoll, Poll, StopFlags, CloseFile, Iterate, Look,
       Ask, Recheck, Take, Pop, IterationEnds, DiscardEnds, CollectEnds, JoinedEnds,
       ServeEnds, DrainEnds, ReportEnds, Joined, Terminate, CloseInput, GiveUp, inputVars
<1>3. PipesOK'
  BY <1>1, CallerFrame DEF TypeInv, PipesOK
<1>4. InputOK'
  BY <1>2, CallerFrame DEF TypeInv, InputOK
<1> QED
  BY <1>3, <1>4

\* The flags and the files: StopFlags, CloseFile and Take.
LEMMA CallerEvents ==
  ASSUME TypeInv, CallerMoves
  PROVE  EventsOK' /\ ReadersOK'
<1>1. CASE StopFlags
  BY <1>1, StreamKnown DEF StopFlags, TypeInv, EventsOK, ReadersOK
<1>2. CASE Take
  BY <1>2, StreamKnown DEF Take, TypeInv, EventsOK, ReadersOK
<1>3. CASE CloseFile
  <2>1. StreamOf[main.doing] \in Streams
    BY <1>3, StreamOfIs DEF CloseFile, Streams
  <2> QED
    BY <1>3, <2>1 DEF CloseFile, TypeInv, EventsOK, ReadersOK
<1>4. UNCHANGED events => EventsOK' /\ ReadersOK'
  BY CallerFrame DEF TypeInv, EventsOK, ReadersOK, events
<1> QED
  BY <1>1, <1>2, <1>3, <1>4
     DEF CallerMoves, CallerStep, Start, FirstPoll, Poll, Iterate, Look, Ask, Recheck, Pop,
         IterationEnds, DiscardEnds, CollectEnds, JoinedEnds, ServeEnds, DrainEnds,
         ReportEnds, Joined, Terminate, CloseInput, GiveUp

\* Where the caller goes.
LEMMA CallerPlaces ==
  ASSUME TypeInv, CallerMoves
  PROVE  MainOK'
<1> USE DEF At, GoTo, MainOK, Doings, Steps, Iterating
<1>0. MainOK
  BY DEF TypeInv
<1>1. CASE Start \/ FirstPoll \/ Poll \/ GiveUp
  BY <1>0, <1>1 DEF Start, FirstPoll, Poll, GiveUp, Serving
<1>2. CASE StopFlags
  <2>1. main.step = "stop" /\ main' = [doing |-> main.doing, step |-> "close"]
    BY <1>2 DEF StopFlags
  <2>2. main'.doing = main.doing /\ main'.step = "close"
    BY <2>1
  <2>3. main.doing \in {"discard", "collect", "report", "abort", "closeOut", "closeErr"}
    BY <1>0, <2>1
  <2>4. main' \in [doing : Doings, step : Steps]
    BY <1>0, <2>1
  <2> QED
    BY <2>2, <2>3, <2>4
<1>3. CASE CloseFile
  <2>1. main.doing \in {"discard", "collect", "report", "abort", "closeOut", "closeErr"}
    <3>1. main.step = "close" /\ main.doing \in DOMAIN StreamOf
      BY <1>3 DEF CloseFile
    <3> QED
      BY <1>0, <3>1, StreamOfIs
  <2>2. \/ main' \in {[doing |-> "report", step |-> "stop"],
                      [doing |-> "closeErr", step |-> "stop"],
                      [doing |-> "closeInput", step |-> "close"]}
        \/ /\ main.doing \in {"discard", "collect", "report"}
           /\ main' = [doing |-> main.doing, step |-> "look"]
    BY <1>3, <2>1 DEF CloseFile, AfterClose
  <2> QED
    BY <2>2
<1>4. CASE Look \/ Ask \/ Recheck \/ Take
  BY <1>0, <1>4 DEF Look, Ask, Recheck, Take
<1>5. CASE Pop
  BY <1>0, <1>5 DEF Pop, Serving
<1>6. CASE IterationEnds \/ Joined
  BY <1>0, <1>6 DEF IterationEnds, DiscardEnds, CollectEnds, JoinedEnds, ServeEnds, DrainEnds,
                    ReportEnds, Joined
<1>7. CASE Terminate \/ CloseInput
  BY <1>0, <1>7 DEF Terminate, CloseInput
<1> QED
  BY <1>1, <1>2, <1>3, <1>4, <1>5, <1>6, <1>7 DEF CallerMoves, CallerStep, Iterate

\* Only Pop takes a chunk, and only Look and Recheck see that there is one.
LEMMA CallerBuffers ==
  ASSUME TypeInv, CallerMoves
  PROVE  BuffersOK'
<1>1. CASE Pop
  <2>1. StreamOf[main.doing] \in Streams
    BY <1>1, StreamKnown DEF Pop, TypeInv
  <2>2. buffer[StreamOf[main.doing]] \in Seq(Nat) /\ buffer[StreamOf[main.doing]] # <<>>
    BY <1>1, <2>1 DEF Pop, TypeInv, BuffersOK
  <2>3. Tail(buffer[StreamOf[main.doing]]) \in Seq(Nat)
    BY <2>2, TailIs
  <2>4. buffer' \in [Streams -> Seq(Nat)]
    BY <1>1, <2>3 DEF Pop, TypeInv, BuffersOK
  <2>5. main'.step \notin {"take", "pop"}
    BY <1>1 DEF Pop, Serving, GoTo
  <2> QED
    BY <2>4, <2>5 DEF BuffersOK
<1>2. CASE Look \/ Recheck \/ Take
  BY <1>2 DEF Look, Recheck, Take, GoTo, TypeInv, BuffersOK
<1>3. (main'.step \notin {"take", "pop"} /\ buffer' = buffer) => BuffersOK'
  BY DEF TypeInv, BuffersOK
<1>4. CASE Start \/ FirstPoll \/ Poll \/ GiveUp \/ StopFlags \/ Ask
  BY <1>3, <1>4 DEF Start, FirstPoll, Poll, GiveUp, StopFlags, Ask, Serving, GoTo
<1>5. CASE CloseFile
  BY <1>3, <1>5 DEF CloseFile, AfterClose, GoTo
<1>6. CASE IterationEnds \/ Joined \/ Terminate \/ CloseInput
  BY <1>3, <1>6 DEF IterationEnds, DiscardEnds, CollectEnds, JoinedEnds, ServeEnds, DrainEnds,
                    ReportEnds, Joined, Terminate, CloseInput, GoTo
<1> QED
  BY <1>1, <1>2, <1>4, <1>5, <1>6 DEF CallerMoves, CallerStep, Iterate

\* What the caller got.
LEMMA CallerResults ==
  ASSUME TypeInv, CallerMoves
  PROVE  ResultsOK'
<1>1. CASE Pop
  <2>1. StreamOf[main.doing] \in Streams
    BY <1>1, StreamKnown DEF Pop, TypeInv
  <2>2. buffer[StreamOf[main.doing]] \in Seq(Nat) /\ buffer[StreamOf[main.doing]] # <<>>
    BY <1>1, <2>1 DEF Pop, TypeInv, BuffersOK
  <2>3. Head(buffer[StreamOf[main.doing]]) \in Nat
    BY <2>2, TailIs
  <2>4. /\ Append(discarded, Head(buffer[StreamOf[main.doing]])) \in Seq(Nat)
        /\ Append(delivered, Head(buffer[StreamOf[main.doing]])) \in Seq(Nat)
    BY <2>3, AppendProperties DEF TypeInv, ResultsOK
  <2> QED
    BY <1>1, <2>4 DEF Pop, TypeInv, ResultsOK
<1>2. CASE CollectEnds \/ JoinedEnds \/ ServeEnds \/ ReportEnds \/ Joined \/ GiveUp
  BY <1>2 DEF CollectEnds, JoinedEnds, ServeEnds, ReportEnds, Joined, GiveUp, TypeInv,
              ResultsOK, results
<1>3. UNCHANGED results => ResultsOK'
  BY DEF TypeInv, ResultsOK, results
<1> QED
  BY <1>1, <1>2, <1>3
     DEF CallerMoves, CallerStep, Start, FirstPoll, Poll, StopFlags, CloseFile, Iterate, Look,
         Ask, Recheck, Take, IterationEnds, DiscardEnds, DrainEnds, Terminate, CloseInput

\* Every step keeps the types.
LEMMA NextTypes ==
  ASSUME TypeInv, [Next]_vars
  PROVE  TypeInv'
<1>1. CASE CallerMoves
  BY <1>1, CallerPipes, CallerEvents, CallerPlaces, CallerBuffers, CallerResults DEF TypeInv
<1>2. CASE UNCHANGED vars
  BY <1>2 DEF vars, childVars, inputVars, events, results, TypeInv, PipesOK, InputOK,
              ReadersOK, EventsOK, BuffersOK, ResultsOK, MainOK
<1> QED
  BY <1>1, <1>2, ChildTypes, FeedTypes, ReaderTypes DEF Next, CallerMoves

\* Every part of the state has its type in every reachable state, and an end of
\* a pipe that the caller has closed is not being read: close() waits for the
\* reader's lock.
THEOREM TypesCorrect == Spec => []TypeOK
<1>1. TypeInv => TypeOK
  BY DEF TypeInv, TypeOK, PipesOK, InputOK, ReadersOK, EventsOK, BuffersOK, ResultsOK,
         ReaderPlaces
<1> QED
  BY <1>1, InitTypes, NextTypes, PTL DEF Spec
-----------------------------------------------------------------------------
(* The bound on the buffers.                                               *)

\* Lengths are counts.
LEMMA Lengths ==
  ASSUME TypeInv
  PROVE  /\ Len(buffer["out"]) \in Nat /\ Len(buffer["err"]) \in Nat
         /\ Len(discarded) \in Nat /\ Len(delivered) \in Nat
         /\ Len(Out) \in Nat /\ Out \in Seq(Nat)
BY LenProperties DEF TypeInv, BuffersOK, ResultsOK, Streams, Out

\* At the start the buffer of the output holds the starting values.
LEMMA InitBound == Init => Bound
<1> SUFFICES ASSUME Init PROVE Bound
  OBVIOUS
<1>1. buffer["out"] = UpTo(Starting) /\ buffer["err"] = UpTo(0)
  BY DEF Init, Streams
<1>2. Len(buffer["out"]) = Starting /\ Len(buffer["err"]) = 0
  BY <1>1, UpToIs, Limits
<1>3. reader["out"] = "read" /\ reader["err"] = "read" /\ Extra = 0
  BY DEF Init, Streams, Extra, Popping
<1> QED
  BY <1>2, <1>3, Limits DEF Bound

\* The place of one reader after a step of it; the other reader stays.
LEMMA ReaderMoves ==
  ASSUME TypeInv, NEW s \in Streams, ReaderStep(s)
  PROVE  /\ \A t \in Streams \ {s} : /\ reader'[t] = reader[t] /\ held'[t] = held[t]
                                     /\ buffer'[t] = buffer[t] /\ keep'[t] = keep[t]
                                     /\ eof'[t] = eof[t] /\ pipe'[t] = pipe[t]
         /\ UNCHANGED <<use, childVars, inputVars, closed, go, main, results>>
<1>1. UNCHANGED <<use, childVars, inputVars, closed, go, main, results>>
  BY DEF ReaderStep, BeginRead, EndRead, Loop, Measure, ClearKeep, WaitKeep, AppendChunk,
         Finish, events
<1>2. \A t \in Streams \ {s} : reader'[t] = reader[t] /\ held'[t] = held[t]
  BY DEF ReaderStep, BeginRead, EndRead, Loop, Measure, ClearKeep, WaitKeep, AppendChunk,
         Finish, Move, TypeInv, ReadersOK
<1>3. \A t \in Streams \ {s} : buffer'[t] = buffer[t] /\ pipe'[t] = pipe[t]
  BY DEF ReaderStep, BeginRead, EndRead, Loop, Measure, ClearKeep, WaitKeep, AppendChunk,
         Finish, TypeInv, BuffersOK, PipesOK
<1>4. \A t \in Streams \ {s} : keep'[t] = keep[t] /\ eof'[t] = eof[t]
  BY DEF ReaderStep, BeginRead, EndRead, Loop, Measure, ClearKeep, WaitKeep, AppendChunk,
         Finish, TypeInv, EventsOK, events
<1> QED
  BY <1>1, <1>2, <1>3, <1>4

\* The reader of the errors never pauses and keeps its buffer at the limit.
LEMMA ErrReaderBound ==
  ASSUME TypeInv, Bound, ReaderStep("err")
  PROVE  Bound'
<1>1. "err" \in Streams /\ "out" \in Streams \ {"err"}
  BY DEF Streams
<1>2. /\ reader'["out"] = reader["out"] /\ buffer'["out"] = buffer["out"]
      /\ keep'["out"] = keep["out"] /\ Extra' = Extra
  BY <1>1, ReaderMoves DEF Extra, Popping
<1>3. Len(buffer'["err"]) <= ErrLimit
  <2>1. CASE AppendChunk("err")
    <3>1. buffer'["err"] = Appended("err")
      BY <1>1, <2>1 DEF AppendChunk, TypeInv, BuffersOK
    <3> QED
      BY <1>1, <3>1, AppendedIs DEF Bound, TypeInv, BuffersOK, ReadersOK
  <2>2. buffer' = buffer => Len(buffer'["err"]) <= ErrLimit
    BY DEF Bound
  <2> QED
    BY <2>1, <2>2 DEF ReaderStep, BeginRead, EndRead, Loop, Measure, ClearKeep, WaitKeep, Finish
<1>4. reader'["err"] \notin {"clear", "waiting", "dead"}
  <2>1. CASE Measure("err")
    <3>1. ~(Len(buffer["err"]) > CountMax("err"))
      BY Limits, Lengths DEF Bound, CountMax
    <3> QED
      BY <1>1, <2>1, <3>1 DEF Measure, Move, TypeInv, ReadersOK
  <2>2. ~ClearKeep("err") /\ ~WaitKeep("err")
    BY DEF Bound, ClearKeep, WaitKeep, Move
  <2> QED
    BY <1>1, <2>1, <2>2 DEF ReaderStep, BeginRead, EndRead, Loop, AppendChunk, Finish, Move,
                            TypeInv, ReadersOK
<1> QED
  BY <1>2, <1>3, <1>4 DEF Bound

\* The reader of the output appends only below the limit, or when it was let on.
LEMMA OutReaderBound ==
  ASSUME TypeInv, Bound, ReaderStep("out")
  PROVE  Bound'
<1>1. "out" \in Streams /\ "err" \in Streams \ {"out"}
  BY DEF Streams
<1>2. reader'["err"] = reader["err"] /\ buffer'["err"] = buffer["err"] /\ Extra' = Extra
  BY <1>1, ReaderMoves DEF Extra, Popping
<1>3. /\ Len(buffer["out"]) \in Nat /\ Extra \in {0, 1}
      /\ Len(buffer["out"]) <= ChunkCountMax + 1 + Extra
  BY Lengths DEF Bound, Extra
<1> DEFINE Tight == reader'["out"] = "append" \/ (reader'["out"] = "waiting" /\ keep'["out"]) =>
                      Len(buffer'["out"]) <= ChunkCountMax + Extra
<1> SUFFICES Len(buffer'["out"]) <= ChunkCountMax + 1 + Extra /\ Tight
  BY <1>2 DEF Bound
<1>4. CASE AppendChunk("out")
  <2>1. buffer'["out"] = Appended("out") /\ reader["out"] = "append" /\ reader'["out"] = "read"
    BY <1>1, <1>4 DEF AppendChunk, Move, TypeInv, BuffersOK, ReadersOK
  <2>2. Len(buffer'["out"]) = Len(buffer["out"]) + 1
    BY <1>1, <2>1, AppendedIs DEF TypeInv, BuffersOK, ReadersOK
  <2>3. Len(buffer["out"]) <= ChunkCountMax + Extra
    BY <2>1 DEF Bound
  <2> QED
    BY <1>3, <2>1, <2>2, <2>3, Limits
<1>5. CASE Measure("out")
  <2>1. buffer' = buffer /\ keep' = keep
    BY <1>5 DEF Measure, events
  <2>2. reader'["out"] = IF Len(buffer["out"]) > ChunkCountMax THEN "clear" ELSE "append"
    BY <1>1, <1>5 DEF Measure, Move, CountMax, TypeInv, ReadersOK
  <2> QED
    BY <1>3, <2>1, <2>2, Limits
<1>6. CASE ClearKeep("out")
  <2>1. buffer' = buffer /\ reader'["out"] = "waiting" /\ keep'["out"] = FALSE
    BY <1>1, <1>6 DEF ClearKeep, Move, TypeInv, ReadersOK, EventsOK
  <2> QED
    BY <1>3, <2>1
<1>7. CASE WaitKeep("out")
  <2>1. buffer' = buffer /\ keep' = keep /\ reader["out"] = "waiting"
    BY <1>7 DEF WaitKeep, Move, events
  <2>2. reader'["out"] = IF keep["out"] THEN "append" ELSE "dead"
    BY <1>1, <1>7 DEF WaitKeep, Move, TypeInv, ReadersOK
  <2> QED
    BY <1>3, <2>1, <2>2 DEF Bound
<1>8. CASE BeginRead("out") \/ EndRead("out") \/ Loop("out") \/ Finish("out")
  <2>1. buffer' = buffer /\ reader'["out"] \notin {"append", "waiting"}
    BY <1>1, <1>8 DEF BeginRead, EndRead, Loop, Finish, Move, TypeInv, ReadersOK
  <2> QED
    BY <1>3, <2>1
<1> QED
  BY <1>4, <1>5, <1>6, <1>7, <1>8 DEF ReaderStep

\* The caller lets the reader on before it takes a chunk.
LEMMA CallerBound ==
  ASSUME TypeInv, Bound, CallerMoves
  PROVE  Bound'
<1>1. reader' = reader
  BY CallerFrame
<1>2. /\ Len(buffer["out"]) \in Nat /\ Len(buffer["err"]) \in Nat /\ Extra \in {0, 1}
      /\ Len(buffer["out"]) <= ChunkCountMax + 1 + Extra
  BY Lengths DEF Bound, Extra
<1>3. CASE Pop
  <2> DEFINE s == StreamOf[main.doing]
  <2>1. s \in Streams /\ main.doing \in DOMAIN StreamOf
    BY <1>3, StreamKnown DEF Pop, TypeInv
  <2>2. buffer[s] \in Seq(Nat) /\ buffer[s] # <<>>
    BY <1>3, <2>1 DEF Pop, TypeInv, BuffersOK
  <2>3. Len(Tail(buffer[s])) = Len(buffer[s]) - 1
    BY <2>2, TailIs
  <2>4. /\ buffer'[s] = Tail(buffer[s]) /\ \A t \in Streams \ {s} : buffer'[t] = buffer[t]
        /\ keep' = keep
    BY <1>3, <2>1 DEF Pop, TypeInv, BuffersOK, events
  <2>5. Extra' = 0
    BY <1>3 DEF Pop, Serving, GoTo, Extra, Popping
  <2>6. CASE s = "out"
    <3>1. Len(buffer'["out"]) = Len(buffer["out"]) - 1 /\ buffer'["err"] = buffer["err"]
      BY <2>3, <2>4, <2>6 DEF Streams
    <3>2. keep'["out"] = keep["out"]
      BY <2>4
    <3> HIDE DEF s
    <3> QED
      BY <1>1, <1>2, <2>5, <3>1, <3>2, Limits DEF Bound
  <2>7. CASE s = "err"
    <3>1. Extra = 0
      <4>1. main.doing \notin {"discard", "serve"}
        BY <2>1, <2>7, StreamOfIs
      <4> QED
        BY <4>1 DEF Extra, Popping
    <3>2. Len(buffer'["err"]) = Len(buffer["err"]) - 1 /\ buffer'["out"] = buffer["out"]
      BY <2>3, <2>4, <2>7 DEF Streams
    <3>3. keep'["out"] = keep["out"]
      BY <2>4
    <3> HIDE DEF s
    <3> QED
      BY <1>1, <1>2, <2>5, <3>1, <3>2, <3>3, Limits DEF Bound
  <2> QED
    BY <2>1, <2>6, <2>7 DEF Streams
<1>4. CASE Take
  <2> DEFINE s == StreamOf[main.doing]
  <2>1. s \in Streams /\ main.doing \in DOMAIN StreamOf
    BY <1>4, StreamKnown DEF Take, TypeInv
  <2>2. buffer' = buffer /\ \A t \in Streams \ {s} : keep'[t] = keep[t]
    BY <1>4, <2>1 DEF Take, TypeInv, EventsOK
  <2>3. Extra = 0
    BY <1>4 DEF Take, Extra, Popping
  <2>4. main' = [doing |-> main.doing, step |-> "pop"]
    BY <1>4 DEF Take, GoTo
  <2>5. CASE s = "out"
    <3>1. main.doing \in {"discard", "serve"}
      BY <1>4, <2>1, <2>5, StreamOfIs DEF Take, TypeInv, MainOK, Iterating
    <3>2. Extra' = 1
      BY <2>4, <3>1 DEF Extra, Popping
    <3> QED
      BY <1>1, <1>2, <2>2, <2>3, <3>2, Limits DEF Bound
  <2>6. CASE s = "err"
    <3>1. main.doing \notin {"discard", "serve"}
      BY <2>1, <2>6, StreamOfIs
    <3>2. Extra' = 0 /\ keep'["out"] = keep["out"]
      BY <2>2, <2>4, <2>6, <3>1 DEF Extra, Popping, Streams
    <3> QED
      BY <1>1, <1>2, <2>2, <2>3, <3>2 DEF Bound
  <2> QED
    BY <2>1, <2>5, <2>6 DEF Streams
<1>5. ~Pop /\ ~Take => buffer' = buffer /\ keep' = keep
  BY DEF CallerMoves, CallerStep, Start, FirstPoll, Poll, StopFlags, CloseFile, Iterate, Look,
         Ask, Recheck, IterationEnds, DiscardEnds, CollectEnds, JoinedEnds, ServeEnds,
         DrainEnds, ReportEnds, Joined, Terminate, CloseInput, GiveUp, events
<1>6. ~Pop /\ ~Take => main.step # "pop" /\ main'.step # "pop"
  BY DEF CallerMoves, CallerStep, Start, FirstPoll, Poll, StopFlags, CloseFile, AfterClose,
         Iterate, Look, Ask, Recheck, IterationEnds, DiscardEnds, CollectEnds, JoinedEnds,
         ServeEnds, DrainEnds, ReportEnds, Joined, Terminate, CloseInput, GiveUp, Serving,
         At, GoTo, TypeInv, MainOK
<1>7. ~Pop /\ ~Take => Extra' = Extra
  BY <1>6 DEF Extra, Popping
<1> QED
  BY <1>1, <1>3, <1>4, <1>5, <1>7 DEF Bound

\* Every step keeps the bound.
LEMMA NextBound ==
  ASSUME TypeInv, Bound, [Next]_vars
  PROVE  Bound'
<1>1. UNCHANGED <<reader, buffer, keep, main>> => Bound'
  BY DEF Bound, Extra, Popping
<1>2. ChildStep \/ Crash \/ Feed \/ UNCHANGED vars => UNCHANGED <<reader, buffer, keep, main>>
  BY DEF ChildStep, Crash, ReadInput, Write, Leave, Exit, Becomes, Feed, events, vars
<1>3. \A s \in Streams : s = "out" \/ s = "err"
  BY DEF Streams
<1> QED
  BY <1>1, <1>2, <1>3, ErrReaderBound, OutReaderBound, CallerBound DEF Next, CallerMoves

\* However fast a program writes, its output takes a bounded part of the memory,
\* its errors no more than their maxlen, and the reader of its errors never
\* waits for the caller.
THEOREM BuffersStayBounded == Spec => []BufferBounded
<1>1. TypeInv /\ Bound => BufferBounded
  <2> SUFFICES ASSUME TypeInv, Bound PROVE BufferBounded
    OBVIOUS
  <2> QED
    BY Lengths, Limits DEF Bound, BufferBounded, Extra
<1> QED
  BY <1>1, InitTypes, NextTypes, InitBound, NextBound, PTL DEF Spec
-----------------------------------------------------------------------------
(* The flow of the output.                                                 *)

\* At the start the flow is the starting values, all of them in the buffer.
LEMMA InitFlow == Init => FlowInv
<1> SUFFICES ASSUME Init PROVE FlowInv
  OBVIOUS
<1>1. buffer["out"] = UpTo(Starting) /\ wrote["out"] = Starting /\ pipe["out"] = 0
  BY DEF Init, Streams
<1>2. Len(buffer["out"]) = Starting /\ \A i \in 1 .. Starting : buffer["out"][i] = i
  BY <1>1, UpToIs, Limits
<1>3. /\ reader["out"] = "read" /\ go["out"] /\ ~closed["out"] /\ ~eof["out"]
      /\ main = [doing |-> "start", step |-> "wait"] /\ outcome = "open"
      /\ discarded = <<>> /\ delivered = <<>> /\ ~Holding
  BY DEF Init, Streams, Holding
<1>4. Len(Out) = 0
  BY <1>3 DEF Out
<1>5. Ordered /\ Counted
  BY <1>1, <1>2, <1>3, <1>4, Limits DEF Ordered, Counted, Passed
<1>6. Progress
  BY <1>3 DEF Progress, At
<1> QED
  BY <1>5, <1>6 DEF FlowInv

\* The program puts its chunks at the end of the flow while it runs.
LEMMA ChildFlow ==
  ASSUME TypeInv, FlowInv, ChildStep \/ Crash \/ Feed \/ UNCHANGED vars
  PROVE  FlowInv'
<1>1. /\ UNCHANGED <<reader, held, buffer, keep, go, eof, closed, main>>
      /\ UNCHANGED <<discarded, delivered, outcome, error>>
  BY DEF ChildStep, Crash, ReadInput, Write, Leave, Exit, Becomes, Feed, events, results, vars
<1>2. Out' = Out /\ Holding' = Holding /\ Passed' = Passed
  BY <1>1 DEF Out, Holding, Passed
<1>3. Ordered' /\ Progress'
  BY <1>1, <1>2 DEF FlowInv, Ordered, Progress, At
<1>4. Counted'
  <2>1. CASE Write("out")
    <3>1. /\ wrote'["out"] = wrote["out"] + 1 /\ pipe'["out"] = pipe["out"] + 1
          /\ child = "running" /\ child' = child
      BY <2>1 DEF Write, TypeInv, PipesOK, Streams
    <3>2. wrote["out"] \in Nat /\ pipe["out"] \in Nat
      BY Limits DEF TypeInv, PipesOK, Streams
    <3>3. Passed \in Nat
      <4>1. Len(Out) \in Nat /\ Len(buffer["out"]) \in Nat
        BY Lengths
      <4>2. CASE Holding
        BY <4>1, <4>2 DEF Passed
      <4>3. CASE ~Holding
        BY <4>1, <4>3 DEF Passed
      <4> QED
        BY <4>2, <4>3
    <3> QED
      BY <1>1, <1>2, <3>1, <3>2, <3>3 DEF FlowInv, Counted
  <2>2. CASE Write("err")
    <3>1. wrote'["out"] = wrote["out"] /\ pipe'["out"] = pipe["out"] /\ child' = child
      BY <2>2 DEF Write, TypeInv, PipesOK, Streams
    <3> QED
      BY <1>1, <1>2, <3>1 DEF FlowInv, Counted
  <2>3. UNCHANGED <<wrote, pipe>> /\ (child # "running" => child' # "running") => Counted'
    BY <1>1, <1>2 DEF FlowInv, Counted
  <2> QED
    BY <2>1, <2>2, <2>3 DEF ChildStep, Crash, ReadInput, Leave, Exit, Becomes, Feed, vars,
                            childVars, Streams
<1> QED
  BY <1>3, <1>4 DEF FlowInv

\* The reader of the errors is not part of it.
LEMMA ErrReaderFlow ==
  ASSUME TypeInv, FlowInv, ReaderStep("err")
  PROVE  FlowInv'
<1>1. "err" \in Streams /\ "out" \in Streams \ {"err"}
  BY DEF Streams
<1>2. /\ reader'["out"] = reader["out"] /\ held'["out"] = held["out"]
      /\ buffer'["out"] = buffer["out"] /\ eof'["out"] = eof["out"]
      /\ pipe'["out"] = pipe["out"]
      /\ UNCHANGED <<child, wrote, closed, go, main, discarded, delivered, outcome>>
  BY <1>1, ReaderMoves DEF childVars, results
<1>3. Out' = Out /\ Holding' = Holding /\ Passed' = Passed
  BY <1>2 DEF Out, Holding, Passed
<1> QED
  BY <1>2, <1>3 DEF FlowInv, Ordered, Counted, Progress, At

\* The reader of the output takes a chunk from the pipe and puts it into the
\* buffer, one at a time.  It ends before the end of the flow only when it gave
\* up waiting or was told to.
LEMMA OutReaderFlow ==
  ASSUME TypeInv, FlowInv, ReaderStep("out")
  PROVE  FlowInv'
<1>1. "out" \in Streams
  BY DEF Streams
<1>2. UNCHANGED <<child, wrote, closed, go, main, discarded, delivered, outcome>> /\ Out' = Out
  BY <1>1, ReaderMoves DEF childVars, results, Out
<1>3. /\ Len(Out) \in Nat /\ Len(buffer["out"]) \in Nat /\ wrote["out"] \in Nat
      /\ pipe["out"] \in Nat
      /\ buffer["out"] \in Seq(Nat) /\ held["out"] \in Nat
  BY Lengths, Limits, <1>1 DEF TypeInv, PipesOK, BuffersOK, ReadersOK
<1>4. reader["out"] # "done"
  BY DEF ReaderStep, BeginRead, EndRead, Loop, Measure, ClearKeep, WaitKeep, AppendChunk, Finish,
         Move
<1>5. ASSUME buffer'["out"] = <<>> => buffer["out"] = <<>> \/ eof["out"],
             eof'["out"] => reader'["out"] = "done" \/ eof["out"],
             eof["out"] => eof'["out"]
      PROVE  Progress'
  BY <1>2, <1>4, <1>5 DEF FlowInv, Progress, At
<1>6. CASE \/ BeginRead("out") \/ Loop("out") \/ Measure("out") \/ ClearKeep("out")
           \/ WaitKeep("out") \/ Finish("out")
  <2>1. buffer' = buffer /\ held' = held /\ pipe' = pipe
    BY <1>6 DEF BeginRead, Loop, Measure, ClearKeep, WaitKeep, Finish
  <2>2. Progress'
    <3>1. eof'["out"] => reader'["out"] = "done" \/ eof["out"]
      BY <1>1, <1>6 DEF BeginRead, Loop, Measure, ClearKeep, WaitKeep, Finish, Move, TypeInv,
                        ReadersOK, EventsOK, events
    <3>2. eof["out"] => eof'["out"]
      BY <1>1, <1>6 DEF BeginRead, Loop, Measure, ClearKeep, WaitKeep, Finish, TypeInv,
                        EventsOK, events
    <3> QED
      BY <1>5, <2>1, <3>1, <3>2
  <2>3. CASE BeginRead("out")
    <3>1. /\ reader["out"] = "read"
          /\ reader'["out"] = IF closed["out"] THEN "finish" ELSE "reading"
      BY <1>1, <2>3 DEF BeginRead, Move, TypeInv, ReadersOK
    <3>2. ~Holding /\ ~Holding' /\ Passed' = Passed
      BY <1>2, <2>1, <3>1 DEF Holding, Passed
    <3> QED
      BY <1>2, <2>1, <2>2, <3>1, <3>2 DEF FlowInv, Ordered, Counted
  <2>4. CASE Loop("out") \/ Measure("out") \/ ClearKeep("out") \/ WaitKeep("out")
    <3>1. /\ reader["out"] \in {"loop", "measure", "clear", "waiting"}
          /\ reader'["out"] \in {"measure", "clear", "waiting", "append", "dead", "finish"}
          /\ reader'["out"] = "finish" => ~go["out"]
      BY <1>1, <2>4 DEF Loop, Measure, ClearKeep, WaitKeep, Move, TypeInv, ReadersOK
    <3>2. Holding /\ (Holding' <=> reader'["out"] \notin {"dead", "finish"})
      BY <3>1 DEF Holding
    <3>3. CASE Holding'
      <4>1. Passed' = Passed
        BY <1>2, <2>1, <3>2, <3>3 DEF Passed
      <4> QED
        BY <1>2, <2>1, <2>2, <3>1, <3>2, <3>3, <4>1 DEF FlowInv, Ordered, Counted
    <3>4. CASE ~Holding'
      <4>1. Passed' = Passed - 1 /\ Passed \in Nat
        BY <1>2, <1>3, <2>1, <3>2, <3>4 DEF Passed
      <4>2. Ordered'
        BY <1>2, <2>1, <3>4 DEF FlowInv, Ordered
      <4>3. Counted'
        BY <1>2, <1>3, <2>1, <3>1, <3>2, <3>4, <4>1 DEF FlowInv, Counted
      <4> QED
        BY <2>2, <4>2, <4>3 DEF FlowInv
    <3> QED
      BY <3>3, <3>4
  <2>5. CASE Finish("out")
    <3>1. reader["out"] = "finish" /\ reader'["out"] = "done"
      BY <1>1, <2>5 DEF Finish, Move, TypeInv, ReadersOK
    <3>2. ~Holding /\ ~Holding' /\ Passed' = Passed
      BY <1>2, <2>1, <3>1 DEF Holding, Passed
    <3> QED
      BY <1>2, <2>1, <2>2, <3>1, <3>2 DEF FlowInv, Ordered, Counted
  <2> QED
    BY <1>6, <2>3, <2>4, <2>5
<1>7. CASE EndRead("out")
  <2>1. buffer' = buffer /\ eof' = eof /\ reader["out"] = "reading" /\ ~Holding
    BY <1>7 DEF EndRead, events, Move, Holding
  <2>2. Progress'
    BY <1>5, <2>1
  <2>3. CASE pipe["out"] > 0
    <3>1. /\ reader'["out"] = "loop" /\ held'["out"] = wrote["out"] - pipe["out"] + 1
          /\ pipe'["out"] = pipe["out"] - 1
      BY <1>1, <1>7, <2>3 DEF EndRead, Move, TypeInv, ReadersOK, PipesOK
    <3>2. Holding' /\ Passed = Len(Out) + Len(buffer["out"]) /\ Passed' = Passed + 1
      BY <1>2, <1>3, <2>1, <3>1 DEF Holding, Passed
    <3>3. Passed + pipe["out"] = wrote["out"]
      BY <2>1 DEF FlowInv, Counted
    <3>4. Ordered'
      BY <1>2, <1>3, <2>1, <3>1, <3>2, <3>3 DEF FlowInv, Ordered
    <3>5. Counted'
      BY <1>2, <1>3, <2>3, <3>1, <3>2, <3>3 DEF Counted
    <3> QED
      BY <2>2, <3>4, <3>5 DEF FlowInv
  <2>4. CASE ~(pipe["out"] > 0)
    <3>1. /\ reader'["out"] = "finish" /\ pipe' = pipe /\ pipe["out"] = 0
          /\ child # "running"
      BY <1>1, <1>3, <1>7, <2>4 DEF EndRead, Move, TypeInv, ReadersOK
    <3>2. ~Holding' /\ Passed' = Passed /\ Passed = Len(Out) + Len(buffer["out"])
      BY <1>2, <1>3, <2>1, <3>1 DEF Holding, Passed
    <3>3. Passed + pipe["out"] = wrote["out"]
      BY <2>1 DEF FlowInv, Counted
    <3> QED
      BY <1>2, <1>3, <2>1, <2>2, <3>1, <3>2, <3>3 DEF FlowInv, Ordered, Counted
  <2> QED
    BY <2>3, <2>4
<1>8. CASE AppendChunk("out")
  <2>1. /\ buffer'["out"] = Appended("out") /\ eof' = eof /\ pipe' = pipe
        /\ reader["out"] = "append" /\ reader'["out"] = "read"
    BY <1>1, <1>8 DEF AppendChunk, Move, TypeInv, BuffersOK, ReadersOK, events
  <2>2. /\ Len(buffer'["out"]) = Len(buffer["out"]) + 1 /\ buffer'["out"] # <<>>
        /\ \A i \in 1 .. Len(buffer["out"]) : buffer'["out"][i] = buffer["out"][i]
        /\ buffer'["out"][Len(buffer["out"]) + 1] = held["out"]
    BY <1>1, <1>3, <2>1, AppendedIs
  <2>3. Progress'
    BY <1>5, <2>1, <2>2
  <2>4. Holding /\ ~Holding' /\ Passed' = Passed
    <3>1. Holding /\ ~Holding'
      BY <2>1 DEF Holding
    <3>2. Passed = Len(Out) + Len(buffer["out"]) + 1
      BY <3>1 DEF Passed
    <3>3. Passed' = Len(Out) + (Len(buffer["out"]) + 1) + 0
      BY <1>2, <2>2, <3>1 DEF Passed
    <3> QED
      BY <1>3, <3>1, <3>2, <3>3
  <2>5. Ordered'
    <3>1. held["out"] = Len(Out) + Len(buffer["out"]) + 1
      BY <2>4 DEF FlowInv, Ordered
    <3>2. \A i \in 1 .. Len(buffer["out"]) : buffer'["out"][i] = Len(Out) + i
      BY <2>2 DEF FlowInv, Ordered
    <3>3. \A i \in 1 .. Len(buffer'["out"]) : buffer'["out"][i] = Len(Out) + i
      <4> SUFFICES ASSUME NEW i \in 1 .. Len(buffer["out"]) + 1
                   PROVE  buffer'["out"][i] = Len(Out) + i
        BY <2>2
      <4>1. i \in 1 .. Len(buffer["out"]) \/ i = Len(buffer["out"]) + 1
        BY <1>3
      <4>2. i = Len(buffer["out"]) + 1 => buffer'["out"][i] = Len(Out) + i
        BY <1>3, <2>2, <3>1
      <4> QED
        BY <3>2, <4>1, <4>2
    <3>4. \A i \in 1 .. Len(Out') : Out'[i] = i
      BY <1>2 DEF FlowInv, Ordered
    <3> QED
      BY <1>2, <2>4, <3>3, <3>4 DEF Ordered
  <2>6. Counted'
    BY <1>2, <2>1, <2>4 DEF FlowInv, Counted
  <2> QED
    BY <2>3, <2>5, <2>6 DEF FlowInv
<1> QED
  BY <1>6, <1>7, <1>8 DEF ReaderStep

\* What the caller takes is the front of the buffer, and the next of the flow.
LEMMA PopFlow ==
  ASSUME TypeInv, FlowInv, Pop
  PROVE  /\ Ordered' /\ Counted'
         /\ main.doing \in {"discard", "serve"} => Len(Out') = Len(Out) + 1
<1> DEFINE s == StreamOf[main.doing]
<1>1. main.step = "pop" /\ main.doing \in {"discard", "collect", "serve", "drain", "report"}
  BY DEF Pop, TypeInv, MainOK, Doings, Iterating
<1>2. s \in Streams /\ (s = "out" <=> main.doing \in {"discard", "serve"})
  BY <1>1, StreamOfIs DEF Streams
<1>3. buffer[s] \in Seq(Nat) /\ buffer[s] # <<>>
  BY <1>1, <1>2 DEF TypeInv, BuffersOK
<1>4. /\ UNCHANGED <<child, wrote, pipe, reader, held, go, closed>>
      /\ buffer' = [buffer EXCEPT ![s] = Tail(@)]
      /\ Holding' = Holding
  BY DEF Pop, childVars, events, Holding
<1>5. CASE s = "out"
  <2>1. buffer'["out"] = Tail(buffer["out"]) /\ buffer["out"] \in Seq(Nat) /\ buffer["out"] # <<>>
    BY <1>3, <1>4, <1>5 DEF Streams, TypeInv, BuffersOK
  <2>2. /\ Head(buffer["out"]) = buffer["out"][1] /\ Head(buffer["out"]) \in Nat
        /\ Len(buffer'["out"]) = Len(buffer["out"]) - 1
        /\ Len(buffer["out"]) \in Nat /\ Len(buffer["out"]) > 0
        /\ \A i \in 1 .. Len(buffer["out"]) - 1 : buffer'["out"][i] = buffer["out"][i + 1]
    BY <2>1, TailIs
  <2>3. Out' = Append(Out, Head(buffer["out"])) /\ Out \in Seq(Nat) /\ Len(Out) \in Nat
    <3>1. Out \in Seq(Nat) /\ Len(Out) \in Nat
      BY Lengths
    <3>2. CASE main.doing = "discard"
      <4>1. /\ discarded' = Append(discarded, Head(buffer["out"])) /\ delivered' = delivered
            /\ delivered = <<>> /\ discarded \in Seq(Nat)
        BY <1>5, <3>2 DEF Pop, FlowInv, Progress, TypeInv, ResultsOK
      <4>2. discarded' # <<>> /\ Out = discarded
        BY <2>2, <4>1, AppendProperties DEF Out
      <4> QED
        BY <3>1, <4>1, <4>2 DEF Out
    <3>3. CASE main.doing = "serve"
      <4>1. /\ delivered' = Append(delivered, Head(buffer["out"])) /\ discarded' = discarded
            /\ discarded = <<>>
        BY <1>5, <3>3 DEF Pop, FlowInv, Progress
      <4> QED
        BY <3>1, <4>1 DEF Out
    <3> QED
      BY <1>2, <1>5, <3>2, <3>3
  <2>4. /\ Len(Out') = Len(Out) + 1
        /\ \A i \in 1 .. Len(Out) : Out'[i] = Out[i]
        /\ Out'[Len(Out) + 1] = buffer["out"][1]
    BY <2>2, <2>3, AppendProperties
  <2>5. buffer["out"][1] = Len(Out) + 1
    BY <2>2 DEF FlowInv, Ordered
  <2>6. \A i \in 1 .. Len(Out') : Out'[i] = i
    <3> SUFFICES ASSUME NEW i \in 1 .. Len(Out) + 1 PROVE Out'[i] = i
      BY <2>4
    <3>1. i \in 1 .. Len(Out) \/ i = Len(Out) + 1
      BY <2>3
    <3> QED
      BY <2>4, <2>5, <3>1 DEF FlowInv, Ordered
  <2>7. \A i \in 1 .. Len(buffer'["out"]) : buffer'["out"][i] = Len(Out') + i
    <3> SUFFICES ASSUME NEW i \in 1 .. Len(buffer["out"]) - 1
                 PROVE  buffer'["out"][i] = Len(Out) + 1 + i
      BY <2>2, <2>4
    <3>1. i + 1 \in 1 .. Len(buffer["out"])
      BY <2>2
    <3>2. buffer["out"][i + 1] = Len(Out) + (i + 1)
      BY <3>1 DEF FlowInv, Ordered
    <3> QED
      BY <2>2, <2>3, <3>2
  <2>8. Len(Out') + Len(buffer'["out"]) = Len(Out) + Len(buffer["out"])
    <3>1. Len(Out') = Len(Out) + 1 /\ Len(Out) \in Nat
      BY <2>3, <2>4
    <3>2. Len(buffer'["out"]) = Len(buffer["out"]) - 1 /\ Len(buffer["out"]) \in Nat
      BY <2>2
    <3>3. \A a, b \in Nat : (a + 1) + (b - 1) = a + b
      OBVIOUS
    <3> QED
      BY <3>1, <3>2, <3>3, Zenon
  <2>9. Passed' = Passed
    BY <1>4, <2>8 DEF Passed
  <2>10. Ordered'
    BY <1>4, <2>6, <2>7, <2>8 DEF FlowInv, Ordered
  <2>11. Counted'
    BY <1>4, <2>9 DEF FlowInv, Counted
  <2> QED
    BY <2>4, <2>10, <2>11
<1>6. CASE s # "out"
  <2>1. buffer'["out"] = buffer["out"]
    BY <1>2, <1>4, <1>6 DEF Streams, TypeInv, BuffersOK
  <2>2. Out' = Out
    BY <1>2, <1>6 DEF Pop, Out
  <2>3. Passed' = Passed
    BY <1>4, <2>1, <2>2 DEF Passed
  <2> QED
    BY <1>2, <1>4, <1>6, <2>1, <2>2, <2>3 DEF FlowInv, Ordered, Counted
<1> QED
  BY <1>5, <1>6

\* No other step of the caller takes anything from the flow.
LEMMA CallerFlow ==
  ASSUME TypeInv, FlowInv, CallerMoves
  PROVE  Ordered' /\ Counted'
<1>1. UNCHANGED <<wrote, pipe, reader, held>> /\ Holding' = Holding
  BY CallerFrame DEF Holding
<1>2. child # "running" => child' # "running"
  BY DEF CallerMoves, CallerStep, Start, FirstPoll, Poll, StopFlags, CloseFile, Iterate, Look,
         Ask, Recheck, Take, Pop, IterationEnds, DiscardEnds, CollectEnds, JoinedEnds,
         ServeEnds, DrainEnds, ReportEnds, Joined, Terminate, CloseInput, GiveUp, childVars
<1>3. CASE Pop
  BY <1>3, PopFlow
<1>4. ASSUME ~Pop PROVE buffer' = buffer
  BY <1>4
     DEF CallerMoves, CallerStep, Start, FirstPoll, Poll, StopFlags, CloseFile, Iterate, Look,
         Ask, Recheck, Take, IterationEnds, DiscardEnds, CollectEnds, JoinedEnds, ServeEnds,
         DrainEnds, ReportEnds, Joined, Terminate, CloseInput, GiveUp
<1>5. ASSUME ~Pop PROVE Out' = Out
  <2>1. CASE Joined
    BY <2>1 DEF Joined, FlowInv, Progress, Out
  <2>2. CASE ~Joined
    <3>1. discarded' = discarded /\ delivered' = delivered
      BY <1>5, <2>2
         DEF CallerMoves, CallerStep, Start, FirstPoll, Poll, StopFlags, CloseFile, Iterate,
             Look, Ask, Recheck, Take, IterationEnds, DiscardEnds, CollectEnds, JoinedEnds,
             ServeEnds, DrainEnds, ReportEnds, Terminate, CloseInput, GiveUp, results
    <3> QED
      BY <3>1 DEF Out
  <2> QED
    BY <2>1, <2>2
<1>6. go'["out"] /\ ~closed'["out"] => go["out"] /\ ~closed["out"]
  <2>1. CASE StopFlags
    BY <2>1, StreamKnown DEF StopFlags, TypeInv, EventsOK, Streams
  <2>2. CASE CloseFile
    BY <2>2 DEF CloseFile, TypeInv, ReadersOK, Streams
  <2>3. ~StopFlags /\ ~CloseFile => go' = go /\ closed' = closed
    BY DEF CallerMoves, CallerStep, Start, FirstPoll, Poll, Iterate, Look,
           Ask, Recheck, Take, Pop, IterationEnds, DiscardEnds, CollectEnds, JoinedEnds,
           ServeEnds, DrainEnds, ReportEnds, Joined, Terminate, CloseInput, GiveUp, events
  <2> QED
    BY <2>1, <2>2, <2>3
<1>7. ASSUME ~Pop PROVE Ordered' /\ Counted'
  <2>1. buffer' = buffer /\ Out' = Out
    BY <1>4, <1>5, <1>7
  <2>2. Passed' = Passed
    BY <1>1, <2>1 DEF Passed
  <2> QED
    BY <1>1, <1>2, <1>6, <2>1, <2>2 DEF FlowInv, Ordered, Counted
<1> QED
  BY <1>3, <1>7

\* What the caller has done follows from where it is.
LEMMA CallerProgress ==
  ASSUME TypeInv, FlowInv, CallerMoves
  PROVE  Progress'
<1> USE DEF At, GoTo
<1>1. reader' = reader /\ MainOK /\ Progress
  BY CallerFrame DEF TypeInv, FlowInv
<1>2. CASE Start \/ FirstPoll \/ Poll
  BY <1>1, <1>2 DEF Start, FirstPoll, Poll, Serving, Progress, events, results
<1>3. CASE StopFlags
  <2>1. main'.doing = main.doing /\ main'.step = "close"
    BY <1>3 DEF StopFlags
  <2>2. main.doing \notin {"start", "serve", "joined"}
    BY <1>1, <1>3 DEF StopFlags, MainOK, Iterating
  <2> QED
    BY <1>1, <1>3, <2>1, <2>2 DEF StopFlags, Progress, results
<1>4. CASE CloseFile
  <2>1. main'.doing \notin {"start", "serve", "joined"} /\ main.doing \notin {"start", "serve"}
    <3>1. main.step = "close" /\ main.doing \notin {"start", "serve", "joined"}
      BY <1>1, <1>4 DEF CloseFile, MainOK, Iterating
    <3> QED
      BY <1>4, <3>1 DEF CloseFile, AfterClose
  <2>2. \/ main'.doing = main.doing
        \/ main'.doing \in {"closeErr", "closeInput"}
        \/ main.doing = "abort" /\ main'.doing = "report"
    BY <1>4 DEF CloseFile, AfterClose
  <2>3. UNCHANGED results
    BY <1>4 DEF CloseFile
  <2> QED
    BY <1>1, <2>1, <2>2, <2>3 DEF Progress, results
<1>5. CASE Look \/ Ask \/ Take
  <2>1. main'.doing = main.doing /\ UNCHANGED <<buffer, go, eof, closed, results>>
    BY <1>5 DEF Look, Ask, Take, events
  <2>2. main'.step # "end" /\ main.doing # "joined"
        /\ (main'.step = "recheck" => eof[StreamOf[main.doing]])
    BY <1>1, <1>5 DEF Look, Ask, Take, MainOK
  <2>3. main.doing = "serve" => StreamOf[main.doing] = "out"
    BY StreamOfIs
  <2> QED
    BY <1>1, <2>1, <2>2, <2>3 DEF Progress, results
<1>6. CASE Recheck
  <2>1. main'.doing = main.doing /\ UNCHANGED <<buffer, events, results>>
    BY <1>6 DEF Recheck
  <2>2. /\ main.step = "recheck" /\ main.doing # "joined"
        /\ main'.step = "end" => buffer[StreamOf[main.doing]] = <<>>
    BY <1>1, <1>6 DEF Recheck, MainOK
  <2>3. main.doing = "serve" => StreamOf[main.doing] = "out"
    BY StreamOfIs
  <2> QED
    BY <1>1, <2>1, <2>2, <2>3 DEF Progress, results, events
<1>7. CASE Pop
  <2>1. main'.doing = main.doing /\ main'.step \in {"poll", "look"}
        /\ main.doing \notin {"start", "joined"}
        /\ UNCHANGED <<events, outcome>>
    BY <1>1, <1>7 DEF Pop, Serving, MainOK
  <2>2. /\ main.doing # "serve" => delivered' = delivered
        /\ main.doing # "discard" => discarded' = discarded
    BY <1>7 DEF Pop
  <2> QED
    BY <1>1, <2>1, <2>2 DEF Progress, events
<1>8. CASE DiscardEnds \/ CollectEnds \/ Joined
  BY <1>1, <1>8 DEF DiscardEnds, CollectEnds, Joined, Progress, results
<1>9. CASE JoinedEnds \/ ServeEnds \/ DrainEnds \/ ReportEnds \/ GiveUp \/ Terminate \/ CloseInput
  <2>1. main'.doing \in {"closeErr", "drain", "terminate", "closeOut", "over"}
    BY <1>9 DEF JoinedEnds, ServeEnds, DrainEnds, ReportEnds, GiveUp, Terminate, CloseInput
  <2> QED
    BY <2>1 DEF Progress
<1> QED
  BY <1>2, <1>3, <1>4, <1>5, <1>6, <1>7, <1>8, <1>9
     DEF CallerMoves, CallerStep, Iterate, IterationEnds

\* Every step keeps the flow.
LEMMA NextFlow ==
  ASSUME TypeInv, FlowInv, [Next]_vars
  PROVE  FlowInv'
<1>1. CASE CallerMoves
  BY <1>1, CallerFlow, CallerProgress DEF FlowInv
<1>2. \A s \in Streams : s = "out" \/ s = "err"
  BY DEF Streams
<1> QED
  BY <1>1, <1>2, ChildFlow, ErrReaderFlow, OutReaderFlow DEF Next, CallerMoves
-----------------------------------------------------------------------------
(* The output as a channel: every step of the system is a step of          *)
(* OutputChannel or leaves the channel as it is.                           *)

channelVars == <<wrote["out"], delivered, outcome>>

\* A sequence whose i-th element is i is known by its length.
LEMMA CountingSeq ==
  ASSUME NEW q \in Seq(Nat), \A i \in 1 .. Len(q) : q[i] = i
  PROVE  q = [i \in 1 .. Len(q) |-> i]
BY LenProperties

\* Nothing was handed out at the start.
LEMMA ChannelInit == Init => Channel!Init
BY DEF Init, Channel!Init, Streams

\* The program sends; no thread touches what the caller got.
LEMMA ChannelOthers ==
  ASSUME TypeInv, [Next]_vars, ~CallerMoves
  PROVE  [Channel!Next]_channelVars
<1>1. CASE Write("out")
  <2>1. Channel!Send
    BY <1>1 DEF Write, Channel!Send, TypeInv, PipesOK, Streams, results
  <2> QED
    BY <2>1 DEF Channel!Next
<1>2. CASE Write("err")
  BY <1>2 DEF Write, TypeInv, PipesOK, Streams, results, channelVars
<1>3. ASSUME NEW s \in Streams, ReaderStep(s) PROVE UNCHANGED channelVars
  BY <1>3, ReaderMoves DEF childVars, results, channelVars
<1>4. ReadInput \/ Leave \/ Exit \/ Crash \/ Feed \/ UNCHANGED vars => UNCHANGED channelVars
  BY DEF ReadInput, Leave, Exit, Crash, Feed, Becomes, vars, childVars, results, channelVars
<1> QED
  BY <1>1, <1>2, <1>3, <1>4 DEF Next, ChildStep, CallerMoves, Streams

\* A chunk taken while iterating is received.
LEMMA ChannelPop ==
  ASSUME TypeInv, TypeInv', FlowInv, FlowInv', Pop
  PROVE  [Channel!Next]_channelVars
<1>1. wrote' = wrote /\ outcome' = outcome
  BY DEF Pop, childVars
<1>2. CASE main.doing # "serve"
  BY <1>1, <1>2 DEF Pop, channelVars
<1>3. CASE main.doing = "serve"
  <2>1. discarded = <<>> /\ discarded' = <<>> /\ outcome = "open"
    BY <1>3 DEF Pop, FlowInv, Progress
  <2>2. Out = delivered /\ Out' = delivered'
    BY <2>1 DEF Out
  <2>3. Len(delivered') = Len(delivered) + 1 /\ Len(delivered) \in Nat
    BY <1>3, <2>2, PopFlow, Lengths
  <2>4. delivered' \in Seq(Nat) /\ \A i \in 1 .. Len(delivered') : delivered'[i] = i
    BY <2>2 DEF TypeInv, ResultsOK, FlowInv, Ordered
  <2>5. delivered' = [i \in 1 .. Len(delivered') |-> i]
    BY <2>4, CountingSeq
  <2>6. Len(delivered') <= wrote["out"] /\ wrote["out"] \in Nat
    <3>1. Passed' <= wrote["out"] /\ wrote["out"] \in Nat
      BY <1>1 DEF FlowInv, Counted, TypeInv, PipesOK, Streams
    <3>2. Len(buffer'["out"]) \in Nat
      BY LenProperties DEF TypeInv, BuffersOK, Streams
    <3>3. Len(Out') = Len(delivered') /\ Len(Out') \in Nat
      BY <2>2, <2>3
    <3>4. CASE Holding'
      BY <3>1, <3>2, <3>3, <3>4 DEF Passed
    <3>5. CASE ~Holding'
      BY <3>1, <3>2, <3>3, <3>5 DEF Passed
    <3> QED
      BY <3>4, <3>5
  <2>7. Channel!Receive
    BY <1>1, <2>1, <2>3, <2>5, <2>6 DEF Channel!Receive
  <2> QED
    BY <2>7 DEF Channel!Next
<1> QED
  BY <1>2, <1>3

\* So is the output of a shallow clone, all at once, unless there was none.
LEMMA ChannelJoined ==
  ASSUME TypeInv, FlowInv, Joined
  PROVE  [Channel!Next]_channelVars
<1>1. wrote' = wrote /\ outcome' = outcome /\ delivered' = discarded
  BY DEF Joined, childVars
<1>2. delivered = <<>> /\ outcome = "open"
  BY DEF Joined, At, FlowInv, Progress
<1>3. CASE discarded = <<>>
  BY <1>1, <1>2, <1>3 DEF channelVars
<1>4. CASE discarded # <<>>
  <2>1. Out = discarded /\ discarded \in Seq(Nat)
    BY <1>4 DEF Out, TypeInv, ResultsOK
  <2>2. discarded = [i \in 1 .. Len(discarded) |-> i]
    BY <2>1, CountingSeq DEF FlowInv, Ordered
  <2>3. Len(discarded) \in Nat /\ Len(discarded) > 0 /\ Len(<<>>) = 0
    BY <1>4, <2>1, LenProperties, EmptySeq
  <2>4. Len(discarded) <= wrote["out"] /\ wrote["out"] \in Nat
    <3>1. Passed <= wrote["out"] /\ wrote["out"] \in Nat
      BY DEF FlowInv, Counted, TypeInv, PipesOK, Streams
    <3>2. Len(buffer["out"]) \in Nat
      BY Lengths
    <3>3. Len(discarded) \in Nat
      BY <2>3
    <3>4. CASE Holding
      BY <2>1, <3>1, <3>2, <3>3, <3>4 DEF Passed
    <3>5. CASE ~Holding
      BY <2>1, <3>1, <3>2, <3>3, <3>5 DEF Passed
    <3> QED
      BY <3>4, <3>5
  <2>5. Channel!Receive
    <3>1. Len(discarded) \in 1 .. wrote["out"] /\ Len(discarded) > Len(delivered)
      BY <1>2, <2>3, <2>4
    <3>2. delivered' = [i \in 1 .. Len(discarded) |-> i]
      BY <1>1, <2>2
    <3> QED
      BY <1>1, <1>2, <3>1, <3>2, Zenon DEF Channel!Receive
  <2> QED
    BY <2>5 DEF Channel!Next
<1> QED
  BY <1>3, <1>4

\* A regular end comes after the last chunk: the end is known, and then nothing
\* is in the buffer, and nothing was in the pipe when the reader ended.
LEMMA ChannelComplete ==
  ASSUME TypeInv, FlowInv, ServeEnds
  PROVE  Channel!Complete
<1>1. /\ wrote' = wrote /\ delivered' = delivered /\ outcome' = "complete"
      /\ main.doing = "serve" /\ main.step = "end"
  BY DEF ServeEnds, At, childVars
<1>2. /\ outcome = "open" /\ discarded = <<>> /\ go["out"] /\ ~closed["out"] /\ eof["out"]
      /\ reader["out"] = "done" /\ buffer["out"] = <<>>
  BY <1>1 DEF ServeEnds, FlowInv, Progress
<1>3. Passed = wrote["out"]
  BY <1>2 DEF FlowInv, Counted
<1>4. Len(delivered) = wrote["out"]
  <2>1. ~Holding /\ Out = delivered /\ Len(buffer["out"]) = 0
    BY <1>2 DEF Holding, Out
  <2>2. Len(delivered) \in Nat
    BY Lengths
  <2> QED
    BY <1>3, <2>1, <2>2 DEF Passed
<1> QED
  BY <1>1, <1>2, <1>4 DEF Channel!Complete

\* Every other end cuts the channel.
LEMMA ChannelCaller ==
  ASSUME TypeInv, TypeInv', FlowInv, FlowInv', CallerMoves
  PROVE  [Channel!Next]_channelVars
<1>1. wrote' = wrote
  BY CallerFrame
<1>2. CASE Pop \/ Joined \/ ServeEnds
  BY <1>2, ChannelPop, ChannelJoined, ChannelComplete DEF Channel!Next
<1>3. CASE CollectEnds \/ JoinedEnds \/ ReportEnds \/ GiveUp
  <2>1. outcome = "open"
    BY <1>3 DEF CollectEnds, JoinedEnds, ReportEnds, GiveUp, At, FlowInv, Progress
  <2>2. delivered' = delivered /\ (outcome' = outcome \/ outcome' = "cut")
    <3>1. CASE CollectEnds
      BY <3>1 DEF CollectEnds, results
    <3>2. CASE JoinedEnds \/ ReportEnds \/ GiveUp
      BY <3>2 DEF JoinedEnds, ReportEnds, GiveUp
    <3> QED
      BY <1>3, <3>1, <3>2
  <2>3. CASE outcome' = outcome
    BY <1>1, <2>2, <2>3 DEF channelVars
  <2>4. CASE outcome' = "cut"
    <3>1. Channel!Cut
      BY <1>1, <2>1, <2>2, <2>4 DEF Channel!Cut
    <3> QED
      BY <3>1 DEF Channel!Next
  <2> QED
    BY <2>2, <2>3, <2>4
<1>4. CASE \/ Start \/ FirstPoll \/ Poll \/ StopFlags \/ CloseFile \/ Look \/ Ask \/ Recheck
           \/ Take \/ DiscardEnds \/ DrainEnds \/ Terminate \/ CloseInput
  BY <1>1, <1>4 DEF Start, FirstPoll, Poll, StopFlags, CloseFile, Look, Ask, Recheck, Take,
                    DiscardEnds, DrainEnds, Terminate, CloseInput, results, channelVars
<1> QED
  BY <1>2, <1>3, <1>4 DEF CallerMoves, CallerStep, Iterate, IterationEnds

\* The output reaches the caller in order, no chunk twice and none left out,
\* and an end that looks like a regular one comes after the last of them,
\* whatever the sizes of the pipe and of the buffers and wherever the threads
\* are interrupted: the runner implements OutputChannel.
THEOREM RunnerImplementsChannel == Spec => ImplementsChannel
<1>1. TypeInv /\ TypeInv' /\ FlowInv /\ FlowInv' /\ [Next]_vars => [Channel!Next]_channelVars
  BY ChannelCaller, ChannelOthers
<1>2. Init => TypeInv /\ FlowInv
  BY InitTypes, InitFlow
<1>3. TypeInv /\ FlowInv /\ [Next]_vars => (TypeInv /\ FlowInv)'
  BY NextTypes, NextFlow
<1> QED
  BY <1>1, <1>2, <1>3, ChannelInit, PTL DEF Spec, ImplementsChannel, Channel!Spec, channelVars
=============================================================================
