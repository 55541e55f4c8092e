---------------------------- MODULE OutputChannel ----------------------------
(***************************************************************************)
(* What whoever runs a program through SubprocessIOChunker may rely on:    *)
(* the chunks of its standard output arrive in the order in which they     *)
(* were written, none twice and none left out, and an end that looks like  *)
(* a regular one comes after the last of them.                             *)
(*                                                                         *)
(* Chunks are numbered, so a sequence of them is known by its length.      *)
(***************************************************************************)
EXTENDS Naturals, Sequences

CONSTANT Starting   \* chunks put in front of what the program writes

VARIABLES sent,     \* how many chunks were written
          received, \* the chunks handed out, in order
          status    \* "open", "complete" or "cut"

Init ==
  /\ sent = Starting
  /\ received = <<>>
  /\ status = "open"

Send ==
  /\ sent' = sent + 1
  /\ UNCHANGED <<received, status>>

\* One chunk, or several joined into one.
Receive ==
  /\ status = "open"
  /\ \E n \in 1 .. sent :
       /\ n > Len(received)
       /\ received' = [i \in 1 .. n |-> i]
  /\ UNCHANGED <<sent, status>>

Complete ==
  /\ status = "open"
  /\ Len(received) = sent
  /\ status' = "complete"
  /\ UNCHANGED <<sent, received>>

Cut ==
  /\ status = "open"
  /\ status' = "cut"
  /\ UNCHANGED <<sent, received>>

Next ==
  \/ Send \/ Receive \/ Complete \/ Cut

Spec == Init /\ [][Next]_<<sent, received, status>>
=============================================================================
