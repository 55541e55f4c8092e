------------------------------- MODULE VoteLedger -------------------------------
(*****************************************************************************)
(* What code review promises its users, with no version numbers and no       *)
(* tables: every vote on a pull request is kept until it is withdrawn, a     *)
(* reviewer's latest surviving vote is the one that counts, and the verdict  *)
(* follows from those votes alone.  PullRequestReview implements it.         *)
(*****************************************************************************)
EXTENDS Naturals

CONSTANTS
  PullRequestIds,   \* ids a pull request can be given
  Users,
  Statuses,         \* what a vote can say
  VoteIds           \* what votes are numbered with

VARIABLES
  votes,    \* the votes that survive: [id, pr, user, status], ids grow with time
  panel,    \* panel[p]: the reviewers whose votes decide pull request p
  frozen,   \* the closed pull requests
  verdict   \* verdict[p]: what everybody is told about p

Vote == [id : VoteIds, pr : PullRequestIds, user : Users, status : Statuses]

vars == <<votes, panel, frozen, verdict>>

VotesOf(vs, p, u) == {v \in vs : v.pr = p /\ v.user = u}

Latest(vs, p, u) ==
  CHOOSE v \in VotesOf(vs, p, u) : \A w \in VotesOf(vs, p, u) : w.id <= v.id

Says(vs, p, u, status) ==
  VotesOf(vs, p, u) # {} /\ Latest(vs, p, u).status = status

\* Approved by consensus of a panel that has somebody on it, rejected by one.
Decide(vs, reviewers, p) ==
  IF reviewers # {} /\ \A u \in reviewers : Says(vs, p, u, "approved")
  THEN "approved"
  ELSE IF \E u \in reviewers : Says(vs, p, u, "rejected")
  THEN "rejected"
  ELSE "under_review"

Verdicts(vs, pan) == [p \in PullRequestIds |-> Decide(vs, pan[p], p)]

Announce == verdict' = Verdicts(votes', panel')

Init ==
  /\ votes = {}
  /\ panel = [p \in PullRequestIds |-> {}]
  /\ frozen = {}
  /\ verdict = Verdicts(votes, panel)

\* Votes have numbers that come after all surviving ones.
Newer(v) == v \in Vote /\ \A w \in votes : w.id < v.id

\* A vote is cast, possibly together with the closing of the pull request.
Cast(v) ==
  /\ Newer(v)
  /\ v.pr \notin frozen
  /\ votes' = votes \cup {v}
  /\ frozen' \in {frozen, frozen \cup {v.pr}}
  /\ UNCHANGED panel
  /\ Announce

\* The vote of one comment is withdrawn; earlier votes count again.
Withdraw(v) ==
  /\ v.pr \notin frozen
  /\ UNCHANGED <<panel, frozen>>
  /\ votes' = votes \ {v}
  /\ Announce

\* A pull request is opened with its creator's first vote; an iteration closes
\* the one it replaces in the same step.
Open(v) ==
  /\ Newer(v)
  /\ v.pr \notin frozen
  /\ panel[v.pr] = {} /\ \A w \in votes : w.pr # v.pr
  /\ votes' = votes \cup {v}
  /\ \E reviewers \in SUBSET Users : panel' = [panel EXCEPT ![v.pr] = reviewers]
  /\ \E replaced \in SUBSET PullRequestIds : frozen' = frozen \cup replaced
  /\ Announce

Empanel(p, reviewers) ==
  /\ p \notin frozen
  /\ panel' = [panel EXCEPT ![p] = reviewers]
  /\ UNCHANGED <<votes, frozen>>
  /\ Announce

Close(p) ==
  /\ frozen' = frozen \cup {p}
  /\ UNCHANGED <<votes, panel, verdict>>

\* A deleted pull request takes its votes and its panel with it.
Discard(p) ==
  /\ votes' = {v \in votes : v.pr # p}
  /\ panel' = [panel EXCEPT ![p] = {}]
  /\ frozen' = frozen \ {p}
  /\ Announce

\* Somebody who is on no panel leaves, and all their votes with them.
Leave(u) ==
  /\ \A p \in PullRequestIds : u \notin panel[p]
  /\ UNCHANGED <<panel, frozen>>
  /\ votes' = {v \in votes : v.user # u}
  /\ Announce

Next ==
  \/ \E p \in PullRequestIds : Close(p) \/ Discard(p)
  \/ \E v \in votes : Withdraw(v)
  \/ \E u \in Users : Leave(u)
  \/ \E v \in votes' \ votes : Cast(v) \/ Open(v)
  \/ \E p \in PullRequestIds, rs \in SUBSET Users : Empanel(p, rs)

Spec == Init /\ [][Next]_vars
=============================================================================
