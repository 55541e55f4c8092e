--------------------------- MODULE PullRequestReview ---------------------------
(*****************************************************************************)
(* Pull requests, their comments and the versioned votes of code review, as  *)
(* the tables pull_requests, changeset_comments and changeset_statuses hold  *)
(* them.  Every request of the web interface that changes them is one        *)
(* action: here requests run one at a time; ReviewRequests interleaves them. *)
(*                                                                           *)
(* One repository is the origin of every pull request.  A new row takes some *)
(* id above all those in use: PostgreSQL's sequences and SQLite's            *)
(* AUTOINCREMENT never go back, InnoDB may after a restart, so the id of a   *)
(* deleted row may or may not be used again.  Only the order of ids matters. *)
(* Foreign keys are enforced.                                                *)
(*****************************************************************************)
EXTENDS Naturals, FiniteSets

CONSTANTS
  Users,            \* logged-in users with read access to the repository
  SiteAdmins,       \* users with hg.admin
  RepoAdmins,       \* users with admin level on the repository
  Revisions,
  PullRequestIds,   \* bound: the ids pull requests can be given
  CommentIds,       \* bound: the ids comments can be given
  Choices,          \* bound: what users vote (create adds under_review)
  MaxVersion,       \* bound: how far votes are bumped
  Texts,            \* bound: whether comments have a text (TRUE) or none (FALSE)
  Series,           \* bound: the lists of revisions pull requests are made of
  Panels,           \* bound: the sets of reviewers forms carry
  NewOwners,        \* bound: the users pull requests are handed over to
  NoPR              \* what PullRequest.get finds where there is no row

ASSUME ReviewAssumption ==
  /\ SiteAdmins \subseteq Users
  /\ RepoAdmins \subseteq Users
  /\ PullRequestIds \subseteq Nat \ {0}
  /\ CommentIds \subseteq Nat \ {0}
  /\ Choices \subseteq {"not_reviewed", "under_review", "rejected", "approved"}
  /\ MaxVersion \in Nat
  /\ NoPR \notin [revisions : SUBSET Revisions, owner : Users,
                reviewers : SUBSET Users, closed : BOOLEAN]
  /\ Texts \subseteq BOOLEAN
  /\ Series \subseteq (SUBSET Revisions) \ {{}}
  /\ Panels \subseteq SUBSET Users
  /\ NewOwners \subseteq Users

VARIABLES
  prs,        \* pull_requests with pull_request_reviewers, by id
  comments,   \* changeset_comments
  statuses    \* changeset_statuses

vars == <<prs, comments, statuses>>

Statuses == {"not_reviewed", "under_review", "rejected", "approved"}
NoStatus == "none"       \* a comment that casts no vote
OnRevision == 0          \* pull_request_id is NULL: made on a changeset page

PullRequest ==
  [revisions : SUBSET Revisions, owner : Users, reviewers : SUBSET Users,
   closed : BOOLEAN]

Comment ==
  [id : CommentIds, pr : PullRequestIds \cup {OnRevision}, author : Users]

ChangesetStatus ==
  [revision : Revisions, pr : PullRequestIds \cup {OnRevision}, author : Users,
   status : Statuses, comment : CommentIds, version : Nat]

-----------------------------------------------------------------------------
(* The tables and how the model layer reads and writes them.               *)

Existing == {p \in PullRequestIds : prs[p] # NoPR}

\* The ids a database can give next.
NextId(ids, used) == {i \in ids : \A j \in used : j < i}

UsedComments == {c.id : c \in comments}
FreshPR == NextId(PullRequestIds, Existing)
FreshComment == NextId(CommentIds, UsedComments)

\* (Bug: bumping downwards.)
BumpDown(st, revs) ==
  IF st.revision \in revs THEN [st EXCEPT !.version = @ - 1] ELSE st

\* ChangesetStatusModel.set_status: bump every vote on these revisions, and
\* put one vote with version 0 on each of them.
Bump(st, revs) ==
  IF st.revision \in revs THEN [st EXCEPT !.version = @ + 1] ELSE st

\* (Bug: versions that count upwards.)
SetStatusAppends(revs, pr, user, status, comment) ==
  statuses' = statuses \cup
    {[revision |-> rev, pr |-> pr, author |-> user, status |-> status, comment |-> comment,
      version |-> Cardinality({st \in statuses : st.revision = rev})] : rev \in revs}

Votes(revs, pr, user, status, comment) ==
  {[revision |-> rev, pr |-> pr, author |-> user, status |-> status,
    comment |-> comment, version |-> 0] : rev \in revs}

SetStatus(revs, pr, user, status, comment) ==
  /\ \A st \in statuses : st.revision \in revs => st.version < MaxVersion
  /\ statuses' = {Bump(st, revs) : st \in statuses} \cup Votes(revs, pr, user, status, comment)

CreateComment(id, pr, user) ==
  comments' = comments \cup {[id |-> id, pr |-> pr, author |-> user]}

\* (Bugs: votes of other pull requests; the first row of the query's order.)
BallotsAnywhere(p, user) == {st \in statuses : st.author = user}
CountedOldest(p, user) ==
  {st \in statuses : /\ st.pr = p /\ st.author = user
                     /\ \A other \in statuses :
                          other.pr = p /\ other.author = user => st.version >= other.version}

\* The votes the query of calculate_pull_request_result returns for one voter ...
Ballots(p, user) == {st \in statuses : st.pr = p /\ st.author = user}

\* ... and those its loop can leave in cs_statuses: it runs by descending
\* version and keeps the last, one of those with the lowest.
Counted(p, user) ==
  {st \in Ballots(p, user) : \A other \in Ballots(p, user) : st.version <= other.version}

VoteOf(p, user) == CHOOSE st \in Counted(p, user) : TRUE

Voted(p, user, status) == Ballots(p, user) # {} /\ VoteOf(p, user).status = status

\* calculate_pull_request_result with _calculate_status.
Result(p) ==
  LET reviewers == IF prs[p] = NoPR THEN {} ELSE prs[p].reviewers
  IN  IF reviewers # {} /\ \A u \in reviewers : Voted(p, u, "approved")
      THEN "approved"
      ELSE IF \E u \in reviewers : Voted(p, u, "rejected")
      THEN "rejected"
      ELSE "under_review"

\* What Repository.statuses and get_status report for a changeset: the rows with
\* version 0.
Current(rev) == {st \in statuses : st.revision = rev /\ st.version = 0}

-----------------------------------------------------------------------------
(* What each request checks before it changes anything.                    *)

AdminOf(user) == user \in SiteAdmins \cup RepoAdmins

\* (Bug: a closed pull request can be voted on.)
AllowedWhenClosed(user, p) ==
  user \in SiteAdmins \/ prs[p].owner = user \/ user \in prs[p].reviewers

AllowedToChangeStatus(user, p) ==
  /\ ~prs[p].closed
  /\ \/ user \in SiteAdmins
     \/ prs[p].owner = user
     \/ user \in prs[p].reviewers

\* The API takes no comments on closed pull requests and lets reviewers vote but
\* not close.
MayPostViaApi(user, p, status, close) ==
  /\ ~prs[p].closed
  /\ status # NoStatus => AllowedToChangeStatus(user, p)
  /\ close => user \in SiteAdmins \/ prs[p].owner = user

MayEdit(user, p) ==
  /\ ~prs[p].closed
  /\ AdminOf(user) \/ prs[p].owner = user

MayIterate(user, p) ==
  /\ MayEdit(user, p)
  /\ user \in SiteAdmins \/ prs[p].owner = user

MaySaveDelete(user, p) ==
  /\ prs[p].owner = user \/ AdminOf(user)
  /\ ~prs[p].closed

MayDeleteComment(user, c) ==
  /\ c.pr # OnRevision => ~prs[c.pr].closed
  /\ c.author = user \/ AdminOf(user)

-----------------------------------------------------------------------------
(* What each request changes.                                              *)

\* create_cs_pr_comment on a pull request: an optional text, an optional vote
\* and an optional closing.  A request with neither text nor vote leaves no
\* comment behind but still closes.
Post(user, p, id, status, text, close) ==
  /\ IF text \/ status # NoStatus
     THEN CreateComment(id, p, user)
     ELSE UNCHANGED comments
  /\ IF status # NoStatus
     THEN SetStatus(prs[p].revisions, p, user, status, id)
     ELSE UNCHANGED statuses
  /\ prs' = [prs EXCEPT ![p].closed = @ \/ close]

PostOnRevision(user, rev, id, status) ==
  /\ CreateComment(id, OnRevision, user)
  /\ IF status # NoStatus
     THEN SetStatus({rev}, OnRevision, user, status, id)
     ELSE UNCHANGED statuses
  /\ UNCHANGED prs

NewPR(user, revs, reviewers) ==
  [revisions |-> revs, owner |-> user, reviewers |-> reviewers, closed |-> FALSE]

\* CreatePullRequestAction.execute: the row, the comment with its under_review
\* vote, the reviewers.
Open(user, p, id, revs) ==
  /\ prs' = [prs EXCEPT ![p] = NewPR(user, revs, {})]
  /\ CreateComment(id, p, user)
  /\ SetStatus(revs, p, user, "under_review", id)

\* CreatePullRequestIterationAction.execute: the same with the reviewers of the
\* form, then a comment on the old pull request, which is closed.
Iterate(user, old, p, id, closing, revs, reviewers) ==
  /\ prs' = [prs EXCEPT ![p] = NewPR(user, revs, reviewers), ![old].closed = TRUE]
  /\ comments' = comments \cup {[id |-> id, pr |-> p, author |-> user],
                                [id |-> closing, pr |-> old, author |-> user]}
  /\ SetStatus(revs, p, user, "under_review", id)

\* (Bug: the row is written back as it was loaded, before it was closed.)
EditWritesAll(p, owner, added, removed) ==
  /\ prs' = [prs EXCEPT ![p].owner = owner, ![p].closed = FALSE,
                        ![p].reviewers = (@ \cup added) \ removed]
  /\ UNCHANGED <<comments, statuses>>

Edit(p, owner, added, removed) ==
  /\ prs' = [prs EXCEPT ![p].owner = owner,
                        ![p].reviewers = (@ \cup added) \ removed]
  /\ UNCHANGED <<comments, statuses>>

\* (Bugs: no cascade from comments to votes, none from pull requests.)
RemoveCommentOnly(c) == comments' = comments \ {c} /\ UNCHANGED <<prs, statuses>>
DeleteRowOnly(p) == prs' = [prs EXCEPT ![p] = NoPR] /\ UNCHANGED <<comments, statuses>>

\* A comment is deleted with the votes that came with it.
Remove(c) ==
  /\ comments' = comments \ {c}
  /\ statuses' = {st \in statuses : st.comment # c.id}
  /\ UNCHANGED prs

\* A pull request is deleted with its reviewers, its comments and their votes.
Delete(p) ==
  /\ prs' = [prs EXCEPT ![p] = NoPR]
  /\ comments' = {c \in comments : c.pr # p}
  /\ statuses' = {st \in statuses : \A c \in comments : c.pr = p => st.comment # c.id}

\* An account goes with all comments it made and the votes that came with them.
Forget(user) ==
  /\ comments' = {c \in comments : c.author # user}
  /\ statuses' = {st \in statuses : \A c \in comments : c.author = user => st.comment # c.id}
  /\ UNCHANGED prs

-----------------------------------------------------------------------------
(* The requests, one at a time.                                            *)

\* PullrequestsController.create
CreatePullRequest(user) ==
  \E p \in FreshPR, id \in FreshComment, revs \in Series :
    Open(user, p, id, revs)

\* PullrequestsController.post with a revision to update to
CreateIteration(user, old) ==
  /\ old \in Existing
  /\ MayIterate(user, old)
  /\ \E p \in FreshPR, id \in FreshComment,
        revs \in Series, reviewers \in Panels :
       \E closing \in NextId(CommentIds, UsedComments \cup {id}) :
         Iterate(user, old, p, id, closing, revs, reviewers)

\* PullrequestsController.post: the form carries the reviewers it was shown
\* (before) and the reviewers it asks for (wanted)
EditPullRequest(user, p) ==
  /\ p \in Existing
  /\ MayEdit(user, p)
  /\ \E before, wanted \in Panels, owner \in {prs[p].owner} \cup NewOwners :
       Edit(p, owner, (wanted \ before) \ prs[p].reviewers,
                      (before \ wanted) \cap prs[p].reviewers)

\* PullrequestsController.comment
PostComment(user, p) ==
  /\ p \in Existing
  /\ \E id \in FreshComment, status \in Choices \cup {NoStatus}, text \in Texts, close \in BOOLEAN :
       /\ status # NoStatus \/ close => AllowedToChangeStatus(user, p)
       /\ Post(user, p, id, status, text, close)

\* ApiController.comment_pullrequest
PostCommentViaApi(user, p) ==
  /\ p \in Existing
  /\ \E id \in FreshComment, status \in Choices \cup {NoStatus}, text \in Texts, close \in BOOLEAN :
       /\ MayPostViaApi(user, p, status, close)
       /\ Post(user, p, id, status, text, close)

\* ChangesetController.comment
CommentOnRevision(user, rev) ==
  \E id \in FreshComment, status \in Choices \cup {NoStatus}, text \in Texts :
    /\ text \/ status # NoStatus
    /\ PostOnRevision(user, rev, id, status)

\* delete_comment of either controller
DeleteComment(user, c) ==
  /\ MayDeleteComment(user, c)
  /\ Remove(c)

\* PullrequestsController.comment with save_delete
SaveDeletePullRequest(user, p) ==
  /\ p \in Existing
  /\ MaySaveDelete(user, p)
  /\ Delete(p)

\* PullrequestsController.delete, which asks for the owner and nothing else
DeletePullRequest(user, p) ==
  /\ p \in Existing
  /\ prs[p].owner = user
  /\ Delete(p)

\* UserModel.delete, by an administrator.  It looks for repositories and groups
\* that the user owns; pull requests owned or to be reviewed refer to the account
\* and fail the commit.  A new account may take the name afterwards.
DeleteUser(user) ==
  /\ \A p \in Existing : prs[p].owner # user /\ user \notin prs[p].reviewers
  /\ Forget(user)

Init ==
  /\ prs = [p \in PullRequestIds |-> NoPR]
  /\ comments = {}
  /\ statuses = {}

Next ==
  \E user \in Users :
    \/ CreatePullRequest(user)
    \/ \E p \in PullRequestIds :
         \/ CreateIteration(user, p)
         \/ EditPullRequest(user, p)
         \/ PostComment(user, p)
         \/ PostCommentViaApi(user, p)
         \/ SaveDeletePullRequest(user, p)
         \/ DeletePullRequest(user, p)
    \/ \E rev \in Revisions : CommentOnRevision(user, rev)
    \/ DeleteUser(user)
    \/ \E c \in comments : DeleteComment(user, c)

Spec == Init /\ [][Next]_vars

-----------------------------------------------------------------------------
(* What makes review correct.                                              *)

\* Every table holds rows of its type.
TypeOK ==
  /\ prs \in [PullRequestIds -> PullRequest \cup {NoPR}]
  /\ comments \in SUBSET Comment
  /\ statuses \in SUBSET ChangesetStatus

\* The version numbers of one changeset tell the age of its votes: of two votes
\* the later comment has the lower version, whichever pull request or page it
\* was cast from and whatever was deleted in between (set_status bumps them all).
NewestFirst ==
  \A st, other \in statuses :
    st.revision = other.revision =>
      (st.comment > other.comment <=> st.version < other.version)

\* The unique constraint on (repo_id, revision, version) never makes a request
\* fail: no changeset has two votes with one version.
VersionsUnique ==
  \A st, other \in statuses :
    st.revision = other.revision /\ st.version = other.version => st = other

\* A vote stands as a whole: what one comment cast on a pull request is there
\* for every revision of it, saying the same on each, until all of it is gone.
VotesWhole ==
  \A st \in statuses :
    st.pr # OnRevision =>
      /\ prs[st.pr] # NoPR
      /\ st.revision \in prs[st.pr].revisions
      /\ \A rev \in prs[st.pr].revisions :
           \E other \in statuses :
             /\ other.revision = rev
             /\ other.comment = st.comment /\ other.pr = st.pr
             /\ other.author = st.author /\ other.status = st.status

VotesBacked ==
  \A st \in statuses :
    \E c \in comments : c.id = st.comment /\ c.pr = st.pr /\ c.author = st.author

CommentsBacked == \A c \in comments : c.pr # OnRevision => prs[c.pr] # NoPR

CommentIdsUnique == \A c, d \in comments : c.id = d.id => c = d

\* No vote outlives the comment it came with, and no comment its pull request,
\* so an id used again never inherits votes or comments.
NoOrphans == VotesBacked /\ CommentsBacked /\ CommentIdsUnique

\* "collect latest votes from all voters": whichever of the lowest-version rows
\* the loop of calculate_pull_request_result is left with, it belongs to the
\* voter's latest vote on this pull request that has not been deleted, although
\* other pull requests and pages bump the versions of some of its revisions only.
LatestVoteCounts ==
  \A p \in PullRequestIds, user \in Users :
    \A st \in Counted(p, user), other \in Ballots(p, user) :
      /\ other.comment <= st.comment
      /\ other.comment = st.comment => other.status = st.status

\* The verdict on a closed pull request is final: no later vote, comment,
\* deletion of a comment or iteration changes it, as long as it exists.
ClosedVerdictFinal ==
  [][\A p \in PullRequestIds :
       prs[p] # NoPR /\ prs[p].closed =>
         \/ prs'[p] = NoPR
         \/ Result(p)' = Result(p)]_vars

\* The versioned tables implement the ledger of votes: verdicts follow from the
\* surviving votes, and change only by casting, withdrawing, empanelling.
Ledger ==
  INSTANCE VoteLedger WITH
    VoteIds <- CommentIds,
    votes <- {[id |-> st.comment, pr |-> st.pr, user |-> st.author, status |-> st.status] :
              st \in {row \in statuses : row.pr # OnRevision}},
    panel <- [p \in PullRequestIds |-> IF prs[p] = NoPR THEN {} ELSE prs[p].reviewers],
    frozen <- {p \in PullRequestIds : prs[p] # NoPR /\ prs[p].closed},
    verdict <- [p \in PullRequestIds |-> Result(p)]

ImplementsLedger == Ledger!Spec

\* "version == 0 is always the current one": a changeset that has votes has a
\* current one, so its status is never reported as not reviewed.
VersionZeroIsCurrent ==
  \A st \in statuses : Current(st.revision) # {}
=============================================================================
