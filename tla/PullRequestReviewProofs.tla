------------------------ MODULE PullRequestReviewProofs ------------------------
(*****************************************************************************)
(* Proofs about PullRequestReview, and then about ReviewRequests, which lets *)
(* requests overlap, for any number of users, revisions, workers, pull       *)
(* requests and comments.  The inductive invariant is IInv; that the counted *)
(* vote is the latest one follows from it, and from that, that the tables    *)
(* implement the ledger of votes and that verdicts on closed pull requests   *)
(* are final.                                                                *)
(*****************************************************************************)
EXTENDS ReviewRequests, TLAPS, WellFoundedInduction

\* The facts about the tables that every request preserves together.
IInv == TypeOK /\ NewestFirst /\ VersionsUnique /\ VotesWhole /\ NoOrphans

Fresh(id) == id \in CommentIds /\ \A c \in comments : c.id < id

-----------------------------------------------------------------------------
(* set_status                                                              *)

\* Bumping changes the version of a vote and nothing else of it.
LEMMA BumpKeeps ==
  ASSUME NEW st \in ChangesetStatus, NEW revs
  PROVE  /\ Bump(st, revs) \in ChangesetStatus
         /\ Bump(st, revs).revision = st.revision
         /\ Bump(st, revs).pr = st.pr
         /\ Bump(st, revs).author = st.author
         /\ Bump(st, revs).status = st.status
         /\ Bump(st, revs).comment = st.comment
         /\ Bump(st, revs).version = IF st.revision \in revs THEN st.version + 1
                                                             ELSE st.version
BY DEF Bump, ChangesetStatus

\* set_status with a comment newer than all others keeps the votes typed, and
\* the versions of every changeset unique and ordered by age.
LEMMA SetStatusKeepsOrder ==
  ASSUME IInv,
         NEW revs \in SUBSET Revisions, NEW pr \in PullRequestIds \cup {OnRevision},
         NEW user \in Users, NEW status \in Statuses, NEW id \in Nat, Fresh(id),
         SetStatus(revs, pr, user, status, id)
  PROVE  /\ statuses' \in SUBSET ChangesetStatus
         /\ NewestFirst'
         /\ VersionsUnique'
<1>1. statuses \in SUBSET ChangesetStatus
  BY DEF IInv, TypeOK
<1>2. Votes(revs, pr, user, status, id) \in SUBSET ChangesetStatus
  BY DEF Votes, ChangesetStatus, Fresh
<1>3. statuses' \in SUBSET ChangesetStatus
  BY <1>1, <1>2, BumpKeeps DEF SetStatus
<1>4. \A st \in statuses : st.comment < id
  BY DEF IInv, NoOrphans, VotesBacked, Fresh
<1>5. \A st \in statuses' :
        \/ \E old \in statuses :
             /\ st = Bump(old, revs)
             /\ st.revision = old.revision
             /\ st.comment = old.comment /\ st.comment < id
             /\ st.version = IF st.revision \in revs THEN old.version + 1 ELSE old.version
        \/ st.revision \in revs /\ st.comment = id /\ st.version = 0 
           /\ st = [revision |-> st.revision, pr |-> pr, author |-> user, status |-> status,
                    comment |-> id, version |-> 0]
  BY <1>1, <1>4, BumpKeeps DEF SetStatus, Votes
<1>6. \A st \in statuses : st.version \in Nat /\ st.comment \in Nat
  BY <1>1, ReviewAssumption DEF ChangesetStatus
<1>7. NewestFirst'
  BY <1>5, <1>6 DEF IInv, NewestFirst
<1>8. VersionsUnique'
  BY <1>5, <1>6 DEF IInv, VersionsUnique
<1> QED
  BY <1>3, <1>7, <1>8

\* What set_status does to the votes that were there and to the set of votes.
Recast(revs, pr, user, status, id) ==
  /\ \A old \in statuses :
       /\ Bump(old, revs) \in statuses'
       /\ Bump(old, revs).revision = old.revision
       /\ Bump(old, revs).pr = old.pr
       /\ Bump(old, revs).author = old.author
       /\ Bump(old, revs).status = old.status
       /\ Bump(old, revs).comment = old.comment
  /\ \A rev \in revs :
       \E st \in statuses' :
         /\ st.revision = rev /\ st.pr = pr /\ st.author = user
         /\ st.status = status /\ st.comment = id
  /\ \A st \in statuses' :
       \/ \E old \in statuses : st = Bump(old, revs)
       \/ /\ st.revision \in revs /\ st.pr = pr /\ st.author = user
          /\ st.status = status /\ st.comment = id

\* set_status keeps the votes that were there and adds one for every revision.
LEMMA SetStatusRows ==
  ASSUME IInv,
         NEW revs \in SUBSET Revisions, NEW pr \in PullRequestIds \cup {OnRevision},
         NEW user \in Users, NEW status \in Statuses, NEW id \in CommentIds,
         SetStatus(revs, pr, user, status, id)
  PROVE  Recast(revs, pr, user, status, id)
<1>1. statuses \in SUBSET ChangesetStatus
  BY DEF IInv, TypeOK
<1>2. \A rev \in revs : [revision |-> rev, pr |-> pr, author |-> user, status |-> status,
                         comment |-> id, version |-> 0] \in statuses'
  BY DEF SetStatus, Votes
<1>3. \A old \in statuses :
              /\ Bump(old, revs) \in statuses'
              /\ Bump(old, revs).revision = old.revision
              /\ Bump(old, revs).pr = old.pr
              /\ Bump(old, revs).author = old.author
              /\ Bump(old, revs).status = old.status
              /\ Bump(old, revs).comment = old.comment
  BY <1>1, BumpKeeps DEF SetStatus
<1>4. ASSUME NEW rev \in revs
      PROVE  \E st \in statuses' :
                /\ st.revision = rev /\ st.pr = pr /\ st.author = user
                /\ st.status = status /\ st.comment = id
  <2> DEFINE vote == [revision |-> rev, pr |-> pr, author |-> user, status |-> status,
                      comment |-> id, version |-> 0]
  <2>1. vote \in statuses'
    BY <1>2
  <2>2. /\ vote.revision = rev /\ vote.pr = pr /\ vote.author = user
        /\ vote.status = status /\ vote.comment = id
    OBVIOUS
  <2> HIDE DEF vote
  <2> QED
    BY <2>1, <2>2
<1>5. \A st \in Votes(revs, pr, user, status, id) :
        /\ st.revision \in revs /\ st.pr = pr /\ st.author = user
        /\ st.status = status /\ st.comment = id
  BY DEF Votes
<1> QED
  BY <1>3, <1>4, <1>5 DEF SetStatus, Recast

\* Votes stay whole when set_status casts one on all revisions of its pull request
\* and no other pull request loses or changes its revisions.
LEMMA SetStatusKeepsWhole ==
  ASSUME IInv,
         NEW revs \in SUBSET Revisions, NEW pr \in PullRequestIds \cup {OnRevision},
         NEW user \in Users, NEW status \in Statuses, NEW id \in CommentIds,
         Recast(revs, pr, user, status, id),
         \A p \in PullRequestIds :
           prs[p] # NoPR => prs'[p] # NoPR /\ prs'[p].revisions = prs[p].revisions,
         pr # OnRevision => prs'[pr] # NoPR /\ prs'[pr].revisions = revs
  PROVE  VotesWhole'
<1>1. ASSUME NEW st \in statuses', st.pr # OnRevision
      PROVE  /\ prs'[st.pr] # NoPR
             /\ st.revision \in prs'[st.pr].revisions
             /\ \A rev \in prs'[st.pr].revisions :
                  \E other \in statuses' :
                    /\ other.revision = rev
                    /\ other.comment = st.comment /\ other.pr = st.pr
                    /\ other.author = st.author /\ other.status = st.status
  <2>1. CASE \E old \in statuses : st = Bump(old, revs)
    <3>1. PICK old \in statuses : st = Bump(old, revs)
      BY <2>1
    <3>2. old \in ChangesetStatus
      BY DEF IInv, TypeOK
    <3>3. /\ st.revision = old.revision /\ st.pr = old.pr /\ st.author = old.author
          /\ st.status = old.status /\ st.comment = old.comment
      BY <3>1 DEF Recast
    <3>4. old.pr \in PullRequestIds
      BY <1>1, <3>2, <3>3 DEF ChangesetStatus
    <3>5. /\ prs[old.pr] # NoPR
          /\ old.revision \in prs[old.pr].revisions
          /\ \A rev \in prs[old.pr].revisions :
               \E other \in statuses :
                 /\ other.revision = rev
                 /\ other.comment = old.comment /\ other.pr = old.pr
                 /\ other.author = old.author /\ other.status = old.status
      BY <1>1, <3>3 DEF IInv, VotesWhole
    <3>6. prs'[old.pr] # NoPR /\ prs'[old.pr].revisions = prs[old.pr].revisions
      BY <3>4, <3>5
    <3>7. ASSUME NEW rev \in prs[old.pr].revisions
          PROVE  \E other \in statuses' :
                    /\ other.revision = rev
                    /\ other.comment = st.comment /\ other.pr = st.pr
                    /\ other.author = st.author /\ other.status = st.status
      <4>1. PICK other \in statuses :
                 /\ other.revision = rev
                 /\ other.comment = old.comment /\ other.pr = old.pr
                 /\ other.author = old.author /\ other.status = old.status
        BY <3>5
      <4>2. Bump(other, revs) \in statuses'
        BY DEF Recast
      <4> QED
        BY <4>1, <4>2, <3>3 DEF Recast
    <3> QED
      BY <3>3, <3>5, <3>6, <3>7
  <2>2. CASE /\ st.revision \in revs /\ st.pr = pr /\ st.author = user
             /\ st.status = status /\ st.comment = id
    <3>1. prs'[pr] # NoPR /\ prs'[pr].revisions = revs
      BY <1>1, <2>2
    <3>2. \A rev \in revs :
            \E other \in statuses' :
              /\ other.revision = rev /\ other.pr = pr /\ other.author = user
              /\ other.status = status /\ other.comment = id
      BY DEF Recast
    <3> QED
      BY <2>2, <3>1, <3>2
  <2> QED
    BY <2>1, <2>2 DEF Recast
<1> QED
  BY <1>1 DEF VotesWhole

\* Votes stay backed by comments when set_status runs for a comment just created.
LEMMA SetStatusKeepsBacked ==
  ASSUME IInv,
         NEW revs \in SUBSET Revisions, NEW pr \in PullRequestIds \cup {OnRevision},
         NEW user \in Users, NEW status \in Statuses, NEW id \in CommentIds,
         Recast(revs, pr, user, status, id),
         comments \subseteq comments',
         [id |-> id, pr |-> pr, author |-> user] \in comments'
  PROVE  VotesBacked'
<1>1. ASSUME NEW st \in statuses'
      PROVE  \E c \in comments' : c.id = st.comment /\ c.pr = st.pr /\ c.author = st.author
  <2>1. CASE \E old \in statuses : st = Bump(old, revs)
    <3>1. PICK old \in statuses : st = Bump(old, revs)
      BY <2>1
    <3>2. st.comment = old.comment /\ st.pr = old.pr /\ st.author = old.author
      BY <3>1 DEF Recast
    <3>3. \E c \in comments : c.id = old.comment /\ c.pr = old.pr /\ c.author = old.author
      BY DEF IInv, NoOrphans, VotesBacked
    <3> QED
      BY <3>2, <3>3
  <2>2. CASE st.pr = pr /\ st.author = user /\ st.comment = id
    <3> DEFINE new == [id |-> id, pr |-> pr, author |-> user]
    <3>1. new \in comments' /\ new.id = id /\ new.pr = pr /\ new.author = user
      OBVIOUS
    <3> HIDE DEF new
    <3> QED
      BY <2>2, <3>1
  <2> QED
    BY <2>1, <2>2 DEF Recast
<1> QED
  BY <1>1 DEF VotesBacked

\* The id a new comment gets is above all ids in use.
LEMMA FreshComments ==
  ASSUME NEW used, NEW id \in NextId(CommentIds, UsedComments \cup used)
  PROVE  Fresh(id)
BY DEF NextId, UsedComments, Fresh

LEMMA FreshCommentIsFresh ==
  ASSUME NEW id \in FreshComment
  PROVE  Fresh(id)
BY DEF FreshComment, NextId, UsedComments, Fresh

\* A comment with a fresh id keeps comments typed and their ids unique.
LEMMA CreateCommentKeeps ==
  ASSUME IInv, NEW id, Fresh(id), NEW user \in Users,
         NEW pr \in PullRequestIds \cup {OnRevision},
         CreateComment(id, pr, user)
  PROVE  /\ comments' \in SUBSET Comment
         /\ CommentIdsUnique'
         /\ comments \subseteq comments'
         /\ [id |-> id, pr |-> pr, author |-> user] \in comments'
         /\ \A c \in comments' : c \in comments \/ c.pr = pr
<1>1. \A c \in comments : c.id \in Nat /\ c.id < id
  BY ReviewAssumption DEF IInv, TypeOK, Comment, Fresh
<1>2. CommentIdsUnique'
  BY <1>1 DEF IInv, NoOrphans, CommentIdsUnique, CreateComment
<1>3. comments' \in SUBSET Comment
  BY DEF IInv, TypeOK, Comment, CreateComment, Fresh
<1> QED
  BY <1>2, <1>3 DEF CreateComment

-----------------------------------------------------------------------------
(* The requests keep the invariant, one lemma for each.                    *)

\* A vote on a pull request or a page: the comment and set_status together.
LEMMA CastKeeps ==
  ASSUME IInv, NEW id, Fresh(id), NEW user \in Users,
         NEW pr \in PullRequestIds \cup {OnRevision},
         NEW revs \in SUBSET Revisions, NEW status \in Statuses,
         CreateComment(id, pr, user),
         SetStatus(revs, pr, user, status, id),
         prs' \in [PullRequestIds -> PullRequest \cup {NoPR}],
         \A p \in PullRequestIds :
           prs[p] # NoPR => prs'[p] # NoPR /\ prs'[p].revisions = prs[p].revisions,
         pr # OnRevision => prs'[pr] # NoPR /\ prs'[pr].revisions = revs
  PROVE  IInv'
<1>1. id \in CommentIds /\ id \in Nat
  BY ReviewAssumption DEF Fresh
<1>2. Recast(revs, pr, user, status, id)
  BY <1>1, SetStatusRows
<1>3. statuses' \in SUBSET ChangesetStatus /\ NewestFirst' /\ VersionsUnique'
  BY <1>1, SetStatusKeepsOrder
<1>4. VotesWhole'
  BY <1>1, <1>2, SetStatusKeepsWhole
<1>5. /\ comments' \in SUBSET Comment
      /\ CommentIdsUnique'
      /\ comments \subseteq comments'
      /\ [id |-> id, pr |-> pr, author |-> user] \in comments'
      /\ \A c \in comments' : c \in comments \/ c.pr = pr
  BY CreateCommentKeeps
<1>6. VotesBacked'
  BY <1>1, <1>2, <1>5, SetStatusKeepsBacked
<1>7. CommentsBacked'
  BY <1>5 DEF IInv, TypeOK, NoOrphans, CommentsBacked, Comment
<1> QED
  BY <1>3, <1>4, <1>5, <1>6, <1>7 DEF IInv, TypeOK, NoOrphans

\* Closing or editing a pull request: its row stays, and its revisions.
LEMMA RowEdited ==
  ASSUME IInv, UNCHANGED <<comments, statuses>>,
         prs' \in [PullRequestIds -> PullRequest \cup {NoPR}],
         \A p \in PullRequestIds :
           prs[p] # NoPR => prs'[p] # NoPR /\ prs'[p].revisions = prs[p].revisions
  PROVE  IInv'
<1>1. TypeOK' /\ NewestFirst' /\ VersionsUnique'
  BY DEF IInv, TypeOK, NewestFirst, VersionsUnique
<1>2. NoOrphans'
  BY DEF IInv, TypeOK, NoOrphans, VotesBacked, CommentsBacked, CommentIdsUnique, Comment
<1>3. ASSUME NEW st \in statuses, st.pr # OnRevision
      PROVE  /\ st.pr \in PullRequestIds
             /\ prs'[st.pr] # NoPR
             /\ prs'[st.pr].revisions = prs[st.pr].revisions
  BY <1>3 DEF IInv, TypeOK, VotesWhole, ChangesetStatus
<1>4. VotesWhole'
  BY <1>3 DEF IInv, VotesWhole
<1> QED
  BY <1>1, <1>2, <1>4 DEF IInv

\* A comment without a vote, with whatever it does to rows that stay.
LEMMA RemarkKeeps ==
  ASSUME IInv, NEW id, Fresh(id), NEW user \in Users,
         NEW pr \in PullRequestIds \cup {OnRevision},
         CreateComment(id, pr, user), UNCHANGED statuses,
         prs' \in [PullRequestIds -> PullRequest \cup {NoPR}],
         \A p \in PullRequestIds :
           prs[p] # NoPR => prs'[p] # NoPR /\ prs'[p].revisions = prs[p].revisions,
         pr # OnRevision => prs'[pr] # NoPR
  PROVE  IInv'
<1>1. /\ comments' \in SUBSET Comment
      /\ CommentIdsUnique'
      /\ comments \subseteq comments'
      /\ \A c \in comments' : c \in comments \/ c.pr = pr
  BY CreateCommentKeeps
<1>2. CommentsBacked'
  BY <1>1 DEF IInv, TypeOK, NoOrphans, CommentsBacked, Comment
<1>3. VotesBacked'
  BY <1>1 DEF IInv, NoOrphans, VotesBacked
<1>4. TypeOK' /\ NewestFirst' /\ VersionsUnique'
  BY <1>1 DEF IInv, TypeOK, NewestFirst, VersionsUnique
<1>5. ASSUME NEW st \in statuses, st.pr # OnRevision
      PROVE  /\ prs'[st.pr] # NoPR
             /\ prs'[st.pr].revisions = prs[st.pr].revisions
  BY <1>5 DEF IInv, TypeOK, VotesWhole, ChangesetStatus
<1>6. VotesWhole'
  BY <1>5 DEF IInv, VotesWhole
<1> QED
  BY <1>1, <1>2, <1>3, <1>4, <1>6 DEF IInv, NoOrphans

\* PullrequestsController.comment
LEMMA PostKeeps ==
  ASSUME IInv, NEW user \in Users, NEW p \in Existing, NEW id \in FreshComment,
         NEW status \in Choices \cup {NoStatus}, NEW text \in BOOLEAN, NEW close \in BOOLEAN,
         Post(user, p, id, status, text, close)
  PROVE  IInv'
<1>1. p \in PullRequestIds /\ prs[p] # NoPR /\ prs[p] \in PullRequest /\ Fresh(id)
  BY FreshCommentIsFresh DEF Existing, IInv, TypeOK
<1>2. prs' = [prs EXCEPT ![p].closed = @ \/ close]
  BY DEF Post
<1>3. /\ prs' \in [PullRequestIds -> PullRequest \cup {NoPR}]
      /\ \A q \in PullRequestIds :
           prs[q] # NoPR => prs'[q] # NoPR /\ prs'[q].revisions = prs[q].revisions
  BY <1>1, <1>2, ReviewAssumption DEF IInv, TypeOK, PullRequest
<1>4. prs[p].revisions \in SUBSET Revisions
  BY <1>1 DEF PullRequest
<1>5. CASE status # NoStatus
  <2>1. status \in Statuses
    BY <1>5, ReviewAssumption DEF Statuses
  <2>2. CreateComment(id, p, user) /\ SetStatus(prs[p].revisions, p, user, status, id)
    BY <1>5 DEF Post
  <2> QED
    BY <1>1, <1>3, <1>4, <2>1, <2>2, CastKeeps
<1>6. CASE status = NoStatus /\ text
  <2>1. CreateComment(id, p, user) /\ UNCHANGED statuses
    BY <1>6 DEF Post
  <2> QED
    BY <1>1, <1>3, <2>1, RemarkKeeps
<1>7. CASE status = NoStatus /\ ~text
  <2>1. UNCHANGED <<comments, statuses>>
    BY <1>7 DEF Post
  <2> QED
    BY <1>3, <2>1, RowEdited
<1> QED
  BY <1>5, <1>6, <1>7

\* ChangesetController.comment
LEMMA PostOnRevisionKeeps ==
  ASSUME IInv, NEW user \in Users, NEW rev \in Revisions, NEW id \in FreshComment,
         NEW status \in Choices \cup {NoStatus},
         PostOnRevision(user, rev, id, status)
  PROVE  IInv'
<1>1. Fresh(id) /\ CreateComment(id, OnRevision, user) /\ UNCHANGED prs
  BY FreshCommentIsFresh DEF PostOnRevision
<1>2. prs' \in [PullRequestIds -> PullRequest \cup {NoPR}]
  BY <1>1 DEF IInv, TypeOK
<1>3. CASE status # NoStatus
  <2>1. status \in Statuses
    BY <1>3, ReviewAssumption DEF Statuses
  <2>2. SetStatus({rev}, OnRevision, user, status, id)
    BY <1>3 DEF PostOnRevision
  <2>3. {rev} \in SUBSET Revisions
    OBVIOUS
  <2> QED
    BY <1>1, <1>2, <2>1, <2>2, <2>3, CastKeeps
<1>4. CASE status = NoStatus
  <2>1. UNCHANGED statuses
    BY <1>4 DEF PostOnRevision
  <2> QED
    BY <1>1, <1>2, <2>1, RemarkKeeps
<1> QED
  BY <1>3, <1>4

\* PullrequestsController.create
LEMMA OpenKeeps ==
  ASSUME IInv, NEW user \in Users, NEW p \in FreshPR, NEW id \in FreshComment,
         NEW revs \in Series, Open(user, p, id, revs)
  PROVE  IInv'
<1>1. p \in PullRequestIds /\ prs[p] = NoPR /\ Fresh(id)
  <2>1. p \in PullRequestIds /\ \A q \in Existing : q < p
    BY DEF FreshPR, NextId
  <2>2. ~(p < p)
    BY <2>1, ReviewAssumption
  <2> QED
    BY <2>1, <2>2, FreshCommentIsFresh DEF Existing
<1>2. revs \in SUBSET Revisions
  BY ReviewAssumption
<1>3. NewPR(user, revs, {}) \in PullRequest /\ NewPR(user, revs, {}).revisions = revs
  BY <1>2 DEF NewPR, PullRequest
<1>4. NewPR(user, revs, {}) # NoPR
  BY <1>3, ReviewAssumption DEF PullRequest
<1>5. prs' = [prs EXCEPT ![p] = NewPR(user, revs, {})]
  BY DEF Open
<1>6. /\ prs' \in [PullRequestIds -> PullRequest \cup {NoPR}]
      /\ \A q \in PullRequestIds :
           prs[q] # NoPR => prs'[q] # NoPR /\ prs'[q].revisions = prs[q].revisions
      /\ prs'[p] # NoPR /\ prs'[p].revisions = revs
  BY <1>1, <1>3, <1>4, <1>5 DEF IInv, TypeOK
<1>7. CreateComment(id, p, user) /\ SetStatus(revs, p, user, "under_review", id)
  BY DEF Open
<1>8. "under_review" \in Statuses
  BY DEF Statuses
<1> QED
  BY <1>1, <1>2, <1>6, <1>7, <1>8, CastKeeps

\* PullrequestsController.post with a new revision
LEMMA IterateKeeps ==
  ASSUME IInv, NEW user \in Users, NEW old \in Existing, NEW p \in FreshPR,
         NEW id \in FreshComment,
         NEW closing \in NextId(CommentIds, UsedComments \cup {id}),
         NEW revs \in Series, NEW reviewers \in Panels,
         Iterate(user, old, p, id, closing, revs, reviewers)
  PROVE  IInv'
<1>1. /\ p \in PullRequestIds /\ prs[p] = NoPR
      /\ old \in PullRequestIds /\ prs[old] \in PullRequest /\ p # old
      /\ Fresh(id) /\ Fresh(closing) /\ id < closing
      /\ id \in CommentIds /\ closing \in CommentIds
  <2>1. p \in PullRequestIds /\ \A q \in Existing : q < p
    BY DEF FreshPR, NextId
  <2>2. ~(p < p)
    BY <2>1, ReviewAssumption
  <2>3. Fresh(id) /\ Fresh(closing)
    BY FreshCommentIsFresh, FreshComments
  <2>4. id < closing
    BY DEF NextId
  <2> QED
    BY <2>1, <2>2, <2>3, <2>4 DEF Existing, Fresh, IInv, TypeOK
<1>2. revs \in SUBSET Revisions /\ reviewers \in SUBSET Users
  BY ReviewAssumption
<1>3. NewPR(user, revs, reviewers) \in PullRequest /\ NewPR(user, revs, reviewers).revisions = revs
  BY <1>2 DEF NewPR, PullRequest
<1>4. NewPR(user, revs, reviewers) # NoPR
  BY <1>3, ReviewAssumption DEF PullRequest
<1>5. prs' = [prs EXCEPT ![p] = NewPR(user, revs, reviewers), ![old].closed = TRUE]
  BY DEF Iterate
<1>6. /\ prs' \in [PullRequestIds -> PullRequest \cup {NoPR}]
      /\ \A q \in PullRequestIds :
           prs[q] # NoPR => prs'[q] # NoPR /\ prs'[q].revisions = prs[q].revisions
      /\ prs'[p] # NoPR /\ prs'[p].revisions = revs
      /\ prs'[old] # NoPR
  <2> DEFINE closed == [prs[old] EXCEPT !.closed = TRUE]
  <2>1. closed \in PullRequest /\ closed # NoPR /\ closed.revisions = prs[old].revisions
    BY <1>1, ReviewAssumption DEF PullRequest
  <2>2. prs' = [q \in PullRequestIds |->
                  IF q = old THEN closed
                  ELSE IF q = p THEN NewPR(user, revs, reviewers) ELSE prs[q]]
    BY <1>1, <1>5 DEF IInv, TypeOK
  <2> HIDE DEF closed
  <2> QED
    BY <1>1, <1>3, <1>4, <2>1, <2>2 DEF IInv, TypeOK
<1>7. SetStatus(revs, p, user, "under_review", id) /\ "under_review" \in Statuses
  BY DEF Iterate, Statuses
<1>8. Recast(revs, p, user, "under_review", id)
  BY <1>1, <1>2, <1>7, SetStatusRows
<1>9. statuses' \in SUBSET ChangesetStatus /\ NewestFirst' /\ VersionsUnique'
  <2>1. id \in Nat
    BY <1>1, ReviewAssumption
  <2> QED
    BY <1>1, <1>2, <1>7, <2>1, SetStatusKeepsOrder
<1>10. VotesWhole'
  BY <1>1, <1>2, <1>6, <1>7, <1>8, SetStatusKeepsWhole
<1>11. comments' = comments \cup {[id |-> id, pr |-> p, author |-> user],
                                  [id |-> closing, pr |-> old, author |-> user]}
  BY DEF Iterate
<1>12. VotesBacked'
  BY <1>1, <1>2, <1>7, <1>8, <1>11, SetStatusKeepsBacked
<1>13. CommentsBacked'
  BY <1>1, <1>6, <1>11 DEF IInv, TypeOK, NoOrphans, CommentsBacked, Comment
<1>14. comments' \in SUBSET Comment
  BY <1>1, <1>11 DEF IInv, TypeOK, Comment
<1>15. CommentIdsUnique'
  <2>1. \A c \in comments : c.id \in Nat /\ c.id < id /\ c.id < closing
    BY <1>1, ReviewAssumption DEF IInv, TypeOK, Comment, Fresh
  <2>2. id \in Nat /\ closing \in Nat
    BY <1>1, ReviewAssumption
  <2> QED
    BY <1>1, <1>11, <2>1, <2>2 DEF IInv, NoOrphans, CommentIdsUnique
<1> QED
  BY <1>6, <1>9, <1>10, <1>12, <1>13, <1>14, <1>15 DEF IInv, TypeOK, NoOrphans

\* PullrequestsController.post
LEMMA EditKeeps ==
  ASSUME IInv, NEW p \in Existing, NEW owner \in Users,
         NEW added \in SUBSET Users, NEW removed, Edit(p, owner, added, removed)
  PROVE  IInv'
<1>1. p \in PullRequestIds /\ prs[p] # NoPR /\ prs[p] \in PullRequest
  BY DEF Existing, IInv, TypeOK
<1> DEFINE row == [prs[p] EXCEPT !.owner = owner, !.reviewers = (@ \cup added) \ removed]
<1>2. row \in PullRequest /\ row.revisions = prs[p].revisions
  BY <1>1 DEF PullRequest
<1>3. row # NoPR
  BY <1>2, ReviewAssumption DEF PullRequest
<1>4. prs' = [prs EXCEPT ![p] = row]
  BY <1>1 DEF Edit, IInv, TypeOK
<1>5. UNCHANGED <<comments, statuses>>
  BY DEF Edit
<1> HIDE DEF row
<1>6. /\ prs' \in [PullRequestIds -> PullRequest \cup {NoPR}]
      /\ \A q \in PullRequestIds :
           prs[q] # NoPR => prs'[q] # NoPR /\ prs'[q].revisions = prs[q].revisions
  BY <1>1, <1>2, <1>3, <1>4 DEF IInv, TypeOK
<1> QED
  BY <1>5, <1>6, RowEdited

\* delete_comment: the votes of a comment go together.
LEMMA RemoveKeeps ==
  ASSUME IInv, NEW c \in comments, Remove(c)
  PROVE  IInv'
<1>1. /\ comments' = comments \ {c}
      /\ statuses' = {st \in statuses : st.comment # c.id}
      /\ prs' = prs
  BY DEF Remove
<1>2. TypeOK' /\ NewestFirst' /\ VersionsUnique'
  BY <1>1 DEF IInv, TypeOK, NewestFirst, VersionsUnique
<1>3. ASSUME NEW st \in statuses', st.pr # OnRevision
      PROVE  /\ prs'[st.pr] # NoPR
             /\ st.revision \in prs'[st.pr].revisions
             /\ \A rev \in prs'[st.pr].revisions :
                  \E other \in statuses' :
                    /\ other.revision = rev
                    /\ other.comment = st.comment /\ other.pr = st.pr
                    /\ other.author = st.author /\ other.status = st.status
  BY <1>1, <1>3 DEF IInv, VotesWhole
<1>4. VotesWhole'
  BY <1>3 DEF VotesWhole
<1>5. NoOrphans'
  BY <1>1 DEF IInv, NoOrphans, VotesBacked, CommentsBacked, CommentIdsUnique
<1> QED
  BY <1>2, <1>4, <1>5 DEF IInv

\* Deleting a pull request: what is left belongs to other pull requests.
LEMMA DeleteKeeps ==
  ASSUME IInv, NEW p \in Existing, Delete(p)
  PROVE  IInv'
<1>1. /\ prs' = [prs EXCEPT ![p] = NoPR]
      /\ comments' = {c \in comments : c.pr # p}
      /\ statuses' = {st \in statuses : \A c \in comments : c.pr = p => st.comment # c.id}
  BY DEF Delete
<1>2. TypeOK' /\ NewestFirst' /\ VersionsUnique'
  BY <1>1 DEF IInv, TypeOK, NewestFirst, VersionsUnique
<1>3. \A st \in statuses' : st \in statuses /\ st.pr # p
  BY <1>1 DEF IInv, NoOrphans, VotesBacked
<1>4. ASSUME NEW st \in statuses', st.pr # OnRevision
      PROVE  /\ prs'[st.pr] # NoPR
             /\ st.revision \in prs'[st.pr].revisions
             /\ \A rev \in prs'[st.pr].revisions :
                  \E other \in statuses' :
                    /\ other.revision = rev
                    /\ other.comment = st.comment /\ other.pr = st.pr
                    /\ other.author = st.author /\ other.status = st.status
  <2>1. st \in statuses /\ st.pr # p /\ st.pr \in PullRequestIds
    BY <1>3, <1>4 DEF IInv, TypeOK, ChangesetStatus
  <2>2. prs'[st.pr] = prs[st.pr]
    BY <1>1, <2>1 DEF IInv, TypeOK
  <2> QED
    BY <1>1, <1>4, <2>1, <2>2 DEF IInv, VotesWhole
<1>5. VotesWhole'
  BY <1>4 DEF VotesWhole
<1>6. VotesBacked'
  <2>1. ASSUME NEW st \in statuses'
        PROVE  \E c \in comments' : c.id = st.comment /\ c.pr = st.pr /\ c.author = st.author
    <3>1. PICK c \in comments : c.id = st.comment /\ c.pr = st.pr /\ c.author = st.author
      BY <1>3 DEF IInv, NoOrphans, VotesBacked
    <3> QED
      BY <1>1, <1>3, <3>1
  <2> QED
    BY <2>1 DEF VotesBacked
<1>7. CommentsBacked' /\ CommentIdsUnique'
  BY <1>1 DEF IInv, TypeOK, NoOrphans, CommentsBacked, CommentIdsUnique, Comment
<1> QED
  BY <1>2, <1>5, <1>6, <1>7 DEF IInv, NoOrphans

\* UserModel.delete: an account goes with its comments and their votes.
LEMMA ForgetKeeps ==
  ASSUME IInv, NEW user \in Users, Forget(user)
  PROVE  IInv'
<1>1. /\ prs' = prs
      /\ comments' = {c \in comments : c.author # user}
      /\ statuses' = {st \in statuses : \A c \in comments : c.author = user => st.comment # c.id}
  BY DEF Forget
<1>2. TypeOK' /\ NewestFirst' /\ VersionsUnique'
  BY <1>1 DEF IInv, TypeOK, NewestFirst, VersionsUnique
<1>3. VotesWhole'
  BY <1>1 DEF IInv, VotesWhole
<1>4. VotesBacked'
  <2>1. ASSUME NEW st \in statuses'
        PROVE  \E c \in comments' : c.id = st.comment /\ c.pr = st.pr /\ c.author = st.author
    <3>1. PICK c \in comments : c.id = st.comment /\ c.pr = st.pr /\ c.author = st.author
      BY <1>1 DEF IInv, NoOrphans, VotesBacked
    <3> QED
      BY <1>1, <3>1
  <2> QED
    BY <2>1 DEF VotesBacked
<1>5. CommentsBacked' /\ CommentIdsUnique'
  BY <1>1 DEF IInv, NoOrphans, CommentsBacked, CommentIdsUnique
<1> QED
  BY <1>2, <1>3, <1>4, <1>5 DEF IInv, NoOrphans

-----------------------------------------------------------------------------
(* The theorems.                                                           *)

\* Nothing is there at first.
LEMMA InitEstablishes == Init => IInv
BY DEF Init, IInv, TypeOK, NewestFirst, VersionsUnique, VotesWhole, NoOrphans,
       VotesBacked, CommentsBacked, CommentIdsUnique

\* Every request keeps the invariant.
LEMMA NextKeeps ==
  ASSUME IInv, [Next]_vars
  PROVE  IInv'
<1>1. CASE UNCHANGED vars
  BY <1>1 DEF vars, IInv, TypeOK, NewestFirst, VersionsUnique, VotesWhole, NoOrphans,
              VotesBacked, CommentsBacked, CommentIdsUnique
<1>2. ASSUME NEW user \in Users, CreatePullRequest(user) PROVE IInv'
  BY <1>2, OpenKeeps DEF CreatePullRequest
<1>3. ASSUME NEW user \in Users, NEW old \in PullRequestIds, CreateIteration(user, old)
      PROVE  IInv'
  BY <1>3, IterateKeeps DEF CreateIteration
<1>4. ASSUME NEW user \in Users, NEW p \in PullRequestIds, EditPullRequest(user, p)
      PROVE  IInv'
  <2>1. p \in Existing /\ prs[p].owner \in Users
    BY <1>4 DEF EditPullRequest, Existing, IInv, TypeOK, PullRequest
  <2>2. PICK before \in Panels, wanted \in Panels, owner \in {prs[p].owner} \cup NewOwners :
          Edit(p, owner, (wanted \ before) \ prs[p].reviewers,
                         (before \ wanted) \cap prs[p].reviewers)
    BY <1>4 DEF EditPullRequest
  <2>3. owner \in Users /\ (wanted \ before) \ prs[p].reviewers \in SUBSET Users
    BY <2>1, ReviewAssumption
  <2> QED
    BY <2>1, <2>2, <2>3, EditKeeps
<1>5. ASSUME NEW user \in Users, NEW p \in PullRequestIds, PostComment(user, p)
      PROVE  IInv'
  BY <1>5, PostKeeps, ReviewAssumption DEF PostComment
<1>9. ASSUME NEW user \in Users, NEW p \in PullRequestIds, PostCommentViaApi(user, p)
      PROVE  IInv'
  BY <1>9, PostKeeps, ReviewAssumption DEF PostCommentViaApi
<1>10. ASSUME NEW user \in Users, DeleteUser(user)
       PROVE  IInv'
  BY <1>10, ForgetKeeps DEF DeleteUser
<1>6. ASSUME NEW user \in Users, NEW p \in PullRequestIds,
             SaveDeletePullRequest(user, p) \/ DeletePullRequest(user, p)
      PROVE  IInv'
  BY <1>6, DeleteKeeps DEF SaveDeletePullRequest, DeletePullRequest
<1>7. ASSUME NEW user \in Users, NEW rev \in Revisions, CommentOnRevision(user, rev)
      PROVE  IInv'
  BY <1>7, PostOnRevisionKeeps DEF CommentOnRevision
<1>8. ASSUME NEW user \in Users, NEW c \in comments, DeleteComment(user, c)
      PROVE  IInv'
  BY <1>8, RemoveKeeps DEF DeleteComment
<1> QED
  BY <1>1, <1>2, <1>3, <1>4, <1>5, <1>6, <1>7, <1>8, <1>9, <1>10 DEF Next

\* Votes of a voter on a pull request: the lowest version is the latest vote,
\* because both votes have a row on the same revision, where versions order them.
LEMMA LowestIsLatest == IInv => LatestVoteCounts
<1> SUFFICES ASSUME IInv,
                    NEW p \in PullRequestIds, NEW user \in Users,
                    NEW st \in Counted(p, user), NEW other \in Ballots(p, user)
             PROVE  /\ other.comment <= st.comment
                    /\ other.comment = st.comment => other.status = st.status
  BY DEF LatestVoteCounts
<1>1. /\ st \in Ballots(p, user)
      /\ \A row \in Ballots(p, user) : st.version <= row.version
  BY DEF Counted
<1>2. /\ st \in statuses /\ st.pr = p /\ st.author = user
      /\ other \in statuses /\ other.pr = p /\ other.author = user
  BY <1>1 DEF Ballots
<1>3. p # OnRevision
  BY ReviewAssumption DEF OnRevision
<1>4. st.revision \in prs[p].revisions
  BY <1>2, <1>3 DEF IInv, VotesWhole
<1>5. PICK twin \in statuses :
        /\ twin.revision = st.revision
        /\ twin.comment = other.comment /\ twin.pr = p
        /\ twin.author = user /\ twin.status = other.status
  BY <1>2, <1>3, <1>4 DEF IInv, VotesWhole
<1>6. st.version <= twin.version
  BY <1>1, <1>5 DEF Ballots
<1>7. /\ st.version \in Nat /\ twin.version \in Nat
      /\ st.comment \in Nat /\ twin.comment \in Nat
  BY <1>2, ReviewAssumption DEF IInv, TypeOK, ChangesetStatus
<1>8. twin.comment > st.comment <=> twin.version < st.version
  BY <1>2, <1>5 DEF IInv, NewestFirst
<1>9. st.comment > twin.comment <=> st.version < twin.version
  BY <1>2, <1>5 DEF IInv, NewestFirst
<1>10. twin.version = st.version => twin = st
  BY <1>2, <1>5 DEF IInv, VersionsUnique
<1> QED
  BY <1>5, <1>6, <1>7, <1>8, <1>9, <1>10

\* Whatever requests come, in whatever order: the tables stay typed, versions
\* order votes by age, votes stay whole, nothing outlives what it belongs to.
THEOREM ReviewInvariant == Spec => []IInv
<1>1. Init => IInv
  BY InitEstablishes
<1>2. IInv /\ [Next]_vars => IInv'
  BY NextKeeps
<1> QED
  BY <1>1, <1>2, PTL DEF Spec

\* calculate_pull_request_result always counts each voter's latest vote.
THEOREM LatestVoteTheorem == Spec => []LatestVoteCounts
  BY ReviewInvariant, LowestIsLatest, PTL

\* No row outlives the row it belongs to.
THEOREM NoOrphansTheorem == Spec => []NoOrphans
<1>1. IInv => NoOrphans
  BY DEF IInv
<1> QED
  BY <1>1, ReviewInvariant, PTL

\* The votes one comment casts agree and cover its series or are gone together.
THEOREM VotesWholeTheorem == Spec => []VotesWhole
<1>1. IInv => VotesWhole
  BY DEF IInv
<1> QED
  BY <1>1, ReviewInvariant, PTL

\* Versions tell the age of the votes of a changeset.
THEOREM NewestFirstTheorem == Spec => []NewestFirst
<1>1. IInv => NewestFirst
  BY DEF IInv
<1> QED
  BY <1>1, ReviewInvariant, PTL

\* Versions are unique on a changeset: the database never refuses a vote.
THEOREM VersionsUniqueTheorem == Spec => []VersionsUnique
<1>1. IInv => VersionsUnique
  BY DEF IInv
<1> QED
  BY <1>1, ReviewInvariant, PTL

\* Every table holds rows of its type.
THEOREM ReviewTypeTheorem == Spec => []TypeOK
<1>1. IInv => TypeOK
  BY DEF IInv
<1> QED
  BY <1>1, ReviewInvariant, PTL

-----------------------------------------------------------------------------
(* The ledger of votes: the state it sees and the verdict.                 *)

\* The vote a row of changeset_statuses is part of.
View(st) == [id |-> st.comment, pr |-> st.pr, user |-> st.author, status |-> st.status]

LedgerVotes == {View(st) : st \in {row \in statuses : row.pr # OnRevision}}
LedgerPanel == [p \in PullRequestIds |-> IF prs[p] = NoPR THEN {} ELSE prs[p].reviewers]
LedgerFrozen == {p \in PullRequestIds : prs[p] # NoPR /\ prs[p].closed}
LedgerVerdict == [p \in PullRequestIds |-> Result(p)]
ledgerVars == <<LedgerVotes, LedgerPanel, LedgerFrozen, LedgerVerdict>>

\* Everybody is told what the ledger decides.
VerdictRight == LedgerVerdict = Ledger!Verdicts(LedgerVotes, LedgerPanel)

\* Every nonempty set of natural numbers has a least one.
LEMMA LeastNatural ==
  ASSUME NEW T, T \subseteq Nat, T # {}
  PROVE  \E x \in T : \A y \in T : x <= y
<1> DEFINE R == OpToRel(<,Nat)
<1>1. IsWellFoundedOn(R, Nat)
  BY NatLessThanWellFounded
<1>2. \A a, b \in Nat : a < b => <<a, b>> \in R
  BY DEF OpToRel
<1> HIDE DEF R
<1>3. PICK x \in T : \A y \in T : ~ (<<y, x>> \in R)
  BY <1>1, WFMin, Zenon
<1>4. \A y \in T : ~(y < x)
  BY <1>2, <1>3
<1> QED
  BY <1>4

\* A voter who has ballots has one that is counted.
LEMMA SomeBallotCounts ==
  ASSUME IInv, NEW p, NEW u, Ballots(p, u) # {}
  PROVE  VoteOf(p, u) \in Counted(p, u)
<1> DEFINE versions == {st.version : st \in Ballots(p, u)}
<1>1. \A st \in Ballots(p, u) : st.version \in Nat
  BY DEF Ballots, IInv, TypeOK, ChangesetStatus
<1>2. versions \subseteq Nat /\ versions # {}
  BY <1>1
<1>3. PICK v \in versions : \A w \in versions : v <= w
  BY <1>2, LeastNatural
<1>4. PICK st \in Ballots(p, u) : st.version = v
  BY <1>3
<1>5. st \in Counted(p, u)
  BY <1>3, <1>4 DEF Counted
<1> QED
  BY <1>5 DEF VoteOf

\* What a voter says is what the ledger reads in the surviving votes.
LEMMA VotedIsSaid ==
  ASSUME IInv, NEW p \in PullRequestIds, NEW u \in Users, NEW s
  PROVE  Voted(p, u, s) <=> Ledger!Says(LedgerVotes, p, u, s)
<1> DEFINE V == Ledger!VotesOf(LedgerVotes, p, u)
<1>1. p # OnRevision
  BY ReviewAssumption DEF OnRevision
<1>2. \A st \in Ballots(p, u) : View(st) \in V
  BY <1>1 DEF Ballots, LedgerVotes, Ledger!VotesOf, View
<1>3. \A v \in V : \E st \in Ballots(p, u) : v = View(st)
  BY <1>1 DEF Ballots, LedgerVotes, Ledger!VotesOf, View
<1> HIDE DEF V
<1>4. CASE Ballots(p, u) = {}
  <2>1. V = {}
    BY <1>3, <1>4
  <2> QED
    BY <1>4, <2>1 DEF Voted, Ledger!Says, V
<1>5. CASE Ballots(p, u) # {}
  <2> DEFINE st == VoteOf(p, u)
  <2>1. st \in Counted(p, u)
    BY <1>5, SomeBallotCounts
  <2> HIDE DEF st
  <2>2. st \in Ballots(p, u)
    BY <2>1 DEF Counted
  <2>3. LatestVoteCounts
    BY LowestIsLatest
  <2>4. \A other \in Ballots(p, u) :
          /\ other.comment <= st.comment
          /\ other.comment = st.comment => other.status = st.status
    BY <2>1, <2>3 DEF LatestVoteCounts
  <2>5. View(st) \in V /\ \A w \in V : w.id <= View(st).id
    BY <1>2, <1>3, <2>2, <2>4 DEF View
  <2> DEFINE latest == Ledger!Latest(LedgerVotes, p, u)
  <2>6. latest = CHOOSE v \in V : \A w \in V : w.id <= v.id
    BY DEF Ledger!Latest, V
  <2> HIDE DEF latest
  <2>7. latest \in V /\ \A w \in V : w.id <= latest.id
    BY <2>5, <2>6
  <2>8. PICK row \in Ballots(p, u) : latest = View(row)
    BY <1>3, <2>7
  <2>9. View(st).id <= latest.id
    BY <2>5, <2>7
  <2>10. row.comment <= st.comment /\ st.comment <= row.comment
    BY <2>4, <2>8, <2>9 DEF View
  <2>11. row.comment \in Nat /\ st.comment \in Nat
    BY <2>2, ReviewAssumption DEF Ballots, IInv, TypeOK, ChangesetStatus
  <2>12. row.comment = st.comment
    BY <2>10, <2>11
  <2>13. latest.status = st.status
    BY <2>4, <2>8, <2>12 DEF View
  <2>14. V # {}
    BY <2>5
  <2> QED
    BY <1>5, <2>13, <2>14 DEF Voted, Ledger!Says, V, st, latest
<1> QED
  BY <1>4, <1>5

\* calculate_pull_request_result computes what the ledger decides.
LEMMA ResultIsDecision == IInv => VerdictRight
<1> SUFFICES ASSUME IInv, NEW p \in PullRequestIds
             PROVE  Result(p) = Ledger!Decide(LedgerVotes, LedgerPanel[p], p)
  BY DEF VerdictRight, LedgerVerdict, Ledger!Verdicts
<1>1. LedgerPanel[p] = IF prs[p] = NoPR THEN {} ELSE prs[p].reviewers
  BY DEF LedgerPanel
<1>2. LedgerPanel[p] \subseteq Users
  BY <1>1 DEF IInv, TypeOK, PullRequest
<1>3. \A u \in LedgerPanel[p] :
        /\ Voted(p, u, "approved") <=> Ledger!Says(LedgerVotes, p, u, "approved")
        /\ Voted(p, u, "rejected") <=> Ledger!Says(LedgerVotes, p, u, "rejected")
  BY <1>2, VotedIsSaid
<1> QED
  BY <1>1, <1>3 DEF Result, Ledger!Decide

-----------------------------------------------------------------------------
(* What the requests do to the ledger.                                     *)

\* No closed pull request is opened again.
StillClosed ==
  \A p \in PullRequestIds :
    prs[p] # NoPR /\ prs[p].closed => prs'[p] = NoPR \/ prs'[p].closed

\* set_status on a pull request casts one vote in the ledger however many
\* changesets it has, and on a changeset page none.
LEMMA SetStatusCasts ==
  ASSUME IInv,
         NEW revs \in SUBSET Revisions, NEW pr \in PullRequestIds \cup {OnRevision},
         NEW user \in Users, NEW status \in Statuses, NEW id \in CommentIds,
         SetStatus(revs, pr, user, status, id)
  PROVE  LedgerVotes' =
           IF pr = OnRevision \/ revs = {} THEN LedgerVotes
           ELSE LedgerVotes \cup {[id |-> id, pr |-> pr, user |-> user, status |-> status]}
<1> DEFINE vote == [id |-> id, pr |-> pr, user |-> user, status |-> status]
<1>1. Recast(revs, pr, user, status, id)
  BY SetStatusRows
<1>2. \A st \in statuses :
        /\ Bump(st, revs) \in statuses'
        /\ Bump(st, revs).pr = st.pr /\ View(Bump(st, revs)) = View(st)
  BY <1>1 DEF Recast, View
<1>3. \A st \in statuses' :
        \/ \E old \in statuses : st.pr = old.pr /\ View(st) = View(old)
        \/ st.pr = pr /\ st.revision \in revs /\ View(st) = vote
  <2>1. SUFFICES ASSUME NEW st \in statuses', ~\E old \in statuses : st = Bump(old, revs)
                 PROVE  st.pr = pr /\ st.revision \in revs /\ View(st) = vote
    BY <1>2
  <2>2. /\ st.revision \in revs /\ st.pr = pr /\ st.author = user
        /\ st.status = status /\ st.comment = id
    BY <1>1, <2>1 DEF Recast
  <2> QED
    BY <2>2 DEF View
<1>4. revs # {} => \E st \in statuses' : st.pr = pr /\ View(st) = vote
  BY <1>1 DEF Recast, View
<1> HIDE DEF vote
<1>5. ASSUME NEW x \in LedgerVotes PROVE x \in LedgerVotes'
  <2>1. PICK st \in statuses : st.pr # OnRevision /\ x = View(st)
    BY <1>5 DEF LedgerVotes
  <2>2. /\ Bump(st, revs) \in statuses' /\ Bump(st, revs).pr # OnRevision
        /\ x = View(Bump(st, revs))
    BY <1>2, <2>1
  <2> QED
    BY <2>2 DEF LedgerVotes, View
<1>6. ASSUME NEW x \in LedgerVotes'
      PROVE  x \in LedgerVotes \/ (pr # OnRevision /\ revs # {} /\ x = vote)
  <2>1. PICK st \in statuses' : st.pr # OnRevision /\ x = View(st)
    BY <1>6 DEF LedgerVotes, View
  <2> QED
    BY <1>3, <2>1 DEF LedgerVotes
<1>7. pr # OnRevision /\ revs # {} => vote \in LedgerVotes'
  BY <1>4 DEF LedgerVotes, View
<1> QED
  BY <1>5, <1>6, <1>7 DEF vote

\* A fresh comment numbers a vote that is newer than all that survive.
LEMMA FreshIsNewer ==
  ASSUME IInv, NEW id \in FreshComment, NEW p \in PullRequestIds, NEW user \in Users,
         NEW status \in Statuses
  PROVE  /\ Ledger!Newer([id |-> id, pr |-> p, user |-> user, status |-> status])
         /\ [id |-> id, pr |-> p, user |-> user, status |-> status] \notin LedgerVotes
<1>1. id \in CommentIds /\ id \in Nat /\ \A c \in comments : c.id < id
  BY FreshCommentIsFresh, ReviewAssumption DEF Fresh
<1>2. \A st \in statuses : st.comment < id
  BY <1>1 DEF IInv, NoOrphans, VotesBacked
<1>3. \A w \in LedgerVotes : w.id < id
  BY <1>2 DEF LedgerVotes, View
<1>4. [id |-> id, pr |-> p, user |-> user, status |-> status] \in Ledger!Vote
  BY <1>1 DEF Ledger!Vote
<1>5. Ledger!Newer([id |-> id, pr |-> p, user |-> user, status |-> status])
  BY <1>3, <1>4 DEF Ledger!Newer, LedgerVotes, View
<1>6. ~(id < id)
  BY <1>1
<1> QED
  BY <1>3, <1>5, <1>6

\* A step that leaves votes, panels and closings alone is none of the ledger's.
LEMMA LedgerStutters ==
  ASSUME VerdictRight, VerdictRight',
         LedgerVotes' = LedgerVotes, LedgerPanel' = LedgerPanel, LedgerFrozen' = LedgerFrozen
  PROVE  UNCHANGED ledgerVars
BY DEF VerdictRight, ledgerVars

\* A vote is cast in the ledger.
LEMMA LedgerCasts ==
  ASSUME VerdictRight', NEW v, Ledger!Newer(v), v \notin LedgerVotes,
         v.pr \notin LedgerFrozen,
         LedgerVotes' = LedgerVotes \cup {v},
         LedgerFrozen' = LedgerFrozen \/ LedgerFrozen' = LedgerFrozen \cup {v.pr},
         LedgerPanel' = LedgerPanel
  PROVE  Ledger!Next
<1>1. LedgerVerdict' = Ledger!Verdicts(LedgerVotes', LedgerPanel')
  BY DEF VerdictRight
<1>2. Ledger!Cast(v)
  BY <1>1 DEF Ledger!Cast, Ledger!Announce, LedgerVotes, LedgerPanel, LedgerFrozen,
              LedgerVerdict, View
<1>3. v \in LedgerVotes' \ LedgerVotes
  OBVIOUS
<1> QED
  BY <1>2, <1>3 DEF Ledger!Next, LedgerVotes, View

\* A pull request is opened in the ledger, its predecessor closed.
LEMMA LedgerOpens ==
  ASSUME VerdictRight', NEW v, Ledger!Newer(v), v \notin LedgerVotes,
         v.pr \notin LedgerFrozen,
         LedgerPanel[v.pr] = {}, \A w \in LedgerVotes : w.pr # v.pr,
         LedgerVotes' = LedgerVotes \cup {v},
         NEW reviewers \in SUBSET Users,
         LedgerPanel' = [LedgerPanel EXCEPT ![v.pr] = reviewers],
         NEW replaced \in SUBSET PullRequestIds,
         LedgerFrozen' = LedgerFrozen \cup replaced
  PROVE  Ledger!Next
<1>1. LedgerVerdict' = Ledger!Verdicts(LedgerVotes', LedgerPanel')
  BY DEF VerdictRight
<1>2. Ledger!Open(v)
  BY <1>1 DEF Ledger!Open, Ledger!Announce, LedgerVotes, LedgerPanel, LedgerFrozen,
              LedgerVerdict, View
<1>3. v \in LedgerVotes' \ LedgerVotes
  OBVIOUS
<1> QED
  BY <1>2, <1>3 DEF Ledger!Next, LedgerVotes, View

\* A pull request is closed in the ledger.
LEMMA LedgerCloses ==
  ASSUME VerdictRight, VerdictRight', NEW p \in PullRequestIds,
         LedgerVotes' = LedgerVotes, LedgerPanel' = LedgerPanel,
         LedgerFrozen' = LedgerFrozen \cup {p}
  PROVE  Ledger!Next
<1>1. LedgerVerdict' = LedgerVerdict
  BY DEF VerdictRight
<1>2. Ledger!Close(p)
  BY <1>1 DEF Ledger!Close, LedgerVotes, LedgerPanel, LedgerFrozen, LedgerVerdict, View
<1> QED
  BY <1>2 DEF Ledger!Next

\* The owner changes who is on the panel.
LEMMA LedgerEmpanels ==
  ASSUME VerdictRight', NEW p \in PullRequestIds, p \notin LedgerFrozen,
         NEW reviewers \in SUBSET Users,
         LedgerVotes' = LedgerVotes, LedgerFrozen' = LedgerFrozen,
         LedgerPanel' = [LedgerPanel EXCEPT ![p] = reviewers]
  PROVE  Ledger!Next
<1>1. LedgerVerdict' = Ledger!Verdicts(LedgerVotes', LedgerPanel')
  BY DEF VerdictRight
<1>2. Ledger!Empanel(p, reviewers)
  BY <1>1 DEF Ledger!Empanel, Ledger!Announce, LedgerVotes, LedgerPanel, LedgerFrozen,
              LedgerVerdict, View
<1> QED
  BY <1>2 DEF Ledger!Next

\* A pull request goes with its votes.
LEMMA LedgerDiscards ==
  ASSUME VerdictRight', NEW p \in PullRequestIds,
         LedgerVotes' = {v \in LedgerVotes : v.pr # p},
         LedgerPanel' = [LedgerPanel EXCEPT ![p] = {}],
         LedgerFrozen' = LedgerFrozen \ {p}
  PROVE  Ledger!Next
<1>1. LedgerVerdict' = Ledger!Verdicts(LedgerVotes', LedgerPanel')
  BY DEF VerdictRight
<1>2. Ledger!Discard(p)
  BY <1>1 DEF Ledger!Discard, Ledger!Announce, LedgerVotes, LedgerPanel, LedgerFrozen,
              LedgerVerdict, View
<1> QED
  BY <1>2 DEF Ledger!Next

\* One vote is withdrawn.
LEMMA LedgerWithdraws ==
  ASSUME VerdictRight', NEW v \in LedgerVotes, v.pr \notin LedgerFrozen,
         LedgerVotes' = LedgerVotes \ {v},
         LedgerPanel' = LedgerPanel, LedgerFrozen' = LedgerFrozen
  PROVE  Ledger!Next
<1>1. LedgerVerdict' = Ledger!Verdicts(LedgerVotes', LedgerPanel')
  BY DEF VerdictRight
<1>2. Ledger!Withdraw(v)
  BY <1>1 DEF Ledger!Withdraw, Ledger!Announce, LedgerVotes, LedgerPanel, LedgerFrozen,
              LedgerVerdict, View
<1> QED
  BY <1>2 DEF Ledger!Next, LedgerVotes, View

\* Somebody on no panel leaves with all their votes.
LEMMA LedgerLeaves ==
  ASSUME VerdictRight', NEW u \in Users, \A p \in PullRequestIds : u \notin LedgerPanel[p],
         LedgerVotes' = {v \in LedgerVotes : v.user # u},
         LedgerPanel' = LedgerPanel, LedgerFrozen' = LedgerFrozen
  PROVE  Ledger!Next
<1>1. LedgerVerdict' = Ledger!Verdicts(LedgerVotes', LedgerPanel')
  BY DEF VerdictRight
<1>2. Ledger!Leave(u)
  BY <1>1 DEF Ledger!Leave, Ledger!Announce, LedgerVotes, LedgerPanel, LedgerFrozen,
              LedgerVerdict, View
<1> QED
  BY <1>2 DEF Ledger!Next

-----------------------------------------------------------------------------
(* Every request is a step of the ledger, or none.                         *)

LedgerStep == [Ledger!Next]_ledgerVars

\* Rewriting the pull request that a comment is posted on closes it or not.
LEMMA PostCloses ==
  ASSUME IInv, NEW p \in Existing, NEW close \in BOOLEAN,
         prs' = [prs EXCEPT ![p].closed = @ \/ close]
  PROVE  /\ LedgerPanel' = LedgerPanel
         /\ LedgerFrozen' = IF close THEN LedgerFrozen \cup {p} ELSE LedgerFrozen
         /\ StillClosed
<1>1. p \in PullRequestIds /\ prs[p] # NoPR /\ prs[p] \in PullRequest
  BY DEF Existing, IInv, TypeOK
<1> DEFINE row == [prs[p] EXCEPT !.closed = @ \/ close]
<1>2. row \in PullRequest /\ row.reviewers = prs[p].reviewers
      /\ row.closed = (prs[p].closed \/ close)
  BY <1>1 DEF PullRequest
<1>3. row # NoPR
  BY <1>2, ReviewAssumption DEF PullRequest
<1>4. prs' = [prs EXCEPT ![p] = row]
  BY <1>1
<1> HIDE DEF row
<1>5. prs'[p] = row /\ \A q \in PullRequestIds : q # p => prs'[q] = prs[q]
  BY <1>1, <1>4 DEF IInv, TypeOK
<1>6. LedgerPanel' = LedgerPanel
  BY <1>1, <1>2, <1>3, <1>5 DEF LedgerPanel
<1>7. \A q \in PullRequestIds : q \in LedgerFrozen' <=> q \in LedgerFrozen \/ (q = p /\ close)
  BY <1>1, <1>2, <1>3, <1>5 DEF LedgerFrozen
<1>8. LedgerFrozen \subseteq PullRequestIds /\ LedgerFrozen' \subseteq PullRequestIds
  BY DEF LedgerFrozen
<1>9. StillClosed
  BY <1>2, <1>5 DEF StillClosed
<1> QED
  BY <1>1, <1>6, <1>7, <1>8, <1>9

\* Post casts, closes, does both or neither.
LEMMA PostLedger ==
  ASSUME IInv, VerdictRight, VerdictRight', NEW user \in Users, NEW p \in Existing,
         NEW id \in FreshComment, NEW status \in Choices \cup {NoStatus},
         NEW text \in BOOLEAN, NEW close \in BOOLEAN,
         status # NoStatus => ~prs[p].closed,
         Post(user, p, id, status, text, close)
  PROVE  LedgerStep /\ StillClosed
<1>1. p \in PullRequestIds /\ prs[p] # NoPR /\ prs[p].revisions \in SUBSET Revisions
  BY DEF Existing, IInv, TypeOK, PullRequest
<1>2. prs' = [prs EXCEPT ![p].closed = @ \/ close]
  BY DEF Post
<1>3. /\ LedgerPanel' = LedgerPanel
      /\ LedgerFrozen' = IF close THEN LedgerFrozen \cup {p} ELSE LedgerFrozen
      /\ StillClosed
  BY <1>2, PostCloses
<1>4. CASE LedgerVotes' = LedgerVotes
  <2>1. CASE close
    BY <1>1, <1>3, <1>4, <2>1, LedgerCloses DEF LedgerStep
  <2>2. CASE ~close
    BY <1>3, <1>4, <2>2, LedgerStutters DEF LedgerStep
  <2> QED
    BY <1>3, <2>1, <2>2
<1>5. CASE LedgerVotes' # LedgerVotes
  <2>1. status # NoStatus
    <3>1. statuses' = statuses => LedgerVotes' = LedgerVotes
      BY DEF LedgerVotes, View
    <3> QED
      BY <1>5, <3>1 DEF Post
  <2>2. SetStatus(prs[p].revisions, p, user, status, id)
    BY <2>1 DEF Post
  <2>3. status \in Statuses /\ id \in CommentIds
    BY <2>1, ReviewAssumption DEF Statuses, FreshComment, NextId
  <2> DEFINE vote == [id |-> id, pr |-> p, user |-> user, status |-> status]
  <2>4. LedgerVotes' = LedgerVotes \cup {vote}
    BY <1>1, <1>5, <2>2, <2>3, SetStatusCasts
  <2>5. Ledger!Newer(vote) /\ vote \notin LedgerVotes
    BY <1>1, <2>3, FreshIsNewer
  <2>6. vote.pr = p /\ p \notin LedgerFrozen
    BY <2>1 DEF LedgerFrozen
  <2> HIDE DEF vote
  <2>7. Ledger!Next
    BY <1>3, <2>4, <2>5, <2>6, LedgerCasts
  <2> QED
    BY <1>3, <2>7 DEF LedgerStep
<1> QED
  BY <1>4, <1>5

\* A comment on a changeset page casts no vote on a pull request.
LEMMA PostOnRevisionLedger ==
  ASSUME IInv, VerdictRight, VerdictRight', NEW user \in Users, NEW rev \in Revisions,
         NEW id \in FreshComment, NEW status \in Choices \cup {NoStatus},
         PostOnRevision(user, rev, id, status)
  PROVE  LedgerStep /\ StillClosed
<1>1. prs' = prs
  BY DEF PostOnRevision
<1>2. LedgerPanel' = LedgerPanel /\ LedgerFrozen' = LedgerFrozen /\ StillClosed
  BY <1>1 DEF LedgerPanel, LedgerFrozen, StillClosed
<1>3. LedgerVotes' = LedgerVotes
  <2>1. CASE status = NoStatus
    BY <2>1 DEF PostOnRevision, LedgerVotes, View
  <2>2. CASE status # NoStatus
    <3>1. SetStatus({rev}, OnRevision, user, status, id)
      BY <2>2 DEF PostOnRevision
    <3>2. status \in Statuses /\ id \in CommentIds /\ {rev} \in SUBSET Revisions
      BY <2>2, ReviewAssumption DEF Statuses, FreshComment, NextId
    <3> QED
      BY <3>1, <3>2, SetStatusCasts
  <2> QED
    BY <2>1, <2>2
<1> QED
  BY <1>2, <1>3, LedgerStutters DEF LedgerStep

\* A new pull request, opened for its creator or as the iteration of another.
LEMMA NewIsOpen ==
  ASSUME IInv, NEW p \in FreshPR
  PROVE  /\ p \in PullRequestIds /\ prs[p] = NoPR
         /\ p \notin LedgerFrozen /\ LedgerPanel[p] = {}
         /\ \A w \in LedgerVotes : w.pr # p
<1>1. p \in PullRequestIds /\ prs[p] = NoPR
  <2>1. p \in PullRequestIds /\ \A q \in Existing : q < p
    BY DEF FreshPR, NextId
  <2>2. ~(p < p)
    BY <2>1, ReviewAssumption
  <2> QED
    BY <2>1, <2>2 DEF Existing
<1>2. \A st \in statuses : st.pr # OnRevision => st.pr # p
  BY <1>1 DEF IInv, VotesWhole
<1> QED
  BY <1>1, <1>2 DEF LedgerFrozen, LedgerPanel, LedgerVotes, View

\* PullrequestsController.create opens a pull request in the ledger.
LEMMA OpenLedger ==
  ASSUME IInv, VerdictRight', NEW user \in Users, NEW p \in FreshPR, NEW id \in FreshComment,
         NEW revs \in Series, Open(user, p, id, revs)
  PROVE  LedgerStep /\ StillClosed
<1>1. /\ p \in PullRequestIds /\ prs[p] = NoPR
      /\ p \notin LedgerFrozen /\ LedgerPanel[p] = {}
      /\ \A w \in LedgerVotes : w.pr # p
  BY NewIsOpen
<1>2. revs \in SUBSET Revisions /\ revs # {}
  BY ReviewAssumption
<1>3. NewPR(user, revs, {}) \in PullRequest /\ NewPR(user, revs, {}).reviewers = {}
      /\ ~NewPR(user, revs, {}).closed
  BY <1>2 DEF NewPR, PullRequest
<1>4. prs'[p] = NewPR(user, revs, {}) /\ \A q \in PullRequestIds : q # p => prs'[q] = prs[q]
  BY <1>1 DEF Open, IInv, TypeOK
<1>5. LedgerPanel' = [LedgerPanel EXCEPT ![p] = {}]
  BY <1>1, <1>3, <1>4 DEF LedgerPanel
<1>6. \A q \in PullRequestIds : q \in LedgerFrozen' <=> q \in LedgerFrozen
  BY <1>1, <1>3, <1>4 DEF LedgerFrozen
<1>7. LedgerFrozen' = LedgerFrozen
  BY <1>6 DEF LedgerFrozen
<1> DEFINE vote == [id |-> id, pr |-> p, user |-> user, status |-> "under_review"]
<1>8. "under_review" \in Statuses /\ id \in CommentIds /\ p # OnRevision
  BY <1>1, ReviewAssumption DEF Statuses, FreshComment, NextId, OnRevision
<1>9. LedgerVotes' = LedgerVotes \cup {vote}
  BY <1>1, <1>2, <1>8, SetStatusCasts DEF Open
<1>10. Ledger!Newer(vote) /\ vote \notin LedgerVotes /\ vote.pr = p
  BY <1>1, <1>8, FreshIsNewer
<1> HIDE DEF vote
<1>11. Ledger!Next
  <2>1. {} \in SUBSET Users /\ {} \in SUBSET PullRequestIds /\ LedgerFrozen' = LedgerFrozen \cup {}
    BY <1>7
  <2> QED
    BY <1>1, <1>5, <1>9, <1>10, <2>1, LedgerOpens
<1>12. StillClosed
  BY <1>1, <1>4 DEF StillClosed
<1> QED
  BY <1>11, <1>12 DEF LedgerStep

\* PullrequestsController.post with a new revision opens one and closes another.
LEMMA IterateLedger ==
  ASSUME IInv, VerdictRight', NEW user \in Users, NEW old \in Existing, NEW p \in FreshPR,
         NEW id \in FreshComment, NEW closing, NEW revs \in Series, NEW reviewers \in Panels,
         Iterate(user, old, p, id, closing, revs, reviewers)
  PROVE  LedgerStep /\ StillClosed
<1>1. /\ p \in PullRequestIds /\ prs[p] = NoPR
      /\ p \notin LedgerFrozen /\ LedgerPanel[p] = {}
      /\ \A w \in LedgerVotes : w.pr # p
  BY NewIsOpen
<1>2. /\ revs \in SUBSET Revisions /\ revs # {} /\ reviewers \in SUBSET Users
      /\ old \in PullRequestIds /\ prs[old] \in PullRequest /\ old # p
  BY <1>1, ReviewAssumption DEF Existing, IInv, TypeOK
<1> DEFINE row == NewPR(user, revs, reviewers)
           closed == [prs[old] EXCEPT !.closed = TRUE]
<1>3. row \in PullRequest /\ row.reviewers = reviewers /\ ~row.closed
  BY <1>2 DEF NewPR, PullRequest
<1>4. closed \in PullRequest /\ closed.reviewers = prs[old].reviewers /\ closed.closed
  BY <1>2 DEF PullRequest
<1>5. row # NoPR /\ closed # NoPR /\ prs[old] # NoPR
  BY <1>2, <1>3, <1>4, ReviewAssumption DEF PullRequest
<1>6. prs' = [prs EXCEPT ![p] = row, ![old] = closed]
  BY <1>2 DEF Iterate, IInv, TypeOK
<1> HIDE DEF row, closed
<1>7. /\ prs'[p] = row /\ prs'[old] = closed
      /\ \A q \in PullRequestIds : q # p /\ q # old => prs'[q] = prs[q]
  BY <1>1, <1>2, <1>6 DEF IInv, TypeOK
<1>8. LedgerPanel' = [LedgerPanel EXCEPT ![p] = reviewers]
  BY <1>1, <1>2, <1>3, <1>4, <1>5, <1>7 DEF LedgerPanel
<1>9. \A q \in PullRequestIds : q \in LedgerFrozen' <=> q \in LedgerFrozen \/ q = old
  BY <1>1, <1>2, <1>3, <1>4, <1>5, <1>7 DEF LedgerFrozen
<1>10. LedgerFrozen' = LedgerFrozen \cup {old}
  <2>1. LedgerFrozen \subseteq PullRequestIds /\ LedgerFrozen' \subseteq PullRequestIds
    BY DEF LedgerFrozen
  <2> QED
    BY <1>2, <1>9, <2>1
<1> DEFINE vote == [id |-> id, pr |-> p, user |-> user, status |-> "under_review"]
<1>11. "under_review" \in Statuses /\ id \in CommentIds /\ p # OnRevision
  BY <1>1, ReviewAssumption DEF Statuses, FreshComment, NextId, OnRevision
<1>12. LedgerVotes' = LedgerVotes \cup {vote}
  BY <1>1, <1>2, <1>11, SetStatusCasts DEF Iterate
<1>13. Ledger!Newer(vote) /\ vote \notin LedgerVotes /\ vote.pr = p
  BY <1>1, <1>11, FreshIsNewer
<1> HIDE DEF vote
<1>14. Ledger!Next
  <2>1. {old} \in SUBSET PullRequestIds
    BY <1>2
  <2> QED
    BY <1>1, <1>2, <1>8, <1>10, <1>12, <1>13, <2>1, LedgerOpens
<1>15. StillClosed
  BY <1>1, <1>2, <1>4, <1>7 DEF StillClosed
<1> QED
  BY <1>14, <1>15 DEF LedgerStep

\* PullrequestsController.post changes the panel of an open pull request.
LEMMA EditLedger ==
  ASSUME IInv, VerdictRight, VerdictRight', NEW p \in Existing, ~prs[p].closed,
         NEW owner \in Users, NEW added \in SUBSET Users, NEW removed,
         Edit(p, owner, added, removed)
  PROVE  LedgerStep /\ StillClosed
<1>1. p \in PullRequestIds /\ prs[p] # NoPR /\ prs[p] \in PullRequest
  BY DEF Existing, IInv, TypeOK
<1> DEFINE reviewers == (prs[p].reviewers \cup added) \ removed
           row == [prs[p] EXCEPT !.owner = owner, !.reviewers = (@ \cup added) \ removed]
<1>2. /\ row \in PullRequest /\ row.reviewers = reviewers /\ row.closed = prs[p].closed
      /\ reviewers \in SUBSET Users
  BY <1>1 DEF PullRequest
<1>3. row # NoPR
  BY <1>2, ReviewAssumption DEF PullRequest
<1>4. prs' = [prs EXCEPT ![p] = row]
  BY <1>1 DEF Edit, IInv, TypeOK
<1>5. statuses' = statuses
  BY DEF Edit
<1> HIDE DEF row, reviewers
<1>6. prs'[p] = row /\ \A q \in PullRequestIds : q # p => prs'[q] = prs[q]
  BY <1>1, <1>4 DEF IInv, TypeOK
<1>7. LedgerPanel' = [LedgerPanel EXCEPT ![p] = reviewers]
  BY <1>1, <1>2, <1>3, <1>6 DEF LedgerPanel
<1>8. LedgerFrozen' = LedgerFrozen /\ p \notin LedgerFrozen /\ StillClosed
  BY <1>1, <1>2, <1>3, <1>6 DEF LedgerFrozen, StillClosed
<1>9. LedgerVotes' = LedgerVotes
  BY <1>5 DEF LedgerVotes, View
<1>10. Ledger!Next
  BY <1>1, <1>2, <1>7, <1>8, <1>9, LedgerEmpanels
<1> QED
  BY <1>8, <1>10 DEF LedgerStep

\* A pull request is deleted with its votes, all of them and no others.
LEMMA DeleteLedger ==
  ASSUME IInv, VerdictRight', NEW p \in Existing, Delete(p)
  PROVE  LedgerStep /\ StillClosed
<1>1. p \in PullRequestIds /\ prs[p] # NoPR
  BY DEF Existing
<1>2. /\ prs' = [prs EXCEPT ![p] = NoPR]
      /\ statuses' = {st \in statuses : \A c \in comments : c.pr = p => st.comment # c.id}
  BY DEF Delete
<1>3. prs'[p] = NoPR /\ \A q \in PullRequestIds : q # p => prs'[q] = prs[q]
  BY <1>1, <1>2 DEF IInv, TypeOK
<1>4. LedgerPanel' = [LedgerPanel EXCEPT ![p] = {}]
  BY <1>1, <1>3 DEF LedgerPanel
<1>5. \A q \in PullRequestIds : q \in LedgerFrozen' <=> q \in LedgerFrozen /\ q # p
  BY <1>1, <1>3 DEF LedgerFrozen
<1>6. LedgerFrozen' = LedgerFrozen \ {p}
  <2>1. LedgerFrozen \subseteq PullRequestIds /\ LedgerFrozen' \subseteq PullRequestIds
    BY DEF LedgerFrozen
  <2> QED
    BY <1>5, <2>1
<1>7. \A st \in statuses : st \in statuses' <=> st.pr # p
  BY <1>2 DEF IInv, NoOrphans, VotesBacked, CommentIdsUnique
<1>8. LedgerVotes' = {v \in LedgerVotes : v.pr # p}
  <2>1. statuses' \subseteq statuses
    BY <1>2
  <2>2. \A st \in statuses : View(st).pr = st.pr
    BY DEF View
  <2>3. ASSUME NEW x \in LedgerVotes' PROVE x \in LedgerVotes /\ x.pr # p
    <3>1. PICK st \in statuses' : st.pr # OnRevision /\ x = View(st)
      BY <2>3 DEF LedgerVotes, View
    <3> QED
      BY <1>7, <2>1, <2>2, <3>1 DEF LedgerVotes
  <2>4. ASSUME NEW x \in LedgerVotes, x.pr # p PROVE x \in LedgerVotes'
    <3>1. PICK st \in statuses : st.pr # OnRevision /\ x = View(st)
      BY <2>4 DEF LedgerVotes
    <3>2. st \in statuses'
      BY <1>7, <2>2, <2>4, <3>1
    <3> QED
      BY <3>1, <3>2 DEF LedgerVotes, View
  <2> QED
    BY <2>3, <2>4
<1>9. Ledger!Next
  BY <1>1, <1>4, <1>6, <1>8, LedgerDiscards
<1>10. StillClosed
  BY <1>3 DEF StillClosed
<1> QED
  BY <1>9, <1>10 DEF LedgerStep

\* An account is deleted with its votes, all of them and no others, once it
\* reviews nothing.
LEMMA ForgetLedger ==
  ASSUME IInv, VerdictRight', NEW user \in Users,
         \A p \in Existing : user \notin prs[p].reviewers, Forget(user)
  PROVE  LedgerStep /\ StillClosed
<1>1. /\ prs' = prs
      /\ statuses' = {st \in statuses : \A c \in comments : c.author = user => st.comment # c.id}
  BY DEF Forget
<1>2. LedgerPanel' = LedgerPanel /\ LedgerFrozen' = LedgerFrozen /\ StillClosed
  BY <1>1 DEF LedgerPanel, LedgerFrozen, StillClosed
<1>3. \A p \in PullRequestIds : user \notin LedgerPanel[p]
  BY DEF LedgerPanel, Existing
<1>4. \A st \in statuses : st \in statuses' <=> st.author # user
  BY <1>1 DEF IInv, NoOrphans, VotesBacked, CommentIdsUnique
<1>5. LedgerVotes' = {v \in LedgerVotes : v.user # user}
  <2>1. statuses' \subseteq statuses
    BY <1>1
  <2>2. \A st \in statuses : View(st).user = st.author
    BY DEF View
  <2>3. ASSUME NEW x \in LedgerVotes' PROVE x \in LedgerVotes /\ x.user # user
    <3>1. PICK st \in statuses' : st.pr # OnRevision /\ x = View(st)
      BY <2>3 DEF LedgerVotes, View
    <3> QED
      BY <1>4, <2>1, <2>2, <3>1 DEF LedgerVotes
  <2>4. ASSUME NEW x \in LedgerVotes, x.user # user PROVE x \in LedgerVotes'
    <3>1. PICK st \in statuses : st.pr # OnRevision /\ x = View(st)
      BY <2>4 DEF LedgerVotes
    <3>2. st \in statuses'
      BY <1>4, <2>2, <2>4, <3>1
    <3> QED
      BY <3>1, <3>2 DEF LedgerVotes, View
  <2> QED
    BY <2>3, <2>4
<1>6. Ledger!Next
  BY <1>2, <1>3, <1>5, LedgerLeaves
<1> QED
  BY <1>2, <1>6 DEF LedgerStep

\* The rows a comment put on the changesets of a pull request are one vote: they
\* stand on each of its changesets, and versions tell different comments apart.
LEMMA OneVoteOfAComment ==
  ASSUME IInv, NEW st \in statuses, NEW other \in statuses, st.pr # OnRevision,
         st.comment = other.comment
  PROVE  View(st) = View(other)
<1>1. st.pr = other.pr /\ st.author = other.author
  BY DEF IInv, NoOrphans, VotesBacked, CommentIdsUnique
<1>2. other.revision \in prs[st.pr].revisions
  BY <1>1 DEF IInv, VotesWhole
<1>3. PICK twin \in statuses :
        /\ twin.revision = other.revision
        /\ twin.comment = st.comment /\ twin.status = st.status
  BY <1>2 DEF IInv, VotesWhole
<1>4. /\ twin.version \in Nat /\ other.version \in Nat
      /\ twin.comment \in Nat /\ other.comment \in Nat
  BY ReviewAssumption DEF IInv, TypeOK, ChangesetStatus
<1>5. ~(twin.version < other.version) /\ ~(other.version < twin.version)
  BY <1>3, <1>4 DEF IInv, NewestFirst
<1>6. twin = other
  BY <1>3, <1>4, <1>5 DEF IInv, VersionsUnique
<1> QED
  BY <1>1, <1>3, <1>6 DEF View

\* delete_comment withdraws the vote of the comment, if there is one.
LEMMA RemoveLedger ==
  ASSUME IInv, VerdictRight, VerdictRight', NEW c \in comments,
         c.pr # OnRevision => ~prs[c.pr].closed, Remove(c)
  PROVE  LedgerStep /\ StillClosed
<1>1. prs' = prs /\ statuses' = {st \in statuses : st.comment # c.id}
  BY DEF Remove
<1>2. LedgerPanel' = LedgerPanel /\ LedgerFrozen' = LedgerFrozen /\ StillClosed
  BY <1>1 DEF LedgerPanel, LedgerFrozen, StillClosed
<1>3. CASE \A st \in statuses : st.comment = c.id => st.pr = OnRevision
  <2>1. LedgerVotes' = LedgerVotes
    BY <1>1, <1>3 DEF LedgerVotes, View
  <2> QED
    BY <1>2, <2>1, LedgerStutters DEF LedgerStep
<1>4. CASE ~\A st \in statuses : st.comment = c.id => st.pr = OnRevision
  <2>1. PICK row \in statuses : row.comment = c.id /\ row.pr # OnRevision
    BY <1>4
  <2>2. c.pr = row.pr
    BY <2>1 DEF IInv, NoOrphans, VotesBacked, CommentIdsUnique
  <2>3. View(row) \in LedgerVotes /\ View(row).pr \notin LedgerFrozen
    BY <2>1, <2>2 DEF LedgerVotes, LedgerFrozen, View
  <2>4. \A st \in statuses : st \in statuses' <=> st.comment # c.id
    BY <1>1
  <2>5. \A st \in statuses : st.comment = c.id <=> View(st) = View(row)
    <3>1. \A st \in statuses : st.comment = c.id => View(st) = View(row)
      BY <2>1, OneVoteOfAComment
    <3>2. \A st \in statuses : View(st) = View(row) => st.comment = row.comment
      BY DEF View
    <3> QED
      BY <2>1, <3>1, <3>2
  <2>6. LedgerVotes' = LedgerVotes \ {View(row)}
    <3>1. ASSUME NEW x \in LedgerVotes' PROVE x \in LedgerVotes /\ x # View(row)
      <4>1. PICK st \in statuses' : st.pr # OnRevision /\ x = View(st)
        BY <3>1 DEF LedgerVotes, View
      <4> QED
        BY <1>1, <2>4, <2>5, <4>1 DEF LedgerVotes
    <3>2. ASSUME NEW x \in LedgerVotes, x # View(row) PROVE x \in LedgerVotes'
      <4>1. PICK st \in statuses : st.pr # OnRevision /\ x = View(st)
        BY <3>2 DEF LedgerVotes
      <4>2. st \in statuses'
        BY <2>4, <2>5, <3>2, <4>1
      <4> QED
        BY <4>1, <4>2 DEF LedgerVotes, View
    <3> QED
      BY <3>1, <3>2
  <2>7. Ledger!Next
    BY <1>2, <2>3, <2>6, LedgerWithdraws
  <2> QED
    BY <1>2, <2>7 DEF LedgerStep
<1> QED
  BY <1>3, <1>4

\* Every step of the requests is one of the ledger.
LEMMA NextLedger ==
  ASSUME IInv, VerdictRight, VerdictRight', [Next]_vars
  PROVE  LedgerStep /\ StillClosed
<1>1. CASE UNCHANGED vars
  <2>1. UNCHANGED <<prs, comments, statuses>>
    BY <1>1 DEF vars
  <2>2. LedgerVotes' = LedgerVotes /\ LedgerPanel' = LedgerPanel /\ LedgerFrozen' = LedgerFrozen
    BY <2>1 DEF LedgerVotes, View, LedgerPanel, LedgerFrozen
  <2> QED
    BY <2>1, <2>2, LedgerStutters DEF LedgerStep, StillClosed
<1>2. ASSUME NEW user \in Users, CreatePullRequest(user) PROVE LedgerStep /\ StillClosed
  BY <1>2, OpenLedger DEF CreatePullRequest
<1>3. ASSUME NEW user \in Users, NEW old \in PullRequestIds, CreateIteration(user, old)
      PROVE  LedgerStep /\ StillClosed
  BY <1>3, IterateLedger DEF CreateIteration
<1>4. ASSUME NEW user \in Users, NEW p \in PullRequestIds, EditPullRequest(user, p)
      PROVE  LedgerStep /\ StillClosed
  <2>1. p \in Existing /\ prs[p].owner \in Users /\ ~prs[p].closed
    BY <1>4 DEF EditPullRequest, MayEdit, Existing, IInv, TypeOK, PullRequest
  <2>2. PICK before \in Panels, wanted \in Panels, owner \in {prs[p].owner} \cup NewOwners :
          Edit(p, owner, (wanted \ before) \ prs[p].reviewers,
                         (before \ wanted) \cap prs[p].reviewers)
    BY <1>4 DEF EditPullRequest
  <2>3. owner \in Users /\ (wanted \ before) \ prs[p].reviewers \in SUBSET Users
    BY <2>1, ReviewAssumption
  <2> QED
    BY <2>1, <2>2, <2>3, EditLedger
<1>5. ASSUME NEW user \in Users, NEW p \in PullRequestIds,
             PostComment(user, p) \/ PostCommentViaApi(user, p)
      PROVE  LedgerStep /\ StillClosed
  <2>1. PICK id \in FreshComment, status \in Choices \cup {NoStatus}, text \in Texts,
             close \in BOOLEAN :
          /\ status # NoStatus => ~prs[p].closed
          /\ Post(user, p, id, status, text, close)
    BY <1>5 DEF PostComment, PostCommentViaApi, MayPostViaApi, AllowedToChangeStatus
  <2>2. p \in Existing /\ text \in BOOLEAN
    BY <1>5, ReviewAssumption DEF PostComment, PostCommentViaApi
  <2> QED
    BY <2>1, <2>2, PostLedger
<1>6. ASSUME NEW user \in Users, NEW p \in PullRequestIds,
             SaveDeletePullRequest(user, p) \/ DeletePullRequest(user, p)
      PROVE  LedgerStep /\ StillClosed
  BY <1>6, DeleteLedger DEF SaveDeletePullRequest, DeletePullRequest
<1>7. ASSUME NEW user \in Users, NEW rev \in Revisions, CommentOnRevision(user, rev)
      PROVE  LedgerStep /\ StillClosed
  BY <1>7, PostOnRevisionLedger DEF CommentOnRevision
<1>8. ASSUME NEW user \in Users, NEW c \in comments, DeleteComment(user, c)
      PROVE  LedgerStep /\ StillClosed
  BY <1>8, RemoveLedger DEF DeleteComment, MayDeleteComment
<1>9. ASSUME NEW user \in Users, DeleteUser(user)
      PROVE  LedgerStep /\ StillClosed
  BY <1>9, ForgetLedger DEF DeleteUser
<1> QED
  BY <1>1, <1>2, <1>3, <1>4, <1>5, <1>6, <1>7, <1>8, <1>9 DEF Next

\* The versioned tables implement the ledger of votes, which has no versions:
\* the verdict follows from the surviving votes, and changes only by casting,
\* withdrawing, empanelling and what deletes.
THEOREM ReviewImplementsLedger == Spec => ImplementsLedger
<1>1. Init => Ledger!Init
  <2> SUFFICES ASSUME Init PROVE Ledger!Init
    OBVIOUS
  <2>1. VerdictRight
    BY InitEstablishes, ResultIsDecision
  <2>2. LedgerVotes = {} /\ LedgerPanel = [p \in PullRequestIds |-> {}] /\ LedgerFrozen = {}
    BY DEF Init, LedgerVotes, LedgerPanel, LedgerFrozen
  <2> QED
    BY <2>1, <2>2 DEF Ledger!Init, VerdictRight, LedgerVotes, LedgerPanel, LedgerFrozen,
                      LedgerVerdict, View
<1>2. IInv /\ VerdictRight /\ VerdictRight' /\ [Next]_vars => [Ledger!Next]_(Ledger!vars)
  <2>1. ledgerVars = Ledger!vars
    BY DEF ledgerVars, Ledger!vars, LedgerVotes, LedgerPanel, LedgerFrozen, LedgerVerdict, View
  <2>2. ledgerVars' = Ledger!vars'
    BY DEF ledgerVars, Ledger!vars, LedgerVotes, LedgerPanel, LedgerFrozen, LedgerVerdict, View
  <2> QED
    BY <2>1, <2>2, NextLedger DEF LedgerStep
<1> QED
  BY <1>1, <1>2, ReviewInvariant, ResultIsDecision, PTL DEF Spec, ImplementsLedger, Ledger!Spec

\* What a voter says depends on the votes of that voter on that pull request.
LEMMA SaysDepends ==
  ASSUME NEW vs, NEW ws, NEW p, NEW u, NEW s,
         Ledger!VotesOf(vs, p, u) = Ledger!VotesOf(ws, p, u)
  PROVE  Ledger!Says(vs, p, u, s) <=> Ledger!Says(ws, p, u, s)
BY Zenon DEF Ledger!Says, Ledger!Latest

\* What the panel of a pull request and the votes of its panel decide stands as
\* long as both do.
Undisturbed(p) ==
  /\ LedgerPanel'[p] = LedgerPanel[p]
  /\ \A u \in LedgerPanel[p] :
       Ledger!VotesOf(LedgerVotes', p, u) = Ledger!VotesOf(LedgerVotes, p, u)

\* No step of the ledger disturbs a pull request that is closed and stays so.
LEMMA LedgerLeavesClosed ==
  ASSUME LedgerStep, NEW p \in LedgerFrozen, p \in LedgerFrozen'
  PROVE  LedgerVerdict' = LedgerVerdict \/ Undisturbed(p)
<1>1. p \in PullRequestIds
  BY DEF LedgerFrozen
<1>2. CASE UNCHANGED ledgerVars
  BY <1>2 DEF ledgerVars
<1>3. ASSUME NEW q, Ledger!Close(q) PROVE LedgerVerdict' = LedgerVerdict
  BY <1>3 DEF Ledger!Close, LedgerVerdict
<1>4. ASSUME NEW q, Ledger!Discard(q) PROVE Undisturbed(p)
  <2>1. /\ LedgerVotes' = {v \in LedgerVotes : v.pr # q}
        /\ LedgerPanel' = [LedgerPanel EXCEPT ![q] = {}]
        /\ LedgerFrozen' = LedgerFrozen \ {q}
    BY <1>4 DEF Ledger!Discard, LedgerVotes, LedgerPanel, LedgerFrozen, View
  <2>2. p # q
    BY <2>1
  <2>3. LedgerPanel'[p] = LedgerPanel[p]
    BY <1>1, <2>1, <2>2 DEF LedgerPanel
  <2> QED
    BY <2>1, <2>2, <2>3 DEF Undisturbed, Ledger!VotesOf
<1>5. ASSUME NEW v, Ledger!Withdraw(v) PROVE Undisturbed(p)
  <2>1. /\ LedgerVotes' = LedgerVotes \ {v} /\ LedgerPanel' = LedgerPanel
        /\ v.pr \notin LedgerFrozen
    BY <1>5 DEF Ledger!Withdraw, LedgerVotes, LedgerPanel, LedgerFrozen, View
  <2> QED
    BY <2>1 DEF Undisturbed, Ledger!VotesOf
<1>6. ASSUME NEW u, Ledger!Leave(u) PROVE Undisturbed(p)
  <2>1. /\ LedgerVotes' = {v \in LedgerVotes : v.user # u} /\ LedgerPanel' = LedgerPanel
        /\ u \notin LedgerPanel[p]
    BY <1>1, <1>6 DEF Ledger!Leave, LedgerVotes, LedgerPanel, View
  <2> QED
    BY <2>1 DEF Undisturbed, Ledger!VotesOf
<1>7. ASSUME NEW v, Ledger!Cast(v) PROVE Undisturbed(p)
  <2>1. /\ LedgerVotes' = LedgerVotes \cup {v} /\ LedgerPanel' = LedgerPanel
        /\ v.pr \notin LedgerFrozen
    BY <1>7 DEF Ledger!Cast, LedgerVotes, LedgerPanel, LedgerFrozen, View
  <2> QED
    BY <2>1 DEF Undisturbed, Ledger!VotesOf
<1>8. ASSUME NEW v, Ledger!Open(v) PROVE Undisturbed(p)
  <2>1. PICK reviewers \in SUBSET Users :
          LedgerPanel' = [LedgerPanel EXCEPT ![v.pr] = reviewers]
    BY <1>8 DEF Ledger!Open, LedgerPanel
  <2>2. LedgerVotes' = LedgerVotes \cup {v} /\ v.pr \notin LedgerFrozen
    BY <1>8 DEF Ledger!Open, LedgerVotes, LedgerFrozen, View
  <2>3. LedgerPanel'[p] = LedgerPanel[p]
    BY <1>1, <2>1, <2>2 DEF LedgerPanel
  <2> QED
    BY <2>2, <2>3 DEF Undisturbed, Ledger!VotesOf
<1>9. ASSUME NEW q, NEW reviewers, Ledger!Empanel(q, reviewers) PROVE Undisturbed(p)
  <2>1. /\ LedgerVotes' = LedgerVotes /\ q \notin LedgerFrozen
        /\ LedgerPanel' = [LedgerPanel EXCEPT ![q] = reviewers]
    BY <1>9 DEF Ledger!Empanel, LedgerVotes, LedgerPanel, LedgerFrozen, View
  <2>2. LedgerPanel'[p] = LedgerPanel[p]
    BY <1>1, <2>1 DEF LedgerPanel
  <2> QED
    BY <2>1, <2>2 DEF Undisturbed
<1>10. CASE Ledger!Next
  BY <1>3, <1>4, <1>5, <1>6, <1>7, <1>8, <1>9, <1>10, Zenon DEF Ledger!Next
<1> QED
  BY <1>2, <1>10 DEF LedgerStep

\* So the verdict on it stands.
LEMMA ClosedVerdictStands ==
  ASSUME LedgerStep, VerdictRight, VerdictRight',
         NEW p \in LedgerFrozen, p \in LedgerFrozen'
  PROVE  Result(p)' = Result(p)
<1>1. p \in PullRequestIds
  BY DEF LedgerFrozen
<1>2. /\ Result(p) = Ledger!Decide(LedgerVotes, LedgerPanel[p], p)
      /\ Result(p)' = Ledger!Decide(LedgerVotes', LedgerPanel'[p], p)
  BY <1>1 DEF VerdictRight, LedgerVerdict, Ledger!Verdicts
<1>3. CASE LedgerVerdict' = LedgerVerdict
  BY <1>1, <1>3 DEF LedgerVerdict
<1>4. CASE Undisturbed(p)
  <2>1. \A u \in LedgerPanel[p], s \in {"approved", "rejected"} :
          Ledger!Says(LedgerVotes', p, u, s) <=> Ledger!Says(LedgerVotes, p, u, s)
    BY <1>4, SaysDepends DEF Undisturbed
  <2>2. LedgerPanel'[p] = LedgerPanel[p]
    BY <1>4 DEF Undisturbed
  <2> QED
    BY <1>2, <2>1, <2>2 DEF Ledger!Decide
<1> QED
  BY <1>3, <1>4, LedgerLeavesClosed

\* No request changes the verdict on a closed pull request but the one that
\* deletes it.
THEOREM ClosedVerdictTheorem == Spec => ClosedVerdictFinal
<1> DEFINE Final ==
      \A p \in PullRequestIds :
        prs[p] # NoPR /\ prs[p].closed =>
          \/ prs'[p] = NoPR
          \/ Result(p)' = Result(p)
<1>1. IInv /\ VerdictRight /\ VerdictRight' /\ [Next]_vars => [Final]_vars
  <2>1. SUFFICES ASSUME IInv, VerdictRight, VerdictRight', [Next]_vars,
                        NEW p \in PullRequestIds, prs[p] # NoPR, prs[p].closed, prs'[p] # NoPR
                 PROVE  Result(p)' = Result(p)
    OBVIOUS
  <2>2. LedgerStep /\ StillClosed
    BY <2>1, NextLedger
  <2>3. p \in LedgerFrozen /\ p \in LedgerFrozen'
    BY <2>1, <2>2 DEF LedgerFrozen, StillClosed
  <2> QED
    BY <2>1, <2>2, <2>3, ClosedVerdictStands
<1> HIDE DEF Final
<1>2. Spec => [][Final]_vars
  BY <1>1, ReviewInvariant, ResultIsDecision, PTL DEF Spec
<1> QED
  BY <1>2 DEF ClosedVerdictFinal, Final

-----------------------------------------------------------------------------
(* Concurrent requests.  What a worker wrote after its checks went stale     *)
(* still leaves the tables consistent, and no closed pull request is opened  *)
(* again.  What is added to the invariant of one request at a time is the    *)
(* form of the pending requests (PendingOK) and that no row has an id above  *)
(* the last one given (IdsGiven).                                            *)

\* What a worker can hold between its checks and its transaction.  Nothing is
\* said of whether the rows it names are still there.
PostRequest ==
  [op : {"post"}, user : Users, pr : PullRequestIds, status : Choices \cup {NoStatus},
   text : BOOLEAN, close : BOOLEAN]
EditRequest ==
  [op : {"edit"}, pr : PullRequestIds, owner : Users, added : SUBSET Users,
   removed : SUBSET Users]
IterateRequest ==
  [op : {"iterate"}, user : Users, pr : PullRequestIds, revisions : Series,
   reviewers : Panels]
DeleteRequest == [op : {"delete"}, pr : PullRequestIds]
UncommentRequest == [op : {"uncomment"}, comment : Comment]

Request ==
  PostRequest \cup EditRequest \cup IterateRequest \cup DeleteRequest \cup UncommentRequest

PendingOK == request \in [Workers -> Request \cup {Idle}]

\* The counters of the database are ahead of every id in use.
IdsGiven ==
  /\ lastPR \in Nat /\ lastComment \in Nat
  /\ \A p \in Existing : p <= lastPR
  /\ \A c \in comments : c.id <= lastComment

RInv == IInv /\ PendingOK /\ IdsGiven

-----------------------------------------------------------------------------
(* Ids                                                                     *)

\* The next pull request id is above all those in use and above the last.
LEMMA NewPRIsFresh ==
  ASSUME RInv, NEW p \in NewPRId
  PROVE  p \in FreshPR /\ p \in Nat /\ lastPR < p
<1>1. p \in PullRequestIds /\ lastPR < p
  BY DEF NewPRId, After, NextId
<1>2. PullRequestIds \subseteq Nat /\ lastPR \in Nat
  BY ReviewAssumption DEF RInv, IdsGiven
<1>3. \A q \in Existing : q \in Nat /\ q <= lastPR
  BY <1>2 DEF RInv, IdsGiven, Existing
<1>4. \A q \in Existing : q < p
  BY <1>1, <1>2, <1>3
<1> QED
  BY <1>1, <1>2, <1>4 DEF FreshPR, NextId

\* The next comment id, and one after those of the same request, are above all
\* those in use.
LEMMA NewCommentIsFresh ==
  ASSUME RInv, NEW used, NEW id \in NewCommentIds(used)
  PROVE  /\ id \in NextId(CommentIds, UsedComments \cup used)
         /\ id \in FreshComment
         /\ id \in Nat /\ lastComment < id
<1>1. id \in CommentIds /\ lastComment < id /\ \A i \in used : i < id
  BY DEF NewCommentIds, After, NextId
<1>2. CommentIds \subseteq Nat /\ lastComment \in Nat
  BY ReviewAssumption DEF RInv, IdsGiven
<1>3. \A c \in comments : c.id \in Nat /\ c.id <= lastComment
  BY <1>2 DEF RInv, IdsGiven, IInv, TypeOK, Comment
<1>4. \A c \in comments : c.id < id
  BY <1>1, <1>2, <1>3
<1>5. \A i \in UsedComments : i < id
  BY <1>4 DEF UsedComments
<1> QED
  BY <1>1, <1>2, <1>5 DEF FreshComment, NextId

-----------------------------------------------------------------------------
(* The checks and the end of a request                                     *)

\* A check leaves the tables alone and a request of its form behind.
LEMMA StartKeeps ==
  ASSUME RInv, NEW w \in Workers, NEW r \in Request, Start(w, r)
  PROVE  RInv' /\ prs' = prs
<1>1. PendingOK'
  BY DEF Start, RInv, PendingOK
<1>2. UNCHANGED <<prs, comments, statuses, lastPR, lastComment>>
  BY DEF Start, vars
<1>3. IInv' /\ IdsGiven'
  BY <1>2 DEF RInv, IInv, TypeOK, NewestFirst, VersionsUnique, VotesWhole, NoOrphans,
              VotesBacked, CommentsBacked, CommentIdsUnique, IdsGiven, Existing
<1> QED
  BY <1>1, <1>2, <1>3 DEF RInv

\* An error page leaves the tables alone.
LEMMA GiveUpKeeps ==
  ASSUME RInv, NEW w \in Workers, GiveUp(w)
  PROVE  RInv' /\ prs' = prs
<1>1. PendingOK'
  BY DEF GiveUp, Done, RInv, PendingOK
<1>2. UNCHANGED <<prs, comments, statuses, lastPR, lastComment>>
  BY DEF GiveUp, vars
<1>3. IInv' /\ IdsGiven'
  BY <1>2 DEF RInv, IInv, TypeOK, NewestFirst, VersionsUnique, VotesWhole, NoOrphans,
              VotesBacked, CommentsBacked, CommentIdsUnique, IdsGiven, Existing
<1> QED
  BY <1>1, <1>2, <1>3 DEF RInv

\* A request that is done is no longer pending.
LEMMA DoneKeeps ==
  ASSUME RInv, NEW w \in Workers, Done(w)
  PROVE  PendingOK'
BY DEF Done, RInv, PendingOK

\* Every check leaves a request of its form and the tables alone.
LEMMA CheckKeeps ==
  ASSUME RInv, NEW w \in Workers,
         \/ CheckPost(w) \/ CheckPostViaApi(w) \/ CheckEdit(w) \/ CheckIterate(w)
         \/ CheckDelete(w) \/ CheckDeleteComment(w)
  PROVE  RInv' /\ prs' = prs
<1>1. CASE CheckPost(w) \/ CheckPostViaApi(w)
  <2>1. PICK user \in Users, p \in Existing, status \in Choices \cup {NoStatus},
             text \in Texts, close \in BOOLEAN :
          Start(w, [op |-> "post", user |-> user, pr |-> p, status |-> status,
                    text |-> text, close |-> close])
    BY <1>1 DEF CheckPost, CheckPostViaApi
  <2>2. p \in PullRequestIds /\ text \in BOOLEAN
    BY ReviewAssumption DEF Existing
  <2>3. [op |-> "post", user |-> user, pr |-> p, status |-> status,
         text |-> text, close |-> close] \in PostRequest
    BY <2>2 DEF PostRequest
  <2> QED
    BY <2>1, <2>3, StartKeeps DEF Request
<1>2. CASE CheckEdit(w)
  <2>1. PICK p \in Existing, before \in Panels, wanted \in Panels :
          \E owner \in {prs[p].owner} \cup NewOwners :
            Start(w, [op |-> "edit", pr |-> p, owner |-> owner,
                      added |-> (wanted \ before) \ prs[p].reviewers,
                      removed |-> (before \ wanted) \cap prs[p].reviewers])
    BY <1>2 DEF CheckEdit
  <2>2. p \in PullRequestIds /\ prs[p].owner \in Users
    BY DEF Existing, RInv, IInv, TypeOK, PullRequest
  <2>5. PICK owner \in {prs[p].owner} \cup NewOwners :
          Start(w, [op |-> "edit", pr |-> p, owner |-> owner,
                    added |-> (wanted \ before) \ prs[p].reviewers,
                    removed |-> (before \ wanted) \cap prs[p].reviewers])
    BY <2>1
  <2>3. /\ owner \in Users
        /\ (wanted \ before) \ prs[p].reviewers \in SUBSET Users
        /\ (before \ wanted) \cap prs[p].reviewers \in SUBSET Users
    BY <2>2, ReviewAssumption
  <2>4. [op |-> "edit", pr |-> p, owner |-> owner,
         added |-> (wanted \ before) \ prs[p].reviewers,
         removed |-> (before \ wanted) \cap prs[p].reviewers] \in EditRequest
    BY <2>2, <2>3 DEF EditRequest
  <2> QED
    BY <2>4, <2>5, StartKeeps DEF Request
<1>3. CASE CheckIterate(w)
  <2>1. PICK user \in Users, p \in Existing, revs \in Series, reviewers \in Panels :
          Start(w, [op |-> "iterate", user |-> user, pr |-> p, revisions |-> revs,
                    reviewers |-> reviewers])
    BY <1>3 DEF CheckIterate
  <2>2. [op |-> "iterate", user |-> user, pr |-> p, revisions |-> revs,
         reviewers |-> reviewers] \in IterateRequest
    BY DEF IterateRequest, Existing
  <2> QED
    BY <2>1, <2>2, StartKeeps DEF Request
<1>4. CASE CheckDelete(w)
  <2>1. PICK p \in Existing : Start(w, [op |-> "delete", pr |-> p])
    BY <1>4 DEF CheckDelete
  <2>2. [op |-> "delete", pr |-> p] \in DeleteRequest
    BY DEF DeleteRequest, Existing
  <2> QED
    BY <2>1, <2>2, StartKeeps DEF Request
<1>5. CASE CheckDeleteComment(w)
  <2>1. PICK c \in comments : Start(w, [op |-> "uncomment", comment |-> c])
    BY <1>5 DEF CheckDeleteComment
  <2>2. [op |-> "uncomment", comment |-> c] \in UncommentRequest
    BY DEF UncommentRequest, RInv, IInv, TypeOK
  <2> QED
    BY <2>1, <2>2, StartKeeps DEF Request
<1> QED
  BY <1>1, <1>2, <1>3, <1>4, <1>5

-----------------------------------------------------------------------------
(* The transactions                                                        *)

\* A post checked before the pull request was closed still closes at most.
LEMMA CommitPostKeeps ==
  ASSUME RInv, NEW w \in Workers, CommitPost(w)
  PROVE  RInv' /\ StillClosed
<1> DEFINE r == request[w]
<1>1. r \in PostRequest
  BY DEF CommitPost, RInv, PendingOK, Request, EditRequest, IterateRequest,
         DeleteRequest, UncommentRequest
<1>2. /\ r.user \in Users /\ r.pr \in PullRequestIds /\ r.status \in Choices \cup {NoStatus}
      /\ r.text \in BOOLEAN /\ r.close \in BOOLEAN
  BY <1>1 DEF PostRequest
<1>3. CASE prs[r.pr] = NoPR
  BY <1>3, GiveUpKeeps DEF CommitPost, StillClosed
<1>4. CASE prs[r.pr] # NoPR
  <2>1. PICK id \in NewCommentIds({}) :
          /\ Post(r.user, r.pr, id, r.status, r.text, r.close)
          /\ lastComment' = IF r.text \/ r.status # NoStatus THEN id ELSE lastComment
          /\ UNCHANGED lastPR
          /\ Done(w)
    BY <1>4 DEF CommitPost
  <2> HIDE DEF r
  <2>2. r.pr \in Existing
    BY <1>2, <1>4 DEF Existing
  <2>3. id \in FreshComment /\ id \in Nat /\ lastComment < id
    BY NewCommentIsFresh
  <2>4. IInv
    BY DEF RInv
  <2>5. IInv'
    BY <1>2, <2>1, <2>2, <2>3, <2>4, PostKeeps
  <2>6. PendingOK'
    BY <2>1, DoneKeeps
  <2>7. prs' = [prs EXCEPT ![r.pr].closed = @ \/ r.close]
    BY <2>1 DEF Post
  <2>8. prs \in [PullRequestIds -> PullRequest \cup {NoPR}] /\ prs[r.pr] \in PullRequest
    BY <1>2, <1>4, <2>4 DEF IInv, TypeOK
  <2>9. \A q \in PullRequestIds : q # r.pr => prs'[q] = prs[q]
    BY <2>7, <2>8
  <2>10. prs'[r.pr].closed = (prs[r.pr].closed \/ r.close)
    BY <1>2, <2>7, <2>8 DEF PullRequest
  <2>11. StillClosed
    BY <2>9, <2>10 DEF StillClosed
  <2>12. lastPR' \in Nat /\ \A q \in Existing' : q <= lastPR'
    BY <1>4, <2>1, <2>9 DEF RInv, IdsGiven, Existing
  <2>13. \A c \in comments : c.id \in Nat /\ c.id <= lastComment
    BY ReviewAssumption DEF RInv, IdsGiven, IInv, TypeOK, Comment
  <2>14. lastComment \in Nat
    BY DEF RInv, IdsGiven
  <2>15. lastComment' \in Nat /\ \A c \in comments' : c.id <= lastComment'
    <3>1. CASE r.text \/ r.status # NoStatus
      <4>1. comments' = comments \cup {[id |-> id, pr |-> r.pr, author |-> r.user]}
        BY <2>1, <3>1 DEF Post, CreateComment
      <4>2. lastComment' = id
        BY <2>1, <3>1
      <4> QED
        BY <2>3, <2>13, <2>14, <4>1, <4>2
    <3>2. CASE ~(r.text \/ r.status # NoStatus)
      <4>1. comments' = comments /\ lastComment' = lastComment
        BY <2>1, <3>2 DEF Post
      <4> QED
        BY <2>13, <2>14, <4>1
    <3> QED
      BY <3>1, <3>2
  <2> QED
    BY <2>5, <2>6, <2>11, <2>12, <2>15 DEF RInv, IdsGiven
<1> QED
  BY <1>3, <1>4

\* An edit checked before the closing writes the owner and the reviewers only.
LEMMA CommitEditKeeps ==
  ASSUME RInv, NEW w \in Workers, CommitEdit(w)
  PROVE  RInv' /\ StillClosed
<1> DEFINE r == request[w]
<1>1. r \in EditRequest
  BY DEF CommitEdit, RInv, PendingOK, Request, PostRequest, IterateRequest,
         DeleteRequest, UncommentRequest
<1>2. r.pr \in PullRequestIds /\ r.owner \in Users /\ r.added \in SUBSET Users
  BY <1>1 DEF EditRequest
<1>3. CASE prs[r.pr] = NoPR
  BY <1>3, GiveUpKeeps DEF CommitEdit, StillClosed
<1>4. CASE prs[r.pr] # NoPR
  <2>1. /\ Edit(r.pr, r.owner, r.added, r.removed)
        /\ UNCHANGED <<lastPR, lastComment>>
        /\ Done(w)
    BY <1>4 DEF CommitEdit
  <2> HIDE DEF r
  <2>2. r.pr \in Existing
    BY <1>2, <1>4 DEF Existing
  <2>3. IInv'
    BY <1>2, <2>1, <2>2, EditKeeps DEF RInv
  <2>4. PendingOK'
    BY <2>1, DoneKeeps
  <2> DEFINE row == [prs[r.pr] EXCEPT !.owner = r.owner,
                                      !.reviewers = (@ \cup r.added) \ r.removed]
  <2>5. prs \in [PullRequestIds -> PullRequest \cup {NoPR}] /\ prs[r.pr] \in PullRequest
    BY <1>2, <1>4 DEF RInv, IInv, TypeOK
  <2>6. prs' = [prs EXCEPT ![r.pr] = row]
    BY <1>2, <2>1, <2>5 DEF Edit
  <2>7. row.closed = prs[r.pr].closed
    BY <2>5 DEF PullRequest
  <2> HIDE DEF row
  <2>8. \A q \in PullRequestIds : q # r.pr => prs'[q] = prs[q]
    BY <2>5, <2>6
  <2>9. prs'[r.pr].closed = prs[r.pr].closed
    BY <1>2, <2>5, <2>6, <2>7
  <2>10. StillClosed
    BY <2>8, <2>9 DEF StillClosed
  <2>11. UNCHANGED <<comments, lastPR, lastComment>>
    BY <2>1 DEF Edit
  <2>12. IdsGiven'
    BY <1>4, <2>8, <2>11 DEF RInv, IdsGiven, Existing
  <2> QED
    BY <2>3, <2>4, <2>10, <2>12 DEF RInv
<1> QED
  BY <1>3, <1>4

\* An iteration leaves the old pull request closed and its successor is none
\* that was there.
LEMMA CommitIterateKeeps ==
  ASSUME RInv, NEW w \in Workers, CommitIterate(w)
  PROVE  RInv' /\ StillClosed
<1> DEFINE r == request[w]
<1>1. r \in IterateRequest
  BY DEF CommitIterate, RInv, PendingOK, Request, PostRequest, EditRequest,
         DeleteRequest, UncommentRequest
<1>2. /\ r.user \in Users /\ r.pr \in PullRequestIds
      /\ r.revisions \in Series /\ r.reviewers \in Panels
  BY <1>1 DEF IterateRequest
<1>3. CASE prs[r.pr] = NoPR
  BY <1>3, GiveUpKeeps DEF CommitIterate, StillClosed
<1>4. CASE prs[r.pr] # NoPR
  <2>1. PICK p \in NewPRId, id \in NewCommentIds({}) :
          \E closing \in NewCommentIds({id}) :
            /\ Iterate(r.user, r.pr, p, id, closing, r.revisions, r.reviewers)
            /\ lastPR' = p
            /\ lastComment' = closing
            /\ Done(w)
    BY <1>4 DEF CommitIterate
  <2>2. PICK closing \in NewCommentIds({id}) :
          /\ Iterate(r.user, r.pr, p, id, closing, r.revisions, r.reviewers)
          /\ lastPR' = p
          /\ lastComment' = closing
          /\ Done(w)
    BY <2>1
  <2> HIDE DEF r
  <2>3. r.pr \in Existing
    BY <1>2, <1>4 DEF Existing
  <2>4. p \in FreshPR /\ p \in Nat /\ lastPR < p
    BY NewPRIsFresh
  <2>5. id \in FreshComment /\ id \in Nat /\ lastComment < id
    BY NewCommentIsFresh
  <2>6. closing \in NextId(CommentIds, UsedComments \cup {id}) /\ closing \in Nat
    BY NewCommentIsFresh
  <2>7. id < closing
    BY <2>6 DEF NextId
  <2>8. IInv
    BY DEF RInv
  <2>9. IInv'
    BY <1>2, <2>2, <2>3, <2>4, <2>5, <2>6, <2>8, IterateKeeps
  <2>10. PendingOK'
    BY <2>2, DoneKeeps
  <2>11. prs' = [prs EXCEPT ![p] = NewPR(r.user, r.revisions, r.reviewers),
                            ![r.pr].closed = TRUE]
    BY <2>2 DEF Iterate
  <2>12. /\ prs \in [PullRequestIds -> PullRequest \cup {NoPR}]
         /\ prs[r.pr] \in PullRequest
    BY <1>2, <1>4, <2>8 DEF IInv, TypeOK
  <2>13. p \in PullRequestIds /\ prs[p] = NoPR /\ p # r.pr
    <3>1. p \in PullRequestIds /\ \A q \in Existing : q < p
      BY <2>4 DEF FreshPR, NextId
    <3>2. ~(p < p)
      BY <2>4
    <3> QED
      BY <1>4, <3>1, <3>2 DEF Existing
  <2>14. \A q \in PullRequestIds : q # p /\ q # r.pr => prs'[q] = prs[q]
    BY <2>11, <2>12
  <2>15. prs'[r.pr].closed
    <3> DEFINE row == [prs[r.pr] EXCEPT !.closed = TRUE]
    <3>1. row.closed
      BY <2>12 DEF PullRequest
    <3>2. prs'[r.pr] = row
      BY <1>2, <2>11, <2>12, <2>13
    <3> QED
      BY <3>1, <3>2
  <2>16. StillClosed
    BY <2>13, <2>14, <2>15 DEF StillClosed
  <2>17. \A q \in PullRequestIds : prs'[q] # NoPR => q = p \/ q \in Existing
    BY <1>2, <1>4, <2>14 DEF Existing
  <2>18. \A q \in Existing' : q <= p
    <3>1. \A q \in PullRequestIds : q \in Nat
      BY ReviewAssumption
    <3>2. lastPR \in Nat /\ \A q \in Existing : q <= lastPR
      BY DEF RInv, IdsGiven
    <3>3. \A q \in Existing' : q \in PullRequestIds /\ (q = p \/ q \in Existing)
      BY <2>17 DEF Existing
    <3> QED
      BY <2>4, <3>1, <3>2, <3>3
  <2>19. \A c \in comments' : c.id <= closing
    <3>1. \A c \in comments : c.id \in Nat /\ c.id <= lastComment
      BY ReviewAssumption DEF RInv, IdsGiven, IInv, TypeOK, Comment
    <3>2. lastComment \in Nat
      BY DEF RInv, IdsGiven
    <3>3. comments' = comments \cup {[id |-> id, pr |-> p, author |-> r.user],
                                     [id |-> closing, pr |-> r.pr, author |-> r.user]}
      BY <2>2 DEF Iterate
    <3> QED
      BY <2>5, <2>6, <2>7, <3>1, <3>2, <3>3
  <2>20. IdsGiven'
    BY <2>2, <2>4, <2>6, <2>18, <2>19 DEF IdsGiven
  <2> QED
    BY <2>9, <2>10, <2>16, <2>20 DEF RInv
<1> QED
  BY <1>3, <1>4

\* A deletion takes the rows that refer to the pull request as they are when it
\* commits, those added since the check included.
LEMMA CommitDeleteKeeps ==
  ASSUME RInv, NEW w \in Workers, CommitDelete(w)
  PROVE  RInv' /\ StillClosed
<1> DEFINE p == request[w].pr
<1>1. request[w] \in DeleteRequest
  BY DEF CommitDelete, RInv, PendingOK, Request, PostRequest, EditRequest,
         IterateRequest, UncommentRequest
<1>2. p \in PullRequestIds
  BY <1>1 DEF DeleteRequest
<1>3. CASE prs[p] = NoPR
  BY <1>3, GiveUpKeeps DEF CommitDelete, StillClosed
<1>4. CASE prs[p] # NoPR
  <2>1. Delete(p) /\ UNCHANGED <<lastPR, lastComment>> /\ Done(w)
    BY <1>4 DEF CommitDelete
  <2> HIDE DEF p
  <2>2. p \in Existing
    BY <1>2, <1>4 DEF Existing
  <2>3. IInv'
    BY <2>1, <2>2, DeleteKeeps DEF RInv
  <2>4. PendingOK'
    BY <2>1, DoneKeeps
  <2>5. prs' = [prs EXCEPT ![p] = NoPR] /\ comments' \subseteq comments
    BY <2>1 DEF Delete
  <2>6. \A q \in PullRequestIds : prs'[q] = prs[q] \/ prs'[q] = NoPR
    BY <2>5 DEF RInv, IInv, TypeOK
  <2>7. StillClosed
    BY <2>6 DEF StillClosed
  <2>8. Existing' \subseteq Existing
    BY <2>6 DEF Existing
  <2>9. IdsGiven'
    BY <2>1, <2>5, <2>8 DEF RInv, IdsGiven
  <2> QED
    BY <2>3, <2>4, <2>7, <2>9 DEF RInv
<1> QED
  BY <1>3, <1>4

\* A comment is removed only when it is still there.
LEMMA CommitDeleteCommentKeeps ==
  ASSUME RInv, NEW w \in Workers, CommitDeleteComment(w)
  PROVE  RInv' /\ StillClosed
<1> DEFINE c == request[w].comment
<1>1. CASE c \notin comments
  BY <1>1, GiveUpKeeps DEF CommitDeleteComment, StillClosed
<1>2. CASE c \in comments
  <2>1. Remove(c) /\ UNCHANGED <<lastPR, lastComment>> /\ Done(w)
    BY <1>2 DEF CommitDeleteComment
  <2> HIDE DEF c
  <2>2. IInv'
    BY <1>2, <2>1, RemoveKeeps DEF RInv
  <2>3. PendingOK'
    BY <2>1, DoneKeeps
  <2>4. prs' = prs /\ comments' \subseteq comments
    BY <2>1 DEF Remove
  <2>5. IdsGiven'
    BY <2>1, <2>4 DEF RInv, IdsGiven, Existing
  <2> QED
    BY <2>2, <2>3, <2>4, <2>5 DEF RInv, StillClosed
<1> QED
  BY <1>1, <1>2

\* A new pull request takes the place of none.
LEMMA CommitCreateKeeps ==
  ASSUME RInv, NEW w \in Workers, CommitCreate(w)
  PROVE  RInv' /\ StillClosed
<1>1. PICK user \in Users, p \in NewPRId, id \in NewCommentIds({}), revs \in Series :
        Open(user, p, id, revs) /\ lastPR' = p /\ lastComment' = id
  BY DEF CommitCreate
<1>2. p \in FreshPR /\ p \in Nat /\ lastPR < p
  BY NewPRIsFresh
<1>3. id \in FreshComment /\ id \in Nat /\ lastComment < id
  BY NewCommentIsFresh
<1>4. IInv'
  BY <1>1, <1>2, <1>3, OpenKeeps DEF RInv
<1>5. PendingOK'
  BY DEF CommitCreate, RInv, PendingOK
<1>6. p \in PullRequestIds /\ prs[p] = NoPR
  <2>1. p \in PullRequestIds /\ \A q \in Existing : q < p
    BY <1>2 DEF FreshPR, NextId
  <2>2. ~(p < p)
    BY <1>2
  <2> QED
    BY <2>1, <2>2 DEF Existing
<1>7. \A q \in PullRequestIds : q # p => prs'[q] = prs[q]
  BY <1>1 DEF Open, RInv, IInv, TypeOK
<1>8. StillClosed
  BY <1>6, <1>7 DEF StillClosed
<1>9. \A q \in Existing' : q <= p
  <2>1. \A q \in PullRequestIds : q \in Nat
    BY ReviewAssumption
  <2>2. lastPR \in Nat /\ \A q \in Existing : q <= lastPR
    BY DEF RInv, IdsGiven
  <2>3. \A q \in Existing' : q \in PullRequestIds /\ (q = p \/ q \in Existing)
    BY <1>7 DEF Existing
  <2> QED
    BY <1>2, <2>1, <2>2, <2>3
<1>10. \A c \in comments' : c.id <= id
  <2>1. \A c \in comments : c.id \in Nat /\ c.id <= lastComment
    BY ReviewAssumption DEF RInv, IdsGiven, IInv, TypeOK, Comment
  <2>2. lastComment \in Nat
    BY DEF RInv, IdsGiven
  <2>3. comments' = comments \cup {[id |-> id, pr |-> p, author |-> user]}
    BY <1>1 DEF Open, CreateComment
  <2> QED
    BY <1>3, <2>1, <2>2, <2>3
<1>11. IdsGiven'
  BY <1>1, <1>2, <1>3, <1>9, <1>10 DEF IdsGiven
<1> QED
  BY <1>4, <1>5, <1>8, <1>11 DEF RInv

\* A comment on a changeset page leaves the pull requests alone.
LEMMA CommitOnRevisionKeeps ==
  ASSUME RInv, NEW w \in Workers, CommitOnRevision(w)
  PROVE  RInv' /\ StillClosed
<1>1. PICK user \in Users, rev \in Revisions, id \in NewCommentIds({}),
           status \in Choices \cup {NoStatus} :
        PostOnRevision(user, rev, id, status) /\ lastComment' = id
  BY DEF CommitOnRevision
<1>2. id \in FreshComment /\ id \in Nat /\ lastComment < id
  BY NewCommentIsFresh
<1>3. IInv'
  BY <1>1, <1>2, PostOnRevisionKeeps DEF RInv
<1>4. PendingOK' /\ lastPR' = lastPR
  BY DEF CommitOnRevision, RInv, PendingOK
<1>5. prs' = prs
  BY <1>1 DEF PostOnRevision
<1>6. \A c \in comments' : c.id <= id
  <2>1. \A c \in comments : c.id \in Nat /\ c.id <= lastComment
    BY ReviewAssumption DEF RInv, IdsGiven, IInv, TypeOK, Comment
  <2>2. lastComment \in Nat
    BY DEF RInv, IdsGiven
  <2>3. comments' = comments \cup {[id |-> id, pr |-> OnRevision, author |-> user]}
    BY <1>1 DEF PostOnRevision, CreateComment
  <2> QED
    BY <1>2, <2>1, <2>2, <2>3
<1>7. IdsGiven'
  BY <1>1, <1>2, <1>4, <1>5, <1>6 DEF RInv, IdsGiven, Existing
<1> QED
  BY <1>3, <1>4, <1>5, <1>7 DEF RInv, StillClosed

-----------------------------------------------------------------------------
(* The theorems.                                                           *)

\* Nothing is there at first and nothing is pending.
LEMMA RequestsInitEstablishes == RequestsInit => RInv
<1> SUFFICES ASSUME RequestsInit PROVE RInv
  OBVIOUS
<1>1. IInv
  BY InitEstablishes DEF RequestsInit
<1>2. PendingOK
  BY DEF RequestsInit, PendingOK
<1>3. Existing = {} /\ comments = {}
  BY DEF RequestsInit, Init, Existing
<1>4. IdsGiven
  BY <1>3 DEF RequestsInit, IdsGiven
<1> QED
  BY <1>1, <1>2, <1>4 DEF RInv

\* Every step of every worker keeps the invariant and what is closed closed.
LEMMA RequestsNextKeeps ==
  ASSUME RInv, [RequestsNext]_rvars
  PROVE  RInv' /\ StillClosed
<1>1. CASE UNCHANGED rvars
  <2>1. UNCHANGED <<prs, comments, statuses, request, lastPR, lastComment>>
    BY <1>1 DEF rvars, vars
  <2> QED
    BY <2>1 DEF RInv, IInv, TypeOK, NewestFirst, VersionsUnique, VotesWhole, NoOrphans,
                VotesBacked, CommentsBacked, CommentIdsUnique, PendingOK, IdsGiven,
                Existing, StillClosed
<1>2. ASSUME NEW w \in Workers,
             \/ CheckPost(w) \/ CheckPostViaApi(w) \/ CheckEdit(w) \/ CheckIterate(w)
             \/ CheckDelete(w) \/ CheckDeleteComment(w)
      PROVE  RInv' /\ StillClosed
  BY <1>2, CheckKeeps DEF StillClosed
<1>3. ASSUME NEW w \in Workers, Fail(w)
      PROVE  RInv' /\ StillClosed
  BY <1>3, GiveUpKeeps DEF Fail, StillClosed
<1>4. ASSUME NEW w \in Workers,
             \/ CommitPost(w) \/ CommitEdit(w) \/ CommitIterate(w)
             \/ CommitDelete(w) \/ CommitDeleteComment(w)
             \/ CommitCreate(w) \/ CommitOnRevision(w)
      PROVE  RInv' /\ StillClosed
  BY <1>4, CommitPostKeeps, CommitEditKeeps, CommitIterateKeeps, CommitDeleteKeeps,
     CommitDeleteCommentKeeps, CommitCreateKeeps, CommitOnRevisionKeeps
<1> QED
  BY <1>1, <1>2, <1>3, <1>4 DEF RequestsNext

\* However checks and transactions of the workers interleave, the tables stay
\* typed and the invariant of one request at a time holds.
THEOREM RequestsInvariant == RequestsSpec => []RInv
<1>1. RequestsInit => RInv
  BY RequestsInitEstablishes
<1>2. RInv /\ [RequestsNext]_rvars => RInv'
  BY RequestsNextKeeps
<1> QED
  BY <1>1, <1>2, PTL DEF RequestsSpec

\* Votes cast by requests that overlap are numbered by age, and what a stale
\* request writes refers to no row that is gone.
THEOREM TablesStayConsistent == RequestsSpec => []TablesConsistent
<1>1. RInv => TablesConsistent
  BY DEF RInv, IInv, TablesConsistent
<1> QED
  BY <1>1, RequestsInvariant, PTL

\* No edit, vote or iteration that was checked before a pull request was closed
\* opens it again.
THEOREM ClosedForGood == RequestsSpec => ClosedStaysClosed
<1> DEFINE Stays ==
      \A p \in PullRequestIds :
        prs[p] # NoPR /\ prs[p].closed => prs'[p] = NoPR \/ prs'[p].closed
<1>1. RInv /\ [RequestsNext]_rvars => [Stays]_rvars
  BY RequestsNextKeeps DEF StillClosed
<1> HIDE DEF Stays
<1>2. RequestsSpec => [][Stays]_rvars
  BY <1>1, RequestsInvariant, PTL DEF RequestsSpec
<1> QED
  BY <1>2 DEF ClosedStaysClosed, Stays
=============================================================================
