---------------------------- MODULE ReviewRequests ----------------------------
(*****************************************************************************)
(* The requests of PullRequestReview as several worker threads run them.     *)
(* A controller loads the pull request or the comment, checks it, and only   *)
(* then opens the write transaction that Session().commit() ends; another    *)
(* worker can commit in between, and what it changed is not checked again.   *)
(*                                                                           *)
(* The database is one that enforces foreign keys and never gives an id      *)
(* twice (PostgreSQL, for one).  A write to a row that is gone, or a         *)
(* reference to one, fails the whole request, and so does a conflict of two  *)
(* set_status on the unique version 0: transactions take effect one by one.  *)
(* Accounts are not deleted here.                                            *)
(*****************************************************************************)
EXTENDS PullRequestReview

CONSTANTS
  Workers,
  Idle         \* a worker between two requests

VARIABLES
  request,     \* request[w]: what worker w has checked and not yet written
  lastPR,      \* the highest ids ever given
  lastComment

rvars == <<vars, request, lastPR, lastComment>>

\* Ids are given one after the other.
After(ids, used) == {i \in NextId(ids, used) : \A k \in NextId(ids, used) : i <= k}

NewPRId == After(PullRequestIds, {lastPR})
NewCommentIds(used) == After(CommentIds, {lastComment} \cup used)

Start(w, r) ==
  /\ request[w] = Idle
  /\ request' = [request EXCEPT ![w] = r]
  /\ UNCHANGED <<vars, lastPR, lastComment>>

Done(w) == request' = [request EXCEPT ![w] = Idle]

\* The request ends with nothing written: an error page, or nothing to write.
GiveUp(w) ==
  /\ Done(w)
  /\ UNCHANGED <<vars, lastPR, lastComment>>

-----------------------------------------------------------------------------
(* The checks, on what the worker has just loaded.                         *)

CheckPost(w) ==
  \E user \in Users, p \in Existing, status \in Choices \cup {NoStatus},
     text \in Texts, close \in BOOLEAN :
    /\ status # NoStatus \/ close => AllowedToChangeStatus(user, p)
    /\ Start(w, [op |-> "post", user |-> user, pr |-> p, status |-> status,
                 text |-> text, close |-> close])

CheckPostViaApi(w) ==
  \E user \in Users, p \in Existing, status \in Choices \cup {NoStatus},
     text \in Texts, close \in BOOLEAN :
    /\ MayPostViaApi(user, p, status, close)
    /\ Start(w, [op |-> "post", user |-> user, pr |-> p, status |-> status,
                 text |-> text, close |-> close])

CheckEdit(w) ==
  \E user \in Users, p \in Existing, before, wanted \in Panels :
    \E owner \in {prs[p].owner} \cup NewOwners :
      /\ MayEdit(user, p)
      /\ Start(w, [op |-> "edit", pr |-> p, owner |-> owner,
                   added |-> (wanted \ before) \ prs[p].reviewers,
                   removed |-> (before \ wanted) \cap prs[p].reviewers])

CheckIterate(w) ==
  \E user \in Users, p \in Existing, revs \in Series, reviewers \in Panels :
    /\ MayIterate(user, p)
    /\ Start(w, [op |-> "iterate", user |-> user, pr |-> p, revisions |-> revs,
                 reviewers |-> reviewers])

CheckDelete(w) ==
  \E user \in Users, p \in Existing :
    /\ MaySaveDelete(user, p) \/ prs[p].owner = user
    /\ Start(w, [op |-> "delete", pr |-> p])

CheckDeleteComment(w) ==
  \E user \in Users, c \in comments :
    /\ MayDeleteComment(user, c)
    /\ Start(w, [op |-> "uncomment", comment |-> c])

-----------------------------------------------------------------------------
(* The transactions.                                                       *)

CommitPost(w) ==
  /\ request[w] # Idle /\ request[w].op = "post"
  /\ LET r == request[w]
     IN  IF prs[r.pr] = NoPR
         THEN GiveUp(w)
         ELSE \E id \in NewCommentIds({}) :
                /\ Post(r.user, r.pr, id, r.status, r.text, r.close)
                /\ lastComment' = IF r.text \/ r.status # NoStatus THEN id ELSE lastComment
                /\ UNCHANGED lastPR
                /\ Done(w)

CommitEdit(w) ==
  /\ request[w] # Idle /\ request[w].op = "edit"
  /\ LET r == request[w]
     IN  IF prs[r.pr] = NoPR
         THEN GiveUp(w)
         ELSE /\ Edit(r.pr, r.owner, r.added, r.removed)
              /\ UNCHANGED <<lastPR, lastComment>>
              /\ Done(w)

CommitIterate(w) ==
  /\ request[w] # Idle /\ request[w].op = "iterate"
  /\ LET r == request[w]
     IN  IF prs[r.pr] = NoPR
         THEN GiveUp(w)
         ELSE \E p \in NewPRId, id \in NewCommentIds({}) :
                \E closing \in NewCommentIds({id}) :
                  /\ Iterate(r.user, r.pr, p, id, closing, r.revisions, r.reviewers)
                  /\ lastPR' = p
                  /\ lastComment' = closing
                  /\ Done(w)

CommitDelete(w) ==
  /\ request[w] # Idle /\ request[w].op = "delete"
  /\ IF prs[request[w].pr] = NoPR
     THEN GiveUp(w)
     ELSE /\ Delete(request[w].pr)
          /\ UNCHANGED <<lastPR, lastComment>>
          /\ Done(w)

CommitDeleteComment(w) ==
  /\ request[w] # Idle /\ request[w].op = "uncomment"
  /\ IF request[w].comment \notin comments
     THEN GiveUp(w)
     ELSE /\ Remove(request[w].comment)
          /\ UNCHANGED <<lastPR, lastComment>>
          /\ Done(w)

\* Requests that check nothing another request can change.
CommitCreate(w) ==
  /\ request[w] = Idle
  /\ \E user \in Users, p \in NewPRId, id \in NewCommentIds({}), revs \in Series :
       /\ Open(user, p, id, revs)
       /\ lastPR' = p
       /\ lastComment' = id
  /\ UNCHANGED request

CommitOnRevision(w) ==
  /\ request[w] = Idle
  /\ \E user \in Users, rev \in Revisions, id \in NewCommentIds({}),
        status \in Choices \cup {NoStatus}, text \in Texts :
       /\ text \/ status # NoStatus
       /\ PostOnRevision(user, rev, id, status)
       /\ lastComment' = id
  /\ UNCHANGED <<request, lastPR>>

\* The worker or its connection to the database dies: nothing was committed.
Fail(w) == request[w] # Idle /\ GiveUp(w)

RequestsInit ==
  /\ Init
  /\ request = [w \in Workers |-> Idle]
  /\ lastPR = 0
  /\ lastComment = 0

RequestsNext ==
  \E w \in Workers :
    \/ CheckPost(w) \/ CheckPostViaApi(w) \/ CheckEdit(w) \/ CheckIterate(w)
    \/ CheckDelete(w) \/ CheckDeleteComment(w)
    \/ CommitPost(w) \/ CommitEdit(w) \/ CommitIterate(w)
    \/ CommitDelete(w) \/ CommitDeleteComment(w)
    \/ CommitCreate(w) \/ CommitOnRevision(w)
    \/ Fail(w)

RequestsSpec == RequestsInit /\ [][RequestsNext]_rvars

-----------------------------------------------------------------------------
(* What survives the interleavings.                                        *)

\* Overlapping votes, deletions and iterations leave votes numbered by age, and no
\* row that refers to one that is gone.
TablesConsistent == NewestFirst /\ NoOrphans

\* A request that was checked while the pull request was open never opens it
\* again: an edit committed after the closing writes only what it changed.
ClosedStaysClosed ==
  [][\A p \in PullRequestIds :
       prs[p] # NoPR /\ prs[p].closed => prs'[p] = NoPR \/ prs'[p].closed]_rvars
=============================================================================
