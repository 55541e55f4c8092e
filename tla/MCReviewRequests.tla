--------------------------- MODULE MCReviewRequests ---------------------------
\* Two workers, two pull requests that share their revision.
EXTENDS ReviewRequests, TLC

CONSTANTS u1, u2, r1, w1, w2

MCUsers == {u1, u2}
MCRepoAdmins == {u2}
MCSeries == {{r1}}
MCPanels == {{}, {u1}}
MCPullRequestIds == 1..2
MCCommentIds == 1..3
MCChoices == {"approved"}
WorkerSymmetry == Permutations({w1, w2})
=============================================================================
