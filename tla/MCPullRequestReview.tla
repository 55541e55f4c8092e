-------------------------- MODULE MCPullRequestReview --------------------------
\* Small instances of PullRequestReview.
EXTENDS PullRequestReview, TLC

CONSTANTS u1, u2, r1, r2

MCUsers == {u1, u2}
MCSiteAdmins == {}
MCRepoAdmins == {u2}
MCRevisions == {r1, r2}
MCPanels == {{}, {u1}}
BothVerdicts == {"approved", "rejected"}
WholeSeries == {{r1, r2}}
RevisionSymmetry == Permutations(MCRevisions)

\* Pull requests that share their revisions and replace each other.
OnePullRequest == 1..1
TwoPullRequests == 1..2
ThreeComments == 1..3
=============================================================================
