------------------------- MODULE MCCommitStatistics -------------------------
EXTENDS CommitStatistics

CONSTANTS w1, w2, d1, d2, p1, p2, p3
=============================================================================
