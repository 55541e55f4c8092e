------------------------ MODULE MCRepositoryActivity ------------------------
\* Two workers, to interleave, and a branch besides the default one.
EXTENDS RepositoryActivity, TLC

CONSTANTS w1, w2, b1

WorkerSymmetry == Permutations({w1, w2})
=============================================================================
