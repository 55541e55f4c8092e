-------------------------- MODULE MCRepositoryStore --------------------------
\* Two names, so that repositories, groups and their paths can collide.
EXTENDS RepositoryStore, TLC

CONSTANTS x, y, g1, g2, r1, r2, t1, t2

MCForeign == {<<x>>, <<x, y>>}
StoreSymmetry ==
  Permutations({g1, g2}) \cup Permutations({r1, r2}) \cup Permutations({t1, t2})
=============================================================================
