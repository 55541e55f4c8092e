---------------------------- MODULE MCSearchIndex ----------------------------
\* A Mercurial repository and a git one.
EXTENDS SearchIndex

CONSTANT a

MCPaths == {a}
MCRepos == {1, 2}
MCGit == {2}
=============================================================================
