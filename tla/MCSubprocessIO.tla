---------------------------- MODULE MCSubprocessIO ----------------------------
\* Enough output to pause the reader twice, enough errors to overflow their
\* buffer, and more input than a pipe holds, read to the end or not.
EXTENDS SubprocessIO

MCPrograms ==
  [out : 0 .. 3, err : 0 .. 1, given : {0}, wants : {0}]
    \cup [out : {0, 1}, err : {4}, given : {0}, wants : {0}]
    \cup [out : {0, 2}, err : {0}, given : {2}, wants : 0 .. 2]
=============================================================================
