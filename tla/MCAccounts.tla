------------------------------ MODULE MCAccounts ------------------------------
\* Two spellings of one name.
EXTENDS Accounts, TLC

CONSTANTS n1, n2, other, lower, e1, e2, key, w1, w2

Spellings == {n1, n2}
MCNames == Spellings \cup {other}
MCLower == [n \in MCNames |-> IF n = other THEN other ELSE lower]
MCEmails == {e1, e2}
MCFingerprints == {key}
MCWorkers == {w1, w2}
MCSymmetry == Permutations(Spellings) \cup Permutations(MCEmails) \cup Permutations(MCWorkers)
=============================================================================
