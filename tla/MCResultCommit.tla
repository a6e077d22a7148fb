--------------------------- MODULE MCResultCommit ---------------------------
\* Small instances of ResultCommit for TLC.
EXTENDS ResultCommit, TLC

CONSTANTS m1, m2, r1, r2

Models2 == {m1, m2}
Requests1 == {r1}
Requests2 == {r1, r2}

\* Models, and requests, are interchangeable.
Symmetry == Permutations(Models2) \union Permutations(Requests2)

=============================================================================
