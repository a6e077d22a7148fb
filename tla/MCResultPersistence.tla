------------------------ MODULE MCResultPersistence ------------------------
\* A small instance of ResultPersistence for TLC.
EXTENDS ResultPersistence

CONSTANTS a1, a2, p1, p2, w1, w2

Auths2 == {a1, a2}
OneAuth == {a1}
Producers1 == {p1}
Producers2 == {p1, p2}
Workers2 == {w1, w2}

=============================================================================
