-------------------------- MODULE MCImageAdmission --------------------------
\* Small instances of ImageAdmission for TLC.
EXTENDS ImageAdmission, TLC

CONSTANTS c1, c2, c3, c4

Clients3 == {c1, c2, c3}
Clients4 == {c1, c2, c3, c4}

\* Limits 1 (clamped from 0), 2 and 3, with which a reload can open two slots
\* at once; queue limits 0 (clamped), 2 and 3.
Limits == {0, 2}
WideLimits == {0, 3}
AllLimits == {0, 2, 3}
Queues == {-1, 1, 2}
OpenQueue == {3}

Symmetry4 == Permutations(Clients4)

=============================================================================
