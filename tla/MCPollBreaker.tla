---------------------------- MODULE MCPollBreaker ----------------------------
\* Small instances of PollBreaker for TLC.
EXTENDS PollBreaker

CONSTANTS c1, c2, c3

Clients2 == {c1, c2}
Clients3 == {c1, c2, c3}

OneTwo == {1, 2}
OnlyTwo == {2}
\* A duration that is not positive.
NoStall == {0}
OneStall == {1}

=============================================================================
