------------------------ MODULE MCRefreshPersistence ------------------------
\* A small instance of RefreshPersistence for TLC.
EXTENDS RefreshPersistence, TLC

CONSTANTS c1, c2, c3, c4

Callers4 == {c1, c2, c3, c4}

\* The classes each goroutine writes for: a renewal, an import and a
\* maintenance job keep to their own, and two goroutines change between two.
ClassesOf ==
    (c1 :> {"session"}) @@ (c2 :> {"session", "import"})
    @@ (c3 :> {"import", "maintenance"}) @@ (c4 :> {"maintenance"})

MCNext ==
    \/ \E c \in Caller : \/ \E p \in ClassesOf[c] : Begin(c, p)
                         \/ CancelContext(c)
                         \/ Step(c)
    \/ Close

MCSpec == Init /\ [][MCNext]_vars /\ Fairness

=============================================================================
