--------------------------- MODULE MCMutationLocks ---------------------------
(***************************************************************************)
(* Model values of MutationLocks for TLC: two credentials of one account,  *)
(* whose identity has two keys besides the id.                             *)
(***************************************************************************)
EXTENDS MutationLocks, TLC

CONSTANTS a, b, c1, c2, c3

Auths == {a, b}
Ids == (a :> 4) @@ (b :> 1)

\* A content of the first may name the account by its email alone.
Contents == (a :> {{2, 3}, {2}}) @@ (b :> {{2, 3}})
Emails == {2}

\* One is in the graph and one is not.
InGraph == {a}

Calls == {c1, c2, c3}

\* The first holds what the second may reuse; the third competes with both.
Plans == (c1 :> {"mutate", "decide", "commit"}) @@ (c2 :> {"mutate", "delete", "edit", "scan", "decide"})
         @@ (c3 :> {"mutate", "load", "swap"})

Impatient == {c2}
=============================================================================
