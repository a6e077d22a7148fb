--------------------------- MODULE MCRequestLimiter ---------------------------
(* Small instances of RequestLimiter for TLC.                                *)
EXTENDS RequestLimiter, TLC

CONSTANTS r1, r2, r3, a1, a2,
          MaxChanges   \* bound: what changes around the requests

Requests2 == {r1, r2}
Requests3 == {r1, r2, r3}
OneAuth == {a1}
Auths2 == {a1, a2}
NoAuth == {}

\* Which client request is which makes no difference.
RequestSymmetry == Permutations(Request)

\* The changes so far.
VARIABLE changes

\* At most MaxChanges windows, policies and credentials change, and only the
\* first credential is ever limited.
OnlyFirstLimited == \A a \in Auth \ {a1} : policy[a] = 0

Change ==
    \/ Tick
    \/ \E a \in Auth, l \in LimitSetting : ChangePolicy(a, l)
    \/ \E f \in [Auth -> LimitSetting] : Reconfigure(f)
    \/ \E a \in Removable : RemoveAuth(a)

MCInit == Init /\ changes = 0 /\ OnlyFirstLimited

MCNext ==
    \/ /\ changes < MaxChanges
       /\ changes' = changes + 1
       /\ Change
       /\ OnlyFirstLimited'
    \/ /\ \E r \in Request : RequestStep(r)
       /\ UNCHANGED changes

MCSpec == MCInit /\ [][MCNext]_<<vars, changes>>
=============================================================================
