--------------------------- MODULE RequestLimiter ---------------------------
(***************************************************************************)
(* The per-credential fixed-window request limit                            *)
(* (sdk/cliproxy/auth/request_limiter.go) together with the request slot    *)
(* that carries a reservation from credential selection to the transport    *)
(* (AuthRequestSlot in sdk/cliproxy/executor/types.go and the attempt state *)
(* in upstream_attempt.go).  A request reserves capacity of a credential,   *)
(* consumes it when its attempt reaches the transport, and returns it when  *)
(* the attempt ended before that; it may then try again, with the same or   *)
(* another credential.                                                     *)
(*                                                                         *)
(* A policy is modelled by its limit: the window length is compared and     *)
(* used together with it everywhere.  Time is the number of the window.     *)
(***************************************************************************)
EXTENDS Integers, FiniteSets

CONSTANTS Request,        \* client requests, each with its own slot
          Auth,           \* credentials
          Removable,      \* credentials that may be removed from the scheduler
          LimitSetting,   \* limits a credential's policy may have, 0 = none
          MaxAttempts,    \* bound: reservations one request makes
          MaxWindow,      \* bound: the last window the clock reaches
          MaxGeneration   \* bound: policy generations

ASSUME RequestAssumption == IsFiniteSet(Request)
ASSUME AuthAssumption == Auth # {}
ASSUME RemovableAssumption == Removable \subseteq Auth
ASSUME LimitAssumption == LimitSetting \subseteq Nat
ASSUME BoundAssumption == MaxAttempts \in Nat /\ MaxWindow \in Nat /\ MaxGeneration \in Nat

Attempt == 1..MaxAttempts
Window == 0..MaxWindow

VARIABLES
    clock,        \* the window the wall clock is in
    policy,       \* the limit the routing configuration gives a credential
    generation,   \* limiter.generation and the scheduler's, set together
    nextVersion,  \* limiter.nextVersion
    counts,       \* limiter.counts
    pc,           \* where each request is
    target,       \* the credential the request tries next
    now,          \* the window of the time it has read
    polLimit,     \* the policy it has read: limit ...
    polGen,       \* ... and generation
    made,         \* how many reservations it has made
    bound,        \* the attempt whose reservation the slot holds, 0 = none
    res,          \* the reservations
    started,      \* attempts whose context pins their reservation
    seen          \* history: attempts that had to be counted when they ran

limiter == <<generation, nextVersion, counts>>
vars == <<clock, policy, generation, nextVersion, counts, pc, target, now,
          polLimit, polGen, made, bound, res, started, seen>>

\* "between": between attempts.  Credential selection: "picked" has read the
\* clock, "reserving" also the policy.  The same credential again: "again" has
\* released, "timing" has read the policy, "rereserving" also the clock.
\* "bound": the slot is bound.  "running": in the executor.  "done": the
\* deferred Release has run.
Stage == {"between", "picked", "reserving", "again", "timing", "rereserving",
          "bound", "running", "done"}

\* A missing entry reads as the zero value, which matches no policy.
NoEntry == [window |-> -1, limit |-> 0, count |-> 0, version |-> 0]

NoReservation == [state |-> "none", auth |-> CHOOSE a \in Auth : TRUE,
                  window |-> 0, limit |-> 0, version |-> 0, generation |-> 0]

\* "releasing": Release has won the state change and waits for the mutex.
State == {"none", "reserved", "committed", "releasing", "released"}

-----------------------------------------------------------------------------
\* The request's goroutine is inside Release.
Busy(r) == \E i \in Attempt : res[r][i].state = "releasing"

Free(r, s) == pc[r] = s /\ ~Busy(r)

\* The entry a reservation for window w under limit l is charged to: an entry
\* of another window or policy is replaced by a fresh one.
CurrentEntry(a, w, l) ==
    IF counts[a].window = w /\ counts[a].limit = l
    THEN counts[a]
    ELSE [window |-> w, limit |-> l, count |-> 0, version |-> nextVersion + 1]

\* Variant for mutation: a committed reservation can still be released.
ReleasedForced(rs) == IF rs.state \in {"reserved", "committed"}
                      THEN [rs EXCEPT !.state = "releasing"] ELSE rs

\* Release of a reservation, its compare-and-swap: only one that is reserved.
Released(rs) == IF rs.state = "reserved" THEN [rs EXCEPT !.state = "releasing"] ELSE rs

\* Commit, its compare-and-swap; a reservation without capacity commits too.
Committed(rs) == IF rs.state = "reserved" THEN [rs EXCEPT !.state = "committed"] ELSE rs

\* The reservations of r after its slot released the one it holds.
SlotReleased(r) ==
    [i \in Attempt |-> IF i = bound[r] THEN Released(res[r][i]) ELSE res[r][i]]

-----------------------------------------------------------------------------
Init ==
    /\ clock = 0
    /\ policy \in [Auth -> LimitSetting]
    /\ generation = 1
    /\ nextVersion = 0
    /\ counts = [a \in Auth |-> NoEntry]
    /\ pc = [r \in Request |-> "between"]
    /\ target = [r \in Request |-> CHOOSE a \in Auth : TRUE]
    /\ now = [r \in Request |-> 0]
    /\ polLimit = [r \in Request |-> 0]
    /\ polGen = [r \in Request |-> 0]
    /\ made = [r \in Request |-> 0]
    /\ bound = [r \in Request |-> 0]
    /\ res = [r \in Request |-> [i \in Attempt |-> NoReservation]]
    /\ started = [r \in Request |-> {}]
    /\ seen = [r \in Request |-> {}]

\* The clock enters the next window.
Tick ==
    /\ clock < MaxWindow
    /\ clock' = clock + 1
    /\ UNCHANGED <<policy, limiter, pc, target, now, polLimit, polGen, made,
                   bound, res, started, seen>>

\* A credential's own attributes (plan, priority) select another limit.
ChangePolicy(a, l) ==
    /\ policy[a] # l
    /\ policy' = [policy EXCEPT ![a] = l]
    /\ UNCHANGED <<clock, limiter, pc, target, now, polLimit, polGen, made,
                   bound, res, started, seen>>

\* Variant for mutation: the entry versions start over with the counts.
ReconfigureRestartsVersions(f) ==
    /\ generation < MaxGeneration
    /\ f # policy
    /\ policy' = f
    /\ generation' = generation + 1
    /\ nextVersion' = 0
    /\ counts' = [a \in Auth |-> NoEntry]
    /\ UNCHANGED <<clock, pc, target, now, polLimit, polGen, made, bound, res,
                   started, seen>>

\* setRoutingStrategy with other limits: every count is dropped.
Reconfigure(f) ==
    /\ generation < MaxGeneration
    /\ f # policy
    /\ policy' = f
    /\ generation' = generation + 1
    /\ counts' = [a \in Auth |-> NoEntry]
    /\ UNCHANGED <<clock, nextVersion, pc, target, now, polLimit, polGen, made,
                   bound, res, started, seen>>

\* A credential is removed from the scheduler, and its count with it.
RemoveAuth(a) ==
    /\ counts' = [counts EXCEPT ![a] = NoEntry]
    /\ UNCHANGED <<clock, policy, generation, nextVersion, pc, target, now,
                   polLimit, polGen, made, bound, res, started, seen>>

\* Credential selection reads the clock, once for all the candidates it tries.
Pick(r, a) ==
    /\ Free(r, "between")
    /\ made[r] < MaxAttempts
    /\ target' = [target EXCEPT ![r] = a]
    /\ now' = [now EXCEPT ![r] = clock]
    /\ pc' = [pc EXCEPT ![r] = "picked"]
    /\ UNCHANGED <<clock, policy, limiter, polLimit, polGen, made, bound, res,
                   started, seen>>

\* acquireAdditionalAuthRequest: the slot is released, then the same
\* credential is reserved again.
PickAgain(r) ==
    /\ Free(r, "between")
    /\ bound[r] # 0
    /\ made[r] < MaxAttempts
    /\ res' = [res EXCEPT ![r] = SlotReleased(r)]
    /\ pc' = [pc EXCEPT ![r] = "again"]
    /\ UNCHANGED <<clock, policy, limiter, target, now, polLimit, polGen, made,
                   bound, started, seen>>

\* The policy of the candidate and the generation it belongs to.
ReadPolicy(r) ==
    /\ \/ Free(r, "picked") /\ pc' = [pc EXCEPT ![r] = "reserving"]
       \/ Free(r, "again") /\ pc' = [pc EXCEPT ![r] = "timing"]
    /\ polLimit' = [polLimit EXCEPT ![r] = policy[target[r]]]
    /\ polGen' = [polGen EXCEPT ![r] = generation]
    /\ UNCHANGED <<clock, policy, limiter, target, now, made, bound, res,
                   started, seen>>

\* acquireAdditionalAuthRequest reads the clock after the policy.
ReadClock(r) ==
    /\ Free(r, "timing")
    /\ now' = [now EXCEPT ![r] = clock]
    /\ pc' = [pc EXCEPT ![r] = "rereserving"]
    /\ UNCHANGED <<clock, policy, limiter, target, polLimit, polGen, made, bound,
                   res, started, seen>>

\* The request is at limiter.mu of reserveAt.
Reserving(r) == Free(r, "reserving") \/ Free(r, "rereserving")

\* The locals of an acquisition that is over.
Forget(r) ==
    /\ now' = [now EXCEPT ![r] = 0]
    /\ polLimit' = [polLimit EXCEPT ![r] = 0]
    /\ polGen' = [polGen EXCEPT ![r] = 0]

\* reserveAt, the policy is of an older generation: both loops start over.
ReserveStale(r) ==
    /\ Reserving(r)
    /\ polGen[r] # generation
    /\ pc' = [pc EXCEPT ![r] = IF @ = "reserving" THEN "picked" ELSE "again"]
    /\ now' = [now EXCEPT ![r] = clock]
    /\ UNCHANGED <<clock, policy, limiter, target, polLimit, polGen, made, bound,
                   res, started, seen>>

\* Variant for mutation: the previous reservation is just overwritten.
BindSlotDrops(r, rs) ==
    /\ made' = [made EXCEPT ![r] = @ + 1]
    /\ bound' = [bound EXCEPT ![r] = made[r] + 1]
    /\ res' = [res EXCEPT ![r][made[r] + 1] = rs]
    /\ pc' = [pc EXCEPT ![r] = "bound"]
    /\ Forget(r)

\* Bind: the slot holds the new reservation rs; a pending one is released.
BindSlot(r, rs) ==
    /\ made' = [made EXCEPT ![r] = @ + 1]
    /\ bound' = [bound EXCEPT ![r] = made[r] + 1]
    /\ res' = [res EXCEPT ![r] = [SlotReleased(r) EXCEPT ![made[r] + 1] = rs]]
    /\ pc' = [pc EXCEPT ![r] = "bound"]
    /\ Forget(r)

\* Variant for mutation: one reservation more than the limit is made.
ReserveOneMore(r) ==
    LET a == target[r]
        e == CurrentEntry(a, now[r], polLimit[r])
    IN  /\ Reserving(r)
        /\ polGen[r] = generation
        /\ polLimit[r] > 0
        /\ e.count <= polLimit[r]
        /\ counts' = [counts EXCEPT ![a] = [e EXCEPT !.count = @ + 1]]
        /\ nextVersion' = IF e.version > nextVersion THEN e.version ELSE nextVersion
        /\ BindSlot(r, [state |-> "reserved", auth |-> a, window |-> e.window,
                        limit |-> e.limit, version |-> e.version,
                        generation |-> generation])
        /\ UNCHANGED <<clock, policy, generation, target, started, seen>>

\* reserveAt, capacity left; the slot is bound by the same goroutine.
Reserve(r) ==
    LET a == target[r]
        e == CurrentEntry(a, now[r], polLimit[r])
    IN  /\ Reserving(r)
        /\ polGen[r] = generation
        /\ polLimit[r] > 0
        /\ e.count < polLimit[r]
        /\ counts' = [counts EXCEPT ![a] = [e EXCEPT !.count = @ + 1]]
        /\ nextVersion' = IF e.version > nextVersion THEN e.version ELSE nextVersion
        /\ BindSlot(r, [state |-> "reserved", auth |-> a, window |-> e.window,
                        limit |-> e.limit, version |-> e.version,
                        generation |-> generation])
        /\ UNCHANGED <<clock, policy, generation, target, started, seen>>

\* reserveAt without a limit: a reservation that takes nothing.
ReserveNoOp(r) ==
    /\ Reserving(r)
    /\ polGen[r] = generation
    /\ polLimit[r] = 0
    /\ BindSlot(r, [NoReservation EXCEPT !.state = "reserved", !.auth = target[r]])
    /\ UNCHANGED <<clock, policy, limiter, target, started, seen>>

\* reserveAt, the window is used up: another credential, or an error.
ReserveFull(r) ==
    /\ Reserving(r)
    /\ polGen[r] = generation
    /\ polLimit[r] > 0
    /\ CurrentEntry(target[r], now[r], polLimit[r]).count >= polLimit[r]
    /\ pc' = [pc EXCEPT ![r] = "between"]
    /\ Forget(r)
    /\ UNCHANGED <<clock, policy, limiter, target, made, bound, res, started, seen>>

\* WithUpstreamAttemptSlot: the attempt runs; its context pins the reservation.
StartAttempt(r) ==
    /\ Free(r, "bound")
    /\ started' = [started EXCEPT ![r] = @ \union {bound[r]}]
    /\ pc' = [pc EXCEPT ![r] = "running"]
    /\ UNCHANGED <<clock, policy, limiter, target, now, polLimit, polGen, made,
                   bound, res, seen>>

\* commitImmediateAuthRequestReservation: an executor that does not report is
\* charged at once, before it runs.
CommitImmediately(r) ==
    /\ Free(r, "bound")
    /\ bound[r] \notin seen[r]
    /\ res' = [res EXCEPT ![r][bound[r]] = Committed(@)]
    /\ seen' = [seen EXCEPT ![r] = @ \union {bound[r]}]
    /\ UNCHANGED <<clock, policy, limiter, pc, target, now, polLimit, polGen, made,
                   bound, started>>

\* The attempt fails before it runs, or the executor returns.
EndAttempt(r) ==
    /\ Free(r, "bound") \/ Free(r, "running")
    /\ pc' = [pc EXCEPT ![r] = "between"]
    /\ UNCHANGED <<clock, policy, limiter, target, now, polLimit, polGen, made,
                   bound, res, started, seen>>

\* releaseRetiredAuthRequestSlot: the credential instance was replaced while
\* the attempt was prepared or ran.
ReleaseRetired(r) ==
    /\ Free(r, "between")
    /\ bound[r] # 0
    /\ res' = [res EXCEPT ![r] = SlotReleased(r)]
    /\ UNCHANGED <<clock, policy, limiter, pc, target, now, polLimit, polGen, made,
                   bound, started, seen>>

\* Variant for mutation: the callback commits whatever the slot holds now.
MarkUpstreamAttemptUnpinned(r, i) ==
    /\ i \in started[r]
    /\ started' = [started EXCEPT ![r] = @ \ {i}]
    /\ res' = [res EXCEPT ![r][bound[r]] = Committed(@)]
    /\ seen' = [seen EXCEPT ![r] = IF pc[r] = "running" /\ i = bound[r] THEN @ \union {i} ELSE @]
    /\ UNCHANGED <<clock, policy, limiter, pc, target, now, polLimit, polGen,
                   made, bound>>

\* MarkUpstreamAttempt: the transport of attempt i reports, once; it may do so
\* after the executor returned (a dial that outlives a cancelled request).
MarkUpstreamAttempt(r, i) ==
    /\ i \in started[r]
    /\ started' = [started EXCEPT ![r] = @ \ {i}]
    /\ res' = [res EXCEPT ![r][i] = Committed(@)]
    /\ seen' = [seen EXCEPT ![r] = IF pc[r] = "running" /\ i = bound[r] THEN @ \union {i} ELSE @]
    /\ UNCHANGED <<clock, policy, limiter, pc, target, now, polLimit, polGen,
                   made, bound>>

\* Variant for mutation: any entry of the credential is counted down.
MatchesAnyVersion(rs) ==
    /\ generation = rs.generation
    /\ counts[rs.auth].window = rs.window
    /\ counts[rs.auth].limit = rs.limit

\* Release under the mutex: the entry is still the one that was charged.
Matches(rs) ==
    /\ generation = rs.generation
    /\ counts[rs.auth].window = rs.window
    /\ counts[rs.auth].limit = rs.limit
    /\ counts[rs.auth].version = rs.version

\* Release, its critical section; a stale or empty reservation gives nothing.
GiveBack(r, i) ==
    LET rs == res[r][i]
        e == counts[rs.auth]
    IN  /\ rs.state = "releasing"
        /\ res' = [res EXCEPT ![r][i] = [NoReservation EXCEPT !.state = "released"]]
        /\ counts' = IF rs.limit = 0 \/ ~Matches(rs) THEN counts
                     ELSE [counts EXCEPT ![rs.auth] =
                              IF e.count <= 1 THEN NoEntry
                              ELSE [e EXCEPT !.count = @ - 1]]
        /\ UNCHANGED <<clock, policy, generation, nextVersion, pc, target, now,
                       polLimit, polGen, made, bound, started, seen>>

\* The request is over: its deferred Release runs.
Finish(r) ==
    /\ Free(r, "between")
    /\ res' = [res EXCEPT ![r] = SlotReleased(r)]
    /\ pc' = [pc EXCEPT ![r] = "done"]
    /\ UNCHANGED <<clock, policy, limiter, target, now, polLimit, polGen, made,
                   bound, started, seen>>

RequestStep(r) ==
    \/ \E a \in Auth : Pick(r, a)
    \/ PickAgain(r)
    \/ ReadPolicy(r)
    \/ ReadClock(r)
    \/ ReserveStale(r)
    \/ Reserve(r)
    \/ ReserveNoOp(r)
    \/ ReserveFull(r)
    \/ StartAttempt(r)
    \/ CommitImmediately(r)
    \/ EndAttempt(r)
    \/ ReleaseRetired(r)
    \/ \E i \in Attempt : MarkUpstreamAttempt(r, i) \/ GiveBack(r, i)
    \/ Finish(r)

Next ==
    \/ Tick
    \/ \E a \in Auth, l \in LimitSetting : ChangePolicy(a, l)
    \/ \E f \in [Auth -> LimitSetting] : Reconfigure(f)
    \/ \E a \in Removable : RemoveAuth(a)
    \/ \E r \in Request : RequestStep(r)

Spec == Init /\ [][Next]_vars

-----------------------------------------------------------------------------
Entry == [window : Window \union {-1}, limit : Nat, count : Nat,
          version : 0..nextVersion]

Reservation == [state : State, auth : Auth, window : Window, limit : Nat,
                version : 0..nextVersion, generation : Nat]

\* Every variable keeps the type of the field or local it stands for, and every
\* entry version in use was issued by the limiter.
TypeOK ==
    /\ clock \in Window
    /\ policy \in [Auth -> LimitSetting]
    /\ generation \in Nat /\ nextVersion \in Nat
    /\ counts \in [Auth -> Entry]
    /\ pc \in [Request -> Stage]
    /\ target \in [Request -> Auth]
    /\ now \in [Request -> Window]
    /\ polLimit \in [Request -> Nat]
    /\ polGen \in [Request -> Nat]
    /\ made \in [Request -> 0..MaxAttempts]
    /\ bound \in [Request -> 0..MaxAttempts]
    /\ res \in [Request -> [Attempt -> Reservation]]
    /\ started \in [Request -> SUBSET Attempt]
    /\ seen \in [Request -> SUBSET Attempt]

\* The reservations that are charged to the entry of credential a.
Charged(a) ==
    {x \in Request \X Attempt :
        LET rs == res[x[1]][x[2]] IN
        /\ rs.state \in {"reserved", "committed", "releasing"}
        /\ rs.limit > 0
        /\ rs.auth = a
        /\ rs.version = counts[a].version
        /\ rs.generation = generation}

\* A count is exactly the reservations it was charged for and that were not
\* given back: no late, repeated or stale Release moves the count of an entry
\* that replaced the one it was charged to.
CountExact == \A a \in Auth : counts[a].count = Cardinality(Charged(a))

\* Under one entry a credential never gets more than its limit.
WithinLimit == \A a \in Auth : counts[a].count <= counts[a].limit

\* Capacity is consumed by the attempt whose transport reported and by no
\* other: a late report does not charge the credential tried next.
ConsumedByItsOwnAttempt ==
    \A r \in Request, i \in Attempt :
        res[r][i].state = "committed" => i \notin started[r] \/ i \in seen[r]

\* A request that reached the transport stays charged, whatever happens to it
\* afterwards: error, retry with the same or another credential, the end.
ReachedTransportCounts ==
    \A r \in Request : \A i \in seen[r] : res[r][i].state = "committed"

\* A finished request holds no capacity it did not use.
NothingKept ==
    \A r \in Request : pc[r] = "done" =>
        \A i \in Attempt : res[r][i].state # "reserved"

\* The window limit the configuration documents: under one policy, the
\* requests that count towards one window are no more than the limit.
WindowLimit ==
    \A a \in Auth, w \in Window, l \in LimitSetting \ {0}, g \in 1..MaxGeneration :
        Cardinality({x \in Request \X Attempt :
            LET rs == res[x[1]][x[2]] IN
            rs.state = "committed" /\ rs.auth = a /\ rs.window = w
                /\ rs.limit = l /\ rs.generation = g}) <= l

=============================================================================
