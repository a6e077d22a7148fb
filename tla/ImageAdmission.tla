--------------------------- MODULE ImageAdmission ---------------------------
(***************************************************************************)
(* One bounded gate of the ChatGPT Web image pipeline                       *)
(* (sdk/cliproxy/executor/chatgpt_web_image_admission.go).  The process has *)
(* four of them: complete image attempts, poll exchanges, staged results    *)
(* and memory-heavy finalization.  A client acquires a slot at once or      *)
(* waits in a FIFO queue for a bounded time, for ever or not at all; the    *)
(* limits can be changed while clients are inside and in the queue.         *)
(*                                                                         *)
(* A Client is a goroutine; an activeID is only ever held by the goroutine  *)
(* it was made for, so the identifier is modelled by that client.           *)
(***************************************************************************)
EXTENDS Integers, Sequences, FiniteSets, SequencesExt

CONSTANTS Client,        \* the goroutines that acquire slots
          LimitSetting,  \* the values configure() is called with: limits ...
          QueueSetting   \* ... and queue limits, in or out of range

ASSUME ClientAssumption == IsFiniteSet(Client)
ASSUME SettingAssumption == LimitSetting \subseteq Int /\ QueueSetting \subseteq Int

VARIABLES
    limit,        \* admission.limit, 0 until it is configured or used
    queueLimit,   \* admission.queueLimit
    active,       \* admission.active
    activeSince,  \* the keys of admission.activeSince
    waiters,      \* admission.waiters
    pc,           \* where each client is in acquire or its critical sections
    wait,         \* the wait argument of the client's current call
    ctxDone,      \* ctx.Err() # nil for the client's current call
    granted       \* waiter.granted, and waiter.ready closed

gate == <<limit, queueLimit, active, activeSince, waiters>>
vars == <<limit, queueLimit, active, activeSince, waiters,
          pc, wait, ctxDone, granted>>

\* "entering": past ctx.Err(), before the lock.  "waiting": in the select.
\* "cancelling": took ctx.Done() or the timer, before cancelWaiter's lock.
\* "holding": returned the release function.
Stage == {"idle", "entering", "waiting", "cancelling", "holding"}

\* wait = 0, wait > 0 and wait < 0.
Wait == {"none", "timed", "forever"}

-----------------------------------------------------------------------------
\* Variant for mutation: a limit of zero is kept.
UnclampedLimit(l) == l

\* configure() and acquire() raise a limit below one to one.
ClampLimit(l) == IF l < 1 THEN 1 ELSE l

\* Variant for mutation: a negative queue limit is kept.
UnclampedQueue(q) == q

ClampQueue(q) == IF q < 0 THEN 0 ELSE q

\* The limit the gate works with: one that was never set counts as one.
EffectiveLimit == ClampLimit(limit)

\* The clients that own a slot: they hold the release function, or were
\* granted one that they have not looked at yet.
Owners == {c \in Client : pc[c] = "holding" \/ granted[c]}

\* The clients that still wait for a slot.
Queueing == {c \in Client : pc[c] \in {"waiting", "cancelling"} /\ ~granted[c]}

\* How many waiters grantLocked lets in when lim slots exist, act are taken.
Grants(lim, act) ==
    IF lim <= act THEN 0
    ELSE IF Len(waiters) < lim - act THEN Len(waiters) ELSE lim - act

\* Variant for mutation: one waiter is woken, however many slots are free.
GrantLockedOne(lim, act, since, ready) ==
    LET n == IF Grants(lim, act) > 0 THEN 1 ELSE 0
        W == {waiters[i] : i \in 1..n}
    IN  /\ waiters' = SubSeq(waiters, n + 1, Len(waiters))
        /\ active' = act + n
        /\ activeSince' = since \union W
        /\ granted' = [c \in Client |-> ready[c] \/ c \in W]

\* Variant for mutation: the newest waiters are served first.
GrantLockedLast(lim, act, since, ready) ==
    LET n == Grants(lim, act)
        W == {waiters[i] : i \in (Len(waiters) - n + 1)..Len(waiters)}
    IN  /\ waiters' = SubSeq(waiters, 1, Len(waiters) - n)
        /\ active' = act + n
        /\ activeSince' = since \union W
        /\ granted' = [c \in Client |-> ready[c] \/ c \in W]

\* grantLocked: the waiters at the head get the slots that are free.  lim,
\* act, since and ready are what the critical section has made of limit,
\* active, activeSince and granted when it calls it.
GrantLocked(lim, act, since, ready) ==
    LET n == Grants(lim, act)
        W == {waiters[i] : i \in 1..n}
    IN  /\ waiters' = SubSeq(waiters, n + 1, Len(waiters))
        /\ active' = act + n
        /\ activeSince' = since \union W
        /\ granted' = [c \in Client |-> ready[c] \/ c \in W]

\* deactivateLocked: what active becomes when c's activeID is retired.
Deactivated(c) == IF c \in activeSince /\ active > 0 THEN active - 1 ELSE active

-----------------------------------------------------------------------------
Init ==
    /\ limit = 0
    /\ queueLimit = 0
    /\ active = 0
    /\ activeSince = {}
    /\ waiters = <<>>
    /\ pc = [c \in Client |-> "idle"]
    /\ wait = [c \in Client |-> "none"]
    /\ ctxDone = [c \in Client |-> FALSE]
    /\ granted = [c \in Client |-> FALSE]

\* configure(): a hot reload sets both limits and fills the new room.
Configure(l, q) ==
    /\ limit' = ClampLimit(l)
    /\ queueLimit' = ClampQueue(q)
    /\ GrantLocked(ClampLimit(l), active, activeSince, granted)
    /\ UNCHANGED <<pc, wait, ctxDone>>

\* acquire() up to the lock, with a live context.
Begin(c, w) ==
    /\ pc[c] = "idle"
    /\ pc' = [pc EXCEPT ![c] = "entering"]
    /\ wait' = [wait EXCEPT ![c] = w]
    /\ UNCHANGED <<gate, ctxDone, granted>>

\* The client's context ends.
CancelContext(c) ==
    /\ pc[c] \in {"entering", "waiting"}
    /\ ~ctxDone[c]
    /\ ctxDone' = [ctxDone EXCEPT ![c] = TRUE]
    /\ UNCHANGED <<gate, pc, wait, granted>>

\* The call or the use of the slot is over: its locals are gone.
Return(c) ==
    /\ pc' = [pc EXCEPT ![c] = "idle"]
    /\ wait' = [wait EXCEPT ![c] = "none"]
    /\ ctxDone' = [ctxDone EXCEPT ![c] = FALSE]

RoomAtOnce == active < EffectiveLimit /\ waiters = <<>>

\* The first critical section of acquire(), a slot is free.
Admit(c) ==
    /\ pc[c] = "entering"
    /\ RoomAtOnce
    /\ limit' = EffectiveLimit
    /\ active' = active + 1
    /\ activeSince' = activeSince \union {c}
    /\ pc' = [pc EXCEPT ![c] = "holding"]
    /\ UNCHANGED <<queueLimit, waiters, wait, ctxDone, granted>>

QueueFull == queueLimit = 0 \/ Len(waiters) >= queueLimit

\* The first critical section, the capacity errors inflight_full and queue_full.
Reject(c) ==
    /\ pc[c] = "entering"
    /\ ~RoomAtOnce
    /\ wait[c] = "none" \/ QueueFull
    /\ limit' = EffectiveLimit
    /\ Return(c)
    /\ UNCHANGED <<queueLimit, active, activeSince, waiters, granted>>

\* The first critical section, the client is queued.
Enqueue(c) ==
    /\ pc[c] = "entering"
    /\ ~RoomAtOnce
    /\ wait[c] # "none"
    /\ ~QueueFull
    /\ limit' = EffectiveLimit
    /\ waiters' = Append(waiters, c)
    /\ pc' = [pc EXCEPT ![c] = "waiting"]
    /\ UNCHANGED <<queueLimit, active, activeSince, wait, ctxDone, granted>>

\* The select takes waiter.ready; the context may have ended meanwhile.
ReceiveReady(c) ==
    /\ pc[c] = "waiting"
    /\ granted[c]
    /\ granted' = [granted EXCEPT ![c] = FALSE]
    /\ pc' = [pc EXCEPT ![c] = "holding"]
    /\ UNCHANGED <<gate, wait, ctxDone>>

\* The select takes ctx.Done() or the timer, possibly with a grant ready.
GiveUp(c) ==
    /\ pc[c] = "waiting"
    /\ ctxDone[c] \/ wait[c] = "timed"
    /\ pc' = [pc EXCEPT ![c] = "cancelling"]
    /\ UNCHANGED <<gate, wait, ctxDone, granted>>

\* cancelWaiter(), the waiter was granted a slot meanwhile: it is given back.
CancelGranted(c) ==
    /\ pc[c] = "cancelling"
    /\ granted[c]
    /\ GrantLocked(limit, Deactivated(c), activeSince \ {c}, [granted EXCEPT ![c] = FALSE])
    /\ Return(c)
    /\ UNCHANGED <<limit, queueLimit>>

\* cancelWaiter(), the waiter is still queued: it is removed.
CancelQueued(c) ==
    /\ pc[c] = "cancelling"
    /\ ~granted[c]
    /\ \E i \in 1..Len(waiters) :
          /\ waiters[i] = c
          /\ waiters' = RemoveAt(waiters, i)
    /\ Return(c)
    /\ UNCHANGED <<limit, queueLimit, active, activeSince, granted>>

\* Variant for mutation: the freed slot is not handed on.
ReleaseSilent(c) ==
    /\ pc[c] = "holding"
    /\ active' = Deactivated(c)
    /\ activeSince' = activeSince \ {c}
    /\ Return(c)
    /\ UNCHANGED <<limit, queueLimit, waiters, granted>>

\* The release function; its sync.Once makes later calls of it do nothing.
Release(c) ==
    /\ pc[c] = "holding"
    /\ GrantLocked(limit, Deactivated(c), activeSince \ {c}, granted)
    /\ Return(c)
    /\ UNCHANGED <<limit, queueLimit>>

\* What a client's goroutine does by itself once it has begun.
Step(c) ==
    \/ Admit(c)
    \/ Reject(c)
    \/ Enqueue(c)
    \/ ReceiveReady(c)
    \/ GiveUp(c)
    \/ CancelGranted(c)
    \/ CancelQueued(c)
    \/ Release(c)

Next ==
    \/ \E c \in Client : \/ \E w \in Wait : Begin(c, w)
                         \/ CancelContext(c)
                         \/ Step(c)
    \/ \E l \in LimitSetting, q \in QueueSetting : Configure(l, q)

Spec == Init /\ [][Next]_vars

\* Goroutines run on, and a holder calls its release function (the callers
\* defer it) once the exchange it bounds has ended.
Fairness == \A c \in Client : WF_vars(Step(c))

FairSpec == Spec /\ Fairness

-----------------------------------------------------------------------------
\* Every variable keeps the type of the field or local it stands for.
TypeOK ==
    /\ limit \in Nat
    /\ queueLimit \in Nat
    /\ active \in Nat
    /\ activeSince \subseteq Client
    /\ waiters \in Seq(Client)
    /\ pc \in [Client -> Stage]
    /\ wait \in [Client -> Wait]
    /\ ctxDone \in [Client -> BOOLEAN]
    /\ granted \in [Client -> BOOLEAN]

\* active, activeSince and the clients that own a slot never disagree, also
\* while a timed-out client races with the grant it was just given
\* (cancelWaiter against grantLocked): the counter is decremented under a
\* test on the map, so a disagreement would never heal.
SlotAccounting ==
    /\ activeSince = Owners
    /\ active = Cardinality(activeSince)

\* The queue is exactly the clients that wait, each once: a client that gave
\* up leaves no ghost that a later grant would be lost on.
QueueIsWaiting ==
    /\ ToSet(waiters) = Queueing
    /\ \A i, j \in 1..Len(waiters) : waiters[i] = waiters[j] => i = j

\* No slot idles while somebody waits, whatever sequence of releases,
\* cancellations and limit changes led here.
WorkConserving == waiters # <<>> => active >= limit /\ limit >= 1

\* Slots and queue places are only handed out below the limit of the moment:
\* a lowered limit revokes nobody and lets nobody in until the work is done.
GrowsWithinLimits ==
    [][/\ active' > active => active' <= limit'
       /\ Len(waiters') > Len(waiters) => Len(waiters') <= queueLimit']_vars

\* First come, first served: nobody gets a slot while a client that queued
\* before it stays in the queue.
NoOvertaking ==
    [][\A i \in 1..Len(waiters) : \A c \in activeSince' \ activeSince :
          waiters[i] \in ToSet(waiters') =>
              \E j \in 1..i : waiters[j] = c]_vars

\* A client in the select gets a slot or an error.
EveryWaiterReturns ==
    \A c \in Client : pc[c] = "waiting" ~> pc[c] # "waiting"

\* The gate implements the abstract one, with limits that change at run time.
Gate == INSTANCE AdmissionGate WITH
            Client <- Client,
            Limit <- {ClampLimit(l) : l \in LimitSetting \union {0}},
            inside <- Owners,
            waiting <- Queueing,
            limit <- EffectiveLimit,
            open <- TRUE

ImplementsGate == Gate!GateSpec

=============================================================================
