----------------------------- MODULE PollBreaker -----------------------------
(***************************************************************************)
(* The process-wide breaker that turns new ChatGPT Web image attempts away   *)
(* when every poll slot is taken and no poll exchange completes              *)
(* (sdk/cliproxy/executor/chatgpt_web_image_poll_breaker.go), composed with  *)
(* the poll gate it watches.  The breaker is told of the gate from outside:  *)
(* an observer first reads the gate under the gate's mutex and then takes    *)
(* the breaker's mutex, so what it reports may be out of date.               *)
(*                                                                         *)
(* The poll gate is the abstract AdmissionGate, which ImageAdmission         *)
(* implements.  A Client is the goroutine of an image attempt: it passes the *)
(* breaker twice, around the wait for the execution gate, and then polls.    *)
(* A tick of the clock is long: no tick passes while a goroutine is between  *)
(* its reading of the gate and the breaker's mutex.                          *)
(***************************************************************************)
EXTENDS Integers, FiniteSets

CONSTANTS Client,        \* image attempts
          LimitSetting,  \* the poll concurrencies that are configured
          StallSetting,  \* the stall durations configure() is called with
          DefaultStall,  \* what configure() takes for one that is not positive
          MaxPolls,      \* bound: polls of one attempt
          MaxTime        \* bound: ticks

ASSUME ClientAssumption == IsFiniteSet(Client)
ASSUME LimitAssumption == LimitSetting \subseteq Nat \ {0}
ASSUME StallAssumption == StallSetting \subseteq Int /\ DefaultStall \in Nat \ {0}
ASSUME BoundAssumption == MaxPolls \in Nat /\ MaxTime \in Nat

VARIABLES
    inside,    \* clients that own a poll slot
    waiting,   \* clients in the poll gate's queue
    limit,     \* the poll gate's limit
    open,      \* the poll gate is never closed
    clock,     \* time in ticks
    breaker,   \* the fields of imagePollStallBreaker
    place,     \* where each attempt is
    seen,      \* the gate as an observer has read it
    polls,     \* polls of the attempt so far
    lastDone,  \* ghost: when an exchange was last completed
    enabledAt, \* ghost: when the breaker was last enabled
    lastFree   \* ghost: the end of the last tick that left a slot free

gate == <<inside, waiting, limit, open>>
vars == <<inside, waiting, limit, open, clock, breaker, place, seen, polls,
          lastDone, enabledAt, lastFree>>

Gate == INSTANCE AdmissionGate WITH Limit <- LimitSetting

NoTime == -1
NoLook == [active |-> -1, limit |-> -1]
Time == 0..MaxTime

\* The places in which an attempt is about to tell the breaker of the gate.
Observing == {"first", "second", "acquired", "canceled", "completed", "released",
              "status"}
Place == Observing \union {"idle", "admitted", "waiting", "polling", "releasing"}

\* An attempt may wait for the execution gate before its second look; every
\* other observation is over within a tick.
MidObservation(c) ==
    place[c] \in Observing /\ (place[c] = "second" => seen[c] # NoLook)

-----------------------------------------------------------------------------
\* Every poll slot of the gate is taken, as the observer has read it.
Full(look) == look.limit > 0 /\ look.active >= look.limit

CloseLocked(b) == [b EXCEPT !.open = FALSE, !.openedAt = NoTime]

\* Variant for mutation: a drained gate does not close the breaker.
ObserveAdmissionStaysOpen(b, look) ==
    IF ~b.enabled THEN b
    ELSE IF Full(look)
         THEN IF b.fullSince = NoTime THEN [b EXCEPT !.fullSince = clock] ELSE b
         ELSE [b EXCEPT !.fullSince = NoTime]

ObserveAdmissionLocked(b, look) ==
    IF ~b.enabled THEN b
    ELSE IF Full(look)
         THEN IF b.fullSince = NoTime THEN [b EXCEPT !.fullSince = clock] ELSE b
         ELSE LET cleared == [b EXCEPT !.fullSince = NoTime]
              IN  IF b.open /\ look.active = 0 THEN CloseLocked(cleared) ELSE cleared

\* Variant for mutation: completed exchanges do not count as progress.
BaselineFull(b) == b.fullSince

\* The stall is counted from here.
Baseline(b) ==
    IF b.lastCompletion > b.fullSince THEN b.lastCompletion ELSE b.fullSince

EvaluateLocked(b, look) ==
    IF /\ b.enabled /\ ~b.open
       /\ Full(look)
       /\ b.fullSince # NoTime
       /\ clock - Baseline(b) >= b.stall
    THEN [b EXCEPT !.open = TRUE, !.openedAt = clock]
    ELSE b

\* observeAdmission(), and the first half of reject() and snapshot().
Observed(b, look) == EvaluateLocked(ObserveAdmissionLocked(b, look), look)

\* observeCompletion().
Completed(b, look, canceled) ==
    LET told == IF canceled THEN b
                ELSE CloseLocked([b EXCEPT !.lastCompletion = clock])
        next == ObserveAdmissionLocked(told, look)
    IN  IF next.open /\ look.active = 0 THEN CloseLocked(next) ELSE next

\* Variant for mutation: the history of the time before is kept.
ConfiguredKeeps(b, on, d) ==
    [b EXCEPT !.enabled = on, !.stall = IF d <= 0 THEN DefaultStall ELSE d]

\* Variant for mutation: a duration that is not positive is kept.
ConfiguredUnclamped(b, on, d) ==
    IF ~on
    THEN [CloseLocked(b) EXCEPT !.enabled = FALSE, !.stall = d, !.fullSince = NoTime]
    ELSE [b EXCEPT !.enabled = TRUE, !.stall = d,
                   !.fullSince = IF b.enabled THEN @ ELSE NoTime]

\* configure().
Configured(b, on, d) ==
    LET stall == IF d <= 0 THEN DefaultStall ELSE d
    IN  IF ~on
        THEN [CloseLocked(b) EXCEPT !.enabled = FALSE, !.stall = stall,
                                    !.fullSince = NoTime]
        ELSE [b EXCEPT !.enabled = TRUE, !.stall = stall,
                       !.fullSince = IF b.enabled THEN @ ELSE NoTime]

-----------------------------------------------------------------------------
Init ==
    /\ Gate!GateInit
    /\ clock = 0
    /\ breaker = [enabled |-> FALSE, stall |-> 0, open |-> FALSE,
                  openedAt |-> NoTime, fullSince |-> NoTime,
                  lastCompletion |-> NoTime]
    /\ place = [c \in Client |-> "idle"]
    /\ seen = [c \in Client |-> NoLook]
    /\ polls = [c \in Client |-> 0]
    /\ lastDone = NoTime
    /\ enabledAt = NoTime
    /\ lastFree = 0

Goto(c, p) == place' = [place EXCEPT ![c] = p]
Forget(c) == seen' = [seen EXCEPT ![c] = NoLook]

\* An attempt comes to AcquireChatGPTWebImageExecution.
Begin(c) ==
    /\ place[c] = "idle"
    /\ Goto(c, "first")
    /\ UNCHANGED <<gate, clock, breaker, seen, polls, lastDone, enabledAt, lastFree>>

\* An observer reads the gate under the gate's mutex.
ReadGate(c) ==
    /\ place[c] \in Observing
    /\ seen[c] = NoLook
    /\ seen' = [seen EXCEPT ![c] = [active |-> Cardinality(inside), limit |-> limit]]
    /\ UNCHANGED <<gate, clock, breaker, place, polls, lastDone, enabledAt, lastFree>>

\* An observer holds the breaker's mutex with what it has read.
Observe(c, next) ==
    /\ seen[c] # NoLook
    /\ breaker' = next
    /\ Forget(c)
    /\ UNCHANGED <<gate, clock, polls, lastDone, enabledAt, lastFree>>

\* reject(), before and after the wait for the execution gate.
Reject(c) ==
    LET next == Observed(breaker, seen[c])
        passed == IF place[c] = "first" THEN "second" ELSE "admitted"
    IN  /\ place[c] \in {"first", "second"}
        /\ Observe(c, next)
        /\ Goto(c, IF next.enabled /\ next.open THEN "idle" ELSE passed)

\* The execution gate is full or the request ends while it waits there.
AdmissionFails(c) ==
    /\ place[c] = "second"
    /\ seen[c] = NoLook
    /\ Goto(c, "idle")
    /\ UNCHANGED <<gate, clock, breaker, seen, polls, lastDone, enabledAt, lastFree>>

-----------------------------------------------------------------------------
\* The attempt asks for a poll slot: it gets one or queues.
AcquirePoll(c) ==
    /\ place[c] = "admitted"
    /\ polls[c] < MaxPolls
    /\ polls' = [polls EXCEPT ![c] = @ + 1]
    /\ \/ Gate!Enter(c) /\ Goto(c, "acquired")
       \/ Gate!Join(c) /\ Goto(c, "waiting")
    /\ UNCHANGED <<clock, breaker, seen, lastDone, enabledAt, lastFree>>

\* The waiter receives the slot it was granted.
Granted(c) ==
    /\ place[c] = "waiting"
    /\ c \in inside
    /\ Goto(c, "acquired")
    /\ UNCHANGED <<gate, clock, breaker, seen, polls, lastDone, enabledAt, lastFree>>

\* The request ends while the attempt waits for a slot; one that was granted
\* meanwhile goes back to the gate.  The breaker is not told.
CancelWait(c) ==
    /\ place[c] = "waiting"
    /\ Gate!Leave(c) \/ Gate!GiveBack(c)
    /\ Goto(c, "admitted")
    /\ UNCHANGED <<clock, breaker, seen, polls, lastDone, enabledAt, lastFree>>

\* observeAdmission() after the slot was acquired; the exchange begins.
ObserveAcquired(c) ==
    /\ place[c] = "acquired"
    /\ Observe(c, Observed(breaker, seen[c]))
    /\ Goto(c, "polling")

\* The exchange ends: with an answer or an error of the upstream, or because
\* the request has ended.
EndExchange(c, canceled) ==
    /\ place[c] = "polling"
    /\ Goto(c, IF canceled THEN "canceled" ELSE "completed")
    /\ lastDone' = IF canceled THEN lastDone ELSE clock
    /\ UNCHANGED <<gate, clock, breaker, seen, polls, enabledAt, lastFree>>

\* ObserveChatGPTWebImagePollCompletion, with the slot still held.
ObserveCompletion(c) ==
    /\ place[c] \in {"canceled", "completed"}
    /\ Observe(c, Completed(breaker, seen[c], place[c] = "canceled"))
    /\ Goto(c, "releasing")

\* The deferred release gives the slot back to the gate ...
ReleasePoll(c) ==
    /\ place[c] = "releasing"
    /\ Gate!GiveBack(c)
    /\ Goto(c, "released")
    /\ UNCHANGED <<clock, breaker, seen, polls, lastDone, enabledAt, lastFree>>

\* ... and then reports the gate.
ObserveReleased(c) ==
    /\ place[c] = "released"
    /\ Observe(c, Observed(breaker, seen[c]))
    /\ Goto(c, "admitted")

EndAttempt(c) ==
    /\ place[c] = "admitted"
    /\ Goto(c, "idle")
    /\ polls' = [polls EXCEPT ![c] = 0]
    /\ UNCHANGED <<gate, clock, breaker, seen, lastDone, enabledAt, lastFree>>

\* A management request asks for the breaker's state, which brings it up to date.
AskStatus(c) ==
    /\ place[c] = "idle"
    /\ Goto(c, "status")
    /\ UNCHANGED <<gate, clock, breaker, seen, polls, lastDone, enabledAt, lastFree>>

\* snapshot().
Status(c) ==
    /\ place[c] = "status"
    /\ Observe(c, Observed(breaker, seen[c]))
    /\ Goto(c, "idle")

-----------------------------------------------------------------------------
\* A hot reload of the breaker's policy.
Configure(on, d) ==
    /\ breaker' = Configured(breaker, on, d)
    /\ enabledAt' = IF on /\ ~breaker.enabled THEN clock ELSE enabledAt
    /\ UNCHANGED <<gate, clock, place, seen, polls, lastDone, lastFree>>

\* A hot reload of the poll concurrency.
ConfigureGate(l) ==
    /\ Gate!Resize(l)
    /\ UNCHANGED <<clock, breaker, place, seen, polls, lastDone, enabledAt, lastFree>>

Tick ==
    /\ clock < MaxTime
    /\ \A c \in Client : ~MidObservation(c)
    /\ clock' = clock + 1
    /\ lastFree' = IF Cardinality(inside) < limit THEN clock' ELSE lastFree
    /\ UNCHANGED <<gate, breaker, place, seen, polls, lastDone, enabledAt>>

\* What an attempt's goroutine does by itself.
Step(c) ==
    \/ ReadGate(c) \/ Reject(c) \/ AdmissionFails(c)
    \/ AcquirePoll(c) \/ Granted(c) \/ CancelWait(c) \/ ObserveAcquired(c)
    \/ \E canceled \in BOOLEAN : EndExchange(c, canceled)
    \/ ObserveCompletion(c) \/ ReleasePoll(c) \/ ObserveReleased(c)
    \/ EndAttempt(c) \/ Status(c)

Next ==
    \/ \E c \in Client : Begin(c) \/ AskStatus(c) \/ Step(c)
    \/ \E on \in BOOLEAN, d \in StallSetting : Configure(on, d)
    \/ \E l \in LimitSetting : ConfigureGate(l)
    \/ Tick

Spec == Init /\ [][Next]_vars

\* Goroutines run on, every poll exchange ends (it answers, or its transport or
\* its request's context ends it), and clients keep sending requests.
Fairness == \A c \in Client : WF_vars(Step(c)) /\ WF_vars(Begin(c))

FairSpec == Spec /\ Fairness

-----------------------------------------------------------------------------
\* Every variable keeps the type of the field or local it stands for, an
\* enabled breaker has a positive duration, and an open one an opening time.
TypeOK ==
    /\ inside \subseteq Client
    /\ waiting \subseteq Client
    /\ limit \in LimitSetting
    /\ open = TRUE
    /\ clock \in Time
    /\ breaker \in [enabled : BOOLEAN, stall : Nat, open : BOOLEAN,
                    openedAt : Time \union {NoTime},
                    fullSince : Time \union {NoTime},
                    lastCompletion : Time \union {NoTime}]
    /\ breaker.enabled => breaker.stall > 0
    /\ breaker.open <=> breaker.openedAt # NoTime
    /\ place \in [Client -> Place]
    /\ seen \in [Client -> [active : Nat, limit : Nat] \union {NoLook}]
    /\ polls \in [Client -> 0..MaxPolls]
    /\ lastDone \in Time \union {NoTime}
    /\ enabledAt \in Time \union {NoTime}
    /\ lastFree \in Time

\* A hot reload starts the breaker afresh: a disabled one is closed and knows
\* of no saturation, whoever is about to report, and an enabled one counts
\* only from saturation seen since it was enabled.
OwnHistory ==
    /\ ~breaker.enabled => ~breaker.open /\ breaker.fullSince = NoTime
    /\ breaker.fullSince # NoTime => breaker.fullSince >= enabledAt

\* The breaker opens only when no exchange has completed for the stall
\* duration, or one that has is about to say so.
OpensWithoutCompletion ==
    [][breaker'.open /\ ~breaker.open =>
          \/ clock - lastDone >= breaker.stall
          \/ \E c \in Client : place[c] = "completed"]_vars

\* The breaker opens only when no tick within the stall duration left a slot of
\* the gate free (the test TestImagePollStallBreakerRequiresContinuousFullSaturation
\* says that no saturation time is retained across a non-full interval).
OpensAfterContinuousSaturation ==
    [][breaker'.open /\ ~breaker.open => clock - lastFree >= breaker.stall]_vars

\* The breaker never locks the image pipeline up: though it refuses the
\* attempts whose polls could close it, it closes once those inside are over,
\* also when the last slot came back without a report (a cancelled wait).
BreakerCloses == breaker.open ~> ~breaker.open

=============================================================================
