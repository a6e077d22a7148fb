------------------------- MODULE RefreshPersistence -------------------------
(***************************************************************************)
(* The refresh-write admission coordinator of the credential manager       *)
(* (sdk/cliproxy/auth/refresh_persistence.go).  A goroutine that is about   *)
(* to write a refreshed credential first acquires a reservation from the   *)
(* coordinator; at most Concurrency reservations are out at a time, further *)
(* callers wait in one FIFO queue per priority class, and a released slot   *)
(* is handed over to the waiter that popWaiterLocked picks.                *)
(*                                                                         *)
(* A Caller is a goroutine; it may call acquireContext any number of times. *)
(* Every action that the code runs under coordinator.mu is one step; the    *)
(* code between two critical sections is where the steps of other callers,  *)
(* cancellations and close() interleave.                                   *)
(***************************************************************************)
EXTENDS Integers, Sequences, FiniteSets, SequencesExt

CONSTANTS Caller,            \* the goroutines that acquire reservations
          Concurrency,       \* coordinator.concurrency
          QueueLimit,        \* refreshPersistenceQueueLimit (512 in the code)
          SessionBurst,      \* refreshPersistenceSessionBurst (8)
          MaintenanceBurst   \* refreshPersistenceMaintenanceBurst (16)

ASSUME CallerAssumption == IsFiniteSet(Caller)
ASSUME ConcurrencyAssumption == Concurrency \in Nat \ {0}
ASSUME QueueLimitAssumption == QueueLimit \in Nat
ASSUME BurstAssumption ==
    /\ SessionBurst \in Nat \ {0}
    /\ MaintenanceBurst \in Nat
    /\ SessionBurst < MaintenanceBurst

Priority == {"maintenance", "import", "session"}

VARIABLES
    queues,       \* coordinator.queues: one FIFO queue of callers per class
    active,       \* coordinator.active
    sinceImport,  \* coordinator.sinceImport, not counted beyond SessionBurst
    sinceMaint,   \* coordinator.sinceMaint, not counted beyond MaintenanceBurst
    closed,       \* coordinator.closed
    pc,           \* where each caller is in acquireContext
    prio,         \* waiter.priority of the caller's current call
    queued,       \* waiter.queued
    grant,        \* what is in the one-slot channel waiter.grant
    ctxDone,      \* ctx.Err() # nil for the caller's current call
    bypass        \* history: consecutive grants to other classes while a
                  \* class has a waiter (read by properties only)

coordinator == <<queues, active, sinceImport, sinceMaint, closed, bypass>>
vars == <<queues, active, sinceImport, sinceMaint, closed,
          pc, prio, queued, grant, ctxDone, bypass>>

\* "idle": not in acquireContext.  "entering": past the first ctx.Err() test,
\* before coordinator.mu.Lock().  "waiting": in the outer select.
\* "cancelling": took the ctx.Done() branch.  "draining": found itself no
\* longer queued, before the inner select.  "holding": returned a reservation.
\* "releasing": got a reservation that a cancelled call gives back.
Stage == {"idle", "entering", "waiting", "cancelling", "draining",
          "holding", "releasing"}

Grant == {"none", "nil", "reservation"}

-----------------------------------------------------------------------------
Waiting(p) == queues[p] # <<>>

QueuedCount ==
    Len(queues["maintenance"]) + Len(queues["import"]) + Len(queues["session"])

\* Callers that own one of the active slots: the reservation has been
\* returned to them or sits in their grant channel.
Outstanding ==
    {c \in Caller : pc[c] \in {"holding", "releasing"} \/ grant[c] = "reservation"}

\* Callers whose waiter is in a queue.
Queueing == {c \in Caller : queued[c]}

\* Counting that stops at a bound: the code only asks whether it is reached.
CountUpTo(n, bound) == IF n < bound THEN n + 1 ELSE n

\* popWaiterLocked: the class the next waiter is taken from.  A class whose
\* burst counter has run out goes first, maintenance before import; otherwise
\* sessions, then imports, then maintenance.
MaintenanceDue == Waiting("maintenance") /\ sinceMaint >= MaintenanceBurst
ImportDue == Waiting("import") /\ sinceImport >= SessionBurst

\* Variant for mutation: maintenance is served only when its burst ran out.
PicksNoFallback(p) ==
    /\ Waiting(p)
    /\ \/ p = "maintenance" /\ MaintenanceDue
       \/ p = "import" /\ ~MaintenanceDue /\ (ImportDue \/ ~Waiting("session"))
       \/ p = "session" /\ ~MaintenanceDue /\ ~ImportDue

Picks(p) ==
    /\ Waiting(p)
    /\ \/ p = "maintenance" /\ (MaintenanceDue \/ ~(Waiting("session") \/ Waiting("import")))
       \/ p = "import" /\ ~MaintenanceDue /\ (ImportDue \/ ~Waiting("session"))
       \/ p = "session" /\ ~MaintenanceDue /\ ~ImportDue

\* Variant for mutation: serving an import resets both burst counters.
PopWaiterResetsBoth(p) ==
    /\ queues' = [queues EXCEPT ![p] = Tail(@)]
    /\ sinceImport' = IF p = "session" THEN CountUpTo(sinceImport, SessionBurst) ELSE 0
    /\ sinceMaint' = IF p = "session" THEN CountUpTo(sinceMaint, MaintenanceBurst) ELSE 0
    /\ bypass' = [q \in Priority |->
                    IF q = p \/ ~Waiting(q) THEN 0 ELSE bypass[q] + 1]

\* popWaiterLocked, its effect on the queues and the burst counters.
PopWaiter(p) ==
    /\ queues' = [queues EXCEPT ![p] = Tail(@)]
    /\ sinceImport' = IF p = "session" THEN CountUpTo(sinceImport, SessionBurst) ELSE 0
    /\ sinceMaint' = IF p = "maintenance" THEN 0 ELSE CountUpTo(sinceMaint, MaintenanceBurst)
    /\ bypass' = [q \in Priority |->
                    IF q = p \/ ~Waiting(q) THEN 0 ELSE bypass[q] + 1]

-----------------------------------------------------------------------------
Init ==
    /\ queues = [p \in Priority |-> <<>>]
    /\ active = 0
    /\ sinceImport = 0
    /\ sinceMaint = 0
    /\ closed = FALSE
    /\ pc = [c \in Caller |-> "idle"]
    /\ prio = [c \in Caller |-> "maintenance"]
    /\ queued = [c \in Caller |-> FALSE]
    /\ grant = [c \in Caller |-> "none"]
    /\ ctxDone = [c \in Caller |-> FALSE]
    /\ bypass = [p \in Priority |-> 0]

\* acquireContext up to coordinator.mu.Lock(), with a live context.
Begin(c, p) ==
    /\ pc[c] = "idle"
    /\ pc' = [pc EXCEPT ![c] = "entering"]
    /\ prio' = [prio EXCEPT ![c] = p]
    /\ UNCHANGED <<coordinator, queued, grant, ctxDone>>

\* The call, or the use of its reservation, is over: its locals are gone.
Return(c) ==
    /\ pc' = [pc EXCEPT ![c] = "idle"]
    /\ prio' = [prio EXCEPT ![c] = "maintenance"]
    /\ ctxDone' = [ctxDone EXCEPT ![c] = FALSE]

\* The caller's context is cancelled or reaches its deadline.
CancelContext(c) ==
    /\ pc[c] \in {"entering", "waiting"}
    /\ ~ctxDone[c]
    /\ ctxDone' = [ctxDone EXCEPT ![c] = TRUE]
    /\ UNCHANGED <<coordinator, pc, prio, queued, grant>>

\* First critical section, error returns: the context ended before the lock
\* was taken, the coordinator is closed, or the queue is full.
Refuse(c) ==
    /\ pc[c] = "entering"
    /\ \/ ctxDone[c]
       \/ closed
       \/ /\ ~(active < Concurrency /\ QueuedCount = 0)
          /\ QueuedCount >= QueueLimit
    /\ Return(c)
    /\ UNCHANGED <<coordinator, queued, grant>>

\* First critical section, immediate grant.
Admit(c) ==
    /\ pc[c] = "entering"
    /\ ~ctxDone[c]
    /\ ~closed
    /\ active < Concurrency
    /\ QueuedCount = 0
    /\ active' = active + 1
    /\ pc' = [pc EXCEPT ![c] = "holding"]
    /\ UNCHANGED <<queues, sinceImport, sinceMaint, closed, bypass,
                   prio, queued, grant, ctxDone>>

\* First critical section, no free slot: append to the queue of the class.
Enqueue(c) ==
    /\ pc[c] = "entering"
    /\ ~ctxDone[c]
    /\ ~closed
    /\ ~(active < Concurrency /\ QueuedCount = 0)
    /\ QueuedCount < QueueLimit
    /\ queues' = [queues EXCEPT ![prio[c]] = Append(@, c)]
    /\ queued' = [queued EXCEPT ![c] = TRUE]
    /\ pc' = [pc EXCEPT ![c] = "waiting"]
    /\ UNCHANGED <<active, sinceImport, sinceMaint, closed, bypass,
                   prio, grant, ctxDone>>

\* The select takes a reservation from waiter.grant; one that arrives after
\* the context ended is given back.
ReceiveReservation(c) ==
    /\ pc[c] = "waiting"
    /\ grant[c] = "reservation"
    /\ grant' = [grant EXCEPT ![c] = "none"]
    /\ pc' = [pc EXCEPT ![c] = IF ctxDone[c] THEN "releasing" ELSE "holding"]
    /\ UNCHANGED <<coordinator, prio, queued, ctxDone>>

\* The select takes the nil that close() sent: the closed error.
ReceiveClosed(c) ==
    /\ pc[c] = "waiting"
    /\ grant[c] = "nil"
    /\ grant' = [grant EXCEPT ![c] = "none"]
    /\ Return(c)
    /\ UNCHANGED <<coordinator, queued>>

\* The select takes ctx.Done(), possibly with a grant in the channel.
ObserveDone(c) ==
    /\ pc[c] = "waiting"
    /\ ctxDone[c]
    /\ pc' = [pc EXCEPT ![c] = "cancelling"]
    /\ UNCHANGED <<coordinator, prio, queued, grant, ctxDone>>

\* Variant for mutation: the place of the waiter is set to nil, not closed up.
CancelLeavesNil(c) ==
    /\ pc[c] = "cancelling"
    /\ queued[c]
    /\ \E i \in 1..Len(queues[prio[c]]) :
          /\ queues[prio[c]][i] = c
          /\ queues' = [queues EXCEPT ![prio[c]] = [@ EXCEPT ![i] = "nil"]]
    /\ queued' = [queued EXCEPT ![c] = FALSE]
    /\ Return(c)
    /\ UNCHANGED <<active, sinceImport, sinceMaint, closed, bypass, grant>>

\* Second critical section, still queued: removeWaiterLocked and return.
CancelQueued(c) ==
    /\ pc[c] = "cancelling"
    /\ queued[c]
    /\ \E i \in 1..Len(queues[prio[c]]) :
          /\ queues[prio[c]][i] = c
          /\ queues' = [queues EXCEPT ![prio[c]] = RemoveAt(@, i)]
    /\ queued' = [queued EXCEPT ![c] = FALSE]
    /\ bypass' = [p \in Priority |-> IF queues'[p] = <<>> THEN 0 ELSE bypass[p]]
    /\ Return(c)
    /\ UNCHANGED <<active, sinceImport, sinceMaint, closed, grant>>

\* Second critical section, already dequeued by release() or close().
CancelDequeued(c) ==
    /\ pc[c] = "cancelling"
    /\ ~queued[c]
    /\ pc' = [pc EXCEPT ![c] = "draining"]
    /\ UNCHANGED <<coordinator, prio, queued, grant, ctxDone>>

\* Variant for mutation: a cancelled caller forgets the grant it was sent.
DrainReservationLeaks(c) ==
    /\ pc[c] = "draining"
    /\ grant[c] = "reservation"
    /\ grant' = [grant EXCEPT ![c] = "none"]
    /\ Return(c)
    /\ UNCHANGED <<coordinator, queued>>

\* The inner select: a reservation in the channel is given back ...
DrainReservation(c) ==
    /\ pc[c] = "draining"
    /\ grant[c] = "reservation"
    /\ grant' = [grant EXCEPT ![c] = "none"]
    /\ pc' = [pc EXCEPT ![c] = "releasing"]
    /\ UNCHANGED <<coordinator, prio, queued, ctxDone>>

\* ... and a nil or nothing needs no release.
DrainNothing(c) ==
    /\ pc[c] = "draining"
    /\ grant[c] # "reservation"
    /\ grant' = [grant EXCEPT ![c] = "none"]
    /\ Return(c)
    /\ UNCHANGED <<coordinator, queued>>

\* reservation.release(): the slot is freed and, unless the coordinator is
\* closed, handed over to the next waiter in the same critical section.
FreeSlot == IF active > 0 THEN active - 1 ELSE active

\* Variant for mutation: the waiter's slot is not counted.
HandOverUncounted(p) ==
    LET w == Head(queues[p]) IN
    /\ Picks(p)
    /\ PopWaiter(p)
    /\ active' = FreeSlot
    /\ queued' = [queued EXCEPT ![w] = FALSE]
    /\ grant' = [grant EXCEPT ![w] = "reservation"]

HandOver(p) ==
    LET w == Head(queues[p]) IN
    /\ Picks(p)
    /\ PopWaiter(p)
    /\ active' = FreeSlot + 1
    /\ queued' = [queued EXCEPT ![w] = FALSE]
    /\ grant' = [grant EXCEPT ![w] = "reservation"]

Release(c) ==
    /\ pc[c] \in {"holding", "releasing"}
    /\ \/ ~closed /\ \E p \in Priority : HandOver(p)
       \/ /\ closed \/ \A p \in Priority : ~Picks(p)
          /\ active' = FreeSlot
          /\ UNCHANGED <<queues, sinceImport, sinceMaint, bypass, queued, grant>>
    /\ Return(c)
    /\ UNCHANGED closed

\* Variant for mutation: the loop over the queues leaves out the session class.
DismissedByRank ==
    {c \in Caller : \E p \in Priority \ {"session"} : c \in Range(queues[p])}

\* The waiters close() finds in the queues.
Dismissed == {c \in Caller : \E p \in Priority : c \in Range(queues[p])}

\* coordinator.close(): every queued waiter is sent a nil reservation.
Close ==
    /\ ~closed
    /\ closed' = TRUE
    /\ grant' = [c \in Caller |-> IF c \in Dismissed THEN "nil" ELSE grant[c]]
    /\ queued' = [c \in Caller |-> queued[c] /\ c \notin Dismissed]
    /\ queues' = [p \in Priority |-> <<>>]
    /\ bypass' = [p \in Priority |-> 0]
    /\ UNCHANGED <<active, sinceImport, sinceMaint, pc, prio, ctxDone>>

\* What a caller's goroutine does by itself once it has begun.
Step(c) ==
    \/ Refuse(c)
    \/ Admit(c)
    \/ Enqueue(c)
    \/ ReceiveReservation(c)
    \/ ReceiveClosed(c)
    \/ ObserveDone(c)
    \/ CancelQueued(c)
    \/ CancelDequeued(c)
    \/ DrainReservation(c)
    \/ DrainNothing(c)
    \/ Release(c)

Next ==
    \/ \E c \in Caller : \/ \E p \in Priority : Begin(c, p)
                         \/ CancelContext(c)
                         \/ Step(c)
    \/ Close

Spec == Init /\ [][Next]_vars

\* A goroutine inside acquireContext runs on, and a holder's store write ends
\* (every write runs under a timeout) and is followed by release().
Fairness == \A c \in Caller : WF_vars(Step(c))

FairSpec == Spec /\ Fairness

-----------------------------------------------------------------------------
\* Every variable keeps the type of the field or local it stands for.
TypeOK ==
    /\ queues \in [Priority -> Seq(Caller)]
    /\ active \in Nat
    /\ sinceImport \in 0..SessionBurst
    /\ sinceMaint \in 0..MaintenanceBurst
    /\ closed \in BOOLEAN
    /\ pc \in [Caller -> Stage]
    /\ prio \in [Caller -> Priority]
    /\ queued \in [Caller -> BOOLEAN]
    /\ grant \in [Caller -> Grant]
    /\ ctxDone \in [Caller -> BOOLEAN]
    /\ bypass \in [Priority -> Nat]

\* No slot is lost or counted twice: active is the number of reservations
\* that are out, also while a cancelled caller races with the grant it was
\* just sent (acquireContext's ctx.Done() branch against release()).
SlotAccounting == active = Cardinality(Outstanding)

\* At most Concurrency store writes are admitted at a time, although a
\* released slot is handed over without re-testing the limit.
BoundedConcurrency == Cardinality(Outstanding) <= Concurrency

\* No slot idles while somebody waits: release() wakes a single waiter and a
\* cancellation wakes none, so a waiter that was passed over would never run.
WorkConserving == QueuedCount > 0 => active = Concurrency

\* A caller in the select is either in its queue or has its answer in the
\* channel: neither a hand-over nor close() can strand it.
NobodyStranded ==
    \A c \in Caller : pc[c] \in {"waiting", "cancelling"} =>
        IF grant[c] = "none"
        THEN /\ queued[c]
             /\ \E i \in 1..Len(queues[prio[c]]) :
                   \A j \in 1..Len(queues[prio[c]]) : queues[prio[c]][j] = c <=> j = i
        ELSE ~queued[c] /\ \A p \in Priority : c \notin Range(queues[p])

\* The burst counters bound how often a class with a waiter is passed over,
\* whatever mix of callers keeps arriving.
BoundedBypass ==
    /\ bypass["maintenance"] <= MaintenanceBurst
    /\ bypass["import"] <= 2 * SessionBurst + 1
    /\ bypass["session"] <= 2

\* Nobody is admitted once the coordinator is closed: the count of admitted
\* writes only falls.
NoAdmissionAfterClose ==
    [][closed => closed' /\ Outstanding' \subseteq Outstanding]_vars

\* Every caller in the queue gets an answer (grant, cancellation or closed
\* error), whatever its class, although callers of every class keep coming.
EveryWaiterReturns ==
    \A c \in Caller : pc[c] = "waiting" ~> pc[c] # "waiting"

\* After close() the last reservation is given back.
CloseDrains == closed ~> active = 0

\* The coordinator implements the admission gate: a slot changes hands, a
\* waiter leaves and close() turns waiters away exactly as the gate allows.
Gate == INSTANCE AdmissionGate WITH
            Client <- Caller,
            Limit <- {Concurrency},
            inside <- Outstanding,
            waiting <- Queueing,
            limit <- Concurrency,
            open <- ~closed

ImplementsGate == Gate!GateSpec

=============================================================================
