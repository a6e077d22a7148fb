------------------------- MODULE ResultPersistence -------------------------
(***************************************************************************)
(* The background writer of result state                                    *)
(* (sdk/cliproxy/auth/result_persistence.go).  A result of an upstream call *)
(* changes a credential in memory under that credential's result lock and   *)
(* enqueues it; a pool of workers saves what is enqueued.  Results of a     *)
(* credential that is queued already are coalesced, a full queue is         *)
(* replaced by a rescan of the whole manager, failed saves are retried and  *)
(* close() drains what is left, once those who may still bring results     *)
(* have ended, or have been waited for long enough.  The store refuses a save whose source hash *)
(* is not the one of the stored file.                                       *)
(*                                                                         *)
(* A content of a credential's durable metadata is a version number; the    *)
(* source hash of the runtime credential is the version it was loaded from  *)
(* or last saved as.  Of entry.generation only what is asked of it is kept: *)
(* whether it has passed the generation the worker took.                    *)
(***************************************************************************)
EXTENDS Integers, Sequences, FiniteSets, SequencesExt

CONSTANTS Auth,          \* credentials
          Producer,      \* goroutines that bring results: at most so many at a time
          Worker,        \* workerLimit places for worker goroutines
          QueueLimit,    \* queueLimit
          Shared,        \* bound: credentials others write, or whose hash may be lost
          MaxVersion,    \* bound: results, foreign writes, lost hashes per credential ...
          MaxEvents,     \* ... and of all credentials
          MaxFault       \* bound: failed admissions and saves

ASSUME FiniteAssumption == IsFiniteSet(Producer) /\ IsFiniteSet(Auth) /\ IsFiniteSet(Worker) /\ Worker # {}
ASSUME BoundAssumption == Shared \subseteq Auth /\ QueueLimit \in Nat \ {0} /\ MaxVersion \in Nat
                          /\ MaxEvents \in Nat /\ MaxFault \in Nat

VARIABLES
    mem,            \* content of each credential in the manager
    src,            \* its source hash, NoHash if it has none
    disk,           \* content of its file
    ver,            \* events so far: the source of new versions
    producer,       \* what each producer is, see Register
    producing,      \* whose result holds the result lock, not yet enqueued
    status,         \* its entry: "none", "queued", "active"
    newer,          \* entry.generation passed the one the worker took
    resting,        \* entry.retryAt lies ahead
    queue,          \* coordinator.queue
    rescanNeeded,   \* coordinator.rescanNeeded
    rescanRunning,  \* coordinator.rescanRunning
    accepting,      \* no executorsClosed, no resultProducerClosing yet
    closing,        \* coordinator.closing
    closed,         \* coordinator.closed, and its context cancelled
    expired,        \* the drain deadline of close() has passed
    pc,             \* where each worker is, "off" if it does not live
    work,           \* what a worker persists
    scan,           \* the locals of a worker's rescan
    faults,         \* failures so far
    dropped         \* ghost: results nobody tracks any more, by design

content == <<mem, src, disk, ver>>
entries == <<status, newer, resting, queue>>
lifecycle == <<accepting, closing, closed, expired>>
producers == <<producer, producing>>
vars == <<mem, src, disk, ver, producers, status, newer, resting, queue,
          rescanNeeded, rescanRunning, lifecycle, pc, work, scan,
          faults, dropped>>

NoHash == -1
Version == 0..MaxVersion
NoAuth == "no auth"
NoProducer == "no producer"

\* The null values are none of the values they stand beside.
ASSUME NullAssumption == NoAuth \notin Auth /\ NoProducer \notin Producer

NoWork == [auth |-> NoAuth, snap |-> 0, base |-> NoHash]
NoScan == [todo |-> {}, found |-> {}, room |-> 0, more |-> FALSE]

\* "idling" and "napping": in the select, with the idle timeout or until the
\* first retry.  "acquiring": before the admission and the credential's lock.
\* "saving", "syncing": inside the lock.  The last three: before finish*().
Stage == {"off", "loop", "scanning", "idling", "napping", "acquiring",
          "saving", "syncing", "succeeded", "failed", "terminal"}

Entries == {a \in Auth : status[a] # "none"}
Live == {w \in Worker : pc[w] # "off"}

\* One more event of a is within the bounds.
MoreEvents(a) == ver[a] < MaxVersion /\ FoldFunction(+, 0, ver) < MaxEvents

Dirty(a) == src[a] # NoHash /\ mem[a] # src[a]

\* resultMetadataPersistenceNeeded: no content matches an empty hash.
PersistenceNeeded(a) == mem[a] # src[a]

\* A worker is inside lockAuthIDMutation of a.
Locked(a) == \E w \in Worker : work[w].auth = a /\ pc[w] \in {"saving", "syncing"}

-----------------------------------------------------------------------------
\* ensureWorkersLocked() with n entries; P is pc after the caller's own step.
EnsureWorkers(n, P) ==
    LET desired == IF n < Cardinality(Worker) THEN n ELSE Cardinality(Worker)
        live == Cardinality(Live)
    IN  \E S \in SUBSET {w \in Worker : P[w] = "off"} :
            /\ Cardinality(S) = IF closed \/ desired <= live THEN 0 ELSE desired - live
            /\ pc' = [w \in Worker |-> IF w \in S THEN "loop" ELSE P[w]]

\* Variant for mutation: an overflow is only remembered when no rescan runs.
OverflowMissed == rescanNeeded' = (rescanNeeded \/ ~rescanRunning)

\* enqueueInternal(), every queue place is taken.
Overflow == rescanNeeded' = TRUE

\* enqueueInternal(): whether the coordinator takes the result at all.
Accepts(allowClosing) == ~closed /\ (~closing \/ allowClosing)

\* enqueueInternal() once it accepts: coalesced, overflowed or queued.
Enqueue(a, P) ==
    \/ /\ status[a] # "none"
       /\ newer' = [newer EXCEPT ![a] = status[a] = "active"]
       /\ EnsureWorkers(Cardinality(Entries), P)
       /\ UNCHANGED <<status, resting, queue, rescanNeeded>>
    \/ /\ status[a] = "none"
       /\ Cardinality(Entries) >= QueueLimit
       /\ Overflow
       /\ EnsureWorkers(Cardinality(Entries), P)
       /\ UNCHANGED entries
    \/ /\ status[a] = "none"
       /\ Cardinality(Entries) < QueueLimit
       /\ status' = [status EXCEPT ![a] = "queued"]
       /\ queue' = Append(queue, a)
       /\ EnsureWorkers(Cardinality(Entries) + 1, P)
       /\ UNCHANGED <<newer, resting, rescanNeeded>>

-----------------------------------------------------------------------------
Init ==
    /\ mem = [a \in Auth |-> 0]
    /\ src = [a \in Auth |-> 0]
    /\ disk = [a \in Auth |-> 0]
    /\ ver = [a \in Auth |-> 0]
    /\ producer = [p \in Producer |-> "none"]
    /\ producing = [a \in Auth |-> NoProducer]
    /\ status = [a \in Auth |-> "none"]
    /\ newer = [a \in Auth |-> FALSE]
    /\ resting = [a \in Auth |-> FALSE]
    /\ queue = <<>>
    /\ rescanNeeded = FALSE
    /\ rescanRunning = FALSE
    /\ accepting = TRUE
    /\ closing = FALSE
    /\ closed = FALSE
    /\ expired = FALSE
    /\ pc = [w \in Worker |-> "off"]
    /\ work = [w \in Worker |-> NoWork]
    /\ scan = [w \in Worker |-> NoScan]
    /\ faults = 0
    /\ dropped = [a \in Auth |-> FALSE]

\* beginResultPersistenceProducer(), beginRequestRefreshFlight(): a request
\* (or probe, or lease of a live session), or a refresh that requests share,
\* is counted, unless the manager closes.
Register(p, kind) ==
    /\ producer[p] = "none"
    /\ accepting
    /\ producer' = [producer EXCEPT ![p] = kind]
    /\ UNCHANGED <<content, producing, entries, rescanNeeded, rescanRunning,
                   lifecycle, pc, work, scan, faults, dropped>>

\* It marks no more results.  The release of one that was abandoned is void.
Unregister(p) ==
    /\ producer[p] # "none"
    /\ \A a \in Auth : producing[a] # p
    /\ producer' = [producer EXCEPT ![p] = "none"]
    /\ UNCHANGED <<content, producing, entries, rescanNeeded, rescanRunning,
                   lifecycle, pc, work, scan, faults, dropped>>

\* A result is applied to the credential under its result lock; it changes
\* the durable content or only runtime fields.
Mutate(p, a, durable) ==
    /\ producer[p] # "none"
    /\ \A b \in Auth : producing[b] # p
    /\ producing[a] = NoProducer
    /\ MoreEvents(a)
    /\ ver' = [ver EXCEPT ![a] = @ + 1]
    /\ mem' = IF durable THEN [mem EXCEPT ![a] = ver[a] + 1] ELSE mem
    /\ producing' = [producing EXCEPT ![a] = p]
    /\ UNCHANGED <<src, disk, producer, entries, rescanNeeded, rescanRunning,
                   lifecycle, pc, work, scan, faults, dropped>>

\* The result is enqueued and the result lock released.
EnqueueResult(a) ==
    /\ producing[a] # NoProducer
    /\ Accepts(FALSE)
    /\ Enqueue(a, pc)
    /\ producing' = [producing EXCEPT ![a] = NoProducer]
    /\ dropped' = [dropped EXCEPT ![a] = FALSE]
    /\ UNCHANGED <<content, producer, rescanRunning, lifecycle, work, scan, faults>>

\* enqueue() refuses while the coordinator closes; no caller looks.  By design
\* that happens to abandoned producers only.
RefuseResult(a) ==
    /\ producing[a] # NoProducer
    /\ ~Accepts(FALSE)
    /\ producing' = [producing EXCEPT ![a] = NoProducer]
    /\ dropped' = [dropped EXCEPT ![a] = @ \/ producer[producing[a]] = "abandoned"]
    /\ UNCHANGED <<content, producer, entries, rescanNeeded, rescanRunning,
                   lifecycle, pc, work, scan, faults>>

\* Another process or the operator writes the file.
WriteFile(a) ==
    /\ a \in Shared
    /\ MoreEvents(a)
    /\ ver' = [ver EXCEPT ![a] = @ + 1]
    /\ disk' = [disk EXCEPT ![a] = ver[a] + 1]
    /\ UNCHANGED <<mem, src, producers, entries, rescanNeeded, rescanRunning,
                   lifecycle, pc, work, scan, faults, dropped>>

\* Variant for mutation: the credential's lock is not taken.
ReloadUnlocked(a, h) ==
    /\ h = NoHash => a \in Shared /\ MoreEvents(a)
    /\ ver' = IF h = NoHash THEN [ver EXCEPT ![a] = @ + 1] ELSE ver
    /\ mem' = [mem EXCEPT ![a] = disk[a]]
    /\ src' = [src EXCEPT ![a] = h]
    /\ UNCHANGED <<disk, producers, entries, rescanNeeded, rescanRunning,
                   lifecycle, pc, work, scan, faults, dropped>>

\* Update() installs the file's content, under the credential's lock; it does
\* not take the result lock.  The hash h may be missing; that is counted with
\* the results, so that it cannot happen for ever.
Reload(a, h) ==
    /\ ~Locked(a)
    /\ h = NoHash => a \in Shared /\ MoreEvents(a)
    /\ ver' = IF h = NoHash THEN [ver EXCEPT ![a] = @ + 1] ELSE ver
    /\ mem' = [mem EXCEPT ![a] = disk[a]]
    /\ src' = [src EXCEPT ![a] = h]
    /\ UNCHANGED <<disk, producers, entries, rescanNeeded, rescanRunning,
                   lifecycle, pc, work, scan, faults, dropped>>

\* The clock reaches entry.retryAt.
RetryDue(a) ==
    /\ resting[a]
    /\ resting' = [resting EXCEPT ![a] = FALSE]
    /\ UNCHANGED <<content, producers, status, newer, queue, rescanNeeded,
                   rescanRunning, lifecycle, pc, work, scan, faults, dropped>>

-----------------------------------------------------------------------------
Goto(w, stage) == pc' = [pc EXCEPT ![w] = stage]

\* runRescanIfNeeded(): the flag is taken, what is tracked is left out.
RescanStart(w) ==
    /\ pc[w] = "loop"
    /\ ~closed /\ rescanNeeded /\ ~rescanRunning
    /\ Cardinality(Entries) < QueueLimit
    /\ rescanNeeded' = FALSE
    /\ rescanRunning' = TRUE
    /\ scan' = [scan EXCEPT ![w] =
                  [todo |-> {a \in Auth : status[a] = "none" /\ src[a] # NoHash},
                   found |-> {}, room |-> QueueLimit - Cardinality(Entries),
                   more |-> FALSE]]
    /\ Goto(w, "scanning")
    /\ UNCHANGED <<content, producers, entries, lifecycle, work, faults, dropped>>

\* dirtyResultPersistenceAuthIDs(): one credential is compared with its source
\* hash, under its result lock.
RescanVisit(w, a) ==
    LET s == scan[w]
    IN  /\ pc[w] = "scanning"
        /\ a \in s.todo
        /\ producing[a] = NoProducer
        /\ scan' = [scan EXCEPT ![w] =
                      IF ~PersistenceNeeded(a) THEN [s EXCEPT !.todo = s.todo \ {a}]
                      ELSE IF Cardinality(s.found) >= s.room
                           THEN [s EXCEPT !.todo = {}, !.more = TRUE]
                           ELSE [s EXCEPT !.todo = s.todo \ {a}, !.found = s.found \union {a}]]
        /\ UNCHANGED <<content, producers, entries, rescanNeeded, rescanRunning,
                       lifecycle, pc, work, faults, dropped>>

\* A credential the scan found is enqueued, also while the coordinator closes.
RescanEnqueue(w, a) ==
    /\ pc[w] = "scanning"
    /\ scan[w].todo = {}
    /\ a \in scan[w].found
    /\ scan' = [scan EXCEPT ![w].found = @ \ {a}]
    /\ IF Accepts(TRUE)
       THEN Enqueue(a, pc) /\ dropped' = [dropped EXCEPT ![a] = FALSE]
       ELSE UNCHANGED <<entries, rescanNeeded, pc, dropped>>
    /\ UNCHANGED <<content, producers, rescanRunning, lifecycle, work, faults>>

\* Variant for mutation: an overflow during the scan is overwritten.
RescanEndOverwrites(w) ==
    /\ pc[w] = "scanning"
    /\ scan[w].todo = {} /\ scan[w].found = {}
    /\ rescanRunning' = FALSE
    /\ rescanNeeded' = scan[w].more
    /\ scan' = [scan EXCEPT ![w] = NoScan]
    /\ Goto(w, "loop")
    /\ UNCHANGED <<content, producers, entries, lifecycle, work, faults, dropped>>

RescanEnd(w) ==
    /\ pc[w] = "scanning"
    /\ scan[w].todo = {} /\ scan[w].found = {}
    /\ rescanRunning' = FALSE
    /\ rescanNeeded' = (rescanNeeded \/ scan[w].more)
    /\ scan' = [scan EXCEPT ![w] = NoScan]
    /\ Goto(w, "loop")
    /\ UNCHANGED <<content, producers, entries, lifecycle, work, faults, dropped>>

-----------------------------------------------------------------------------
\* The worker is past runRescanIfNeeded().
Polling(w) ==
    /\ pc[w] = "loop"
    /\ ~(~closed /\ rescanNeeded /\ ~rescanRunning /\ Cardinality(Entries) < QueueLimit)

Ready(i) == ~resting[queue[i]]

\* takeReadyWork(): the first entry of the queue whose retry is due.
TakeReadyWork(w) ==
    /\ Polling(w)
    /\ ~closed
    /\ \E i \in 1..Len(queue) :
          /\ Ready(i) /\ \A j \in 1..(i - 1) : ~Ready(j)
          /\ queue' = RemoveAt(queue, i)
          /\ status' = [status EXCEPT ![queue[i]] = "active"]
          /\ newer' = [newer EXCEPT ![queue[i]] = FALSE]
          /\ work' = [work EXCEPT ![w] = [NoWork EXCEPT !.auth = queue[i]]]
    /\ Goto(w, "acquiring")
    /\ UNCHANGED <<content, producers, resting, rescanNeeded, rescanRunning,
                   lifecycle, scan, faults, dropped>>

\* takeReadyWork() finds nothing to do now: the select begins.
Wait(w) ==
    /\ Polling(w)
    /\ ~closed
    /\ \A i \in 1..Len(queue) : ~Ready(i)
    /\ Goto(w, IF queue = <<>> THEN "idling" ELSE "napping")
    /\ UNCHANGED <<content, producers, entries, rescanNeeded, rescanRunning,
                   lifecycle, work, scan, faults, dropped>>

\* The select takes coordinator.wake or the timer of a retry.  The idle timer
\* polls too, so a signal lost to another worker costs a second at most.
WakeUp(w) ==
    /\ pc[w] \in {"idling", "napping"}
    /\ Goto(w, "loop")
    /\ UNCHANGED <<content, producers, entries, rescanNeeded, rescanRunning,
                   lifecycle, work, scan, faults, dropped>>

\* Variant for mutation: the queue is not looked at again before leaving.
ExitIfIdleBlindly(w) ==
    /\ pc[w] = "idling"
    /\ Goto(w, "off")
    /\ UNCHANGED <<content, producers, entries, rescanNeeded, rescanRunning,
                   lifecycle, work, scan, faults, dropped>>

\* exitIfIdle(): the idle timer fired and the queue is still empty.
ExitIfIdle(w) ==
    /\ pc[w] = "idling"
    /\ closed \/ queue = <<>>
    /\ Goto(w, "off")
    /\ UNCHANGED <<content, producers, entries, rescanNeeded, rescanRunning,
                   lifecycle, work, scan, faults, dropped>>

\* takeReadyWork() reports closed, or the select takes ctx.Done().
ExitClosed(w) ==
    /\ closed
    /\ Polling(w) \/ pc[w] \in {"idling", "napping"}
    /\ Goto(w, "off")
    /\ UNCHANGED <<content, producers, entries, rescanNeeded, rescanRunning,
                   lifecycle, work, scan, faults, dropped>>

-----------------------------------------------------------------------------
\* persist(): no admission or no lock, for want of capacity or because the
\* coordinator's context was cancelled.
AcquireFails(w) ==
    /\ pc[w] = "acquiring"
    /\ closed \/ faults < MaxFault
    /\ faults' = IF closed THEN faults ELSE faults + 1
    /\ Goto(w, "failed")
    /\ UNCHANGED <<content, producers, entries, rescanNeeded, rescanRunning,
                   lifecycle, work, scan, dropped>>

\* persist() under the credential's lock: the current credential is copied
\* under its result lock and compared with its source hash.
Snapshot(w) ==
    LET a == work[w].auth
    IN  /\ pc[w] = "acquiring"
        /\ producing[a] = NoProducer
        /\ work' = [work EXCEPT ![w].snap = mem[a], ![w].base = src[a]]
        /\ Goto(w, IF src[a] = NoHash THEN "terminal"
                   ELSE IF PersistenceNeeded(a) THEN "saving" ELSE "succeeded")
        /\ UNCHANGED <<content, producers, entries, rescanNeeded, rescanRunning,
                       lifecycle, scan, faults, dropped>>

\* The store commits the save: the file is still the one the credential was
\* loaded from.
Save(w) ==
    LET a == work[w].auth
    IN  /\ pc[w] = "saving"
        /\ disk[a] = work[w].base
        /\ disk' = [disk EXCEPT ![a] = work[w].snap]
        /\ Goto(w, "syncing")
        /\ UNCHANGED <<mem, src, ver, producers, entries, rescanNeeded,
                       rescanRunning, lifecycle, work, scan, faults, dropped>>

\* The store refuses a save whose source hash is stale.
SaveStale(w) ==
    /\ pc[w] = "saving"
    /\ disk[work[w].auth] # work[w].base
    /\ Goto(w, "failed")
    /\ UNCHANGED <<content, producers, entries, rescanNeeded, rescanRunning,
                   lifecycle, work, scan, faults, dropped>>

\* The store fails (it must once the context is cancelled and it looks), or
\* reports an uncertain outcome after it has written.
SaveFails(w, written) ==
    LET a == work[w].auth
    IN  /\ pc[w] = "saving"
        /\ closed \/ faults < MaxFault
        /\ written => disk[a] = work[w].base
        /\ faults' = IF closed THEN faults ELSE faults + 1
        /\ disk' = IF written THEN [disk EXCEPT ![a] = work[w].snap] ELSE disk
        /\ Goto(w, "failed")
        /\ UNCHANGED <<mem, src, ver, producers, entries, rescanNeeded,
                       rescanRunning, lifecycle, work, scan, dropped>>

\* Variant for mutation: the hash of the current content is installed.
SyncSourceHashCurrent(w) ==
    LET a == work[w].auth
    IN  /\ pc[w] = "syncing"
        /\ src' = [src EXCEPT ![a] = mem[a]]
        /\ Goto(w, "succeeded")
        /\ UNCHANGED <<mem, disk, ver, producers, entries, rescanNeeded,
                       rescanRunning, lifecycle, work, scan, faults, dropped>>

\* syncResultPersistenceSourceHash(), then the lock is released.
SyncSourceHash(w) ==
    LET a == work[w].auth
    IN  /\ pc[w] = "syncing"
        /\ src' = IF src[a] = work[w].base
                  THEN [src EXCEPT ![a] = work[w].snap] ELSE src
        /\ Goto(w, "succeeded")
        /\ UNCHANGED <<mem, disk, ver, producers, entries, rescanNeeded,
                       rescanRunning, lifecycle, work, scan, faults, dropped>>

\* Variant for mutation: the entry is emptied before it is queued again.
RequeueNobody(a, rests) ==
    /\ status' = [status EXCEPT ![a] = "queued"]
    /\ newer' = [newer EXCEPT ![a] = FALSE]
    /\ resting' = [resting EXCEPT ![a] = rests]
    /\ queue' = Append(queue, NoAuth)

\* The entry goes back to the end of the queue; rests says whether it waits.
Requeue(a, rests) ==
    /\ status' = [status EXCEPT ![a] = "queued"]
    /\ newer' = [newer EXCEPT ![a] = FALSE]
    /\ resting' = [resting EXCEPT ![a] = rests]
    /\ queue' = Append(queue, a)

Delete(a) ==
    /\ status' = [status EXCEPT ![a] = "none"]
    /\ newer' = [newer EXCEPT ![a] = FALSE]
    /\ UNCHANGED <<resting, queue>>

\* What every finish has in common: the worker returns to its loop.
Finished(w) ==
    /\ Goto(w, "loop")
    /\ work' = [work EXCEPT ![w] = NoWork]
    /\ UNCHANGED <<content, producers, rescanNeeded, rescanRunning, lifecycle,
                   scan, faults>>

\* finishSuccess(): saved again if the generation has moved on.
FinishSuccess(w) ==
    LET a == work[w].auth
    IN  /\ pc[w] = "succeeded"
        /\ IF newer[a] /\ ~closed
           THEN Requeue(a, FALSE) /\ UNCHANGED dropped
           ELSE Delete(a) /\ dropped' = [dropped EXCEPT ![a] = @ \/ newer[a]]
        /\ Finished(w)

\* finishFailure(): retried after a pause unless the coordinator is closed;
\* only closing cancels its context.
FinishFailure(w) ==
    LET a == work[w].auth
    IN  /\ pc[w] = "failed"
        /\ IF closed
           THEN Delete(a) /\ dropped' = [dropped EXCEPT ![a] = TRUE]
           ELSE Requeue(a, TRUE) /\ UNCHANGED dropped
        /\ Finished(w)

\* finishTerminal(): a credential without a hash is never saved here; a
\* generation that came meanwhile goes with the entry.
FinishTerminal(w) ==
    LET a == work[w].auth
    IN  /\ pc[w] = "terminal"
        /\ Delete(a)
        /\ dropped' = [dropped EXCEPT ![a] = @ \/ newer[a]]
        /\ Finished(w)

-----------------------------------------------------------------------------
\* beginCloseExecutors(): nobody is counted any more.
StopAccepting ==
    /\ accepting
    /\ accepting' = FALSE
    /\ UNCHANGED <<content, producers, entries, rescanNeeded, rescanRunning,
                   closing, closed, expired, pc, work, scan, faults, dropped>>

Counted(kind) == {p \in Producer : producer[p] = kind}

\* waitForResultPersistenceProducers(), its second deadline: refreshes were
\* waited for without a limit, requests until now, half of it with their
\* contexts cancelled.
AbandonProducers ==
    /\ ~accepting /\ ~closing
    /\ Counted("flight") = {} /\ Counted("request") # {}
    /\ producer' = [p \in Producer |->
                      IF producer[p] = "request" THEN "abandoned" ELSE producer[p]]
    /\ UNCHANGED <<content, producing, entries, rescanNeeded, rescanRunning,
                   lifecycle, pc, work, scan, faults, dropped>>

\* Variant for mutation: only the refreshes are waited for.
CloseBeginEarly ==
    /\ ~accepting /\ ~closing
    /\ Counted("flight") = {}
    /\ closing' = TRUE
    /\ EnsureWorkers(Cardinality(Entries), pc)
    /\ UNCHANGED <<content, producers, entries, rescanNeeded, rescanRunning,
                   accepting, closed, expired, work, scan, faults, dropped>>

\* closeExecutors(): nobody is counted, and close(), its first section.
CloseBegin ==
    /\ ~accepting /\ ~closing
    /\ Counted("flight") = {} /\ Counted("request") = {}
    /\ closing' = TRUE
    /\ EnsureWorkers(Cardinality(Entries), pc)
    /\ UNCHANGED <<content, producers, entries, rescanNeeded, rescanRunning,
                   accepting, closed, expired, work, scan, faults, dropped>>

\* The drain deadline passes while close() polls.
DrainTimeout ==
    /\ closing /\ ~closed /\ ~expired
    /\ expired' = TRUE
    /\ UNCHANGED <<content, producers, entries, rescanNeeded, rescanRunning,
                   accepting, closing, closed, pc, work, scan, faults, dropped>>

\* close(): nothing is tracked and no rescan is due or under way.
Drained == Entries = {} /\ ~rescanNeeded /\ ~rescanRunning

\* close(), its polling loop ends: drained, or at the deadline.
CloseEnd ==
    /\ closing /\ ~closed
    /\ Drained \/ expired
    /\ closed' = TRUE
    /\ UNCHANGED <<content, producers, entries, rescanNeeded, rescanRunning,
                   accepting, closing, expired, pc, work, scan, faults, dropped>>

\* What a worker's goroutine does once it lives.
WorkerStep(w) ==
    \/ RescanStart(w) \/ RescanEnd(w)
    \/ \E a \in Auth : RescanVisit(w, a) \/ RescanEnqueue(w, a)
    \/ TakeReadyWork(w) \/ Wait(w) \/ WakeUp(w) \/ ExitIfIdle(w) \/ ExitClosed(w)
    \/ Snapshot(w) \/ Save(w) \/ SaveStale(w) \/ SyncSourceHash(w)
    \/ FinishSuccess(w) \/ FinishFailure(w) \/ FinishTerminal(w)

Fault(w) == AcquireFails(w) \/ \E written \in BOOLEAN : SaveFails(w, written)

ResultStep(a) == EnqueueResult(a) \/ RefuseResult(a)

Next ==
    \/ \E a \in Auth :
          \/ \E p \in Producer, durable \in BOOLEAN : Mutate(p, a, durable)
          \/ ResultStep(a)
          \/ WriteFile(a)
          \/ \E h \in {disk[a], NoHash} : Reload(a, h)
          \/ RetryDue(a)
    \/ \E p \in Producer : \/ \E kind \in {"request", "flight"} : Register(p, kind)
                            \/ Unregister(p)
    \/ \E w \in Worker : WorkerStep(w) \/ Fault(w)
    \/ StopAccepting
    \/ AbandonProducers
    \/ CloseBegin
    \/ DrainTimeout
    \/ CloseEnd

Spec == Init /\ [][Next]_vars

\* Goroutines run on, a refresh ends with its timeout, retry times and the
\* deadline for requests come, close() polls, and the file watcher
\* delivers a foreign write in the end: the credential's lock is a channel,
\* which serves those who wait for it in turn.
Fairness ==
    /\ \A w \in Worker : WF_vars(WorkerStep(w))
    /\ \A a \in Auth : /\ WF_vars(ResultStep(a))
                       /\ WF_vars(RetryDue(a))
                       /\ SF_vars(src[a] # disk[a] /\ Reload(a, disk[a]))
    /\ \A p \in Producer : WF_vars(producer[p] = "flight" /\ Unregister(p))
    /\ WF_vars(AbandonProducers) /\ WF_vars(CloseBegin) /\ WF_vars(CloseEnd)

FairSpec == Spec /\ Fairness

-----------------------------------------------------------------------------
\* Every variable keeps the type of the field or local it stands for.
TypeOK ==
    /\ mem \in [Auth -> Version]
    /\ src \in [Auth -> Version \union {NoHash}]
    /\ disk \in [Auth -> Version]
    /\ ver \in [Auth -> Version]
    /\ producer \in [Producer -> {"none", "request", "flight", "abandoned"}]
    /\ producing \in [Auth -> Producer \union {NoProducer}]
    /\ status \in [Auth -> {"none", "queued", "active"}]
    /\ newer \in [Auth -> BOOLEAN]
    /\ resting \in [Auth -> BOOLEAN]
    /\ queue \in Seq(Auth)
    /\ rescanNeeded \in BOOLEAN
    /\ rescanRunning \in BOOLEAN
    /\ accepting \in BOOLEAN
    /\ closing \in BOOLEAN
    /\ closed \in BOOLEAN
    /\ expired \in BOOLEAN
    /\ pc \in [Worker -> Stage]
    /\ work \in [Worker -> [auth : Auth \union {NoAuth}, snap : Version,
                            base : Version \union {NoHash}]]
    /\ scan \in [Worker -> [todo : SUBSET Auth, found : SUBSET Auth,
                            room : 0..QueueLimit, more : BOOLEAN]]
    /\ faults \in 0..MaxFault
    /\ dropped \in [Auth -> BOOLEAN]

\* Somebody will still look at the present content of a.
Awaited(a) ==
    \/ producing[a] # NoProducer
    \/ status[a] = "queued"
    \/ status[a] = "active" /\ newer[a]
    \/ \E w \in Worker :
          /\ work[w].auth = a
          /\ \/ pc[w] \in {"acquiring", "failed"}
             \/ pc[w] \in {"saving", "syncing"} /\ work[w].snap = mem[a]
    \/ rescanNeeded
    \/ \E w \in Worker : a \in scan[w].todo \union scan[w].found \/ scan[w].more

\* A result that is not durable is never forgotten while the coordinator is
\* open: coalescing, the overflow of the queue, the rescan that replaces it,
\* a save of an older content and failed saves all keep it in somebody's
\* hands.  The exceptions are in dropped: results of producers that were
\* abandoned, and those that came while a credential without a source hash was
\* given up.
NothingForgotten ==
    \A a \in Auth : Dirty(a) /\ ~closed /\ ~dropped[a] => Awaited(a)

\* The runtime never takes for stored what the file has not held: a content
\* that changed during its save stays different from its source hash.
HashNotAhead == \A a \in Auth : src[a] <= disk[a]

\* A background save replaces no content of the file but the one the runtime
\* credential came from: a foreign write is loaded before it is overwritten.
OnlyKnownReplaced ==
    [][\A a \in Auth :
          disk'[a] # disk[a] => disk[a] = src[a] \/ ver'[a] > ver[a]]_vars

\* When close() reports a complete drain, every result is in the store, but
\* those of producers that outlived both deadlines.
DrainedMeansDurable ==
    [][closed' /\ ~closed /\ Drained =>
          \A a \in Auth : Dirty(a) =>
             \/ dropped[a]
             \/ producing[a] # NoProducer /\ producer[producing[a]] = "abandoned"]_vars

\* A result becomes durable (or is replaced by a reload), is dropped by
\* design, or the coordinator is closed.
EventuallyDurable ==
    \A a \in Auth : Dirty(a) ~> ~Dirty(a) \/ dropped[a] \/ closed

\* Once the manager stops accepting, the coordinator closes, and unless its
\* drain deadline passes first, with everything saved: the drain needs no time
\* limit once the faults are over.
CloseDrains == ~accepting ~> expired \/ (closed /\ Entries = {})

\* What a worker has saved of a and not yet made the source hash.
Unconfirmed(a) ==
    LET syncing == {w \in Worker : pc[w] = "syncing" /\ work[w].auth = a}
    IN  IF syncing = {} THEN NoHash ELSE work[CHOOSE w \in syncing : TRUE].snap

Stored == INSTANCE StoredContent WITH
              Item <- Auth,
              Content <- Version,
              None <- NoHash,
              memory <- mem,
              base <- src,
              file <- disk,
              unconfirmed <- [a \in Auth |-> Unconfirmed(a)]

\* The writer implements optimistic writing back: whatever is coalesced, retried,
\* rescanned or saved with an unknown outcome, each save replaces the content
\* its snapshot was built on by a newer one, the source hash moves to what a
\* save stored and to nothing else, and no reload comes between the two.
ImplementsStored == Stored!StoredSpec

=============================================================================
