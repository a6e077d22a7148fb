# CLIProxyAPI: a TLA+ verification of its coordination core

CLIProxyAPI is a proxy in Go. Clients speak the OpenAI, Claude, Gemini or Codex protocol to it; it
serves them through a pool of upstream accounts and API keys ("credentials"). Most of its code
translates formats and talks to upstreams. What is hard to get right is the *coordination* around
the credentials: many request goroutines, refresh goroutines, background writers, hot reloads and a
shutdown share a few mutexes, queues and counters. This directory models that part, checks it with
TLC and proves what matters most of it with TLAPS.

Paths below are relative to the repository's root (`sdk/...`, `internal/...`).
`A` stands for `sdk/cliproxy/auth`, `X` for `sdk/cliproxy/executor`.

- [1. The system](#1-the-system): inventory
- [2. The modules](#2-the-modules): what models what, and how
- [3. The runs](#3-the-runs): what is checked, with which bounds, and what it shows
- [4. Disagreements found](#4-disagreements-found)
- [5. The proofs](#5-the-proofs)
- [6. What is not modelled](#6-what-is-not-modelled)
- [7. Plan](#7-plan)

## 1. The system

A request enters the HTTP API, the credential manager (`A/conductor.go`, type `Manager`) picks a
credential, the executor of its provider performs the call, and the result goes back into the
credential's state, into the model registry and, in the background, into the credential's file.

```
   client ──▶ API handlers ──▶ Manager.execute ──▶ selector/scheduler
                                   │   ▲                │ reserve
                                   │   │ retry          ▼
                                   │   │        per-credential request limiter  (RequestLimiter)
                                   ▼   │                │ slot, committed by the transport
                             provider executor ◀────────┘
                              │        │
        image gates + breaker │        │ result
   (ImageAdmission, PollBreaker)       ▼
                              Manager.markResult  (ResultCommit) ──▶ model registry
                                       │ enqueue                      ▲
                                       ▼                              │ catalog sync
                              result coordinator  (ResultPersistence) │
                                       │ admission                    │
    auto refresh ──▶ refresh ──▶ refresh-write coordinator ──▶ store (file, git, S3, PostgreSQL)
                                 (RefreshPersistence)             │ (FileSave)
                                                                  ▲ file watcher reads back

   every change of a credential, on the way to m.auths or to its file, passes the manager's
   dependency mutex, persistence barrier and key semaphores (MutationLocks)
```

Components that coordinate, with the state they keep:

| component | source | state | operations | what is hard | correct when |
|---|---|---|---|---|---|
| refresh-write admission | `A/refresh_persistence.go` | three FIFO queues by class, active count, burst counters, closed | acquireContext, release, cancel, close | cancellation racing a grant; classes starving each other; close while callers are on the way in | no slot leaks or idles, everybody gets an answer, no class starves, nobody in after close |
| web image gates | `X/chatgpt_web_image_admission.go` | limit, queue limit, active map and counter, FIFO of waiters; four instances (execution, poll, finalizer, result) | configure, acquire, cancelWaiter, release, grantLocked | limits change under the waiters; timers and contexts race grants; a limit of 0 | counters agree, first come first served, room is used at once |
| poll stall breaker | `X/chatgpt_web_image_poll_breaker.go` | enabled, stall, open, openedAt, fullSince, lastCompletion | configure, observeAdmission, observeCompletion, reject | it hears of the gate by snapshots that may be old | opens only on a stall, always closes again, forgets on reconfiguration |
| request limiter and slot | `A/request_limiter.go`, `X/types.go`, `X/upstream_attempt.go` | one entry per credential: window, limit, count, version; per request a slot with its reservation and pinned contexts | reserve, commit, release, reset, remove; bind, pin | late releases and late transport reports; windows and policies that change; credentials removed and added again | counts are exact, nothing over the limit, each reservation used once by its own attempt |
| commit of results | `A/conductor.go` markResult, `sdk/cliproxy/chatgpt_web_models.go`, `internal/registry` | runtime credential, its model states; registered and suspended models | markResult, registerClient, reconcile, refresh, Update | two critical sections with a look at another component in between; a copy put back; a refresh that clears 401s and tells the registry outside both locks | failures stay recorded, the registry agrees with the credential, replaced credentials and old tokens do not come back |
| background result persistence | `A/result_persistence.go` | registry of result producers, entries with generations, ready queue, retry times, rescan flags, workers, closing/closed | enqueue, worker loop, persist, finish, rescan, close | coalescing, overflow, lost hashes, uncertain saves, idle workers leaving | every result becomes durable, no foreign write is overwritten, close drains |
| refresh execution | `A/conductor.go`, `A/auto_refresh_loop.go` | pending markers, heap of due refreshes, per-credential refresh locks | schedule, refresh, durable commit with retries, SetStore | retry of a save whose outcome is unknown; the coordinator replaced meanwhile | a rotated token is never lost |
| mutation locks | `A/conductor.go`, `A/chatgpt_web_dependencies.go` | dependency mutex, persistence barrier with a turnstile, semaphores per key, tokens in contexts | lock, nested lock, write lock, unlock | re-entry while a writer waits, contexts that outlive their lock, order of nested acquisitions | mutual exclusion, every call ends |
| credential file | `sdk/auth/filestore.go`, `internal/authfileguard` (target lock, exchange) | one file, its private names, the lock of the target | Save, Delete | crashes and failing operations between any two steps, a program outside the locks | the file is old or new, outcomes tell the truth, foreign generations survive |
| shutdown | `A/conductor.go`, `A/result_persistence.go` | closing flags, registry of result producers | closeExecutors | producers that outlive two waits | everything durable or counted as given up |
| image memory | `internal/runtime/executor/helps/chatgpt_web_image_memory.go` | used and capacity, weighted FIFO, lease sets, completion reservations | acquire, resize, reserve, finalize | resize below use, waiters that hold memory already | no overcommit, no blocked head |
| selection and affinity | `A/selector.go`, `A/weighted_selector.go`, `A/scheduler.go`, `A/session_cache.go` | the scheduler's copy of the credentials, cursors, affinity cache | pick, upsert, remove, bind | the copy is older than the manager's state | no pick of what is gone or blocked for good |
| usage accounting | `sdk/cliproxy/usage`, `internal/usage` | bounded queue, batches, aggregates | publish, flush, restore | flush racing publish; the once-only outcome of a request | counted once |
| WebSocket relay | `internal/wsrelay` | sessions, pending requests with a buffer of eight | send, deliver, heartbeat, replace | full buffers, sessions replaced under requests | a request ends |
| mirrored stores and guards | `internal/store`, `internal/authfileguard` (generations) | files, mirrors in git, S3 or PostgreSQL, persist and delete generations | save, delete, sync | crashes between the file and its mirror | deletions stay, the watcher knows its own writes |
| watcher and reload | `internal/watcher`, `sdk/cliproxy/service.go` | snapshots of config and files | diff, dispatch | events out of order | the manager ends up as the files say |

They interact by calls under locks (the manager calls limiter, registry and coordinators), by
callbacks (executors report transport commits and usage; the manager runs hooks) and through the
file system (a background save is seen by the watcher, which may reload the credential).
The hazards each component is exposed to, at the line where each bites, are listed in
`PROJECT.json` under "hazards", each with the properties that would catch it.

## 2. The modules

Every model treats a goroutine between two critical sections as a program counter: what the code
does under one lock is one action, and everything other goroutines can do in between interleaves.
Inputs (limits from hot reloads, contexts that end, stores that fail) are nondeterministic.
Ghost variables are marked as such in the declarations; no guard reads them (one exception: `seen` of RequestLimiter also keeps an attempt from being
charged at once twice). Definitions called *Variant for mutation* are plausible
bugs of the definition that follows them; they are no part of a specification: each property is
also checked to fail when the variant takes the place of the real definition.

| module | models | states and actions |
|---|---|---|
| `AdmissionGate` | abstract: what a gate promises | clients inside, clients waiting, limit, open; a release fills the room at once |
| `RefreshPersistence` | `A/refresh_persistence.go` | queues, counters, `pc` of each caller through acquireContext; `ObserveDone`, `CancelQueued` or `CancelDequeued`, then `DrainReservation` or `DrainNothing` are the stretches of the cancellation path; `Release` includes the hand-over and popWaiterLocked's policy |
| `ImageAdmission` | one gate of `X/chatgpt_web_image_admission.go` | `Configure` at any time with any setting, in or out of range, clamped as the code does; acquire's immediate, queued and refused outcomes; timer and context against the grant |
| `PollBreaker` | `X/chatgpt_web_image_poll_breaker.go` with the calls around it | instantiates `AdmissionGate` for the poll gate, which ImageAdmission is shown to implement. Reading the gate and telling the breaker are two steps |
| `RequestLimiter` | `A/request_limiter.go`, `AuthRequestSlot`, the request loop's calls | per request: pick, read policy, reserve, bind, run, commit, release, retry; late transport reports of earlier attempts; removal and reset of entries; window ticks |
| `StoredContent` | abstract: what writing contents back to files promises | per item the runtime's content, its base, the file, and what a save stored that is not the base yet; a save replaces the base only, by something newer |
| `ResultPersistence` | `A/result_persistence.go` and the shutdown's use of it | producers register, produce results, and are waited for or abandoned; contents are version numbers, a source hash is the version it was computed from; each worker walks through rescan, take, acquire, snapshot, save, sync, finish |
| `ResultCommit` | `markResult` with catalog sync, refresh and the attempts to commit it, replacement, background save | instance, installation and hash are stamps of one clock; a credential is a record that can be copied and put back; a refresh carries forward, clears 401s, saves, does both again, installs, and then resumes the cleared models in the registry one by one |
| `FileSave` | Save and Delete of `sdk/auth/filestore.go` on one file, with `internal/authfileguard`'s lock, no-replace install and exchange | a directory of names and generations; `images` is what a power failure may leave. Each call walks `pc` through capture, stage, validate, exchange (or link, rename and its undoing), confirm, sync and clean-up |
| `MutationLocks` | the locks of the manager: `A/conductor.go` 10688-11022, `A/chatgpt_web_dependencies.go` 88-207 and 541-602, and the kinds of call that take them | per call its kind, credential and context (`op`), its place (`pc`); the holders of every lock and of the gates inside tokens |

`RefreshPersistence` and `ImageAdmission` contain the refinement mapping to `AdmissionGate`
(`Gate == INSTANCE AdmissionGate WITH ...`), checked as the property `ImplementsGate` and proved.
`ResultPersistence` contains one to `StoredContent` (`Stored`, `ImplementsStored`), where queue, rescan,
workers and shutdown disappear: the file is the file, the base is the source hash, and what is unconfirmed is the
snapshot of a worker between its save and the change of the hash.
`MC*` modules only give small instances; `*Proofs` modules hold the theorems.

What the models abstract, by component:

- *RefreshPersistence*: metrics; the wall clock in wait times; the burst counters are counted only up
  to the bound the code compares them with. Priorities other than the three classes are
  normalised by the code and not inputs here.
- *ImageAdmission*: metrics, the request-phase observer in the same file, and the names of the
  four instances. The identifier of an active slot is its client, because the goroutine that was given
  it is the only one that holds it.
- *PollBreaker*: time is in ticks, and a tick is longer than the gap between a goroutine's read of
  the gate and its call of the breaker; a completion and an observation may still be applied in
  either order, as two mutexes allow.
- *RequestLimiter*: a policy is its limit (length of window and limit are always compared together);
  time is the index of the window; how the limit of a credential follows from the routing rules is
  an input.
- *ResultPersistence*: of an entry's generation only whether it passed the one that the worker took;
  retry times as "lies ahead" or not; the store refuses a save whose expected hash is not the file's,
  and may fail before or after it wrote. A producer is a request or a refresh flight; the shutdown waits for
  flights without a limit and for requests up to two deadlines, after which those that are left are
  abandoned and may find the coordinator closing. `Shared` bounds the credentials whose file others write or
  whose hash a reload may lose.
- *ResultCommit*: of a model's state, whether it is there, and failed with a 401 or otherwise; of the aggregated status nothing
  but its time stamp; two states of the registry's marks, suspended or not. The mutation lock
  is held by refresh (while it saves, until it has told the registry of the 401s that it cleared), replacement and
  background save; the result lock by results. A 401 concerns its model alone if a rule
  for fixed cooldowns says so, and the account otherwise. Of the registry's writers `ClearModelCooldownByReason`, which only tests
  call, and the cooldowns of image quotas are left out; a resume leaves or takes away the mark, as a quota's mark stays.
  It covers native ChatGPT Web credentials whose results are persisted in the background, the only ones
  for which a result does not hold the mutation lock. The commit of a refresh may take any number of attempts,
  because every store that comes allows some more; that a given-up refresh makes a credential unselectable appears
  only as an update of it and as a catalog that offers nothing.

- *FileSave*: a generation is its inode, two saves may write the same bytes (`data`). File system calls
  are external: each succeeds, fails, or takes effect without acknowledgement; entries become
  durable by a sync of the directory, and before it a power failure may keep any of the changes.
  The lock file's own protocol is one variable, `lock`. Left out: writes in place into an existing generation,
  the storage branch of Save, parent directories that are replaced, and other systems than Linux.
- *MutationLocks*: a call is one use of the manager and happens once; so nobody can starve for ever and
  the runs ask for deadlocks. `op.scope` has the calls in whose context a call is made, however deep: it reuses what
  the innermost of them still has locked, and takes the locks itself after the unlock. `op.awaiting` are those of
  them whose goroutine made the call, and waits for it. The two tokens nest differently. A call
  inside the slot of a dependency token makes a child token with a slot of its own, so that it can have calls
  inside it in turn (a decision, in it LockAuthMutation, in it an update). A call inside the slot of a
  credential token leaves the context as it is, so that a call made from there would wait for the slot its own
  goroutine holds; the code makes none (hooks run after the unlock, `LockProxyBindingMutation` returns without
  the slot) and the model has none. What a call wants locked follows from the content it brings (`op.account`):
  one credential may come with different identities. A token is compared by id and email only, so a nested call
  that brings another identity works under the identities of its token, and `Exclusion` claims identities only
  of the calls that locked them. Of
  what a call does with the locks held, the model keeps the membership in the dependency graph, the
  swap of the store, and the enumeration. A call that failed may still lend its context until it has given its
  mutex back, which the code does not; that only adds behaviours.

## 3. The runs

| run | instance | asks |
|---|---|---|
| `refresh_persistence` | 4 callers of three classes, 1 slot, queue 2, bursts 1 and 2 | work conservation, bounded bypass, refinement, every waiter is answered, close drains |
| `image_admission` | 3 clients, limits 0, 2, 3, queue limits -1, 1, 2 | order, work conservation, refinement, every waiter is answered |
| `request_limiter` | 2 requests, 2 attempts each, 2 credentials, limits 0 and 2; one change of window, policy, generation or credential | counts exact and within the limit, the fate of each reservation |
| `limiter_window` | 3 requests, 1 credential, limit 1, 2 windows | *violated*: the documented window limit |
| `result_persistence` | 2 credentials, one of them written by others too, 1 producer, 1 queue place, 2 workers, 3 events, 1 fault, shutdown with or without its deadlines | nothing forgotten, no foreign write lost, drained means durable, refinement, durable in the end, shutdown ends and drains |
| `poll_breaker` | 2 attempts, limits 1 and 2, default stall 1, time 2 | own history, opens on a stall only, closes again |
| `poll_breaker_saturation` | 3 attempts, limit 2, stall 1 | *violated*: continuous saturation |
| `result_commit` | 2 requests of one call each, 2 models, any catalog of them, 3 stamps before which things may start, any number of attempts to commit a refresh | failures kept, 401s until a refresh is installed; registry in order, but for what a refresh unhides; replacement final |
| `result_commit_refresh` | 1 request, 2 models, 4 stamps | *violated*: a refreshed credential stays |
| `file_save` | 2 calls, one foreign replacement and one removal, 2 failing operations, 1 crash | the file never goes missing, rolled back means gone, committed means durable, foreign generations are kept |
| `mutation_locks` | 3 calls, 2 credentials of one account, 1 swap of the store | exclusion, every call ends |
| `mutation_locks_order` | the same | *violated*: the canonical order of nested locks |

Why these bounds. The coordinators are symmetric in their callers, and the situations the
properties are about need few of them: two holders, one waiter that is granted and one that cancels
(refresh: four callers for one slot and a queue of two, so that the queue is full and somebody is turned away while a waiter of each class can be behind another); three image clients
suffice for one inside, two queued in an order, and a limit that goes up by more than one or down below
what is inside. The bursts 8 and 16 of the code are 1 and 2 in the instance, so that both run out;
the proofs cover every value. Two credentials are needed for a late transport report to charge the
wrong one, two windows for a boundary. Two credentials for one queue place make the queue
overflow with a worker busy, and a second event on one of them makes it coalesce. One producer is enough for
each of its ends (released, waited for, abandoned): two would only interleave the registry's counts, which are
changed under one mutex, while results of one producer already interleave with everything the workers do. For the breaker, the stall
elapses before the bound on time. For ResultCommit, the shortest run of two results on one model
with a sync in between, or of a 401, a refresh that clears it and a failure that the refresh then unhides, needs two requests; the clock bounds only the *start* of calls, syncs,
refreshes and replacements: what has begun runs to its end, so no bound cuts a protocol in half. For FileSave two calls suffice for
one that overtakes or repeats the other after a crash, and two faults for a failure of the
undoing of a failure. For MutationLocks one call holds what the second may reuse, and the third is made within the second,
the depth of the repository's own test (`A/conductor_reentrant_persist_test.go:177-189`), competes
with both or waits for the write side; one credential is in the graph at first and one is not; one may come with its email and its identity or with
its email alone; the ids and account keys are numbered so that the sorted orders of the two
credentials interleave. That the run sees the depth is what its mutant for `EveryCallEnds` shows: without the child's own
slot the third call waits for the slot that the second holds.

Deadlock. It is checked where the system never stops by itself (refresh admission, image gates,
poll breaker). RequestLimiter, ResultPersistence, ResultCommit and FileSave stop when their bounds are used
up or, for ResultPersistence, when the coordinator is closed, and their runs say so; that they do not stop
early is what the liveness properties show for ResultPersistence. MutationLocks ends when all calls
have happened; that nothing stops it before is `EveryCallEnds`, except after a nested call that took the
locks out of order (disagreement 4), where TLC does reach a standstill.

Fairness, where liveness is checked:

- `RefreshPersistence`, `ImageAdmission`: weak fairness of each goroutine's next step (`Step(c)`), including
  the release by a holder. Goroutines are scheduled fairly by the Go runtime; holders release in a
  `defer`, and what they do while holding is bounded by a context deadline. No fairness for starting a
  call, cancelling a context, a reload or close.
- `PollBreaker`: the same, and attempts keep coming (`Begin`): the breaker is closed by an
  observation, which only a later attempt or a releasing one makes.
- `ResultPersistence`: weak fairness of the workers, of a producer's enqueue, of retry times and of
  close's polling; strong fairness of the reload after a foreign write: the watcher takes the
  credential's lock, a channel, in turn with the savers. Weak fairness of the end of
  refresh flights (their context has a deadline), of the abandonment (the waits' deadlines) and of the
  coordinator's close, which closeExecutors calls next. No fairness of faults, which are bounded, nor of
  the beginning of a shutdown, of the end of requests or of close's own deadline.
- `MutationLocks`: weak fairness of each call's next step: goroutines run, and what a call does with its locks held
  (a save, a load) returns. No fairness for a call to begin or a context to end.

## 4. Disagreements found

Four runs are expected to end in a violation. Each property is what the repository's own words or
tests say.

1. **The window limit is not kept at a window's end** (`limiter_window`, `A/request_limiter.go:386`).
   A request computes its window before it takes the mutex. If another request opens the next window in between,
   the late one finds "another window" and takes it for an expired one, although it is newer: the
   entry is replaced, its count lost, and the next request of the new window starts at zero. With
   limit 1 two requests count towards one window; `config.example.yaml` describes a fixed window
   limit. The proved property (`WithinLimit`) is what does hold: under one *entry* there is
   never more than the limit.
2. **The breaker can open without continuous saturation** (`poll_breaker_saturation`,
   `X/chatgpt_web_image_admission.go:231`). The gate is read under its mutex and the
   breaker is told under another; an old "full" can be applied after a newer "not full", and a
   waiter that is granted and then cancelled gives back its slot without any report. The time of
   saturation is then counted through an interval with a free slot, which
   `TestImagePollStallBreakerRequiresContinuousFullSaturation` excludes. Consequence: one
   early opening; `BreakerCloses` shows that it heals.
3. **A result can undo a token refresh in memory** (`result_commit_refresh`, `A/conductor.go:8562`). markResult
   clones the credential in its first critical section and, if the model has left the catalog by the
   second, writes the clone back after comparing only the instance id. A refresh of the same
   account keeps the instance id and does not take the result lock, so a refresh installed in
   between is overwritten: old access and refresh token, old source hash, old installation id, while the file
   has the new ones. `TestResultPersistenceSerializesWithCredentialRefreshWithoutOverwritingFreshState`
   states the intent. `ReplacementFinal` shows that a credential of *another* account is safe.
4. **A nested call takes the dependency mutex after the keys** (`mutation_locks_order`,
   `A/chatgpt_web_dependencies.go:183`). Whether a mutation needs the mutex is decided from the credential
   as it was found and from what it brings. LockAuthMutation of a credential outside the graph does not take it; if
   the credential joins the graph meanwhile, the Update that is made with the locked context does, with the
   keys and the read side of the barrier held. `A/conductor.go:10749` promises reuse of the locks
   "in their canonical order". Another call that holds the mutex and waits for the same key, or Load, which
   holds it and waits for the write side, then waits for this one and is waited for, until a context ends.

The copy that disagreement 3 puts back undoes the mark of a refresh that was given up just as well. Some
weaknesses contradict no line of the repository, and so have no run: a save that finds its own bytes
in the file reports success without a sync, though the save that wrote them may have failed at its
own (`sdk/auth/filestore.go:935`); and whether a *deletion* needs the dependency mutex is read
before its key is taken (`A/chatgpt_web_dependencies.go:174`); and a refresh whose first attempt wrote the file but
reported an unknown outcome is refused as stale at its next attempt, because the file is ahead of the runtime hash,
and is given up as if nothing had been written (`A/conductor.go:13199`), until the watcher reloads the file; and a nested
update that brings another identity for its credential does so without that identity's key (`A/conductor.go:10796`).
Three more come from a refresh that clears 401s (`clearUnauthorizedRefreshState`). It resumes the cleared models in the
registry after it has left `m.mu` and without the result lock (`A/conductor.go:13476`), so a failure that was recorded and
told in between is unhidden: the credential keeps it, the registry offers the model until the next result.
`RegistryInOrder` exempts exactly these models (`unhidden`), and TLC reaches one. A 401 whose
registry call is still to come when the refresh clears it is hidden after it was cleared. And if nothing has happened since the refresh
began, the 401 is cleared by the first of the two calls, whose list is dropped (`A/conductor.go:13401`), so the second finds
none to resume (`13434`) and the registry hides the model until its next success or the next reset of the catalog.

## 5. The proofs

All theorems hold for every value of the constants under the modules' named assumptions: finite sets
of goroutines, positive concurrency, bursts in the order the code has them, naturals as bounds, null values that
differ from real ones, private file names that differ from the target, at least one credential, natural numbers for key order, and as many numbers
for stores as there are calls that may swap the store. Every safety invariant, action property
and refinement that a passing run checks is stated by a theorem.
Only the invariants below are needed beyond the model; each has been checked with TLC on the
instances above (that of FileSave with two faults and one crash, over three million states).

**RefreshPersistenceProofs.** `IInv == TypeOK /\ Structure /\ SlotInv /\ BypassInv`. `Structure`
relates queues, `queued` flags, channels and program counters: a caller is in exactly one
queue place or has its answer. It is needed because a slot may be in a grant channel, owned by
a caller that does not know it yet; without it neither the count nor a cancellation can be
shown to preserve anything. `SlotInv` has the exact count, `active <= Concurrency`, and that a waiter implies
full slots. `BypassInv` ties the history of passed-over grants to the burst counters; its disjunction for
imports is the case where maintenance was served in between and both counters run in step. From it:
`TypeCorrect`, `SlotsAccounted`, `ConcurrencyBounded`, `NoIdleSlot`, `NoStrandedCaller`,
`BypassBounded`, `NothingAdmittedAfterClose`, and `RefinesGate`: each step is a step of the
abstract gate or stutters.

**ImageAdmissionProofs.** `IInv` adds `GrantState` (who may own a grant at which program counter). The
loop of grantLocked is a function of the queue's prefix that is granted; its lemmas say that
the prefix is as long as the limit allows. Proved: type correctness, accounting, the exact queue, work conservation
also after a change of the limit, growth within limits, first come first served, refinement.

**RequestLimiterProofs.** `EntriesVersioned`, `ChargesAgree` (a reservation and the entry whose version it carries
agree on window and limit) and `SlotOK` (per request: only the latest attempt can be
pending). The count of an entry is the cardinality of the set of reservations charged to
it; each operation changes that set by at most one element, and versions issued once make a
replaced entry's charges disappear together. Proved: `CountsExact`, `LimitKept`, `NoForeignConsumption`,
`TransportCharged`, `NothingRetained`.

**PollBreakerProofs.** `CompletionTold`: the breaker knows the last completion or a goroutine is about to tell it. With
it: type correctness, `HistoryOwn`, `OpensOnStall`.

**ResultCommitProofs.** None of the safety properties is inductive: what a restored copy or a refreshed
credential does to the runtime credential was decided several steps earlier. `IInv` adds what makes it right.
`Exclusive`: one request at a time is between its first section and the registry. `Sound`, for each
request: the copy it may put back is of its own instance and has every failure, 401s among them, but that of its own
model; a model it found gone has no result to lose; what it will tell the registry is the last result of
its model, unless the credential has been replaced. `Carried`: a refreshed credential that waits for
its save, or for another attempt after a failed one, has every failure but the 401s, should the runtime credential still look (or, by a copy put back, look again) as
it did when the refresh began; this is what justifies the comparison with the baseline in
`carryForwardConcurrentRefreshRuntimeState`. `Stamped`: every `UpdatedAt` was given out before, so a new one is different from
the baseline's. `Offered`: models that are gone have no last result. What an installation does to the 401s needs nothing more, for it ends their claim; what a refresh unhides in the registry is
remembered, so its steps leave the registry as right as it was. Steps of the sync, the refresh
and replacements never touch requests and share one lemma (`QuietInv`); steps of a request share two
(`RequestFrame`, `RegistryStep`). Proved: `TypeCorrect`, `FailuresStay`, `RegistryFollows`, `ReplacementsStay`.

**ResultPersistenceProofs.** `NothingForgotten` says that somebody is responsible for every result that is not
durable, and is not inductive: who that is depends on the worker's locals. `IInv` has, in this order: `QueueSound`
(a queued entry has one place in the queue), `Owned` (an active entry is in the hands of exactly one
worker), `Scanned` (one rescan at a time, and its flag says so), `Abandoned` (who still brings results once the coordinator
closes was abandoned by the shutdown), `Ordered` (no content is newer than the last event, and the hash is not
ahead of the content or the file), `Snapped` (while a worker is inside the credential's lock the hash is the one
its snapshot was taken with, and the snapshot is newer than that and no newer than the credential), and `Tracked`: a dirty
credential without an entry will be found by a rescan; one with an active entry is carried by
its worker, or has a newer generation, which sends it back to the queue. `Snapped` is why a save
replaces what its credential came from: the conflict is decided by the store between snapshot and save, and
nothing moves the hash meanwhile, because a reload takes the same lock. For the refinement each step is
either one of the six that change a content or its hash, mapped one by one, or leaves content and syncing workers
alone (`Calm`) and stutters; that at most one worker is between save and hash follows from `Owned`. Proved: `ResultTypes`, `ResultNotForgotten`, `ResultHashFollows`,
`ResultReplacesKnown`, `ResultDrained`, and `ResultImplementsStored`.

**FileSaveProofs.** What a call may claim at its end was decided many steps before, with failures and a power
failure possible between any two, so `IInv` says for each step of a working call (`Ready`) which private names it works with
(`Named`), what lies under them (`Held`), what is no longer at the target (`Displaced`), that what it stages was never exposed
before the exchange (`Unexposed`), that what it is about to write over or remove is its own, expected, or also at the
target (`Sparing`), which results it can have (`Reported`), and that its generation is nowhere but at its own names and the
target (`Confined`). For the calls that ended, `Told` says what their result means for *every* directory that a
power failure may leave; it stays true because a generation is put at the target once (`Spent`), fresh calls have
left nothing (`Fresh`), and no other call keeps under its names what a committed one replaced (`Apart`). `Kept` is
the reason why the file never goes missing. A step of a call is reduced to its effect on the files (one lemma per kind
of file operation) and its effect on its own locals (`Outcome`); steps of the other program and crashes are
separate lemmas. Proved: `FileTypes` (with the lock of the target: held by the call that works on it, and by none that ended),
`FileNeverMissing`, `FileRolledBack`, `FileCommitted`, and the action property `FileForeignKept`.

**MutationLocksProofs.** `IInv`: `Placed` (a call is only at places its kind passes, and within calls that were made before it), `Slots`
(who is in the gate of a token works on the token's credential, with its email, and the token is active), `Barrier` (the turnstile
and the write side have one owner; readers are exactly the calls that hold or collect keys), `Semaphores` (a key has
one holder, and a call that works has all the keys it wants), `Committed` (the store that a commit checked
is still in place), `Counted` (each swap of the store was a call that is done, so the numbers for stores suffice). A nested call reuses the keys
of the token: its right to work is the token's, which has one such slot and is not unlocked before that is empty. Proved: `MutationLocksTypes`,
`MutationLocksExclude`.

Only model-checked: the liveness properties (`EveryWaiterReturns` of both admission modules, `CloseDrains` of refresh admission
and of the result coordinator, `EventuallyDurable`, `BreakerCloses`, `EveryCallEnds`): liveness under fairness is out
of the proof system's reach. Some theorems state what no run checks by itself, because the
properties of the runs imply or use them (`SlotsAccounted`, `NoStrandedCaller`, `GrowthBounded`,
`NothingAdmittedAfterClose`, `ResultReplacesKnown`). The four violated properties are of course not theorems.

## 6. What is not modelled

`PROJECT.json` lists every component with its status. In short: translators, login flows, executors'
upstream I/O, API layout and configuration parsing have no protocol of their own; selection, the file and the
schedule of refreshes, image memory, the relay and usage accounting do and are
planned; the mirrored stores, the watcher, the proxy pool and Codex state have not been surveyed
deeply enough to model them. What the existing models leave out inside their
components is said in section 2. Most of the repository's lines are such translation and I/O: the models cover
the coordination, which is a small part of the text.

Hazards inside modelled components that no property covers: the states of removed
models that come back with a restored copy (the same defect as disagreement 3), marks in the
registry that survive a reset of the catalog, the weaknesses at the end of section 4, and a generation that
another program puts at the target between the link and the rename of the exchange's fallback, which
cannot see it.

## 7. Plan

In order of what matters most to the system.

| step | module | composes with | abstract specification | properties and instance | theorems |
|---|---|---|---|---|---|
| 1 | `RefreshCommit`, the file's side of a refresh (memory is in `ResultCommit`) | `FileSave`, `AdmissionGate` | `StoredContent`, which a refresh implements too where its save is conditional | a rotated token is installed, in the file or marked as failed; no stale save after a newer one; 2 refreshes, 2 stores, 2 attempts | `StoredContent` is implemented |
| 2 | `ImageMemory` | `AdmissionGate`'s ideas, weighted | a weighted gate | no overcommit by a grant, FIFO, no head blocked for ever; capacities 0 to 4 | used equals the leases |
| 3 | `Selection` | `RequestLimiter` | | the scheduler's copy converges to the manager's state | |
| 4 | `WsRelay`, usage outcome | | | a request ends; counted once | |
| 5 | file transactions of the mirrored stores | `FileSave` | an atomic register with deletion | crash between any two steps | |
