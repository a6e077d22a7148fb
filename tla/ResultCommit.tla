---------------------------- MODULE ResultCommit ----------------------------
(***************************************************************************)
(* How the result of an upstream call is committed to one native ChatGPT    *)
(* Web credential (sdk/cliproxy/auth/conductor.go, markResult) while its    *)
(* model catalog is synchronised (sdk/cliproxy/chatgpt_web_models.go and    *)
(* internal/registry), its token is refreshed (applyRefreshedAuth), its     *)
(* account is replaced (Update) and its file is saved in the background.    *)
(*                                                                         *)
(* Three locks meet here.  Results of a credential follow one another under *)
(* its result lock; refreshes, replacements and saves under its mutation    *)
(* lock; every change of the runtime credential is made inside m.mu.  A     *)
(* result takes m.mu twice and asks the registry in between; if its model   *)
(* has gone from the catalog by then, it puts back the copy of the whole    *)
(* credential that it made in the first section.                            *)
(*                                                                         *)
(* A refresh also clears the failures that it may have repaired, those with *)
(* a 401, and tells the registry of them on its own, under neither m.mu nor *)
(* the result lock.                                                         *)
(*                                                                         *)
(* Of a model's state it matters whether there is one and whether it        *)
(* records a failure, a 401 or another; times, quotas and the account-wide  *)
(* cooldown are left out, except that a change of them moves UpdatedAt.     *)
(* Identifiers, hashes and times are stamps of one clock.                   *)
(***************************************************************************)
EXTENDS Integers, FiniteSets

CONSTANTS Model,     \* models a catalog may offer
          Request,   \* upstream calls with the credential
          MaxClock   \* bound: no call, sync, refresh or replacement starts later

ASSUME ModelAssumption == IsFiniteSet(Model) /\ Model # {}
ASSUME RequestAssumption == IsFiniteSet(Request)
ASSUME BoundAssumption == MaxClock \in Nat

VARIABLES
    registered, \* registry: the models of the credential
    suspended,  \* registry: the models it is suspended or out of quota for
    cred,       \* the runtime credential, m.auths[id]
    task,       \* what the goroutine of each request knows
    sync,       \* the synchronisation of the catalog
    hook,       \* OnAuthUpdated after a replacement has not run yet
    refresh,    \* the refresh of the token
    clock,      \* the last stamp given out
    verdict,    \* ghost: the last result of each registered model
    latest,     \* ghost: the last instance and the last installation
    unhidden    \* ghost: models that a refresh resumed in the registry since the
                \* last result of theirs that the registry heard of

registry == <<registered, suspended>>
vars == <<registered, suspended, cred, task, sync, hook, refresh, clock,
          verdict, latest, unhidden>>

Stamp == clock + 1

State == {"absent", "clean", "failed", "unauthorized"}
\* "unauthorized" is a 401 that concerns the model, by a rule for fixed cooldowns;
\* any other is accountWide.
Kind == {"success", "failure", "unauthorized", "accountWide", "neutral"}
Credential == [inst : Nat, install : Nat, hash : Nat, rev : Nat,
               states : [Model -> State]]

NoStates == [m \in Model |-> "absent"]
NoCred == [inst |-> 0, install |-> 0, hash |-> 0, rev |-> 0, states |-> NoStates]
\* What requestPreparationMatchesCurrent compares.
Identity(c) == [inst |-> c.inst, install |-> c.install, hash |-> c.hash]

NoModel == "no model"
NoTask == [pc |-> "idle", model |-> NoModel, inst |-> 0, kind |-> "neutral",
           known |-> FALSE, before |-> NoCred, effect |-> "none"]
\* A request is one call; what its goroutine knew is gone after it.
Ended == [NoTask EXCEPT !.pc = "ended"]
NoSync == [pc |-> "idle", offer |-> {}, reset |-> FALSE, expected |-> Identity(NoCred)]
NoRefresh == [pc |-> "idle", baseline |-> NoCred, updated |-> NoCred,
              replaces |-> FALSE, resume |-> {}]

\* "flying": the upstream call is under way.  The others hold the result lock:
\* before the first section, before the second look at the registry, before the
\* second section, before the check of the instance, before the registry calls.
Holding == {"locked", "applied", "rechecked", "final", "current"}

Calling(r) == task[r].pc \in Holding

\* Variant for mutation: the lock is given back before the registry is told.
LockFreeEarly == \A r \in Request : task[r].pc \notin {"locked", "applied", "rechecked"}

\* Nobody holds the result lock.
LockFree == \A r \in Request : ~Calling(r)

\* Nobody holds the mutation lock: the refresh holds it while it saves, and until
\* it has told the registry.
MutationLockFree == refresh.pc \notin {"prepared", "resuming"}

\* Its result has not reached the registry yet.
Unsettled(m) ==
    \E r \in Request : task[r].pc \in Holding \ {"locked"} /\ task[r].model = m

\* The runtime credential is still the instance the request was sent with.
SameInstance(r) == cred.inst = task[r].inst

-----------------------------------------------------------------------------
Init ==
    /\ registered = Model
    /\ suspended = {}
    /\ cred = [inst |-> 1, install |-> 1, hash |-> 1, rev |-> 1, states |-> NoStates]
    /\ task = [r \in Request |-> NoTask]
    /\ sync = NoSync
    /\ hook = FALSE
    /\ refresh = NoRefresh
    /\ clock = 1
    /\ verdict = [m \in Model |-> "none"]
    /\ latest = [inst |-> 1, install |-> 1]
    /\ unhidden = {}

-----------------------------------------------------------------------------
(* A request and its result.                                               *)

\* The request is sent with the credential, for a model it offers.
Send(r, m) ==
    /\ task[r].pc = "idle"
    /\ clock < MaxClock
    /\ m \in registered
    /\ task' = [task EXCEPT ![r] = [NoTask EXCEPT !.pc = "flying", !.model = m,
                                                  !.inst = cred.inst]]
    /\ UNCHANGED <<registry, cred, sync, hook, refresh, clock, verdict, latest, unhidden>>

\* The call returns: the result lock, then the registered models.
TakeResult(r, kind) ==
    /\ task[r].pc = "flying"
    /\ LockFree
    /\ task' = [task EXCEPT ![r] = [@ EXCEPT !.pc = "locked", !.kind = kind,
                                            !.known = task[r].model \in registered]]
    /\ UNCHANGED <<registry, cred, sync, hook, refresh, clock, verdict, latest, unhidden>>

\* The credential with the result of a request in it.
Committed(c, t, now) ==
    CASE t.kind = "success" -> [c EXCEPT !.states[t.model] = "clean", !.rev = now]
      [] t.kind = "failure" -> [c EXCEPT !.states[t.model] = "failed", !.rev = now]
      [] t.kind = "unauthorized" -> [c EXCEPT !.states[t.model] = "unauthorized", !.rev = now]
      [] t.kind = "accountWide" ->
            [c EXCEPT !.rev = now,
                      !.states[t.model] = IF t.known THEN @ ELSE "absent"]
      [] t.kind = "neutral" -> c

Effect(t) == CASE t.kind = "success" -> "resume"
               [] t.kind \in {"failure", "unauthorized"} -> "suspend"
               [] OTHER -> "none"

\* Ghost: the result of a model that is offered.
Noted(t) ==
    IF t.model \in registered /\ t.kind \in {"success", "failure", "unauthorized"}
    THEN [verdict EXCEPT ![t.model] = t.kind] ELSE verdict

\* The result as it goes to the registry.
Settled(t, effect) == [NoTask EXCEPT !.pc = "final", !.model = t.model,
                                     !.inst = t.inst, !.effect = effect]

\* A result that only concerns its model is reversible.
Reversible(t) == t.kind # "accountWide"

\* The first section of m.mu.
Apply(r) ==
    LET t == task[r]
    IN  /\ t.pc = "locked"
        /\ IF ~SameInstance(r) \/ (Reversible(t) /\ ~t.known)
           THEN /\ task' = [task EXCEPT ![r] = Settled(t, "none")]
                /\ UNCHANGED <<cred, clock, verdict>>
           ELSE /\ cred' = Committed(cred, t, Stamp)
                /\ clock' = Stamp
                /\ verdict' = Noted(t)
                /\ task' = [task EXCEPT
                     ![r] = IF Reversible(t)
                            THEN [t EXCEPT !.pc = "applied", !.before = cred,
                                           !.effect = Effect(t)]
                            ELSE Settled(t, "none")]
        /\ UNCHANGED <<registry, sync, hook, refresh, latest, unhidden>>

\* The second look at the registry, outside m.mu.
Recheck(r) ==
    /\ task[r].pc = "applied"
    /\ task' = [task EXCEPT ![r] = [@ EXCEPT !.pc = "rechecked",
                                            !.known = task[r].model \in registered]]
    /\ UNCHANGED <<registry, cred, sync, hook, refresh, clock, verdict, latest, unhidden>>

\* Variant for mutation: the second section does not look at the instance.
FinalizeAnyInstance(r) ==
    LET t == task[r]
    IN  /\ t.pc = "rechecked"
        /\ IF t.known
           THEN /\ task' = [task EXCEPT ![r] = Settled(t, t.effect)]
                /\ UNCHANGED cred
           ELSE /\ cred' = t.before
                /\ task' = [task EXCEPT ![r] = Settled(t, "none")]
        /\ UNCHANGED <<registry, sync, hook, refresh, clock, verdict, latest, unhidden>>

\* The second section: the result stands or the copy is put back.
Finalize(r) ==
    LET t == task[r]
    IN  /\ t.pc = "rechecked"
        /\ IF ~SameInstance(r) \/ t.known
           THEN /\ task' = [task EXCEPT ![r] = Settled(t, t.effect)]
                /\ UNCHANGED cred
           ELSE /\ cred' = t.before
                /\ task' = [task EXCEPT ![r] = Settled(t, "none")]
        /\ UNCHANGED <<registry, sync, hook, refresh, clock, verdict, latest, unhidden>>

\* A last check of the instance before the registry is told; the result lock is
\* given back if the credential has been replaced.
CheckCurrent(r) ==
    /\ task[r].pc = "final"
    /\ task' = [task EXCEPT ![r] = IF SameInstance(r)
                                   THEN [@ EXCEPT !.pc = "current"] ELSE Ended]
    /\ UNCHANGED <<registry, cred, sync, hook, refresh, clock, verdict, latest, unhidden>>

\* The registry keeps marks only for models that some client offers: this one,
\* or, when this one has lost the model, perhaps another.
Marked(m) ==
    IF m \in registered THEN {suspended \union {m}}
    ELSE {suspended, suspended \union {m}}

\* applyRegistryResult, after which the result lock is free.
ApplyRegistry(r) ==
    LET t == task[r]
    IN  /\ t.pc = "current"
        /\ suspended' \in CASE t.effect = "resume" -> {suspended \ {t.model}}
                            [] t.effect = "suspend" -> Marked(t.model)
                            [] t.effect = "none" -> {suspended}
        /\ unhidden' = IF t.effect = "none" THEN unhidden ELSE unhidden \ {t.model}
        /\ task' = [task EXCEPT ![r] = Ended]
        /\ UNCHANGED <<registered, cred, sync, hook, refresh, clock, verdict, latest>>

-----------------------------------------------------------------------------
(* The synchronisation of the catalog.                                     *)

\* authHasTransientState.
Transient(c) == c.states # NoStates

\* The catalog is fetched or restored; the registration starts afresh after a
\* replacement, for a credential without any state and for one that was withdrawn;
\* a credential that cannot be selected offers nothing.
SyncBegin(reset) ==
    /\ sync.pc = "idle"
    /\ clock < MaxClock
    /\ reset => hook \/ ~Transient(cred) \/ registered = {}
    /\ sync' = [NoSync EXCEPT !.pc = "begun", !.reset = reset, !.expected = Identity(cred)]
    /\ hook' = (hook /\ ~reset)
    /\ UNCHANGED <<registry, cred, task, refresh, clock, verdict, latest, unhidden>>

\* registerClient with the catalog that was fetched or restored; a credential that
\* cannot be selected offers nothing.  Marks of models that go are dropped, and on
\* a reset also those of models that stay or come.
Register(offer) ==
    /\ sync.pc = "begun"
    /\ registered' = offer
    /\ suspended' = (suspended \ (registered \ offer))
                        \ (IF sync.reset THEN offer ELSE {})
    /\ verdict' = [m \in Model |->
                     IF sync.reset \/ m \notin offer THEN "none" ELSE verdict[m]]
    /\ sync' = [sync EXCEPT !.pc = "registered"]
    /\ UNCHANGED <<cred, task, hook, refresh, clock, latest, unhidden>>

\* reconcileRegistryModelStates reads the registry before it takes m.mu.
ReadOffer ==
    /\ sync.pc = "registered"
    /\ sync' = [sync EXCEPT !.pc = "read", !.offer = registered]
    /\ UNCHANGED <<registry, cred, task, hook, refresh, clock, verdict, latest, unhidden>>

\* Variant for mutation: the state of a model that has gone is set to nil instead
\* of being deleted.
ReconciledToNil(states) ==
    [m \in Model |-> IF states[m] = "absent" THEN "absent"
                     ELSE IF m \notin sync.offer THEN "nil"
                     ELSE IF sync.reset THEN "clean" ELSE states[m]]

\* The states that remain: none of a model that is not offered, and clean ones
\* after a reset.
Reconciled(states) ==
    [m \in Model |-> IF m \notin sync.offer \/ states[m] = "absent" THEN "absent"
                     ELSE IF sync.reset THEN "clean" ELSE states[m]]

\* The rest of it, inside m.mu.
Reconcile ==
    /\ sync.pc = "read"
    /\ IF Identity(cred) = sync.expected /\ Reconciled(cred.states) # cred.states
       THEN /\ cred' = [cred EXCEPT !.states = Reconciled(cred.states), !.rev = Stamp]
            /\ clock' = Stamp
            /\ verdict' = [m \in Model |->
                 IF sync.reset \/ m \notin sync.offer THEN "none" ELSE verdict[m]]
       ELSE UNCHANGED <<cred, clock, verdict>>
    /\ sync' = NoSync
    /\ UNCHANGED <<registry, task, hook, refresh, latest, unhidden>>

-----------------------------------------------------------------------------
(* Refresh, replacement and save of the credential.                        *)

\* refreshAuthExpected: the upstream refresh works on a copy.
RefreshBegin ==
    /\ refresh.pc = "idle"
    /\ clock < MaxClock
    /\ refresh' = [NoRefresh EXCEPT !.pc = "fetching", !.baseline = cred]
    /\ UNCHANGED <<registry, cred, task, sync, hook, clock, verdict, latest, unhidden>>

\* Upstream or the context fails, or another credential has come: the refresh
\* leaves no trace in the runtime credential that matters here.
RefreshEnds ==
    /\ refresh.pc \in {"fetching", "fetched", "prepared"}
    /\ refresh' = NoRefresh
    /\ UNCHANGED <<registry, cred, task, sync, hook, clock, verdict, latest, unhidden>>

\* The refresh still belongs to the installed credential
\* (runtimeMetadataMutationMatchesCurrent).
StillExpected ==
    cred.inst = refresh.baseline.inst /\ cred.install = refresh.baseline.install

\* Variant for mutation: nothing is carried forward.
CarryNothing(next) == next

\* carryForwardConcurrentRefreshRuntimeState: what happened to the credential
\* since the copy was made goes into the refreshed one.
CarryForward(next) ==
    IF cred.states = refresh.baseline.states /\ cred.rev = refresh.baseline.rev
    THEN next
    ELSE [next EXCEPT !.states = cred.states, !.rev = cred.rev]

\* clearUnauthorizedRefreshState: a 401 of a model is forgotten.
Unauthorized(c) == {m \in Model : c.states[m] = "unauthorized"}

Cleared(c) == [c EXCEPT !.states = [m \in Model |-> IF m \in Unauthorized(c) THEN "clean" ELSE @[m]]]

\* Upstream has answered, perhaps with another account's token, or the last attempt
\* to commit it has failed: applyRefreshedAuth up to the save, which holds the
\* mutation lock.
RefreshPrepare(replaces) ==
    /\ StillExpected
    /\ \/ refresh.pc = "fetching"
       \/ refresh.pc = "fetched" /\ replaces = refresh.replaces
    /\ LET answer == IF refresh.pc = "fetched" THEN refresh.updated
                     ELSE [refresh.baseline EXCEPT !.rev = Stamp]
       IN  refresh' = [refresh EXCEPT !.pc = "prepared", !.replaces = replaces,
                                      !.updated = IF replaces THEN answer
                                                  ELSE Cleared(CarryForward(answer))]
    /\ clock' = IF refresh.pc = "fetched" THEN clock ELSE Stamp
    /\ UNCHANGED <<registry, cred, task, sync, hook, verdict, latest, unhidden>>

\* The save fails with an unknown outcome, or its store has been replaced: another
\* attempt will begin with what this one has carried forward.  Every store that
\* comes allows refreshCommitAttempts more, so their number is not limited.
AttemptFails ==
    /\ refresh.pc = "prepared"
    /\ refresh' = [refresh EXCEPT !.pc = "fetched"]
    /\ UNCHANGED <<registry, cred, task, sync, hook, clock, verdict, latest, unhidden>>

\* The commit is given up, after a save that was rolled back or the last attempt,
\* or the queue of refreshes was full at its beginning: the credential is marked.
RefreshFails ==
    /\ refresh.pc \in {"fetching", "fetched"}
    /\ IF StillExpected
       THEN cred' = [cred EXCEPT !.rev = Stamp] /\ clock' = Stamp
       ELSE UNCHANGED <<cred, clock>>
    /\ refresh' = NoRefresh
    /\ UNCHANGED <<registry, task, sync, hook, verdict, latest, unhidden>>

\* A credential of another account: a new instance without history.
Replacement(now) ==
    [inst |-> now, install |-> now, hash |-> now, rev |-> now, states |-> NoStates]

\* The new instance is installed and its update hook is about to run.
InstallReplacement ==
    /\ cred' = Replacement(Stamp)
    /\ latest' = [inst |-> Stamp, install |-> Stamp]
    /\ verdict' = [m \in Model |-> "none"]
    /\ hook' = TRUE

\* The rest of it, after the save.  What is carried forward now is cleared again, and
\* only the 401s that are cleared now will be resumed in the registry.
RefreshInstall ==
    /\ refresh.pc = "prepared"
    /\ StillExpected
    /\ IF refresh.replaces
       THEN InstallReplacement /\ refresh' = NoRefresh
       ELSE LET next == CarryForward(refresh.updated)
            IN  /\ cred' = [Cleared(next) EXCEPT !.inst = cred.inst, !.install = Stamp, !.hash = Stamp]
                /\ latest' = [latest EXCEPT !.install = Stamp]
                /\ verdict' = [m \in Model |-> IF verdict[m] = "unauthorized" THEN "none" ELSE verdict[m]]
                /\ refresh' = IF Unauthorized(next) = {} THEN NoRefresh
                              ELSE [NoRefresh EXCEPT !.pc = "resuming", !.resume = Unauthorized(next)]
                /\ UNCHANGED hook
    /\ clock' = Stamp
    /\ UNCHANGED <<registry, task, sync, unhidden>>

\* ResumeClientModel for one of them, whatever was recorded since; a mark for an
\* exhausted quota stays.
RefreshResume(m) ==
    /\ refresh.pc = "resuming" /\ m \in refresh.resume
    /\ suspended' \in {suspended, suspended \ {m}}
    /\ unhidden' = unhidden \union (suspended \ suspended')
    /\ refresh' = IF refresh.resume = {m} THEN NoRefresh ELSE [refresh EXCEPT !.resume = @ \ {m}]
    /\ UNCHANGED <<registered, cred, task, sync, hook, clock, verdict, latest>>

\* Update with a credential of another account, by the watcher or an operator.
Replace ==
    /\ MutationLockFree
    /\ clock < MaxClock
    /\ InstallReplacement
    /\ clock' = Stamp
    /\ UNCHANGED <<registry, task, sync, refresh, unhidden>>

\* A background save of the credential moves its source hash.
SaveResult ==
    /\ MutationLockFree
    /\ clock < MaxClock
    /\ cred' = [cred EXCEPT !.hash = Stamp]
    /\ clock' = Stamp
    /\ UNCHANGED <<registry, task, sync, hook, refresh, verdict, latest, unhidden>>

-----------------------------------------------------------------------------
Next ==
    \/ \E r \in Request :
          \/ \E m \in Model : Send(r, m)
          \/ \E kind \in Kind : TakeResult(r, kind)
          \/ Apply(r) \/ Recheck(r) \/ Finalize(r) \/ CheckCurrent(r) \/ ApplyRegistry(r)
    \/ \E reset \in BOOLEAN : SyncBegin(reset)
    \/ \E offer \in SUBSET Model : Register(offer)
    \/ ReadOffer \/ Reconcile
    \/ RefreshBegin \/ RefreshEnds
    \/ \E replaces \in BOOLEAN : RefreshPrepare(replaces)
    \/ AttemptFails \/ RefreshFails \/ RefreshInstall
    \/ \E m \in Model : RefreshResume(m)
    \/ Replace \/ SaveResult

Spec == Init /\ [][Next]_vars

-----------------------------------------------------------------------------
Pc == Holding \union {"idle", "flying", "ended"}

TaskType == [pc : Pc, model : Model \union {NoModel}, inst : Nat, kind : Kind,
             known : BOOLEAN, before : Credential,
             effect : {"none", "resume", "suspend"}]

\* Every variable has its type: a credential has at most one state for each
\* model, whatever is pruned, reset, carried forward or put back.
TypeOK ==
    /\ registered \subseteq Model
    /\ suspended \subseteq Model
    /\ cred \in Credential
    /\ task \in [Request -> TaskType]
    /\ sync \in [pc : {"idle", "begun", "registered", "read"}, offer : SUBSET Model,
                 reset : BOOLEAN, expected : [inst : Nat, install : Nat, hash : Nat]]
    /\ hook \in BOOLEAN
    /\ refresh \in [pc : {"idle", "fetching", "fetched", "prepared", "resuming"}, baseline : Credential,
                    updated : Credential, replaces : BOOLEAN, resume : SUBSET Model]
    /\ clock \in Nat
    /\ verdict \in [Model -> {"none", "success", "failure", "unauthorized"}]
    /\ latest \in [inst : Nat, install : Nat]
    /\ unhidden \subseteq Model

\* A failure that was recorded for a model stays recorded in the credential as
\* long as the model stays in the catalog, through every refresh, save, sync and
\* other result, until its next success: no copy put back and no refreshed
\* credential loses it.  A 401 stays until then or until a refreshed credential is
\* installed, which is to have repaired it.
FailureKept ==
    \A m \in Model :
        /\ verdict[m] = "failure" => cred.states[m] = "failed"
        /\ verdict[m] = "unauthorized" => cred.states[m] = "unauthorized"

\* The registry hears of the results of a model in the order in which the
\* credential did: once no result of the model is under way, the registry hides
\* the credential for it after a failure and shows it after a success.  Not so
\* after a failure that a refresh, which had cleared an earlier 401 of the model,
\* overtook on its way to the registry: it resumes the model without a look at
\* what was recorded since, and it stays shown until the next result.
RegistryInOrder ==
    \A m \in Model : ~Unsettled(m) =>
        /\ verdict[m] \in {"failure", "unauthorized"} => m \in suspended \union unhidden
        /\ verdict[m] = "success" => m \notin suspended

\* A replaced credential never comes back: the runtime credential is the instance
\* that was installed last, whatever results of older instances are still under
\* way.
ReplacementFinal == cred.inst = latest.inst

\* A refreshed credential stays: the runtime credential is the installation that
\* was made last.
RefreshKept == cred.install = latest.install

=============================================================================
