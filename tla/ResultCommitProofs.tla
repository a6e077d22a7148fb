------------------------- MODULE ResultCommitProofs -------------------------
(***************************************************************************)
(* Theorems of ResultCommit for any models, requests and bound: types, the  *)
(* finality of a replacement, the failures that stay recorded and the order *)
(* in which the registry hears of results.                                  *)
(***************************************************************************)
EXTENDS ResultCommit, TLAPS

\* The result of a request is in the credential; the registry has not heard.
Told == {"applied", "rechecked", "final", "current"}

\* Its copy of the credential may still be put back.
Copied == {"applied", "rechecked"}

\* The state s of a model records its last result v, if that is a failure.
Shows(v, s) == /\ v = "failure" => s = "failed"
               /\ v = "unauthorized" => s = "unauthorized"

\* The registry hides the credential for these models, or a refresh has unhidden them.
Hidden == suspended \union unhidden

Failure == {"failure", "unauthorized"}

\* At most one request holds the result lock.
Exclusive == \A r, s \in Request : Calling(r) /\ Calling(s) => r = s

\* What holds of a request at each place: the copy it may put back is of its own
\* instance and has every failure but those of its model; a model it found gone
\* has no result; what it will tell the registry is the last result of its model,
\* or it has nothing to tell and the registry is right already.
Sound(t) ==
    /\ t.pc \notin {"idle", "ended"} => t.model \in Model
    /\ t.before.rev <= clock
    /\ t.pc \in Copied =>
          /\ t.before.inst = t.inst
          /\ \A m \in Model \ {t.model} : Shows(verdict[m], t.before.states[m])
    /\ t.pc \in {"locked", "rechecked"} /\ ~t.known => verdict[t.model] = "none"
    /\ t.pc \in Told =>
          /\ verdict[t.model] \in Failure =>
                t.effect = "suspend" \/ (t.effect = "none" /\ t.model \in Hidden)
          /\ verdict[t.model] = "success" =>
                t.effect = "resume" \/ (t.effect = "none" /\ t.model \notin suspended)
          /\ t.effect # "none" /\ cred.inst # t.inst => verdict[t.model] = "none"

Requests == \A r \in Request : Sound(task[r])

\* A model that is not offered has no last result.
Offered == \A m \in Model : m \notin registered => verdict[m] = "none"

\* The failures are in the states S, but for models M.
Recorded(S, M) == \A m \in Model \ M : verdict[m] = "failure" => S[m] = "failed"

\* A refreshed credential that is about to be installed, or that an attempt which
\* failed has left behind.
Pending == refresh.pc \in {"prepared", "fetched"} /\ ~refresh.replaces

\* It has every failure, should the runtime credential look as it did when the
\* refresh began: now, or after a copy has been put back.
Carried ==
    Pending =>
        /\ cred.rev = refresh.baseline.rev => Recorded(refresh.updated.states, {})
        /\ \A r \in Request :
              task[r].pc \in Copied /\ task[r].before.rev = refresh.baseline.rev =>
                  Recorded(refresh.updated.states, {task[r].model})

\* Stamps come from the clock.
Stamped == cred.rev <= clock /\ refresh.baseline.rev <= clock /\ refresh.updated.rev <= clock

IInv == /\ TypeOK /\ Exclusive /\ Requests /\ Offered /\ Carried /\ Stamped
        /\ FailureKept /\ RegistryInOrder /\ ReplacementFinal

-----------------------------------------------------------------------------
LEMMA NoCredType == NoCred \in Credential
  BY DEF NoCred, NoStates, Credential, State

\* The result of a request leaves a credential with at most one state per model.
LEMMA CommittedType ==
    ASSUME NEW c \in Credential, NEW t \in TaskType, NEW now \in Nat
    PROVE  Committed(c, t, now) \in Credential
<1> DEFINE S == [Model -> State]
<1>1. c.states \in S
  BY DEF Credential
<1>2. \A v \in State : [c.states EXCEPT ![t.model] = v] \in S
  BY <1>1
<1>3. \A v \in S : [c EXCEPT !.states = v, !.rev = now] \in Credential
  BY DEF Credential
<1>4. c.states[t.model] \in State \/ [c.states EXCEPT ![t.model] = c.states[t.model]] = c.states
  BY <1>1
<1>5. [c EXCEPT !.states[t.model] = "clean", !.rev = now] \in Credential
  BY <1>1 DEF Credential, State
<1>6. [c EXCEPT !.states[t.model] = "failed", !.rev = now] \in Credential
  BY <1>1 DEF Credential, State
<1>7. [c EXCEPT !.rev = now, !.states[t.model] = IF t.known THEN @ ELSE "absent"] \in Credential
  BY <1>1 DEF Credential, State
<1>8. t.kind \in Kind
  BY DEF TaskType
<1>9. [c EXCEPT !.states[t.model] = "unauthorized", !.rev = now] \in Credential
  BY <1>1 DEF Credential, State
<1> QED
  BY <1>5, <1>6, <1>7, <1>8, <1>9 DEF Committed, Kind

\* The parts of the invariant that do not concern the shape of the step: nothing
\* of the requests changes, results are only forgotten, the instance changes only
\* when all are, and the registry's marks change only where there is none or as a
\* refresh takes one away.
Quiet ==
    /\ clock <= clock'
    /\ task' = task
    /\ \A m \in Model : verdict'[m] \in {verdict[m], "none"}
    /\ cred'.inst = cred.inst \/ \A m \in Model : verdict'[m] = "none"
    /\ \A m \in Model : verdict'[m] # "none" =>
          (m \in Hidden => m \in Hidden') /\ (m \in suspended' => m \in suspended)

\* A quiet step keeps what holds of the requests and the order of the registry.
LEMMA QuietStep ==
    ASSUME TypeOK, TypeOK', Exclusive, Requests, RegistryInOrder, Quiet
    PROVE  Exclusive' /\ Requests' /\ RegistryInOrder'
<1>1. clock \in Nat /\ clock' \in Nat /\ clock <= clock' /\ task' = task
  BY DEF TypeOK, Quiet
<1>2. Exclusive'
  BY <1>1 DEF Exclusive, Calling
<1>3. ASSUME NEW r \in Request PROVE Sound(task[r])'
  <2> DEFINE t == task[r]
  <2>1. Sound(t) /\ t \in TaskType /\ t.before.rev \in Nat
    BY DEF Requests, TypeOK, TaskType, Credential
  <2>2. t.pc \notin {"idle", "ended"} => t.model \in Model
    BY <2>1 DEF Sound
  <2>3. t.before.rev <= clock'
    BY <1>1, <2>1 DEF Sound
  <2>4. t.pc \in Copied =>
          /\ t.before.inst = t.inst
          /\ \A m \in Model \ {t.model} : Shows(verdict'[m], t.before.states[m])
    BY <2>1 DEF Sound, Quiet, Shows
  <2>5. t.pc \in {"locked", "rechecked"} /\ ~t.known => verdict'[t.model] = "none"
    BY <2>1, <2>2 DEF Sound, Quiet
  <2>6. t.pc \in Told =>
          /\ verdict'[t.model] \in Failure =>
                t.effect = "suspend" \/ (t.effect = "none" /\ t.model \in Hidden')
          /\ verdict'[t.model] = "success" =>
                t.effect = "resume" \/ (t.effect = "none" /\ t.model \notin suspended')
          /\ t.effect # "none" /\ cred'.inst # t.inst => verdict'[t.model] = "none"
    BY <2>1, <2>2 DEF Sound, Quiet, Told, Failure
  <2> QED
    BY <1>1, <2>2, <2>3, <2>4, <2>5, <2>6 DEF Sound
<1>4. RegistryInOrder'
  BY <1>1 DEF RegistryInOrder, Unsettled, Quiet, Hidden
<1> QED
  BY <1>2, <1>3, <1>4 DEF Requests

-----------------------------------------------------------------------------
\* Types.
LEMMA NoTaskType == NoTask \in TaskType /\ Ended \in TaskType
  BY NoCredType DEF NoTask, Ended, TaskType, Pc, Holding, Kind

LEMMA SettledType ==
    ASSUME NEW t \in TaskType, NEW effect \in {"none", "resume", "suspend"}
    PROVE  Settled(t, effect) \in TaskType
  BY NoTaskType DEF Settled, TaskType, Pc, Holding

LEMMA RequestTypes ==
    ASSUME TypeOK, Requests, NEW r \in Request,
           \/ \E m \in Model : Send(r, m)
           \/ \E kind \in Kind : TakeResult(r, kind)
           \/ Apply(r) \/ Recheck(r) \/ Finalize(r) \/ CheckCurrent(r) \/ ApplyRegistry(r)
    PROVE  TypeOK'
<1> DEFINE t == task[r]
<1>1. t \in TaskType /\ cred \in Credential /\ Stamp \in Nat
  BY DEF TypeOK, Stamp
<1>2. t.before \in Credential /\ t.effect \in {"none", "resume", "suspend"}
      /\ t.inst \in Nat /\ t.kind \in Kind
  BY <1>1 DEF TaskType
<1>3. \A x \in TaskType : [task EXCEPT ![r] = x] \in [Request -> TaskType]
  BY DEF TypeOK
<1>4. CASE \E m \in Model : Send(r, m)
  <2>1. PICK m \in Model : Send(r, m)
    BY <1>4
  <2>2. [NoTask EXCEPT !.pc = "flying", !.model = m, !.inst = cred.inst] \in TaskType
    BY <1>1, NoTaskType DEF TaskType, Pc, Credential
  <2>3. task' \in [Request -> TaskType]
    BY <2>1, <2>2, <1>3 DEF Send
  <2> QED
    BY <2>1, <2>3 DEF Send, TypeOK, registry
<1>5. CASE \E kind \in Kind : TakeResult(r, kind)
  <2>1. PICK kind \in Kind : TakeResult(r, kind)
    BY <1>5
  <2>2. \A b \in BOOLEAN :
           [t EXCEPT !.pc = "locked", !.kind = kind, !.known = b] \in TaskType
    BY <1>1 DEF TaskType, Pc, Holding
  <2>3. (t.model \in registered) \in BOOLEAN
    OBVIOUS
  <2>4. task' \in [Request -> TaskType]
    BY <2>1, <2>2, <2>3, <1>3 DEF TakeResult
  <2> QED
    BY <2>1, <2>4 DEF TakeResult, TypeOK, registry
<1>6. CASE Apply(r)
  <2>1. Committed(cred, t, Stamp) \in Credential
    BY <1>1, CommittedType
  <2>2. Settled(t, "none") \in TaskType
    BY <1>1, SettledType
  <2>3. Effect(t) \in {"none", "resume", "suspend"}
    BY DEF Effect
  <2>4. [t EXCEPT !.pc = "applied", !.before = cred, !.effect = Effect(t)] \in TaskType
    BY <1>1, <2>3 DEF TaskType, Pc, Holding
  <2>5. Noted(t) \in [Model -> {"none", "success", "failure", "unauthorized"}]
    BY <1>2 DEF Noted, TypeOK
  <2>6. task' \in [Request -> TaskType]
    BY <1>6, <1>3, <2>2, <2>4 DEF Apply
  <2>7. CASE task' = [task EXCEPT ![r] = Settled(t, "none")] /\ UNCHANGED <<cred, clock, verdict>>
    BY <1>6, <2>6, <2>7 DEF Apply, TypeOK, registry
  <2>8. CASE cred' = Committed(cred, t, Stamp) /\ clock' = Stamp /\ verdict' = Noted(t)
    BY <1>6, <1>1, <2>1, <2>5, <2>6, <2>8 DEF Apply, TypeOK, registry
  <2> QED
    BY <1>6, <2>7, <2>8 DEF Apply
<1>7. CASE Recheck(r)
  <2>1. \A b \in BOOLEAN : [t EXCEPT !.pc = "rechecked", !.known = b] \in TaskType
    BY <1>1 DEF TaskType, Pc, Holding
  <2>2. (t.model \in registered) \in BOOLEAN
    OBVIOUS
  <2>3. task' \in [Request -> TaskType]
    BY <1>7, <1>3, <2>1, <2>2 DEF Recheck
  <2> QED
    BY <1>7, <2>3 DEF Recheck, TypeOK, registry
<1>8. CASE Finalize(r)
  <2>1. Settled(t, "none") \in TaskType /\ Settled(t, t.effect) \in TaskType
    BY <1>1, <1>2, SettledType
  <2>2. task' \in [Request -> TaskType] /\ cred' \in Credential
    BY <1>8, <1>1, <1>2, <1>3, <2>1 DEF Finalize
  <2> QED
    BY <1>8, <2>2 DEF Finalize, TypeOK, registry
<1>9. CASE CheckCurrent(r)
  <2>1. [t EXCEPT !.pc = "current"] \in TaskType
    BY <1>1 DEF TaskType, Pc, Holding
  <2>2. task' \in [Request -> TaskType]
    BY <1>9, <1>3, <2>1, NoTaskType DEF CheckCurrent
  <2> QED
    BY <1>9, <2>2 DEF CheckCurrent, TypeOK, registry
<1>10. CASE ApplyRegistry(r)
  <2>1. task' \in [Request -> TaskType]
    BY <1>10, <1>3, NoTaskType DEF ApplyRegistry
  <2>2. t.model \in Model
    BY <1>10 DEF ApplyRegistry, Requests, Sound
  <2>3. suspended' \subseteq Model
    BY <1>10, <1>2, <2>2 DEF ApplyRegistry, TypeOK, Marked
  <2> QED
    BY <1>10, <2>1, <2>3 DEF ApplyRegistry, TypeOK
<1> QED
  BY <1>4, <1>5, <1>6, <1>7, <1>8, <1>9, <1>10

SyncType == [pc : {"idle", "begun", "registered", "read"}, offer : SUBSET Model,
             reset : BOOLEAN, expected : [inst : Nat, install : Nat, hash : Nat]]

LEMMA SyncTypes ==
    ASSUME TypeOK,
           \/ \E reset \in BOOLEAN : SyncBegin(reset)
           \/ \E offer \in SUBSET Model : Register(offer)
           \/ ReadOffer \/ Reconcile
    PROVE  TypeOK'
<1>1. sync \in SyncType /\ cred \in Credential /\ Stamp \in Nat
  BY DEF TypeOK, SyncType, Stamp
<1>2. Identity(cred) \in [inst : Nat, install : Nat, hash : Nat]
  BY <1>1 DEF Identity, Credential
<1>3. NoSync \in SyncType
  BY DEF NoSync, SyncType, Identity, NoCred
<1>4. CASE \E reset \in BOOLEAN : SyncBegin(reset)
  <2>1. PICK reset \in BOOLEAN : SyncBegin(reset)
    BY <1>4
  <2>2. sync' \in SyncType
    BY <2>1, <1>2, <1>3 DEF SyncBegin, SyncType
  <2>3. hook' \in BOOLEAN
    BY <2>1 DEF SyncBegin
  <2> QED
    BY <2>1, <2>2, <2>3 DEF SyncBegin, TypeOK, SyncType, registry
<1>5. CASE \E offer \in SUBSET Model : Register(offer)
  <2>1. PICK offer \in SUBSET Model : Register(offer)
    BY <1>5
  <2>2. sync' \in SyncType
    BY <2>1, <1>1 DEF Register, SyncType
  <2>3. registered' \subseteq Model /\ suspended' \subseteq Model
    BY <2>1 DEF Register, TypeOK
  <2>4. verdict' \in [Model -> {"none", "success", "failure", "unauthorized"}]
    BY <2>1 DEF Register, TypeOK
  <2> QED
    BY <2>1, <2>2, <2>3, <2>4 DEF Register, TypeOK, SyncType
<1>6. CASE ReadOffer
  <2>1. sync' \in SyncType
    BY <1>6, <1>1 DEF ReadOffer, SyncType, TypeOK
  <2> QED
    BY <1>6, <2>1 DEF ReadOffer, TypeOK, SyncType, registry
<1>7. CASE Reconcile
  <2>1. Reconciled(cred.states) \in [Model -> State]
    BY <1>1 DEF Reconciled, Credential, State
  <2>2. [cred EXCEPT !.states = Reconciled(cred.states), !.rev = Stamp] \in Credential
    BY <2>1, <1>1 DEF Credential
  <2>3. /\ cred' \in Credential /\ clock' \in Nat
        /\ verdict' \in [Model -> {"none", "success", "failure", "unauthorized"}]
    BY <1>7, <1>1, <2>2 DEF Reconcile, TypeOK
  <2> QED
    BY <1>7, <1>3, <2>3 DEF Reconcile, TypeOK, SyncType, registry
<1> QED
  BY <1>4, <1>5, <1>6, <1>7

RefreshType == [pc : {"idle", "fetching", "fetched", "prepared", "resuming"}, baseline : Credential,
                updated : Credential, replaces : BOOLEAN, resume : SUBSET Model]

LEMMA CarryForwardType ==
    ASSUME TypeOK, NEW next \in Credential
    PROVE  CarryForward(next) \in Credential
  BY DEF CarryForward, TypeOK, Credential

\* Clearing forgets the 401s of models and nothing else.
LEMMA ClearedParts ==
    ASSUME NEW c \in Credential
    PROVE  /\ Cleared(c) \in Credential
           /\ Cleared(c).inst = c.inst /\ Cleared(c).rev = c.rev
           /\ \A m \in Model : c.states[m] = "failed" => Cleared(c).states[m] = "failed"
<1> DEFINE S == [m \in Model |-> IF m \in Unauthorized(c) THEN "clean" ELSE c.states[m]]
<1>1. c.states \in [Model -> State] /\ "clean" \in State
  BY DEF Credential, State
<1>2. S \in [Model -> State]
  BY <1>1
<1>3. \A m \in Model : c.states[m] = "failed" => S[m] = "failed"
  BY DEF Unauthorized
<1>4. Cleared(c) = [c EXCEPT !.states = S]
  BY DEF Cleared
<1> HIDE DEF S
<1> QED
  BY <1>2, <1>3, <1>4 DEF Credential

LEMMA ReplacementType ==
    ASSUME TypeOK, InstallReplacement
    PROVE  /\ cred' \in Credential /\ latest' \in [inst : Nat, install : Nat]
           /\ verdict' \in [Model -> {"none", "success", "failure", "unauthorized"}] /\ hook' \in BOOLEAN
  BY DEF TypeOK, InstallReplacement, Replacement, Stamp, Credential, NoStates, State

LEMMA RefreshTypes ==
    ASSUME TypeOK,
           \/ RefreshBegin \/ RefreshEnds
           \/ \E replaces \in BOOLEAN : RefreshPrepare(replaces)
           \/ AttemptFails \/ RefreshFails \/ RefreshInstall
           \/ \E m \in Model : RefreshResume(m)
           \/ Replace \/ SaveResult
    PROVE  TypeOK'
<1>1. refresh \in RefreshType /\ cred \in Credential /\ Stamp \in Nat
  BY DEF TypeOK, RefreshType, Stamp
<1>2. NoRefresh \in RefreshType
  BY NoCredType DEF NoRefresh, RefreshType
<1>3. CASE RefreshBegin
  <2>1. refresh' \in RefreshType
    BY <1>3, <1>1, <1>2 DEF RefreshBegin, RefreshType
  <2> QED
    BY <1>3, <2>1 DEF RefreshBegin, TypeOK, RefreshType, registry
<1>4. CASE RefreshEnds
  BY <1>4, <1>2 DEF RefreshEnds, TypeOK, RefreshType, registry
<1>5. CASE \E replaces \in BOOLEAN : RefreshPrepare(replaces)
  <2>1. PICK replaces \in BOOLEAN : RefreshPrepare(replaces)
    BY <1>5
  <2> DEFINE answer == IF refresh.pc = "fetched" THEN refresh.updated
                       ELSE [refresh.baseline EXCEPT !.rev = Stamp]
             next == IF replaces THEN answer ELSE Cleared(CarryForward(answer))
  <2>2. answer \in Credential
    BY <1>1 DEF RefreshType, Credential
  <2>3. next \in Credential
    BY <2>2, CarryForwardType, ClearedParts
  <2>4. refresh' = [refresh EXCEPT !.pc = "prepared", !.replaces = replaces, !.updated = next]
    BY <2>1 DEF RefreshPrepare
  <2> HIDE DEF next
  <2>5. refresh' \in RefreshType
    BY <1>1, <2>3, <2>4 DEF RefreshType
  <2> QED
    BY <1>1, <2>1, <2>5 DEF RefreshPrepare, TypeOK, RefreshType, registry
<1>6. CASE RefreshInstall
  <2>1. CASE refresh.replaces
    BY <1>6, <2>1, <1>1, <1>2, ReplacementType DEF RefreshInstall, TypeOK, RefreshType, registry
  <2>2. CASE ~refresh.replaces
    <3> DEFINE next == CarryForward(refresh.updated)
    <3>1. next \in Credential /\ Cleared(next) \in Credential
      BY <1>1, CarryForwardType, ClearedParts DEF RefreshType
    <3>2. /\ cred' = [Cleared(next) EXCEPT !.inst = cred.inst, !.install = Stamp, !.hash = Stamp]
          /\ refresh' = IF Unauthorized(next) = {} THEN NoRefresh
                        ELSE [NoRefresh EXCEPT !.pc = "resuming", !.resume = Unauthorized(next)]
      BY <1>6, <2>2 DEF RefreshInstall
    <3> HIDE DEF next
    <3>3. cred' \in Credential
      BY <1>1, <3>1, <3>2 DEF Credential
    <3>4. latest' \in [inst : Nat, install : Nat]
      BY <1>6, <2>2, <1>1 DEF RefreshInstall, TypeOK
    <3>5. verdict' \in [Model -> {"none", "success", "failure", "unauthorized"}]
      BY <1>6, <2>2 DEF RefreshInstall, TypeOK
    <3>6. Unauthorized(next) \subseteq Model
      BY DEF Unauthorized
    <3>7. refresh' \in RefreshType
      BY <1>2, <3>2, <3>6 DEF RefreshType
    <3> QED
      BY <1>6, <2>2, <1>1, <3>3, <3>4, <3>5, <3>7 DEF RefreshInstall, TypeOK, RefreshType, registry
  <2> QED
    BY <2>1, <2>2
<1>7. CASE Replace
  BY <1>7, <1>1, ReplacementType DEF Replace, TypeOK, registry
<1>8. CASE SaveResult
  <2>1. cred' \in Credential
    BY <1>8, <1>1 DEF SaveResult, Credential
  <2> QED
    BY <1>8, <1>1, <2>1 DEF SaveResult, TypeOK, registry
<1>9. CASE AttemptFails
  <2>1. refresh' \in RefreshType
    BY <1>9, <1>1 DEF AttemptFails, RefreshType
  <2> QED
    BY <1>9, <2>1 DEF AttemptFails, TypeOK, RefreshType, registry
<1>10. CASE RefreshFails
  <2>1. cred' \in Credential /\ clock' \in Nat
    BY <1>10, <1>1 DEF RefreshFails, Credential, TypeOK
  <2> QED
    BY <1>10, <1>2, <2>1 DEF RefreshFails, TypeOK, RefreshType, registry
<1>11. CASE \E m \in Model : RefreshResume(m)
  <2>1. PICK m \in Model : RefreshResume(m)
    BY <1>11
  <2>2. refresh' \in RefreshType
    BY <2>1, <1>1, <1>2 DEF RefreshResume, RefreshType
  <2>3. suspended' \subseteq Model /\ unhidden' \subseteq Model
    BY <2>1 DEF RefreshResume, TypeOK
  <2> QED
    BY <2>1, <2>2, <2>3 DEF RefreshResume, TypeOK, RefreshType
<1> QED
  BY <1>3, <1>4, <1>5, <1>6, <1>7, <1>8, <1>9, <1>10, <1>11

\* Every step keeps the types.
LEMMA TypeStep ==
    ASSUME TypeOK, Requests, [Next]_vars
    PROVE  TypeOK'
<1>1. CASE UNCHANGED vars
  BY <1>1 DEF TypeOK, vars, registry
<1>2. CASE Next
  BY <1>2, RequestTypes, SyncTypes, RefreshTypes DEF Next
<1> QED
  BY <1>1, <1>2

-----------------------------------------------------------------------------
\* The catalog, the refresh, replacements and saves.
LEMMA QuietInv ==
    ASSUME IInv, TypeOK', Quiet, Offered', Carried', Stamped', FailureKept',
           ReplacementFinal'
    PROVE  IInv'
  BY QuietStep DEF IInv

LEMMA SyncStep ==
    ASSUME IInv, TypeOK',
           \/ \E reset \in BOOLEAN : SyncBegin(reset)
           \/ \E offer \in SUBSET Model : Register(offer)
           \/ ReadOffer \/ Reconcile
    PROVE  IInv'
<1>1. clock \in Nat /\ Stamp \in Nat /\ clock < Stamp /\ cred \in Credential
      /\ refresh \in RefreshType
  BY DEF IInv, TypeOK, Stamp, RefreshType
<1>2. TypeOK /\ Offered /\ Carried /\ Stamped /\ FailureKept /\ ReplacementFinal
  BY DEF IInv
<1>3. CASE (\E reset \in BOOLEAN : SyncBegin(reset)) \/ ReadOffer
  <2>1. UNCHANGED <<registry, cred, task, refresh, clock, verdict, latest, unhidden>>
    BY <1>3 DEF SyncBegin, ReadOffer
  <2>2. Quiet
    BY <1>1, <2>1 DEF Quiet, Hidden, registry
  <2>3. Offered' /\ Carried' /\ Stamped' /\ FailureKept' /\ ReplacementFinal'
    BY <1>2, <2>1 DEF Offered, Carried, Pending, Recorded, Stamped, FailureKept, ReplacementFinal, registry
  <2> QED
    BY <2>2, <2>3, QuietInv
<1>4. CASE \E offer \in SUBSET Model : Register(offer)
  <2>1. PICK offer \in SUBSET Model : Register(offer)
    BY <1>4
  <2>2. UNCHANGED <<cred, task, refresh, clock, latest, unhidden>>
    BY <2>1 DEF Register
  <2>3. \A m \in Model : verdict'[m] # "none" =>
           verdict'[m] = verdict[m] /\ ~sync.reset /\ m \in offer
    BY <2>1 DEF Register
  <2>4. \A m \in Model : verdict'[m] \in {verdict[m], "none"}
    BY <2>1 DEF Register
  <2>5. Quiet
    BY <1>1, <2>1, <2>2, <2>3, <2>4 DEF Quiet, Hidden, Register
  <2>6. Offered'
    BY <2>1 DEF Offered, Register
  <2>7. Carried' /\ Stamped' /\ FailureKept' /\ ReplacementFinal'
    BY <1>2, <2>2, <2>3 DEF Carried, Pending, Recorded, Stamped, FailureKept, ReplacementFinal
  <2> QED
    BY <2>5, <2>6, <2>7, QuietInv
<1>5. CASE Reconcile
  <2>1. UNCHANGED <<registry, task, refresh, latest, unhidden>>
    BY <1>5 DEF Reconcile
  <2>2. CASE UNCHANGED <<cred, clock, verdict>>
    <3>1. Quiet
      BY <1>1, <2>1, <2>2 DEF Quiet, Hidden, registry
    <3>2. Offered' /\ Carried' /\ Stamped' /\ FailureKept' /\ ReplacementFinal'
      BY <1>2, <2>1, <2>2 DEF Offered, Carried, Pending, Recorded, Stamped, FailureKept, ReplacementFinal, registry
    <3> QED
      BY <3>1, <3>2, QuietInv
  <2>3. CASE /\ cred' = [cred EXCEPT !.states = Reconciled(cred.states), !.rev = Stamp]
             /\ clock' = Stamp
             /\ verdict' = [m \in Model |->
                  IF sync.reset \/ m \notin sync.offer THEN "none" ELSE verdict[m]]
    <3>1. /\ cred'.inst = cred.inst /\ cred'.rev = Stamp
          /\ cred'.states = Reconciled(cred.states)
      BY <1>1, <2>3 DEF Credential
    <3>2. \A m \in Model : verdict'[m] \in {verdict[m], "none"}
      BY <2>3
    <3>3. \A m \in Model : verdict'[m] # "none" =>
             verdict'[m] = verdict[m] /\ ~sync.reset /\ m \in sync.offer
      BY <2>3
    <3>4. Quiet
      BY <1>1, <2>1, <2>3, <3>1, <3>2 DEF Quiet, Hidden, registry
    <3>5. FailureKept'
      BY <1>2, <3>1, <3>3 DEF FailureKept, Reconciled
    <3>6. Offered'
      BY <1>2, <2>1, <3>2 DEF Offered, registry
    <3>7. refresh.baseline.rev \in Nat /\ refresh.updated.rev \in Nat
      BY <1>1 DEF RefreshType, Credential
    <3>8. Stamped' /\ ReplacementFinal'
      BY <1>1, <1>2, <2>1, <2>3, <3>1, <3>7 DEF Stamped, ReplacementFinal
    <3>9. cred'.rev # refresh.baseline.rev
      BY <1>1, <1>2, <3>1, <3>7 DEF Stamped
    <3>10. Carried'
      BY <1>2, <2>1, <3>3, <3>9 DEF Carried, Pending, Recorded
    <3> QED
      BY <3>4, <3>5, <3>6, <3>8, <3>10, QuietInv
  <2> QED
    BY <1>5, <2>2, <2>3 DEF Reconcile
<1> QED
  BY <1>3, <1>4, <1>5

\* A refreshed credential has the states of the runtime credential or its own.
LEMMA CarryForwardParts ==
    ASSUME NEW next \in Credential
    PROVE  \/ /\ cred.states = refresh.baseline.states /\ cred.rev = refresh.baseline.rev
              /\ CarryForward(next) = next
           \/ /\ CarryForward(next).states = cred.states
              /\ CarryForward(next).rev = cred.rev
  BY DEF CarryForward, Credential

\* A new instance has no results behind it.
LEMMA ReplacementQuiet ==
    ASSUME TypeOK, InstallReplacement, clock' = Stamp, UNCHANGED <<registry, task, unhidden>>
    PROVE  /\ Quiet /\ Offered' /\ FailureKept' /\ ReplacementFinal'
           /\ cred'.rev = Stamp /\ \A m \in Model : verdict'[m] = "none"
<1>1. \A m \in Model : verdict'[m] = "none"
  BY DEF InstallReplacement
<1>2. clock <= clock'
  BY DEF TypeOK, Stamp
<1>3. cred'.rev = Stamp /\ ReplacementFinal'
  BY DEF InstallReplacement, Replacement, ReplacementFinal
<1> QED
  BY <1>1, <1>2, <1>3 DEF Quiet, Hidden, Offered, FailureKept

LEMMA RefreshStep ==
    ASSUME IInv, TypeOK',
           \/ RefreshBegin \/ RefreshEnds
           \/ \E replaces \in BOOLEAN : RefreshPrepare(replaces)
           \/ AttemptFails \/ RefreshFails \/ RefreshInstall
           \/ \E m \in Model : RefreshResume(m)
           \/ Replace \/ SaveResult
    PROVE  IInv'
<1>1. /\ clock \in Nat /\ Stamp \in Nat /\ clock < Stamp /\ cred \in Credential
      /\ refresh \in RefreshType /\ cred.rev \in Nat
      /\ refresh.baseline \in Credential /\ refresh.updated \in Credential
      /\ refresh.baseline.rev \in Nat /\ refresh.updated.rev \in Nat
  BY DEF IInv, TypeOK, Stamp, RefreshType, Credential
<1>2. TypeOK /\ Offered /\ Carried /\ Stamped /\ FailureKept /\ ReplacementFinal
  BY DEF IInv
<1>3. NoRefresh.pc = "idle" /\ NoRefresh.baseline.rev = 0 /\ NoRefresh.updated.rev = 0
  BY DEF NoRefresh, NoCred
<1>4. CASE RefreshBegin \/ RefreshEnds
  <2>1. UNCHANGED <<registry, cred, task, clock, verdict, latest, unhidden>>
    BY <1>4 DEF RefreshBegin, RefreshEnds
  <2>2. Quiet
    BY <1>1, <2>1 DEF Quiet, Hidden, registry
  <2>3. Offered' /\ FailureKept' /\ ReplacementFinal'
    BY <1>2, <2>1 DEF Offered, FailureKept, ReplacementFinal, registry
  <2>4. /\ refresh'.pc \in {"idle", "fetching"} /\ refresh'.updated.rev = 0
        /\ refresh'.baseline.rev \in {0, cred.rev}
    BY <1>4, <1>3 DEF RefreshBegin, RefreshEnds, NoRefresh
  <2>5. Carried' /\ Stamped'
    BY <1>1, <1>2, <2>1, <2>4 DEF Carried, Pending, Stamped
  <2> QED
    BY <2>2, <2>3, <2>5, QuietInv
<1>5. CASE \E replaces \in BOOLEAN : RefreshPrepare(replaces)
  <2>1. PICK replaces \in BOOLEAN : RefreshPrepare(replaces)
    BY <1>5
  <2>2. UNCHANGED <<registry, cred, task, verdict, latest, unhidden>>
    BY <2>1 DEF RefreshPrepare
  <2>3. Offered' /\ FailureKept' /\ ReplacementFinal'
    BY <1>2, <2>2 DEF Offered, FailureKept, ReplacementFinal, registry
  <2>4. CASE refresh.pc = "fetching"
    <3> DEFINE answer == [refresh.baseline EXCEPT !.rev = Stamp]
               carried == CarryForward(answer)
               next == IF replaces THEN answer ELSE Cleared(carried)
    <3>1. /\ clock' = Stamp /\ refresh'.baseline = refresh.baseline
          /\ refresh'.replaces = replaces /\ refresh'.updated = next
      BY <1>1, <2>1, <2>4 DEF RefreshPrepare, RefreshType
    <3>2. answer \in Credential /\ answer.rev = Stamp /\ answer.states = refresh.baseline.states
      BY <1>1 DEF Credential
    <3> HIDE DEF answer
    <3>3. carried \in Credential /\ carried.rev \in {Stamp, cred.rev} /\ carried.states = cred.states
      BY <1>2, <3>2, CarryForwardParts, CarryForwardType
    <3> HIDE DEF carried
    <3>7. /\ next.rev \in {Stamp, cred.rev}
          /\ ~replaces => \A m \in Model : cred.states[m] = "failed" => next.states[m] = "failed"
      BY <3>2, <3>3, ClearedParts
    <3> HIDE DEF next
    <3>4. Quiet
      BY <1>1, <2>2, <3>1 DEF Quiet, Hidden, registry
    <3>5. Stamped'
      BY <1>1, <1>2, <2>2, <3>1, <3>7 DEF Stamped
    <3>6. Carried'
      BY <1>2, <2>2, <3>1, <3>7 DEF Carried, Pending, Recorded, FailureKept
    <3> QED
      BY <2>3, <3>4, <3>5, <3>6, QuietInv
  <2>5. CASE refresh.pc = "fetched"
    <3> DEFINE carried == CarryForward(refresh.updated)
               next == IF replaces THEN refresh.updated ELSE Cleared(carried)
    <3>1. /\ clock' = clock /\ refresh'.baseline = refresh.baseline
          /\ refresh'.replaces = replaces /\ refresh'.updated = next
          /\ replaces = refresh.replaces
      BY <1>1, <2>1, <2>5 DEF RefreshPrepare, RefreshType
    <3>2. /\ carried \in Credential
          /\ \/ carried = refresh.updated
             \/ carried.states = cred.states /\ carried.rev = cred.rev
      BY <1>1, <1>2, CarryForwardParts, CarryForwardType
    <3> HIDE DEF carried
    <3>6. /\ next.rev \in {refresh.updated.rev, cred.rev}
          /\ ~replaces => \A m \in Model : carried.states[m] = "failed" => next.states[m] = "failed"
      BY <3>2, ClearedParts
    <3> HIDE DEF next
    <3>3. Quiet
      BY <1>1, <2>2, <3>1 DEF Quiet, Hidden, registry
    <3>4. Stamped'
      BY <1>1, <1>2, <2>2, <3>1, <3>6 DEF Stamped
    <3>5. Carried'
      <4>1. CASE carried = refresh.updated
        BY <1>2, <2>2, <2>5, <3>1, <3>6, <4>1 DEF Carried, Pending, Recorded
      <4>2. CASE carried.states = cred.states
        BY <1>2, <2>2, <3>1, <3>6, <4>2 DEF Carried, Pending, Recorded, FailureKept
      <4> QED
        BY <3>2, <4>1, <4>2
    <3> QED
      BY <2>3, <3>3, <3>4, <3>5, QuietInv
  <2> QED
    BY <2>1, <2>4, <2>5 DEF RefreshPrepare
<1>6. CASE RefreshInstall
  <2>1. /\ UNCHANGED <<registry, task, unhidden>> /\ clock' = Stamp
        /\ refresh'.pc \in {"idle", "resuming"} /\ refresh'.baseline.rev = 0
        /\ refresh'.updated.rev = 0
    BY <1>3, <1>6 DEF RefreshInstall, NoRefresh
  <2>2. Carried'
    BY <2>1 DEF Carried, Pending
  <2>3. CASE refresh.replaces
    <3>1. /\ Quiet /\ Offered' /\ FailureKept' /\ ReplacementFinal' /\ cred'.rev = Stamp
      BY <1>2, <1>6, <2>1, <2>3, ReplacementQuiet DEF RefreshInstall
    <3>2. Stamped'
      BY <1>1, <2>1, <3>1 DEF Stamped
    <3> QED
      BY <2>2, <3>1, <3>2, QuietInv
  <2>4. CASE ~refresh.replaces
    <3> DEFINE carried == CarryForward(refresh.updated)
    <3>1. carried \in Credential
      BY <1>1, <1>2, CarryForwardType
    <3>2. \/ /\ cred.rev = refresh.baseline.rev /\ carried = refresh.updated
          \/ carried.states = cred.states /\ carried.rev = cred.rev
      BY <1>1, CarryForwardParts
    <3> HIDE DEF carried
    <3>3. cred' = [Cleared(carried) EXCEPT !.inst = cred.inst, !.install = Stamp, !.hash = Stamp]
      BY <1>6, <2>4 DEF RefreshInstall, carried
    <3>4. /\ cred'.rev = carried.rev /\ cred'.inst = cred.inst
          /\ \A m \in Model : carried.states[m] = "failed" => cred'.states[m] = "failed"
      BY <3>1, <3>3, ClearedParts DEF Credential
    <3>5. /\ latest'.inst = latest.inst
          /\ verdict' = [m \in Model |-> IF verdict[m] = "unauthorized" THEN "none" ELSE verdict[m]]
      BY <1>2, <1>6, <2>4 DEF RefreshInstall, TypeOK
    <3>11. \A m \in Model : verdict'[m] \in {verdict[m], "none"} /\ verdict'[m] # "unauthorized"
      BY <3>5
    <3>6. Quiet
      BY <1>1, <2>1, <3>4, <3>11 DEF Quiet, Hidden, registry
    <3>7. Offered' /\ ReplacementFinal'
      BY <1>2, <2>1, <3>4, <3>5, <3>11 DEF Offered, ReplacementFinal, registry
    <3>8. Stamped'
      BY <1>1, <1>2, <2>1, <3>2, <3>4 DEF Stamped
    <3>9. Pending
      BY <1>6, <2>4 DEF RefreshInstall, Pending
    <3>10. FailureKept'
      <4> SUFFICES ASSUME NEW m \in Model, verdict[m] = "failure"
                   PROVE  cred'.states[m] = "failed"
        BY <3>11 DEF FailureKept
      <4>1. carried.states[m] = "failed"
        BY <1>2, <3>2, <3>9 DEF Carried, Recorded, FailureKept
      <4> QED
        BY <3>4, <4>1
    <3> QED
      BY <2>2, <3>6, <3>7, <3>8, <3>10, QuietInv
  <2> QED
    BY <2>3, <2>4
<1>7. CASE Replace
  <2>1. UNCHANGED <<registry, task, refresh, unhidden>> /\ clock' = Stamp /\ InstallReplacement
    BY <1>7 DEF Replace
  <2>2. /\ Quiet /\ Offered' /\ FailureKept' /\ ReplacementFinal' /\ cred'.rev = Stamp
        /\ \A m \in Model : verdict'[m] = "none"
    BY <1>2, <2>1, ReplacementQuiet
  <2>3. Carried' /\ Stamped'
    BY <1>1, <1>2, <2>1, <2>2 DEF Carried, Pending, Recorded, Stamped
  <2> QED
    BY <2>2, <2>3, QuietInv
<1>8. CASE SaveResult
  <2>1. UNCHANGED <<registry, task, refresh, verdict, latest, unhidden>> /\ clock' = Stamp
    BY <1>8 DEF SaveResult
  <2>2. cred'.states = cred.states /\ cred'.rev = cred.rev /\ cred'.inst = cred.inst
    BY <1>1, <1>8 DEF SaveResult, Credential
  <2>3. Quiet
    BY <1>1, <2>1, <2>2 DEF Quiet, Hidden, registry
  <2>4. Offered' /\ FailureKept' /\ ReplacementFinal'
    BY <1>2, <2>1, <2>2 DEF Offered, FailureKept, ReplacementFinal, registry
  <2>5. Carried' /\ Stamped'
    BY <1>1, <1>2, <2>1, <2>2 DEF Carried, Pending, Recorded, Stamped
  <2> QED
    BY <2>3, <2>4, <2>5, QuietInv
<1>9. CASE AttemptFails
  <2>1. UNCHANGED <<registry, cred, task, clock, verdict, latest, unhidden>>
    BY <1>9 DEF AttemptFails
  <2>2. /\ refresh'.baseline = refresh.baseline /\ refresh'.updated = refresh.updated
        /\ Pending' = Pending
    BY <1>1, <1>9 DEF AttemptFails, RefreshType, Pending
  <2>3. Quiet
    BY <1>1, <2>1 DEF Quiet, Hidden, registry
  <2>4. Offered' /\ FailureKept' /\ ReplacementFinal'
    BY <1>2, <2>1 DEF Offered, FailureKept, ReplacementFinal, registry
  <2>5. Carried' /\ Stamped'
    BY <1>2, <2>1, <2>2 DEF Carried, Pending, Recorded, Stamped
  <2> QED
    BY <2>3, <2>4, <2>5, QuietInv
<1>10. CASE RefreshFails
  <2>1. UNCHANGED <<registry, task, verdict, latest, unhidden>> /\ refresh' = NoRefresh
    BY <1>10 DEF RefreshFails
  <2>2. /\ cred'.states = cred.states /\ cred'.inst = cred.inst
        /\ cred'.rev <= clock' /\ clock <= clock' /\ clock' \in Nat
    BY <1>1, <1>2, <1>10 DEF RefreshFails, Credential, Stamped
  <2>3. Quiet
    BY <2>1, <2>2 DEF Quiet, Hidden, registry
  <2>4. Offered' /\ FailureKept' /\ ReplacementFinal'
    BY <1>2, <2>1, <2>2 DEF Offered, FailureKept, ReplacementFinal, registry
  <2>5. Carried' /\ Stamped'
    BY <1>3, <2>1, <2>2 DEF Carried, Pending, Stamped
  <2> QED
    BY <2>3, <2>4, <2>5, QuietInv
<1>11. CASE \E m \in Model : RefreshResume(m)
  <2>1. PICK m \in Model : RefreshResume(m)
    BY <1>11
  <2>2. UNCHANGED <<registered, cred, task, clock, verdict, latest>>
    BY <2>1 DEF RefreshResume
  <2>3. suspended' \subseteq suspended /\ unhidden' = unhidden \union (suspended \ suspended')
    BY <2>1 DEF RefreshResume
  <2>4. /\ refresh'.pc \in {"idle", "resuming"} /\ refresh'.baseline.rev \in {0, refresh.baseline.rev}
        /\ refresh'.updated.rev \in {0, refresh.updated.rev}
    BY <1>1, <1>3, <2>1 DEF RefreshResume, RefreshType
  <2>5. Quiet
    BY <1>1, <2>2, <2>3 DEF Quiet, Hidden
  <2>6. Offered' /\ FailureKept' /\ ReplacementFinal'
    BY <1>2, <2>2 DEF Offered, FailureKept, ReplacementFinal
  <2>7. Carried' /\ Stamped'
    BY <1>1, <1>2, <2>2, <2>4 DEF Carried, Pending, Stamped
  <2> QED
    BY <2>5, <2>6, <2>7, QuietInv
<1> QED
  BY <1>4, <1>5, <1>6, <1>7, <1>8, <1>9, <1>10, <1>11

-----------------------------------------------------------------------------
(* The steps of a request.                                                 *)

\* Only request r moves.
Moves(r) == \A s \in Request : s # r => task'[s] = task[s]

\* A step of one request keeps what holds of the others: either it only touches
\* what that request knows, or it is made under the result lock.
LEMMA RequestFrame ==
    ASSUME TypeOK, TypeOK', Exclusive, Requests, NEW r \in Request, Moves(r),
           clock <= clock', Sound(task[r])',
           \/ Calling(r)
           \/ /\ UNCHANGED <<cred, verdict, suspended, unhidden>>
              /\ task'[r].pc \in Holding => LockFree
    PROVE  Exclusive' /\ Requests'
<1>1. \A s \in Request : s # r =>
         /\ task'[s] = task[s] /\ (Calling(s))' = Calling(s)
         /\ Calling(s) => ~Calling(r)
  BY DEF Moves, Calling, Exclusive
<1>2. \A s \in Request : s # r /\ task'[r].pc \in Holding => ~Calling(s)
  BY <1>1 DEF LockFree
<1>3. Exclusive'
  <2> SUFFICES ASSUME NEW s \in Request, NEW u \in Request,
                      (Calling(s))', (Calling(u))', s # u
               PROVE  FALSE
    BY DEF Exclusive
  <2>1. CASE s # r /\ u # r
    BY <1>1, <2>1 DEF Exclusive
  <2>2. CASE s = r
    BY <1>1, <1>2, <2>2 DEF Calling
  <2>3. CASE u = r
    BY <1>1, <1>2, <2>3 DEF Calling
  <2> QED
    BY <2>1, <2>2, <2>3
<1>4. ASSUME NEW s \in Request, s # r PROVE Sound(task[s])'
  <2> DEFINE t == task[s]
  <2>1. /\ Sound(t) /\ t \in TaskType /\ t.before.rev \in Nat /\ t' = t
        /\ clock \in Nat /\ clock' \in Nat
    BY <1>1, <1>4 DEF Requests, TypeOK, TaskType, Credential
  <2>2. t.before.rev <= clock' /\ (t.pc \notin {"idle", "ended"} => t.model \in Model)
    BY <2>1 DEF Sound
  <2>3. CASE UNCHANGED <<cred, verdict, suspended, unhidden>>
    BY <2>1, <2>2, <2>3 DEF Sound, Hidden
  <2>4. CASE Calling(r)
    <3>1. t.pc \notin Copied /\ t.pc \notin Told /\ t.pc \notin {"locked", "rechecked"}
      BY <1>1, <1>4, <2>4 DEF Calling, Copied, Told, Holding
    <3> QED
      BY <2>1, <2>2, <3>1 DEF Sound
  <2> QED
    BY <2>3, <2>4
<1> QED
  BY <1>3, <1>4 DEF Requests

\* The registry's marks of a model stay as they are.
SameMarks(m) == (m \in suspended' <=> m \in suspended) /\ (m \in unhidden' <=> m \in unhidden)

\* The registry is right about a model.
Right(m) ==
    /\ verdict[m] \in Failure => m \in Hidden
    /\ verdict[m] = "success" => m \notin suspended

\* The registry stays in order: of each model, the moving request still has to
\* tell it, or it is right, or nothing has changed.
LEMMA RegistryStep ==
    ASSUME RegistryInOrder, NEW r \in Request, Moves(r),
           \A m \in Model :
              \/ task'[r].pc \in Told /\ task'[r].model = m
              \/ Right(m)'
              \/ /\ verdict'[m] = verdict[m] /\ SameMarks(m)
                 /\ ~(task[r].pc \in Told /\ task[r].model = m)
    PROVE  RegistryInOrder'
<1> SUFFICES ASSUME NEW m \in Model, ~Unsettled(m)'
             PROVE  Right(m)'
  BY DEF RegistryInOrder, Right, Hidden, Failure
<1>1. \A s \in Request : ~(task'[s].pc \in Told /\ task'[s].model = m)
  BY DEF Unsettled, Told, Holding
<1>2. \A s \in Request : s # r => ~(task[s].pc \in Told /\ task[s].model = m)
  BY <1>1 DEF Moves
<1>3. CASE /\ verdict'[m] = verdict[m] /\ SameMarks(m)
           /\ ~(task[r].pc \in Told /\ task[r].model = m)
  <2>1. ~Unsettled(m)
    BY <1>2, <1>3 DEF Unsettled, Told, Holding
  <2> QED
    BY <1>3, <2>1 DEF RegistryInOrder, Right, SameMarks, Hidden, Failure
<1> QED
  BY <1>1, <1>3

\* A step that changes only what a request knows.
LEMMA KnowledgeStep ==
    ASSUME IInv, TypeOK', NEW r \in Request, Moves(r), Sound(task[r])',
           UNCHANGED <<registry, cred, refresh, clock, verdict, latest, unhidden>>,
           task'[r].pc \in Holding => Calling(r) \/ LockFree,
           task'[r].pc \in Copied => /\ task[r].pc \in Copied
                                     /\ task'[r].before = task[r].before
                                     /\ task'[r].model = task[r].model,
           \A m \in Model : \/ task'[r].pc \in Told /\ task'[r].model = m
                            \/ Right(m)
                            \/ ~(task[r].pc \in Told /\ task[r].model = m)
    PROVE  IInv'
<1>1. TypeOK /\ Exclusive /\ Requests /\ Offered /\ Carried /\ Stamped /\ FailureKept
      /\ RegistryInOrder /\ ReplacementFinal
  BY DEF IInv
<1>2. clock <= clock'
  BY <1>1 DEF TypeOK
<1>3. UNCHANGED <<registered, suspended, unhidden>>
  BY DEF registry
<1>4. Exclusive' /\ Requests'
  BY <1>1, <1>2, <1>3, RequestFrame
<1>5. \A m \in Model : Right(m) => Right(m)'
  BY <1>3 DEF Right, Hidden
<1>6. RegistryInOrder'
  BY <1>1, <1>3, <1>5, RegistryStep DEF SameMarks
<1>7. Offered' /\ Stamped' /\ FailureKept' /\ ReplacementFinal'
  BY <1>1, <1>3 DEF Offered, Stamped, FailureKept, ReplacementFinal
<1>8. \A s \in Request : task'[s].pc \in Copied =>
         /\ task[s].pc \in Copied /\ task'[s].before = task[s].before
         /\ task'[s].model = task[s].model
  BY DEF Moves
<1>9. Carried'
  BY <1>1, <1>8 DEF Carried, Pending, Recorded
<1> QED
  BY <1>4, <1>6, <1>7, <1>9 DEF IInv

\* Facts about a request that every case needs.
LEMMA RequestFacts ==
    ASSUME IInv, NEW r \in Request
    PROVE  /\ task[r] \in TaskType /\ Sound(task[r]) /\ task[r].before.rev \in Nat
           /\ cred \in Credential /\ cred.rev \in Nat /\ clock \in Nat
           /\ Stamp \in Nat /\ clock < Stamp /\ DOMAIN task = Request
  BY DEF IInv, Requests, TypeOK, TaskType, Credential, Stamp

\* Sending, taking a result, looking at the registry again and checking the
\* instance.
LEMMA SendStep ==
    ASSUME IInv, TypeOK', NEW r \in Request, NEW m \in Model, Send(r, m)
    PROVE  IInv'
<1>1. task' = [task EXCEPT ![r] = [NoTask EXCEPT !.pc = "flying", !.model = m,
                                                 !.inst = cred.inst]]
      /\ UNCHANGED <<registry, cred, refresh, clock, verdict, latest, unhidden>>
      /\ task[r].pc = "idle"
  BY DEF Send
<1>2. task'[r].pc = "flying" /\ task'[r].model = m /\ task'[r].before.rev = 0
  BY <1>1, RequestFacts DEF NoTask, NoCred
<1>3. Moves(r)
  BY <1>1, RequestFacts DEF Moves
<1>4. Sound(task[r])'
  BY <1>1, <1>2, RequestFacts DEF Sound, Copied, Told
<1> QED
  BY <1>1, <1>2, <1>3, <1>4, KnowledgeStep DEF Holding, Copied, Told

LEMMA TakeResultStep ==
    ASSUME IInv, TypeOK', NEW r \in Request, NEW kind \in Kind, TakeResult(r, kind)
    PROVE  IInv'
<1> DEFINE t == task[r]
<1>1. /\ task' = [task EXCEPT ![r] = [t EXCEPT !.pc = "locked", !.kind = kind,
                                               !.known = t.model \in registered]]
      /\ UNCHANGED <<registry, cred, refresh, clock, verdict, latest, unhidden>>
      /\ t.pc = "flying" /\ LockFree
  BY DEF TakeResult
<1>2. t \in TaskType /\ Sound(t)
  BY RequestFacts
<1>3. task'[r] = [t EXCEPT !.pc = "locked", !.kind = kind, !.known = t.model \in registered]
  BY <1>1, RequestFacts
<1>4. /\ task'[r].pc = "locked" /\ task'[r].model = t.model
      /\ task'[r].known = (t.model \in registered) /\ task'[r].before = t.before
  BY <1>2, <1>3 DEF TaskType
<1>5. Moves(r)
  BY <1>1, RequestFacts DEF Moves
<1>6. t.model \in Model /\ (t.model \notin registered => verdict[t.model] = "none")
  BY <1>1, <1>2 DEF Sound, IInv, Offered
<1>7. Sound(task[r])'
  BY <1>1, <1>2, <1>4, <1>6 DEF Sound, Copied, Told
<1> QED
  BY <1>1, <1>4, <1>5, <1>7, KnowledgeStep DEF Copied, Told

LEMMA RecheckStep ==
    ASSUME IInv, TypeOK', NEW r \in Request, Recheck(r)
    PROVE  IInv'
<1> DEFINE t == task[r]
<1>1. /\ task' = [task EXCEPT ![r] = [t EXCEPT !.pc = "rechecked",
                                               !.known = t.model \in registered]]
      /\ UNCHANGED <<registry, cred, refresh, clock, verdict, latest, unhidden>>
      /\ t.pc = "applied"
  BY DEF Recheck
<1>2. t \in TaskType /\ Sound(t)
  BY RequestFacts
<1>3. task'[r] = [t EXCEPT !.pc = "rechecked", !.known = t.model \in registered]
  BY <1>1, RequestFacts
<1>4. /\ task'[r].pc = "rechecked" /\ task'[r].model = t.model /\ task'[r].inst = t.inst
      /\ task'[r].known = (t.model \in registered) /\ task'[r].before = t.before
      /\ task'[r].effect = t.effect
  BY <1>2, <1>3 DEF TaskType
<1>5. Moves(r)
  BY <1>1, RequestFacts DEF Moves
<1>6. t.model \in Model /\ (t.model \notin registered => verdict[t.model] = "none")
  BY <1>1, <1>2 DEF Sound, IInv, Offered
<1>7. ~task'[r].known => verdict[t.model] = "none"
  BY <1>4, <1>6
<1> HIDE DEF t
<1>8. Sound(task[r])'
  <2> DEFINE u == task'[r]
  <2>1. u.pc \notin {"idle", "ended"} => u.model \in Model
    BY <1>4, <1>6
  <2>2. u.before.rev <= clock'
    BY <1>1, <1>2, <1>4 DEF Sound
  <2>3. /\ u.before.inst = u.inst
        /\ \A m \in Model \ {u.model} : Shows(verdict'[m], u.before.states[m])
    BY <1>1, <1>2, <1>4 DEF Sound, Copied
  <2>4. /\ verdict'[u.model] \in Failure =>
              u.effect = "suspend" \/ (u.effect = "none" /\ u.model \in Hidden')
        /\ verdict'[u.model] = "success" =>
              u.effect = "resume" \/ (u.effect = "none" /\ u.model \notin suspended')
        /\ u.effect # "none" /\ cred'.inst # u.inst => verdict'[u.model] = "none"
    BY <1>1, <1>2, <1>4 DEF Sound, Told, Hidden, registry
  <2>5. ~u.known => verdict'[u.model] = "none"
    BY <1>1, <1>4, <1>7
  <2> HIDE DEF u
  <2>6. u = task'[r]
    BY DEF u
  <2> QED
    BY <2>1, <2>2, <2>3, <2>4, <2>5, <2>6 DEF Sound
<1> QED
  BY <1>1, <1>4, <1>5, <1>8, KnowledgeStep DEF Copied, Told, Calling, Holding, t

LEMMA CheckCurrentStep ==
    ASSUME IInv, TypeOK', NEW r \in Request, CheckCurrent(r)
    PROVE  IInv'
<1> DEFINE t == task[r]
<1>1. /\ UNCHANGED <<registry, cred, refresh, clock, verdict, latest, unhidden>>
      /\ t.pc = "final"
  BY DEF CheckCurrent
<1>2. t \in TaskType /\ Sound(t) /\ t.model \in Model
  BY <1>1, RequestFacts DEF Sound
<1>3. CASE SameInstance(r)
  <2>1. task' = [task EXCEPT ![r] = [t EXCEPT !.pc = "current"]]
    BY <1>3 DEF CheckCurrent
  <2>2. task'[r] = [t EXCEPT !.pc = "current"] /\ Moves(r)
    BY <2>1, RequestFacts DEF Moves
  <2>3. /\ task'[r].pc = "current" /\ task'[r].model = t.model /\ task'[r].inst = t.inst
        /\ task'[r].before = t.before /\ task'[r].effect = t.effect
    BY <1>2, <2>2 DEF TaskType
  <2>4. Sound(task[r])'
    BY <1>1, <1>2, <2>3 DEF Sound, Copied, Told, Hidden, registry
  <2> QED
    BY <1>1, <2>2, <2>3, <2>4, KnowledgeStep DEF Copied, Told, Calling, Holding
<1>4. CASE ~SameInstance(r)
  <2>1. task' = [task EXCEPT ![r] = Ended]
    BY <1>4 DEF CheckCurrent
  <2>2. task'[r] = Ended /\ Moves(r)
    BY <2>1, RequestFacts DEF Moves
  <2>3. task'[r].pc = "ended" /\ task'[r].before.rev = 0
    BY <2>2 DEF Ended, NoTask, NoCred
  <2>4. Sound(task[r])'
    BY <1>1, <2>3, RequestFacts DEF Sound, Copied, Told
  <2>5. Right(t.model)
    BY <1>1, <1>2, <1>4 DEF Sound, Told, SameInstance, Right, Failure
  <2>6. \A m \in Model : Right(m) \/ ~(t.pc \in Told /\ t.model = m)
    BY <2>5
  <2> QED
    BY <1>1, <2>2, <2>3, <2>4, <2>6, KnowledgeStep DEF Copied, Holding
<1> QED
  BY <1>3, <1>4

\* Telling the registry.
LEMMA ApplyRegistryStep ==
    ASSUME IInv, TypeOK', NEW r \in Request, ApplyRegistry(r)
    PROVE  IInv'
<1> DEFINE t == task[r]
<1>1. /\ t.pc = "current" /\ task' = [task EXCEPT ![r] = Ended]
      /\ UNCHANGED <<registered, cred, refresh, clock, verdict, latest>>
      /\ t.effect = "resume" => suspended' = suspended \ {t.model}
      /\ t.effect = "suspend" => suspended' \in Marked(t.model)
      /\ t.effect = "none" => suspended' = suspended /\ unhidden' = unhidden
      /\ t.effect # "none" => unhidden' = unhidden \ {t.model}
  BY DEF ApplyRegistry
<1>2. /\ t \in TaskType /\ Sound(t) /\ t.model \in Model
      /\ t.effect \in {"none", "resume", "suspend"}
  BY <1>1, RequestFacts DEF Sound, TaskType
<1>3. TypeOK /\ Exclusive /\ Requests /\ Offered /\ Carried /\ Stamped /\ FailureKept
      /\ RegistryInOrder /\ ReplacementFinal
  BY DEF IInv
<1>4. task'[r] = Ended /\ Moves(r)
  BY <1>1, RequestFacts DEF Moves
<1>5. task'[r].pc = "ended" /\ task'[r].before.rev = 0
  BY <1>4 DEF Ended, NoTask, NoCred
<1>6. Sound(task[r])'
  BY <1>1, <1>5, RequestFacts DEF Sound, Copied, Told
<1>7. Calling(r) /\ clock <= clock'
  BY <1>1, RequestFacts DEF Calling, Holding
<1>8. Exclusive' /\ Requests'
  BY <1>3, <1>4, <1>6, <1>7, RequestFrame
<1>9. \A m \in Model : m # t.model => SameMarks(m)
  BY <1>1, <1>2 DEF Marked, SameMarks
<1>10. ASSUME NEW m \in Model, m = t.model PROVE Right(m)'
  <2>1. /\ verdict[t.model] \in Failure =>
             t.effect = "suspend" \/ (t.effect = "none" /\ t.model \in Hidden)
        /\ verdict[t.model] = "success" =>
             t.effect = "resume" \/ (t.effect = "none" /\ t.model \notin suspended)
    BY <1>1, <1>2 DEF Sound, Told
  <2>2. verdict[t.model] # "none" => t.model \in registered
    BY <1>2, <1>3 DEF Offered
  <2>3. verdict' = verdict
    BY <1>1
  <2>4. t.effect = "suspend" /\ t.model \in registered => t.model \in suspended'
    BY <1>1 DEF Marked
  <2>5. t.effect = "resume" => t.model \notin suspended'
    BY <1>1
  <2>6. /\ verdict'[t.model] \in Failure => t.model \in Hidden'
        /\ verdict'[t.model] = "success" => t.model \notin suspended'
    BY <1>1, <2>1, <2>2, <2>3, <2>4, <2>5 DEF Hidden, Failure
  <2> QED
    BY <2>6, <1>10 DEF Right
<1>11. RegistryInOrder'
  BY <1>1, <1>3, <1>4, <1>9, <1>10, RegistryStep
<1>12. Offered' /\ Stamped' /\ FailureKept' /\ ReplacementFinal'
  BY <1>1, <1>3 DEF Offered, Stamped, FailureKept, ReplacementFinal
<1>13. \A s \in Request : task'[s].pc \in Copied => task'[s] = task[s]
  BY <1>4, <1>5 DEF Moves, Copied
<1>14. Carried'
  BY <1>1, <1>3, <1>13 DEF Carried, Pending, Recorded
<1> QED
  BY <1>8, <1>11, <1>12, <1>14 DEF IInv

\* What a result that is settled still has to satisfy.
LEMMA SettledSound ==
    ASSUME NEW r \in Request, NEW m \in Model, TypeOK', task'[r].pc = "final",
           task'[r].model = m, task'[r].before.rev = 0,
           /\ verdict'[m] \in Failure =>
                 task'[r].effect = "suspend" \/ (task'[r].effect = "none" /\ m \in Hidden')
           /\ verdict'[m] = "success" =>
                 task'[r].effect = "resume" \/ (task'[r].effect = "none" /\ m \notin suspended')
           /\ task'[r].effect # "none" /\ cred'.inst # task'[r].inst => verdict'[m] = "none"
    PROVE  Sound(task[r])'
  BY DEF Sound, Copied, Told, TypeOK

LEMMA SettledParts ==
    ASSUME NEW t, NEW effect
    PROVE  /\ Settled(t, effect).pc = "final" /\ Settled(t, effect).model = t.model
           /\ Settled(t, effect).inst = t.inst /\ Settled(t, effect).effect = effect
           /\ Settled(t, effect).before.rev = 0
  BY DEF Settled, NoTask, NoCred

\* The request that holds the result lock is the only one with a copy or with
\* something to tell.
LEMMA Alone ==
    ASSUME IInv, NEW r \in Request, Calling(r), NEW s \in Request, s # r
    PROVE  task[s].pc \notin Copied /\ task[s].pc \notin Told
  BY DEF IInv, Exclusive, Calling, Holding, Copied, Told

\* The second section: the result stands or the copy is put back.
LEMMA FinalizeStep ==
    ASSUME IInv, TypeOK', NEW r \in Request, Finalize(r)
    PROVE  IInv'
<1> DEFINE t == task[r]
<1>1. t.pc = "rechecked" /\ UNCHANGED <<registry, refresh, clock, verdict, latest, unhidden>>
  BY DEF Finalize
<1>2. /\ TypeOK /\ Exclusive /\ Requests /\ Offered /\ Carried /\ Stamped /\ FailureKept
      /\ RegistryInOrder /\ ReplacementFinal
  BY DEF IInv
<1>3. t \in TaskType /\ Sound(t) /\ t.model \in Model
  BY <1>1, RequestFacts DEF Sound
<1>4. Calling(r) /\ clock <= clock'
  BY <1>1, RequestFacts DEF Calling, Holding
<1>5. \A s \in Request : s # r => task[s].pc \notin Copied /\ task[s].pc \notin Told
  BY <1>4, Alone
<1>6. /\ verdict[t.model] \in Failure =>
            t.effect = "suspend" \/ (t.effect = "none" /\ t.model \in Hidden)
      /\ verdict[t.model] = "success" =>
            t.effect = "resume" \/ (t.effect = "none" /\ t.model \notin suspended)
      /\ t.effect # "none" /\ cred.inst # t.inst => verdict[t.model] = "none"
  BY <1>1, <1>3 DEF Sound, Told
<1>7. CASE ~SameInstance(r) \/ t.known
  <2>1. task' = [task EXCEPT ![r] = Settled(t, t.effect)] /\ UNCHANGED cred
    BY <1>7 DEF Finalize
  <2>2. task'[r] = Settled(t, t.effect) /\ Moves(r)
    BY <2>1, RequestFacts DEF Moves
  <2>3. /\ task'[r].pc = "final" /\ task'[r].model = t.model /\ task'[r].inst = t.inst
        /\ task'[r].effect = t.effect /\ task'[r].before.rev = 0
    BY <2>2, SettledParts
  <2>4. UNCHANGED <<suspended, unhidden, verdict>>
    BY <1>1 DEF registry
  <2> HIDE DEF t
  <2>5. Sound(task[r])'
    BY <1>3, <1>6, <2>1, <2>3, <2>4, SettledSound DEF Hidden
  <2> QED
    BY <1>1, <1>4, <2>1, <2>2, <2>3, <2>5, KnowledgeStep DEF Copied, Told, t
<1>8. CASE SameInstance(r) /\ ~t.known
  <2>1. task' = [task EXCEPT ![r] = Settled(t, "none")] /\ cred' = t.before
    BY <1>8 DEF Finalize
  <2>2. task'[r] = Settled(t, "none") /\ Moves(r)
    BY <2>1, RequestFacts DEF Moves
  <2>3. /\ task'[r].pc = "final" /\ task'[r].model = t.model
        /\ task'[r].effect = "none" /\ task'[r].before.rev = 0
    BY <2>2, SettledParts
  <2>4. /\ verdict[t.model] = "none" /\ t.before.inst = t.inst /\ t.before.rev <= clock
        /\ \A m \in Model \ {t.model} : Shows(verdict[m], t.before.states[m])
    BY <1>1, <1>3, <1>8 DEF Sound, Copied
  <2>5. UNCHANGED <<registered, suspended, unhidden, verdict, refresh, clock, latest>>
    BY <1>1 DEF registry
  <2>6. Sound(task[r])'
    BY <1>3, <2>3, <2>4, <2>5, SettledSound DEF Failure
  <2>7. Exclusive' /\ Requests'
    BY <1>2, <1>4, <2>2, <2>6, RequestFrame
  <2>8. \A m \in Model : \/ task'[r].pc \in Told /\ task'[r].model = m
                         \/ /\ verdict'[m] = verdict[m]
                            /\ SameMarks(m)
                            /\ ~(task[r].pc \in Told /\ task[r].model = m)
    BY <2>3, <2>5 DEF Told, SameMarks
  <2>9. RegistryInOrder'
    BY <1>2, <2>2, <2>8, RegistryStep
  <2>10. FailureKept'
    BY <2>1, <2>4, <2>5 DEF FailureKept, Shows
  <2>11. Offered' /\ Stamped' /\ ReplacementFinal'
    BY <1>2, <1>8, <2>1, <2>4, <2>5 DEF Offered, Stamped, ReplacementFinal, SameInstance
  <2>12. \A s \in Request : task'[s].pc \notin Copied
    BY <1>5, <2>2, <2>3 DEF Moves, Copied
  <2>13. Pending /\ t.before.rev = refresh.baseline.rev
           => Recorded(refresh.updated.states, {})
    BY <1>1, <1>2, <2>4 DEF Carried, Pending, Copied, Recorded
  <2>14. Carried'
    BY <2>1, <2>5, <2>12, <2>13 DEF Carried, Pending, Recorded
  <2> QED
    BY <2>7, <2>9, <2>10, <2>11, <2>14 DEF IInv
<1> QED
  BY <1>7, <1>8

\* What the first section does to the credential.
LEMMA CommittedParts ==
    ASSUME NEW c \in Credential, NEW t \in TaskType, NEW now, t.model \in Model
    PROVE  /\ Committed(c, t, now).inst = c.inst
           /\ t.kind = "neutral" => Committed(c, t, now) = c
           /\ t.kind # "neutral" => Committed(c, t, now).rev = now
           /\ \A m \in Model \ {t.model} :
                 Committed(c, t, now).states[m] = c.states[m]
           /\ t.kind = "failure" => Committed(c, t, now).states[t.model] = "failed"
           /\ t.kind = "unauthorized" => Committed(c, t, now).states[t.model] = "unauthorized"
           /\ t.kind \in {"accountWide", "neutral"} /\ t.known =>
                 Committed(c, t, now).states[t.model] = c.states[t.model]
<1>1. t.kind \in Kind /\ c.states \in [Model -> State]
  BY DEF TaskType, Credential
<1>2. CASE t.kind = "success"
  <2>1. Committed(c, t, now) = [c EXCEPT !.states[t.model] = "clean", !.rev = now]
    BY <1>2 DEF Committed
  <2> QED
    BY <1>1, <1>2, <2>1 DEF Credential
<1>3. CASE t.kind = "failure"
  <2>1. Committed(c, t, now) = [c EXCEPT !.states[t.model] = "failed", !.rev = now]
    BY <1>3 DEF Committed
  <2> QED
    BY <1>1, <1>3, <2>1 DEF Credential
<1>4. CASE t.kind = "accountWide"
  <2>1. Committed(c, t, now) =
          [c EXCEPT !.rev = now, !.states[t.model] = IF t.known THEN @ ELSE "absent"]
    BY <1>4 DEF Committed
  <2> QED
    BY <1>1, <1>4, <2>1 DEF Credential
<1>5. CASE t.kind = "neutral"
  BY <1>1, <1>5 DEF Committed
<1>6. CASE t.kind = "unauthorized"
  <2>1. Committed(c, t, now) = [c EXCEPT !.states[t.model] = "unauthorized", !.rev = now]
    BY <1>6 DEF Committed
  <2> QED
    BY <1>1, <1>6, <2>1 DEF Credential
<1> QED
  BY <1>1, <1>2, <1>3, <1>4, <1>5, <1>6 DEF Kind

\* The last result of a model changes only for a model that is offered.
LEMMA NotedParts ==
    ASSUME TypeOK, Offered, NEW t \in TaskType, t.model \in Model
    PROVE  /\ \A m \in Model \ {t.model} : Noted(t)[m] = verdict[m]
           /\ \A m \in Model : m \notin registered => Noted(t)[m] = "none"
           /\ t.kind \in {"success", "failure", "unauthorized"} => Noted(t)[t.model] \in {t.kind, "none"}
           /\ t.kind \in {"accountWide", "neutral"} => Noted(t) = verdict
<1>1. verdict \in [Model -> {"none", "success", "failure", "unauthorized"}]
  BY DEF TypeOK
<1>2. CASE t.model \in registered /\ t.kind \in {"success", "failure", "unauthorized"}
  <2>1. Noted(t) = [verdict EXCEPT ![t.model] = t.kind]
    BY <1>2 DEF Noted
  <2> QED
    BY <1>1, <1>2, <2>1 DEF Offered
<1>3. CASE ~(t.model \in registered /\ t.kind \in {"success", "failure", "unauthorized"})
  <2>1. Noted(t) = verdict
    BY <1>3 DEF Noted
  <2> QED
    BY <1>1, <1>3, <2>1 DEF Offered
<1> QED
  BY <1>2, <1>3

\* The first section: the result is dropped.
LEMMA DropStep ==
    ASSUME IInv, TypeOK', NEW r \in Request, Apply(r),
           task' = [task EXCEPT ![r] = Settled(task[r], "none")],
           UNCHANGED <<cred, clock, verdict>>
    PROVE  IInv'
<1> DEFINE t == task[r]
<1>1. t.pc = "locked" /\ UNCHANGED <<registry, refresh, latest, unhidden>>
  BY DEF Apply
<1>2. t \in TaskType /\ t.model \in Model
  BY <1>1, RequestFacts DEF Sound
<1>3. Calling(r)
  BY <1>1 DEF Calling, Holding
<1>4. \A s \in Request : ~(task[s].pc \in Told)
  BY <1>1, <1>3, Alone DEF Told
<1>5. RegistryInOrder
  BY DEF IInv
<1>6. Right(t.model)
  BY <1>2, <1>4, <1>5 DEF RegistryInOrder, Unsettled, Right, Told, Holding, Hidden, Failure
<1>7. task'[r] = Settled(t, "none") /\ Moves(r)
  BY RequestFacts DEF Moves
<1>8. /\ task'[r].pc = "final" /\ task'[r].model = t.model
      /\ task'[r].effect = "none" /\ task'[r].before.rev = 0
  BY <1>7, SettledParts
<1>9. UNCHANGED <<suspended, unhidden, verdict>>
  BY <1>1 DEF registry
<1> HIDE DEF t
<1>10. Sound(task[r])'
  BY <1>2, <1>6, <1>8, <1>9, SettledSound DEF Right, Hidden
<1>11. \A m \in Model : ~(task[r].pc \in Told /\ task[r].model = m)
  BY <1>4
<1> QED
  BY <1>1, <1>3, <1>7, <1>8, <1>10, <1>11, KnowledgeStep DEF Copied

\* The first section: the result is committed.
LEMMA CommitStep ==
    ASSUME IInv, TypeOK', NEW r \in Request, Apply(r),
           ~(~SameInstance(r) \/ (Reversible(task[r]) /\ ~task[r].known))
    PROVE  IInv'
<1> DEFINE t == task[r]
           reversed == [t EXCEPT !.pc = "applied", !.before = cred, !.effect = Effect(t)]
<1>1. /\ t.pc = "locked" /\ UNCHANGED <<registry, refresh, latest, unhidden>>
      /\ cred' = Committed(cred, t, Stamp) /\ clock' = Stamp /\ verdict' = Noted(t)
      /\ Reversible(t) => task' = [task EXCEPT ![r] = reversed]
      /\ ~Reversible(t) => task' = [task EXCEPT ![r] = Settled(t, "none")]
  BY DEF Apply
<1>2. /\ TypeOK /\ Exclusive /\ Requests /\ Offered /\ Carried /\ Stamped /\ FailureKept
      /\ RegistryInOrder /\ ReplacementFinal
  BY DEF IInv
<1>3. t \in TaskType /\ Sound(t) /\ t.model \in Model /\ t.kind \in Kind
  BY <1>1, RequestFacts DEF Sound, TaskType
<1>4. Calling(r) /\ clock \in Nat /\ clock < Stamp /\ Stamp \in Nat /\ cred \in Credential
      /\ cred.rev \in Nat
  BY <1>1, RequestFacts DEF Calling, Holding
<1>5. \A s \in Request : task[s].pc \notin Copied /\ task[s].pc \notin Told
  BY <1>1, <1>4, Alone DEF Copied, Told
<1>6. cred.inst = t.inst
  BY DEF SameInstance
<1>7. /\ cred'.inst = cred.inst
      /\ t.kind = "neutral" => cred' = cred
      /\ t.kind # "neutral" => cred'.rev = Stamp
      /\ \A m \in Model \ {t.model} : cred'.states[m] = cred.states[m]
      /\ t.kind = "failure" => cred'.states[t.model] = "failed"
      /\ t.kind = "unauthorized" => cred'.states[t.model] = "unauthorized"
      /\ t.kind \in {"accountWide", "neutral"} /\ t.known =>
            cred'.states[t.model] = cred.states[t.model]
  BY <1>1, <1>3, <1>4, CommittedParts
<1>8. /\ \A m \in Model \ {t.model} : verdict'[m] = verdict[m]
      /\ \A m \in Model : m \notin registered => verdict'[m] = "none"
      /\ t.kind \in {"success", "failure", "unauthorized"} => verdict'[t.model] \in {t.kind, "none"}
      /\ t.kind \in {"accountWide", "neutral"} => verdict' = verdict
  BY <1>1, <1>2, <1>3, NotedParts
<1>9. Right(t.model)
  BY <1>2, <1>3, <1>5 DEF RegistryInOrder, Unsettled, Right, Told, Holding, Hidden, Failure
<1>10. UNCHANGED <<registered, suspended, unhidden>>
  BY <1>1 DEF registry
<1>11. Moves(r) /\ (task'[r] = IF Reversible(t) THEN reversed ELSE Settled(t, "none"))
  BY <1>1, RequestFacts DEF Moves
<1>12. Reversible(t) =>
         /\ task'[r].pc = "applied" /\ task'[r].model = t.model /\ task'[r].inst = t.inst
         /\ task'[r].before = cred /\ task'[r].effect = Effect(t)
  BY <1>3, <1>11 DEF TaskType
<1>13. ~Reversible(t) =>
         /\ task'[r].pc = "final" /\ task'[r].model = t.model
         /\ task'[r].effect = "none" /\ task'[r].before.rev = 0
  BY <1>11, SettledParts
<1> HIDE DEF t, reversed
<1>14. Sound(task[r])'
  <2>1. CASE Reversible(t)
    <3>1. task'[r].before.rev <= clock'
      BY <1>1, <1>2, <1>4, <1>12, <2>1 DEF Stamped
    <3>2. task'[r].before.inst = task'[r].inst
      BY <1>6, <1>12, <2>1
    <3>3. \A m \in Model \ {t.model} : Shows(verdict'[m], task'[r].before.states[m])
      BY <1>2, <1>8, <1>12, <2>1 DEF FailureKept, Shows
    <3>4. t.kind \in {"success", "failure", "unauthorized", "neutral"}
      BY <1>3, <2>1 DEF Kind, Reversible
    <3>5. /\ verdict'[t.model] \in Failure =>
                Effect(t) = "suspend" \/ (Effect(t) = "none" /\ t.model \in Hidden')
          /\ verdict'[t.model] = "success" =>
                Effect(t) = "resume" \/ (Effect(t) = "none" /\ t.model \notin suspended')
      <4>1. CASE t.kind = "success"
        BY <1>8, <4>1 DEF Effect, Failure
      <4>2. CASE t.kind \in Failure
        BY <1>8, <4>2 DEF Effect, Failure
      <4>3. CASE t.kind = "neutral"
        BY <1>8, <1>9, <1>10, <4>3 DEF Effect, Right, Hidden
      <4> QED
        BY <3>4, <4>1, <4>2, <4>3 DEF Failure
    <3>6. cred'.inst = task'[r].inst
      BY <1>6, <1>7, <1>12, <2>1
    <3> QED
      BY <1>3, <1>12, <2>1, <3>1, <3>2, <3>3, <3>5, <3>6 DEF Sound
  <2>2. CASE ~Reversible(t)
    <3>1. verdict' = verdict
      BY <1>8, <2>2 DEF Reversible
    <3> QED
      BY <1>3, <1>9, <1>10, <1>13, <2>2, <3>1, SettledSound DEF Right, Hidden
  <2> QED
    BY <2>1, <2>2
<1>15. Exclusive' /\ Requests'
  BY <1>1, <1>2, <1>4, <1>11, <1>14, RequestFrame
<1>16. RegistryInOrder'
  <2>1. task'[r].pc \in Told /\ task'[r].model = t.model
    BY <1>12, <1>13 DEF Told
  <2>2. \A m \in Model : m # t.model =>
           verdict'[m] = verdict[m] /\ SameMarks(m)
    BY <1>8, <1>10 DEF SameMarks
  <2> QED
    BY <1>2, <1>5, <1>11, <2>1, <2>2, RegistryStep
<1>17. FailureKept'
  <2> SUFFICES ASSUME NEW m \in Model
               PROVE  Shows(verdict'[m], cred'.states[m])
    BY DEF FailureKept, Shows
  <2>1. CASE m # t.model
    BY <1>2, <1>7, <1>8, <2>1 DEF FailureKept, Shows
  <2>2. CASE m = t.model /\ t.kind \in {"success", "failure", "unauthorized"}
    BY <1>7, <1>8, <2>2 DEF Shows
  <2>3. CASE m = t.model /\ t.kind \in {"accountWide", "neutral"}
    <3>1. verdict' = verdict
      BY <1>8, <2>3
    <3>2. t.known \/ verdict[m] = "none"
      BY <1>1, <1>3, <2>3 DEF Sound
    <3> QED
      BY <1>2, <1>7, <2>3, <3>1, <3>2 DEF FailureKept, Shows
  <2> QED
    BY <1>3, <2>1, <2>2, <2>3 DEF Kind
<1>18. Offered' /\ ReplacementFinal'
  BY <1>1, <1>2, <1>7, <1>8, <1>10 DEF Offered, ReplacementFinal
<1>19. refresh.baseline.rev \in Nat /\ refresh.updated.rev \in Nat
  BY <1>2 DEF TypeOK, Credential
<1>20. Stamped'
  BY <1>1, <1>2, <1>4, <1>7, <1>19 DEF Stamped
<1>21. Carried'
  <2> SUFFICES ASSUME Pending
               PROVE  /\ cred'.rev = refresh.baseline.rev =>
                            Recorded(refresh.updated.states, {})'
                      /\ \A s \in Request :
                            task'[s].pc \in Copied /\ task'[s].before.rev = refresh.baseline.rev
                              => Recorded(refresh.updated.states, {task[s].model})'
    BY <1>1 DEF Carried, Pending
  <2>1. cred.rev = refresh.baseline.rev => Recorded(refresh.updated.states, {})
    BY <1>2 DEF Carried, Pending
  <2>2. refresh.baseline.rev # Stamp /\ refresh' = refresh
    BY <1>1, <1>2, <1>4, <1>19 DEF Stamped
  <2>3. cred'.rev = refresh.baseline.rev => Recorded(refresh.updated.states, {})'
    BY <1>7, <1>8, <2>1, <2>2 DEF Recorded
  <2>4. ASSUME NEW s \in Request, task'[s].pc \in Copied,
               task'[s].before.rev = refresh.baseline.rev
        PROVE  Recorded(refresh.updated.states, {task[s].model})'
    <3>1. s = r /\ Reversible(t)
      BY <1>5, <1>11, <1>13, <2>4 DEF Moves, Copied
    <3>2. cred.rev = refresh.baseline.rev /\ task'[s].model = t.model
      BY <1>12, <2>4, <3>1
    <3> QED
      BY <1>8, <2>1, <2>2, <3>2 DEF Recorded
  <2> QED
    BY <2>3, <2>4
<1> QED
  BY <1>15, <1>16, <1>17, <1>18, <1>20, <1>21 DEF IInv

LEMMA ApplyStep ==
    ASSUME IInv, TypeOK', NEW r \in Request, Apply(r)
    PROVE  IInv'
<1>1. CASE ~SameInstance(r) \/ (Reversible(task[r]) /\ ~task[r].known)
  <2>1. /\ task' = [task EXCEPT ![r] = Settled(task[r], "none")]
        /\ UNCHANGED <<cred, clock, verdict>>
    BY <1>1 DEF Apply
  <2> QED
    BY <2>1, DropStep
<1> QED
  BY <1>1, CommitStep

-----------------------------------------------------------------------------
LEMMA InitInv ==
    ASSUME Init
    PROVE  IInv
<1>1. cred \in Credential /\ cred.rev = 1 /\ cred.inst = 1 /\ latest.inst = 1
  BY DEF Init, Credential, NoStates, State
<1>2. NoTask \in TaskType /\ NoTask.pc = "idle" /\ NoTask.before.rev = 0
  BY NoTaskType DEF NoTask, NoCred
<1>3. NoRefresh.pc = "idle" /\ NoRefresh.baseline.rev = 0 /\ NoRefresh.updated.rev = 0
  BY DEF NoRefresh, NoCred
<1>4. NoSync \in SyncType /\ NoRefresh \in RefreshType
  BY NoCredType DEF NoSync, SyncType, Identity, NoCred, NoRefresh, RefreshType
<1>5. TypeOK
  BY <1>1, <1>2, <1>4 DEF Init, TypeOK, SyncType, RefreshType
<1>6. \A r \in Request : task[r] = NoTask
  BY DEF Init
<1>7. Exclusive /\ Requests
  BY <1>2, <1>6 DEF Init, Exclusive, Requests, Calling, Holding, Sound, Copied, Told
<1>8. Offered /\ FailureKept /\ RegistryInOrder /\ ReplacementFinal
  BY <1>1 DEF Init, Offered, FailureKept, RegistryInOrder, ReplacementFinal
<1>9. Carried /\ Stamped
  BY <1>1, <1>3 DEF Init, Carried, Pending, Stamped
<1> QED
  BY <1>5, <1>7, <1>8, <1>9 DEF IInv

LEMMA StepInv ==
    ASSUME IInv, [Next]_vars
    PROVE  IInv'
<1>1. TypeOK'
  BY TypeStep DEF IInv
<1>2. CASE UNCHANGED vars
  BY <1>2 DEF vars, registry, IInv, TypeOK, Exclusive, Calling, Requests, Sound, Offered,
              Carried, Pending, Recorded, Stamped, FailureKept, RegistryInOrder, Unsettled,
              ReplacementFinal, Hidden
<1>3. ASSUME NEW r \in Request,
             \/ \E m \in Model : Send(r, m)
             \/ \E kind \in Kind : TakeResult(r, kind)
             \/ Apply(r) \/ Recheck(r) \/ Finalize(r) \/ CheckCurrent(r) \/ ApplyRegistry(r)
      PROVE  IInv'
  BY <1>1, <1>3, SendStep, TakeResultStep, ApplyStep, RecheckStep, FinalizeStep,
     CheckCurrentStep, ApplyRegistryStep
<1> QED
  BY <1>1, <1>2, <1>3, SyncStep, RefreshStep DEF Next

\* What holds of requests, catalog, refresh and registry together, in every
\* reachable state.
THEOREM Invariance == Spec => []IInv
  BY InitInv, StepInv, PTL DEF Spec

\* Every variable has its type: a credential has at most one state for each model,
\* whatever is pruned (reconcileRegistryModelStates), carried forward
\* (carryForwardConcurrentRefreshRuntimeState) or put back (markResult).
THEOREM TypeCorrect == Spec => []TypeOK
<1>1. IInv => TypeOK
  BY DEF IInv
<1> QED
  BY <1>1, Invariance, PTL

\* A failure recorded for a model of the catalog stays recorded until the next
\* success: neither the copy that markResult puts back nor the credential that
\* applyRefreshedAuth installs loses it, for any models and requests.  A 401, which
\* clearUnauthorizedRefreshState forgets, stays until the next success or the next
\* installation of a refreshed credential.
THEOREM FailuresStay == Spec => []FailureKept
<1>1. IInv => FailureKept
  BY DEF IInv
<1> QED
  BY <1>1, Invariance, PTL

\* Once no result of a model is under way, the registry shows or hides the
\* credential for it as the last result demands (applyRegistryResult), unless a
\* refresh that had cleared an earlier 401 of the model unhid it since
\* (ResumeClientModel in applyRefreshedAuth).
THEOREM RegistryFollows == Spec => []RegistryInOrder
<1>1. IInv => RegistryInOrder
  BY DEF IInv
<1> QED
  BY <1>1, Invariance, PTL

\* No result and no refresh of an older instance brings a replaced credential
\* back (runtimeInstanceID in markResult and applyRefreshedAuth).
THEOREM ReplacementsStay == Spec => []ReplacementFinal
<1>1. IInv => ReplacementFinal
  BY DEF IInv
<1> QED
  BY <1>1, Invariance, PTL

=============================================================================
