---------------------------- MODULE MutationLocks ----------------------------
(***************************************************************************)
(* The locks of the credential manager (sdk/cliproxy/auth/conductor.go,    *)
(* chatgpt_web_dependencies.go): whoever changes a credential takes, in    *)
(* this order,                                                             *)
(*   - the dependency mutex, if the credential takes part in the graph of  *)
(*     Codex sources and the web credentials linked to them;               *)
(*   - the read side of the persistence barrier, through its turnstile;    *)
(*   - one semaphore per key: the credential's id and, for a change of its *)
(*     identity, the keys of the account it stands for, in sorted order.   *)
(* A swap of the store, a load and an enumeration of the store take the    *)
(* write side.  A lock is handed on in the context: a call made with the   *)
(* context of a mutation reuses its dependency mutex and its keys through  *)
(* a gate per token, and finds the token inactive once it was unlocked.    *)
(*                                                                         *)
(* A call is one use of the manager by some goroutine and happens once.    *)
(* It has a context of its own or that of another call, which may itself   *)
(* have been made within a third: op.scope is all of them.  op.awaiting is *)
(* those whose goroutine made the call and waits for it, as the handlers   *)
(* do; a context may also be handed to another goroutine.                  *)
(***************************************************************************)
EXTENDS Integers, FiniteSets, FiniteSetsExt

CONSTANTS
    Call,          \* the uses of the manager
    Auth,          \* credentials, by their ids
    Nobody,        \* no call
    IdKey,         \* the semaphore of a credential's id
    Accounts,      \* the semaphores of the account a content for it may name,
    EmailKeys,     \* and those among them that stand for an email
    Linked,        \* the credentials that are in the graph at first
    Planned,       \* the kinds of use a call may be
    Cancellable,   \* the calls whose context may end
    MaxStore       \* bound on the number of stores that are set

Kind == {"mutate", "delete", "edit", "commit", "decide", "load", "swap", "scan"}
Key == {IdKey[a] : a \in Auth} \cup UNION UNION {Accounts[a] : a \in Auth}

\* The calls that may set a store: each happens once, so that they bound store.
Swappers == {c \in Call : "swap" \in Planned[c]}

ASSUME LocksAssumption ==
    /\ Nobody \notin Call
    /\ Auth # {}
    /\ IdKey \in [Auth -> Nat]
    /\ Accounts \in [Auth -> SUBSET SUBSET Nat]
    /\ Linked \subseteq Auth
    /\ Planned \in [Call -> SUBSET Kind]
    /\ Cancellable \subseteq Call
    /\ MaxStore \in Nat /\ IsFiniteSet(Swappers) /\ Cardinality(Swappers) <= MaxStore

VARIABLES
    op,            \* what a call is for, see Ops
    pc,            \* where it is
    dependency,    \* chatGPTWebDependencyMutation: the call that holds it
    depGate,       \* authMutation tokens: the call inside the nested slot of
    gate,          \* a call's dependency token, and of its credential token
    turnstile,     \* persistBarrierTurnstile: its holder
    readers,       \* persistBarrier: who holds the read side,
    writer,        \* and who the write side
    keys,          \* persistLocks: the semaphores a call holds
    enumerating,   \* persistedSnapshotRefresh: its holder
    relevant,      \* the credentials of m.auths that are in the graph
    store          \* how many stores were set, and with each a coordinator

locks == <<dependency, depGate, gate, turnstile, readers, writer, keys, enumerating>>
vars == <<op, pc, locks, relevant, store>>

(***************************************************************************)
(* A call: the content it brings for the credential names the account and, *)
(* if incoming, is in the graph; dep is the token for the mutex it found   *)
(* in its context, store the coordinator a refresh holds its slot of.      *)
(***************************************************************************)
Ops == [kind: Kind, auth: Auth, account: SUBSET Key, incoming: BOOLEAN,
        scope: SUBSET Call, awaiting: SUBSET Call, dep: Call \cup {Nobody}, store: 0 .. MaxStore]

\* A call for no credential in particular.
AnyAuth == CHOOSE a \in Auth : TRUE

Keyed == {"mutate", "delete", "edit", "commit"}
Writers == {"load", "swap", "scan"}

\* The keys of the email among those of the account.
Email(c) == op[c].account \cap EmailKeys

\* A call that was made and is not over.
Underway(c) == pc[c] \notin {"idle", "done"}

(***************************************************************************)
(* A call inside the slot of a token: of the one of a call that locked the *)
(* keys of a credential, which its own calls share without one of theirs,  *)
(* or of one for the mutex, where it makes a token of its own, with a slot *)
(* for the calls made within it.                                           *)
(***************************************************************************)
InGate(c) == \E o \in op[c].scope : gate[o] = c

InDepGate(c) == op[c].dep # Nobody /\ depGate[op[c].dep] = c

(***************************************************************************)
(* The tokens in a context: that of LockAuthMutation, Register and Update  *)
(* for the keys, and with theirs that of WithChatGPTWebDependencyMutation  *)
(* for the mutex.  A call within another finds the innermost one that is   *)
(* active, and without one takes the locks itself.                         *)
(***************************************************************************)
HasToken(o) == pc[o] = "held" /\ op[o].kind = "mutate" /\ o \in readers

HasDepToken(o) ==
    /\ pc[o] \in {"held", "closing"} /\ op[o].kind \in {"mutate", "decide"}
    /\ dependency = o \/ InDepGate(o)

\* Variant for mutation: a nested call makes no token of its own, so that the
\* calls within it find the one it is in.
DepTokenOutermost(scope) ==
    LET active == {o \in scope : HasDepToken(o)}
        outermost == {o \in active : op[o].scope \cap active = {}}
    IN  IF outermost = {} THEN Nobody ELSE CHOOSE o \in outermost : TRUE

DepToken(scope) ==
    LET active == {o \in scope : HasDepToken(o)}
        innermost == {o \in active : active \ {o} \subseteq op[o].scope}
    IN  IF innermost = {} THEN Nobody ELSE CHOOSE o \in innermost : TRUE

(***************************************************************************)
(* lockRequired: Load and a decision on the graph always take the mutex, a *)
(* mutation or deletion if the credential was or will be in the graph.     *)
(***************************************************************************)
Required(o) == o.kind \in {"decide", "load"} \/ o.incoming \/ o.auth \in relevant

\* Where a call goes for its keys, and for a side of the barrier.
Locking(o) == IF \E p \in o.scope : HasToken(p) THEN "gate" ELSE "turnstile"

\* Where a call goes when its context has no dependency token.
Deciding(o) == IF Required(o) THEN "dependency" ELSE Locking(o)

\* Where a call begins.
First(o) ==
    CASE o.kind \in {"mutate", "delete", "decide"} -> IF o.dep # Nobody THEN "depGate" ELSE Deciding(o)
      [] o.kind = "load" -> "dependency"
      [] o.kind \in {"edit", "commit"} -> Locking(o)
      [] o.kind = "swap" -> "turnstile"
      [] o.kind = "scan" -> IF \E p \in o.scope : HasToken(p) THEN "enumerate" ELSE "turnstile"

\* Where a call goes when it has let go of all but the dependency mutex.
After(c) == IF dependency = c \/ InDepGate(c) THEN "closing" ELSE "done"

\* The id, and for Register, Update and LockAuthMutation the account.
Wanted(c) == {IdKey[op[c].auth]} \cup op[c].account

\* A semaphore of persistLocks.
Free(k) == \A c \in Call : k \notin keys[c]

\* The holder of a context waits for the calls it makes itself.
Awaits(o) == \E c \in Call : o \in op[c].awaiting /\ Underway(c)

Goto(c, where) == pc' = [pc EXCEPT ![c] = where]

-----------------------------------------------------------------------------
Init ==
    /\ op = [c \in Call |-> [kind |-> "edit", auth |-> AnyAuth, account |-> {}, incoming |-> FALSE,
                             scope |-> {}, awaiting |-> {}, dep |-> Nobody, store |-> 0]]
    /\ pc = [c \in Call |-> "idle"]
    /\ dependency = Nobody
    /\ depGate = [c \in Call |-> Nobody]
    /\ gate = [c \in Call |-> Nobody]
    /\ turnstile = Nobody
    /\ readers = {}
    /\ writer = Nobody
    /\ keys = [c \in Call |-> {}]
    /\ enumerating = Nobody
    /\ relevant = Linked
    /\ store = 0

(***************************************************************************)
(* A mutation and a decision lend their context to the calls made within   *)
(* them; a mutation inside the slot of a token does so only when it has    *)
(* left it, for its hook.  Whoever waits for the lender then, and a lender *)
(* that goes on holding its locks, may wait for the call.                  *)
(***************************************************************************)
Lends(o) ==
    /\ op[o].kind \in {"mutate", "decide"}
    /\ HasToken(o) \/ (pc[o] = "held" /\ op[o].kind = "decide") \/ pc[o] \in {"closing", "done"}

Callers(o) == {p \in {o} \cup op[o].awaiting : pc[p] = "held"}

\* The contexts a call may be made with: its own, or that of another call and
\* of those it was made within, as far as they are not over.
Own == [scope |-> {}, awaiting |-> {}, dep |-> Nobody]

Context(via, awaiting) ==
    LET scope == {o \in {via} \cup op[via].scope : pc[o] # "done"}
    IN  [scope |-> scope, awaiting |-> awaiting, dep |-> DepToken(scope)]

Lent(kind) ==
    UNION {{Context(via, awaiting) : awaiting \in {{}, Callers(via)}} :
           via \in {o \in Call : Lends(o) /\ (kind = "decide" => op[o].kind = "decide")}}

Contexts(kind) ==
    {Own} \cup IF kind \in {"mutate", "delete", "edit", "scan", "decide"} THEN Lent(kind) ELSE {}

\* A refresh is bound to the coordinator of the moment it took its slot.
Request(kind, auth, account, incoming, x) ==
    [kind |-> kind, auth |-> auth, account |-> account, incoming |-> incoming,
     scope |-> x.scope, awaiting |-> x.awaiting, dep |-> x.dep,
     store |-> IF kind = "commit" THEN store ELSE 0]

\* A call is made, by somebody who does not wait for another.
Start(c) ==
    /\ pc[c] = "idle"
    /\ \E kind \in Planned[c], auth \in Auth, incoming \in BOOLEAN :
        \E account \in IF kind = "mutate" THEN Accounts[auth] ELSE {{}}, x \in Contexts(kind) :
            /\ incoming => kind \in {"mutate", "delete"}
            /\ kind \notin Keyed => auth = AnyAuth
            /\ \A d \in Call \ x.awaiting : Underway(d) => op[d].awaiting \cap x.awaiting = {}
            /\ op' = [op EXCEPT ![c] = Request(kind, auth, account, incoming, x)]
            /\ Goto(c, First(Request(kind, auth, account, incoming, x)))
    /\ UNCHANGED <<locks, relevant, store>>

(***************************************************************************)
(* The nested slot of a dependency token, held as the lock of the child    *)
(* token that the call makes; a token that was unlocked meanwhile is given *)
(* back and the call decides for itself, whatever it was nested in.        *)
(***************************************************************************)
EnterDepGate(c) ==
    /\ pc[c] = "depGate"
    /\ IF HasDepToken(op[c].dep)
       THEN /\ depGate[op[c].dep] = Nobody
            /\ depGate' = [depGate EXCEPT ![op[c].dep] = c]
            /\ Goto(c, IF op[c].kind = "decide" THEN "held" ELSE Locking(op[c]))
       ELSE Goto(c, Deciding(op[c])) /\ UNCHANGED depGate
    /\ UNCHANGED <<op, dependency, gate, turnstile, readers, writer, keys, enumerating, relevant, store>>

\* The dependency mutex, held to the end of the call.
TakeDependency(c) ==
    /\ pc[c] = "dependency" /\ dependency = Nobody
    /\ dependency' = c
    /\ Goto(c, CASE op[c].kind = "decide" -> "held"
                 [] op[c].kind = "load" -> "turnstile"
                 [] OTHER -> Locking(op[c]))
    /\ UNCHANGED <<op, depGate, gate, turnstile, readers, writer, keys, enumerating, relevant, store>>

\* What a token is compared with: its id and, for a content, its email.
SameCredential(o, c) ==
    op[o].auth = op[c].auth /\ (op[c].kind = "mutate" => Email(o) = Email(c))

(***************************************************************************)
(* The nested slot of a token: the credential must be the one it was made  *)
(* for, else the call fails with ErrAuthMutationIdentityChanged.  The keys *)
(* of the token serve for what the call brings, whatever its identity.     *)
(***************************************************************************)
EnterGate(c) ==
    /\ pc[c] = "gate"
    /\ \/ \E o \in op[c].scope :
            /\ HasToken(o) /\ gate[o] = Nobody
            /\ IF SameCredential(o, c)
               THEN gate' = [gate EXCEPT ![o] = c] /\ Goto(c, "held")
               ELSE Goto(c, After(c)) /\ UNCHANGED gate
       \/ /\ \A o \in op[c].scope : ~HasToken(o)
          /\ Goto(c, "turnstile") /\ UNCHANGED gate
    /\ UNCHANGED <<op, dependency, depGate, turnstile, readers, writer, keys, enumerating, relevant, store>>

\* lockPersistBarrierTurnstile: readers and writers pass it one at a time.
TakeTurnstile(c) ==
    /\ pc[c] = "turnstile" /\ turnstile = Nobody
    /\ turnstile' = c
    /\ Goto(c, "barrier")
    /\ UNCHANGED <<op, dependency, depGate, gate, readers, writer, keys, enumerating, relevant, store>>

\* A reader lets the next one through the turnstile.
TakeRead(c) ==
    /\ pc[c] = "barrier" /\ op[c].kind \in Keyed /\ writer = Nobody
    /\ readers' = readers \cup {c}
    /\ turnstile' = Nobody
    /\ Goto(c, "keys")
    /\ UNCHANGED <<op, dependency, depGate, gate, writer, keys, enumerating, relevant, store>>

\* Variant for mutation: a writer does not wait for the readers inside.
TakeWriteAtOnce(c) ==
    /\ pc[c] = "barrier" /\ op[c].kind \in Writers /\ writer = Nobody
    /\ writer' = c
    /\ Goto(c, IF op[c].kind = "scan" THEN "enumerate" ELSE "held")
    /\ UNCHANGED <<op, dependency, depGate, gate, turnstile, readers, keys, enumerating, relevant, store>>

\* A writer keeps the turnstile until it unlocks, so that the readers drain.
TakeWrite(c) ==
    /\ pc[c] = "barrier" /\ op[c].kind \in Writers /\ writer = Nobody /\ readers = {}
    /\ writer' = c
    /\ Goto(c, IF op[c].kind = "scan" THEN "enumerate" ELSE "held")
    /\ UNCHANGED <<op, dependency, depGate, gate, turnstile, readers, keys, enumerating, relevant, store>>

\* The keys are sorted, so that no two calls take them in different orders.
NextKey(c) == Min(Wanted(c) \ keys[c])

\* The semaphores are taken one by one and kept while the next is waited for.
TakeKey(c) ==
    /\ pc[c] = "keys" /\ keys[c] # Wanted(c) /\ Free(NextKey(c))
    /\ keys' = [keys EXCEPT ![c] = @ \cup {NextKey(c)}]
    /\ UNCHANGED <<op, pc, dependency, depGate, gate, turnstile, readers, writer, enumerating, relevant, store>>

\* The call lets go of its keys and of the barrier and the turnstile.
Release(c) ==
    /\ keys' = [keys EXCEPT ![c] = {}]
    /\ readers' = readers \ {c}
    /\ writer' = IF writer = c THEN Nobody ELSE writer
    /\ turnstile' = IF turnstile = c THEN Nobody ELSE turnstile

\* Variant for mutation: the keys are enough.
EnterUnchecked(c) ==
    /\ pc[c] = "keys" /\ keys[c] = Wanted(c)
    /\ Goto(c, "held")
    /\ UNCHANGED <<op, locks, relevant, store>>

\* refreshPersistenceCoordinatorMatchesContext: a commit prepared for another
\* store is refused.
Enter(c) ==
    /\ pc[c] = "keys" /\ keys[c] = Wanted(c)
    /\ IF op[c].kind = "commit" /\ op[c].store # store
       THEN Release(c) /\ Goto(c, After(c))
       ELSE Goto(c, "held") /\ UNCHANGED <<keys, readers, writer, turnstile>>
    /\ UNCHANGED <<op, dependency, depGate, gate, enumerating, relevant, store>>

\* An enumeration of the store, unless the indexes are complete by now.
Enumerate(c) ==
    /\ pc[c] = "enumerate" /\ enumerating = Nobody
    /\ \/ enumerating' = c /\ Goto(c, "held") /\ UNCHANGED <<keys, readers, writer, turnstile>>
       \/ Release(c) /\ Goto(c, After(c)) /\ UNCHANGED enumerating
    /\ UNCHANGED <<op, dependency, depGate, gate, relevant, store>>

-----------------------------------------------------------------------------
\* What a call does to the graph: a mutation installs the content it brings,
\* unless the store refuses it.
Effect(c) ==
    relevant' \in
        CASE op[c].kind = "mutate" -> {relevant, IF op[c].incoming THEN relevant \cup {op[c].auth}
                                                                   ELSE relevant \ {op[c].auth}}
          [] op[c].kind = "delete" -> {relevant, relevant \ {op[c].auth}}
          [] OTHER -> {relevant}

\* A call inside the slot of a token leaves it to the next.
LeaveGate(c) ==
    /\ pc[c] = "held" /\ InGate(c)
    /\ Effect(c)
    /\ gate' = [o \in Call |-> IF gate[o] = c THEN Nobody ELSE gate[o]]
    /\ Goto(c, After(c))
    /\ UNCHANGED <<op, dependency, depGate, turnstile, readers, writer, keys, enumerating, store>>

\* Variant for mutation: the token is not drained.
UnlockUndrained(c) ==
    /\ pc[c] = "held" /\ op[c].kind \in Keyed /\ ~InGate(c)
    /\ ~Awaits(c)
    /\ Effect(c)
    /\ Release(c)
    /\ Goto(c, After(c))
    /\ UNCHANGED <<op, dependency, depGate, gate, enumerating, store>>

\* The unlock of a call that locked its keys: a token is drained first.
Unlock(c) ==
    /\ pc[c] = "held" /\ op[c].kind \in Keyed /\ ~InGate(c)
    /\ gate[c] = Nobody /\ ~Awaits(c)
    /\ Effect(c)
    /\ Release(c)
    /\ Goto(c, After(c))
    /\ UNCHANGED <<op, dependency, depGate, gate, enumerating, store>>

\* SetStore puts the store and its coordinator in place behind the barrier.
Swap(c) ==
    /\ pc[c] = "held" /\ op[c].kind = "swap"
    /\ store' = store + 1
    /\ Release(c)
    /\ Goto(c, "done")
    /\ UNCHANGED <<op, dependency, depGate, gate, enumerating, relevant>>

\* Load replaces the credentials by those it found, opens the barrier and only
\* then gives the dependency mutex back.
Load(c) ==
    /\ pc[c] = "held" /\ op[c].kind = "load"
    /\ relevant' \in SUBSET Auth
    /\ Release(c)
    /\ Goto(c, "closing")
    /\ UNCHANGED <<op, dependency, depGate, gate, enumerating, store>>

\* The enumeration is over, with the barrier or without it.
Scanned(c) ==
    /\ pc[c] = "held" /\ op[c].kind = "scan"
    /\ enumerating' = Nobody
    /\ Release(c)
    /\ Goto(c, After(c))
    /\ UNCHANGED <<op, dependency, depGate, gate, relevant, store>>

\* WithChatGPTWebDependencyMutation: the decision and its calls are over.
Decided(c) ==
    /\ pc[c] = "held" /\ op[c].kind = "decide" /\ ~Awaits(c)
    /\ Goto(c, "closing")
    /\ UNCHANGED <<op, locks, relevant, store>>

\* unlockDependency: the slot of the token is drained before the mutex is free.
Close(c) ==
    /\ pc[c] = "closing" /\ depGate[c] = Nobody
    /\ dependency' = IF dependency = c THEN Nobody ELSE dependency
    /\ depGate' = [o \in Call |-> IF depGate[o] = c THEN Nobody ELSE depGate[o]]
    /\ Goto(c, "done")
    /\ UNCHANGED <<op, gate, turnstile, readers, writer, keys, enumerating, relevant, store>>

\* The context ends while the call waits.
Cancel(c) ==
    /\ c \in Cancellable
    /\ pc[c] \in {"depGate", "dependency", "gate", "turnstile", "barrier", "keys", "enumerate"}
    /\ Release(c)
    /\ Goto(c, After(c))
    /\ UNCHANGED <<op, dependency, depGate, gate, enumerating, relevant, store>>

-----------------------------------------------------------------------------
Step(c) ==
    \/ EnterDepGate(c) \/ TakeDependency(c) \/ EnterGate(c) \/ TakeTurnstile(c)
    \/ TakeRead(c) \/ TakeWrite(c) \/ TakeKey(c) \/ Enter(c) \/ Enumerate(c)
    \/ LeaveGate(c) \/ Unlock(c) \/ Swap(c) \/ Load(c) \/ Scanned(c) \/ Decided(c) \/ Close(c)

Next == \E c \in Call : Start(c) \/ Step(c) \/ Cancel(c)

Spec == Init /\ [][Next]_vars

\* Every step but the making of a call and the end of a context is one the
\* code takes by itself once it can; a store call returns.
FairSpec == Spec /\ \A c \in Call : WF_vars(Step(c))

-----------------------------------------------------------------------------
\* The type invariant: keys are held under the read side of the barrier and
\* the write side with the turnstile.
TypeOK ==
    /\ op \in [Call -> Ops]
    /\ pc \in [Call -> {"idle", "depGate", "dependency", "gate", "turnstile", "barrier", "keys",
                        "enumerate", "held", "closing", "done"}]
    /\ {dependency, turnstile, writer, enumerating} \subseteq Call \cup {Nobody}
    /\ {gate, depGate} \subseteq [Call -> Call \cup {Nobody}]
    /\ readers \subseteq {c \in Call : op[c].kind \in Keyed}
    /\ keys \in [Call -> SUBSET Key] /\ \A c \in Call \ readers : keys[c] = {}
    /\ writer # Nobody => turnstile = writer /\ readers = {}
    /\ relevant \subseteq Auth /\ store \in 0 .. MaxStore

\* A call that works on its credential.
Working(c) == pc[c] = "held" /\ op[c].kind \in Keyed

\* What a call has to itself: all it wants, if it locked the keys itself; in
\* the slot of a token the credential and its email, which are those of the
\* token, but not the identities of the content it brings.
Serialized(c) == IF InGate(c) THEN {IdKey[op[c].auth]} \cup Email(c) ELSE Wanted(c)

\* No credential is worked on twice at a time, and no two credentials of an
\* email, or of an identity that both have locked, except by the holder of a
\* token and one call inside its slot; nobody works on one while the store is
\* swapped, loaded or enumerated behind the barrier; and a refresh is committed
\* to the store whose coordinator gave it its slot.
Exclusion ==
    \A c \in Call : Working(c) =>
        /\ writer = Nobody
        /\ op[c].kind = "commit" => op[c].store = store
        /\ \A d \in Call \ {c} : Working(d) =>
              \/ Serialized(c) \cap Serialized(d) = {}
              \/ gate[d] = c
              \/ gate[c] = d

\* A call that holds the keys through its context waits for the mutex of the
\* graph, which is taken before them.
OutOfOrder(c) == pc[c] = "dependency" /\ \E o \in op[c].scope : HasToken(o)

\* Every call ends, unless a call has taken the locks out of order.
EveryCallEnds == <>[](\A c \in Call : pc[c] \in {"idle", "done"} \/ \E d \in Call : OutOfOrder(d))

\* LockAuthMutation: "The returned context lets Register and Update reuse the
\* dependency and auth lock ownership in their canonical order."
CanonicalOrder == \A c \in Call : ~OutOfOrder(c)
=============================================================================
