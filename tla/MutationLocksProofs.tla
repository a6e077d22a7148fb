-------------------------- MODULE MutationLocksProofs --------------------------
(***************************************************************************)
(* Proofs about MutationLocks for every set of calls and credentials and   *)
(* every assignment of keys to them.                                       *)
(***************************************************************************)
EXTENDS MutationLocks, FiniteSetTheorems, TLAPS

\* A place that a call of this kind passes.
Fits(o, place) ==
    /\ place = "depGate" => o.kind \in {"mutate", "delete", "decide"}
    /\ place = "dependency" => o.kind \in {"mutate", "delete", "decide", "load"}
    /\ place \in {"gate", "keys"} => o.kind \in Keyed
    /\ place \in {"turnstile", "barrier"} => o.kind # "decide"
    /\ place = "enumerate" => o.kind = "scan"
    /\ place = "depGate" => o.dep # Nobody

\* A call that was made is where its kind allows, within calls that were made
\* before it, and names an account only if it brings a content.
Placed ==
    \A c \in Call : pc[c] # "idle" =>
        /\ op[c].kind \in Planned[c]
        /\ Fits(op[c], pc[c])
        /\ op[c].kind # "mutate" => op[c].account = {}
        /\ op[c].kind = "commit" => op[c].scope = {}
        /\ \A o \in op[c].scope : pc[o] # "idle"

\* A call inside the slot of a token: the token is active, for its credential
\* and for the email of the content it brings.
Slots ==
    \A o \in Call : gate[o] # Nobody =>
        /\ o \in op[gate[o]].scope /\ pc[gate[o]] = "held" /\ op[gate[o]].kind \in Keyed
        /\ HasToken(o) /\ SameCredential(o, gate[o])

\* Who waits for the barrier has the turnstile and nobody else has, but the
\* writer; a reader takes its keys and holds them until it unlocks.
Barrier ==
    /\ turnstile # Nobody => pc[turnstile] = "barrier" \/ writer = turnstile
    /\ writer # Nobody => op[writer].kind \in Writers /\ pc[writer] \in {"enumerate", "held"}
    /\ \A c \in Call :
        /\ pc[c] = "barrier" => turnstile = c
        /\ c \in readers <=> op[c].kind \in Keyed
                             /\ (pc[c] = "keys" \/ (pc[c] = "held" /\ ~InGate(c)))
        /\ op[c].kind \in {"load", "swap"} /\ pc[c] = "held" => writer = c

\* Semaphores have one holder, and a call that works holds all it wants.
Semaphores ==
    \A c \in Call :
        /\ keys[c] \subseteq Wanted(c)
        /\ pc[c] = "held" /\ c \in readers => keys[c] = Wanted(c)
        /\ \A d \in Call \ {c} : keys[c] \cap keys[d] = {}

\* A commit that passed the check is of the store in place until it is done.
Committed == \A c \in Call : op[c].kind = "commit" /\ pc[c] = "held" => op[c].store = store

\* Each store was set by a call that is done.
Counted == store <= Cardinality({c \in Swappers : op[c].kind = "swap" /\ pc[c] = "done"})

IInv == TypeOK /\ Placed /\ Slots /\ Barrier /\ Semaphores /\ Committed /\ Counted

\* A call goes on to a place of its kind.
Moves(c) ==
    /\ op' = op /\ pc[c] # "idle"
    /\ Goto(c, pc'[c]) /\ pc'[c] # "idle" /\ Fits(op[c], pc'[c])

LEMMA MovesPlaced ==
    ASSUME TypeOK, Placed, NEW c \in Call, Moves(c)
    PROVE  Placed'
<1>1. op' = op /\ pc[c] # "idle" /\ pc'[c] # "idle" /\ Fits(op[c], pc'[c])
  BY DEF Moves
<1>2. \A d \in Call \ {c} : pc'[d] = pc[d]
  BY DEF Moves, Goto, TypeOK
<1> SUFFICES ASSUME NEW d \in Call, pc'[d] # "idle"
             PROVE  /\ op[d].kind \in Planned[d]
                    /\ Fits(op[d], pc'[d])
                    /\ op[d].kind # "mutate" => op[d].account = {}
                    /\ op[d].kind = "commit" => op[d].scope = {}
                    /\ \A o \in op[d].scope : pc'[o] # "idle"
  BY <1>1 DEF Placed, Fits
<1>3. pc[d] # "idle" /\ Fits(op[d], pc'[d])
  BY <1>1, <1>2 DEF Placed
<1>4. op[d].scope \subseteq Call
  BY DEF TypeOK, Ops
<1> QED
  BY <1>1, <1>2, <1>3, <1>4 DEF Placed

LEMMA CountedKept ==
    ASSUME Counted, store \in Nat, store' = store, 
           \A d \in Call : pc[d] = "done" => pc'[d] = "done" /\ op'[d].kind = op[d].kind
    PROVE  Counted'
<1> DEFINE S == {d \in Swappers : op[d].kind = "swap" /\ pc[d] = "done"}
<1>1. S \subseteq S' /\ S' \subseteq Swappers
  BY DEF Swappers
<1>2. IsFiniteSet(S') /\ Cardinality(S) <= Cardinality(S')
  BY <1>1, LocksAssumption, FS_Subset
<1>3. Cardinality(S) \in Nat /\ Cardinality(S') \in Nat
  BY <1>1, <1>2, FS_Subset, FS_CardinalityType
<1> HIDE DEF S
<1>4. store <= Cardinality(S)
  BY DEF Counted, S
<1>5. store' <= Cardinality(S')
  BY <1>2, <1>3, <1>4
<1> QED
  BY <1>5 DEF Counted, S

\* Among the keys a call still wants there is a least one, which it takes next.
LEMMA LeastKey ==
    ASSUME NEW c \in Call, Wanted(c) \subseteq Nat, keys[c] \subseteq Wanted(c), keys[c] # Wanted(c)
    PROVE  NextKey(c) \in Wanted(c) \ keys[c]
<1> DEFINE S == Wanted(c) \ keys[c]
<1>1. S \subseteq Nat /\ S # {}
  OBVIOUS
<1> HIDE DEF S
<1>2. PICK x \in S : \A y \in S : <<y, x>> \notin OpToRel(<, Nat)
  BY <1>1, NatLessThanWellFounded, WFMin
<1>3. OpToRel(<, Nat) = {p \in Nat \X Nat : p[1] < p[2]}
  BY Zenon DEF OpToRel
<1>4. \A y \in S : x <= y
  <2> SUFFICES ASSUME NEW y \in S PROVE x <= y
    OBVIOUS
  <2>1. <<y, x>> \notin {p \in Nat \X Nat : p[1] < p[2]}
    BY <1>2, <1>3, Zenon
  <2> QED
    BY <1>1, <2>1
<1>5. Min(S) \in S
  BY <1>4 DEF Min
<1> QED
  BY <1>5 DEF NextKey, S

LEMMA WantedKeys ==
    ASSUME TypeOK, NEW c \in Call
    PROVE  Wanted(c) \subseteq Key /\ Wanted(c) \subseteq Nat
  BY LocksAssumption DEF TypeOK, Ops, Wanted, Key

LEMMA EnterDepGateKeeps ==
    ASSUME IInv, NEW c \in Call, EnterDepGate(c)
    PROVE  IInv'
<1> USE LocksAssumption DEF EnterDepGate, Goto, Locking, Deciding, Required
<1>1. TypeOK'
  BY DEF IInv, locks, TypeOK, Ops, Kind, Keyed, Writers, Wanted, Key
<1>2. Slots'
  BY DEF IInv, locks, Slots, SameCredential, Email, HasToken, InGate, TypeOK, Placed, Fits, Keyed, Writers
<1>3. Barrier'
  BY DEF IInv, locks, Barrier, InGate, Slots, SameCredential, Email, HasToken, TypeOK, Placed, Fits, Keyed, Writers
<1>4. Semaphores'
  BY DEF IInv, locks, Semaphores, Wanted, Barrier, InGate, TypeOK, Placed, Fits, Keyed
<1>5. Committed'
  BY DEF IInv, locks, Committed, Barrier, InGate, TypeOK, Placed, Fits, Keyed, Writers
<1>6. Moves(c)
  BY DEF IInv, Moves, Placed, Fits, TypeOK, Keyed, Writers, locks
<1>7. Placed'
  BY <1>6, MovesPlaced DEF IInv
<1>8. Counted'
  BY CountedKept DEF IInv, TypeOK, locks
<1> QED
  BY <1>1, <1>2, <1>3, <1>4, <1>5, <1>7, <1>8 DEF IInv

LEMMA TakeDependencyKeeps ==
    ASSUME IInv, NEW c \in Call, TakeDependency(c)
    PROVE  IInv'
<1> USE LocksAssumption DEF TakeDependency, Goto, Locking
<1>1. TypeOK'
  BY DEF IInv, locks, TypeOK, Ops, Kind, Keyed, Writers, Wanted, Key
<1>2. Slots'
  BY DEF IInv, locks, Slots, SameCredential, Email, HasToken, InGate, TypeOK, Placed, Fits, Keyed, Writers
<1>3. Barrier'
  BY DEF IInv, locks, Barrier, InGate, Slots, SameCredential, Email, HasToken, TypeOK, Placed, Fits, Keyed, Writers
<1>4. Semaphores'
  BY DEF IInv, locks, Semaphores, Wanted, Barrier, InGate, TypeOK, Placed, Fits, Keyed
<1>5. Committed'
  BY DEF IInv, locks, Committed, Barrier, InGate, TypeOK, Placed, Fits, Keyed, Writers
<1>6. Moves(c)
  BY DEF IInv, Moves, Placed, Fits, TypeOK, Keyed, Writers, locks
<1>7. Placed'
  BY <1>6, MovesPlaced DEF IInv
<1>8. Counted'
  BY CountedKept DEF IInv, TypeOK, locks
<1> QED
  BY <1>1, <1>2, <1>3, <1>4, <1>5, <1>7, <1>8 DEF IInv

LEMMA EnterGateKeeps ==
    ASSUME IInv, NEW c \in Call, EnterGate(c)
    PROVE  IInv'
<1> USE LocksAssumption DEF EnterGate, Goto, After
<1>0. /\ op[c].kind \in Keyed /\ op' = op /\ pc[c] = "gate"
      /\ Goto(c, pc'[c]) /\ pc'[c] \in {"held", "turnstile", "closing", "done"}
      /\ IF pc'[c] = "held"
         THEN \E o \in op[c].scope : /\ gate[o] = Nobody /\ gate' = [gate EXCEPT ![o] = c]
                                     /\ HasToken(o) /\ SameCredential(o, c)
         ELSE gate' = gate
  BY DEF IInv, Placed, Fits, TypeOK
<1>00. op[c].scope \subseteq Call
  BY DEF IInv, TypeOK, Ops
<1>1. TypeOK'
  BY <1>0 DEF IInv, TypeOK
<1>2. Slots'
  BY DEF IInv, locks, Slots, SameCredential, Email, HasToken, InGate, TypeOK, Placed, Fits, Keyed, Writers
<1>3. Barrier'
  <2>2. \A d \in Call \ {c} : InGate(d)' = InGate(d)
    BY <1>0, <1>00 DEF IInv, TypeOK, Ops, InGate
  <2>3. pc'[c] = "held" => InGate(c)'
    BY <1>0, <1>00 DEF IInv, TypeOK, InGate
  <2>4. pc[c] = "gate" /\ \A d \in Call \ {c} : pc'[d] = pc[d]
    BY <1>0 DEF IInv, TypeOK
  <2>5. UNCHANGED <<turnstile, readers, writer>>
    OBVIOUS
  <2> HIDE DEF EnterGate
  <2>6. c \notin readers /\ turnstile # c /\ writer # c
    BY <1>0, <2>4 DEF IInv, TypeOK, Barrier, Keyed, Writers
  <2> SUFFICES ASSUME NEW d \in Call
               PROVE  /\ pc'[d] = "barrier" => turnstile = d
                      /\ d \in readers <=> op[d].kind \in Keyed
                                           /\ (pc'[d] = "keys" \/ (pc'[d] = "held" /\ ~InGate(d)'))
                      /\ op[d].kind \in {"load", "swap"} /\ pc'[d] = "held" => writer = d
    BY <1>0, <2>4, <2>5, <2>6 DEF IInv, TypeOK, Barrier, Keyed, Writers
  <2>7. CASE d = c
    BY <1>0, <2>3, <2>6, <2>7 DEF Keyed
  <2>8. CASE d # c
    BY <2>2, <2>4, <2>8 DEF IInv, Barrier
  <2> QED
    BY <2>7, <2>8
<1>4. Semaphores'
  BY DEF IInv, locks, Semaphores, Wanted, Barrier, InGate, TypeOK, Placed, Fits, Keyed
<1>5. Committed'
  BY DEF IInv, locks, Committed, Barrier, InGate, TypeOK, Placed, Fits, Keyed, Writers
<1>6. Moves(c)
  BY DEF IInv, Moves, Placed, Fits, TypeOK, Keyed, Writers, locks
<1>7. Placed'
  BY <1>6, MovesPlaced DEF IInv
<1>8. Counted'
  BY CountedKept DEF IInv, TypeOK, locks
<1> QED
  BY <1>1, <1>2, <1>3, <1>4, <1>5, <1>7, <1>8 DEF IInv

LEMMA TakeTurnstileKeeps ==
    ASSUME IInv, NEW c \in Call, TakeTurnstile(c)
    PROVE  IInv'
<1> USE LocksAssumption DEF TakeTurnstile, Goto
<1>1. TypeOK'
  BY DEF IInv, locks, TypeOK, Ops, Kind, Keyed, Writers, Wanted, Key
<1>2. Slots'
  BY DEF IInv, locks, Slots, SameCredential, Email, HasToken, InGate, TypeOK, Placed, Fits, Keyed, Writers
<1>3. Barrier'
  BY DEF IInv, locks, Barrier, InGate, Slots, SameCredential, Email, HasToken, TypeOK, Placed, Fits, Keyed, Writers
<1>4. Semaphores'
  BY DEF IInv, locks, Semaphores, Wanted, Barrier, InGate, TypeOK, Placed, Fits, Keyed
<1>5. Committed'
  BY DEF IInv, locks, Committed, Barrier, InGate, TypeOK, Placed, Fits, Keyed, Writers
<1>6. Moves(c)
  BY DEF IInv, Moves, Placed, Fits, TypeOK, Keyed, Writers, locks
<1>7. Placed'
  BY <1>6, MovesPlaced DEF IInv
<1>8. Counted'
  BY CountedKept DEF IInv, TypeOK, locks
<1> QED
  BY <1>1, <1>2, <1>3, <1>4, <1>5, <1>7, <1>8 DEF IInv

LEMMA TakeReadKeeps ==
    ASSUME IInv, NEW c \in Call, TakeRead(c)
    PROVE  IInv'
<1> USE LocksAssumption DEF TakeRead, Goto
<1>1. TypeOK'
  BY DEF IInv, locks, TypeOK, Ops, Kind, Keyed, Writers, Wanted, Key
<1>2. Slots'
  BY DEF IInv, locks, Slots, SameCredential, Email, HasToken, InGate, TypeOK, Placed, Fits, Keyed, Writers
<1>3. Barrier'
  BY DEF IInv, locks, Barrier, InGate, Slots, SameCredential, Email, HasToken, TypeOK, Placed, Fits, Keyed, Writers
<1>4. Semaphores'
  BY DEF IInv, locks, Semaphores, Wanted, Barrier, InGate, TypeOK, Placed, Fits, Keyed
<1>5. Committed'
  BY DEF IInv, locks, Committed, Barrier, InGate, TypeOK, Placed, Fits, Keyed, Writers
<1>6. Moves(c)
  BY DEF IInv, Moves, Placed, Fits, TypeOK, Keyed, Writers, locks
<1>7. Placed'
  BY <1>6, MovesPlaced DEF IInv
<1>8. Counted'
  BY CountedKept DEF IInv, TypeOK, locks
<1> QED
  BY <1>1, <1>2, <1>3, <1>4, <1>5, <1>7, <1>8 DEF IInv

LEMMA TakeWriteKeeps ==
    ASSUME IInv, NEW c \in Call, TakeWrite(c)
    PROVE  IInv'
<1> USE LocksAssumption DEF TakeWrite, Goto
<1>1. TypeOK'
  <2>1. turnstile = c
    BY DEF IInv, Barrier
  <2> QED
    BY <2>1 DEF IInv, TypeOK, Ops, Writers
<1>2. Slots'
  BY DEF IInv, locks, Slots, SameCredential, Email, HasToken, InGate, TypeOK, Placed, Fits, Keyed, Writers
<1>3. Barrier'
  BY DEF IInv, locks, Barrier, InGate, Slots, SameCredential, Email, HasToken, TypeOK, Placed, Fits, Keyed, Writers
<1>4. Semaphores'
  BY DEF IInv, locks, Semaphores, Wanted, Barrier, InGate, TypeOK, Placed, Fits, Keyed
<1>5. Committed'
  BY DEF IInv, locks, Committed, Barrier, InGate, TypeOK, Placed, Fits, Keyed, Writers
<1>6. Moves(c)
  BY DEF IInv, Moves, Placed, Fits, TypeOK, Keyed, Writers, locks
<1>7. Placed'
  BY <1>6, MovesPlaced DEF IInv
<1>8. Counted'
  BY CountedKept DEF IInv, TypeOK, locks
<1> QED
  BY <1>1, <1>2, <1>3, <1>4, <1>5, <1>7, <1>8 DEF IInv

LEMMA TakeKeyKeeps ==
    ASSUME IInv, NEW c \in Call, TakeKey(c)
    PROVE  IInv'
<1> USE LocksAssumption DEF TakeKey, Free
<1>0. NextKey(c) \in Wanted(c) \ keys[c] /\ Wanted(c) \subseteq Key /\ op' = op
  BY LeastKey, WantedKeys DEF IInv, Semaphores
<1> HIDE DEF Free
<1>1. TypeOK'
  <2>1. c \in readers
    BY DEF IInv, Barrier, Placed, Fits
  <2> QED
    BY <1>0, <2>1 DEF IInv, TypeOK
<1>2. Slots'
  BY DEF IInv, locks, Slots, SameCredential, Email, HasToken, InGate, TypeOK, Placed, Fits, Keyed, Writers
<1>3. Barrier'
  BY DEF IInv, locks, Barrier, InGate, Slots, SameCredential, Email, HasToken, TypeOK, Placed, Fits, Keyed, Writers
<1>4. Semaphores'
  <2>1. \A d \in Call : Wanted(d)' = Wanted(d)
    BY <1>0 DEF Wanted
  <2>2. \A d \in Call : keys'[d] = IF d = c THEN keys[c] \cup {NextKey(c)} ELSE keys[d]
    BY DEF IInv, TypeOK
  <2>3. \A d \in Call : NextKey(c) \notin keys[d]
    BY DEF Free
  <2> QED
    BY <1>0, <2>1, <2>2, <2>3 DEF IInv, Semaphores
<1>5. Committed'
  BY DEF IInv, locks, Committed, Barrier, InGate, TypeOK, Placed, Fits, Keyed, Writers
<1>7. Placed'
  BY DEF IInv, Placed, Fits, locks
<1>8. Counted'
  BY CountedKept DEF IInv, TypeOK, locks
<1> QED
  BY <1>1, <1>2, <1>3, <1>4, <1>5, <1>7, <1>8 DEF IInv

LEMMA EnterKeeps ==
    ASSUME IInv, NEW c \in Call, Enter(c)
    PROVE  IInv'
<1> USE LocksAssumption DEF Enter, Goto, Release, After
<1>1. TypeOK'
  BY DEF IInv, locks, TypeOK, Ops, Kind, Keyed, Writers, Wanted, Key
<1>2. Slots'
  BY DEF IInv, locks, Slots, SameCredential, Email, HasToken, InGate, TypeOK, Placed, Fits, Keyed, Writers
<1>3. Barrier'
  <2>1. op[c].kind \in Keyed /\ op' = op /\ gate' = gate
    BY DEF IInv, Placed, Fits
  <2>2. ~InGate(c)
    BY DEF IInv, TypeOK, Ops, Slots, InGate
  <2>3. \A d \in Call : InGate(d)' = InGate(d)
    BY <2>1 DEF InGate
  <2>4. c \in readers /\ writer = Nobody /\ turnstile # c
    BY <2>1 DEF IInv, Barrier, TypeOK
  <2> QED
    BY <2>1, <2>2, <2>3, <2>4 DEF IInv, TypeOK, Barrier, Keyed, Writers
<1>4. Semaphores'
  BY DEF IInv, locks, Semaphores, Wanted, Barrier, InGate, TypeOK, Placed, Fits, Keyed
<1>5. Committed'
  BY DEF IInv, locks, Committed, Barrier, InGate, TypeOK, Placed, Fits, Keyed, Writers
<1>6. Moves(c)
  BY DEF IInv, Moves, Placed, Fits, TypeOK, Keyed, Writers, locks
<1>7. Placed'
  BY <1>6, MovesPlaced DEF IInv
<1>8. Counted'
  BY CountedKept DEF IInv, TypeOK, locks
<1> QED
  BY <1>1, <1>2, <1>3, <1>4, <1>5, <1>7, <1>8 DEF IInv

LEMMA EnumerateKeeps ==
    ASSUME IInv, NEW c \in Call, Enumerate(c)
    PROVE  IInv'
<1> USE LocksAssumption DEF Enumerate, Goto, Release, After
<1>1. TypeOK'
  <2>1. op' = op /\ op[c].kind = "scan"
    BY DEF IInv, Placed, Fits
  <2> QED
    BY <2>1 DEF IInv, TypeOK, Keyed
<1>2. Slots'
  BY DEF IInv, locks, Slots, SameCredential, Email, HasToken, InGate, TypeOK, Placed, Fits, Keyed, Writers
<1>3. Barrier'
  BY DEF IInv, locks, Barrier, InGate, Slots, SameCredential, Email, HasToken, TypeOK, Placed, Fits, Keyed, Writers
<1>4. Semaphores'
  BY DEF IInv, locks, Semaphores, Wanted, Barrier, InGate, TypeOK, Placed, Fits, Keyed
<1>5. Committed'
  BY DEF IInv, locks, Committed, Barrier, InGate, TypeOK, Placed, Fits, Keyed, Writers
<1>6. Moves(c)
  BY DEF IInv, Moves, Placed, Fits, TypeOK, Keyed, Writers, locks
<1>7. Placed'
  BY <1>6, MovesPlaced DEF IInv
<1>8. Counted'
  BY CountedKept DEF IInv, TypeOK, locks
<1> QED
  BY <1>1, <1>2, <1>3, <1>4, <1>5, <1>7, <1>8 DEF IInv

LEMMA LeaveGateKeeps ==
    ASSUME IInv, NEW c \in Call, LeaveGate(c)
    PROVE  IInv'
<1> USE LocksAssumption DEF LeaveGate, Goto, After, Effect
<1>1. TypeOK'
  <2>1. relevant' \subseteq Auth
    BY DEF IInv, TypeOK, Ops, Kind
  <2>2. gate' \in [Call -> Call \cup {Nobody}]
    BY DEF IInv, TypeOK
  <2> QED
    BY <2>1, <2>2 DEF IInv, TypeOK
<1>2. Slots'
  <2>1. \A o \in Call : gate'[o] # Nobody => gate[o] = gate'[o] /\ gate[o] # c
    BY DEF IInv, TypeOK
  <2>2. \A o \in Call : HasToken(o) => HasToken(o)'
    <3>1. c \notin readers
      BY DEF IInv, Barrier
    <3> QED
      BY <3>1 DEF HasToken, IInv, TypeOK
  <2>3. \A d \in Call \ {c} : pc'[d] = pc[d]
    BY DEF IInv, TypeOK
  <2> HIDE DEF LeaveGate
  <2>4. UNCHANGED op
    BY DEF LeaveGate
  <2> QED
    BY <2>1, <2>2, <2>3, <2>4 DEF IInv, TypeOK, Slots, SameCredential, Email
<1>3. Barrier'
  <2>1. op' = op /\ InGate(c) /\ op[c].kind \in Keyed
    BY DEF IInv, Slots, InGate, TypeOK, Ops
  <2>2. \A d \in Call \ {c} : InGate(d)' = InGate(d) /\ pc'[d] = pc[d]
    BY <2>1 DEF IInv, TypeOK, Ops, InGate
  <2>3. pc'[c] \in {"closing", "done"} /\ turnstile # c /\ writer # c
    BY <2>1 DEF IInv, TypeOK, Barrier, Keyed, Writers
  <2> QED
    BY <2>1, <2>2, <2>3 DEF IInv, TypeOK, Barrier, Keyed, Writers
<1>4. Semaphores'
  BY DEF IInv, locks, Semaphores, Wanted, Barrier, InGate, TypeOK, Placed, Fits, Keyed
<1>5. Committed'
  BY DEF IInv, locks, Committed, Barrier, InGate, TypeOK, Placed, Fits, Keyed, Writers
<1>6. Moves(c)
  BY DEF IInv, Moves, Placed, Fits, TypeOK, Keyed, Writers, locks
<1>7. Placed'
  BY <1>6, MovesPlaced DEF IInv
<1>8. Counted'
  BY CountedKept DEF IInv, TypeOK, locks
<1> QED
  BY <1>1, <1>2, <1>3, <1>4, <1>5, <1>7, <1>8 DEF IInv

LEMMA UnlockKeeps ==
    ASSUME IInv, NEW c \in Call, Unlock(c)
    PROVE  IInv'
<1> USE LocksAssumption DEF Unlock, Goto, Release, After, Effect
<1>1. TypeOK'
  BY DEF IInv, locks, TypeOK, Ops, Kind, Keyed, Writers, Wanted, Key
<1>2. Slots'
  BY DEF IInv, locks, Slots, SameCredential, Email, HasToken, InGate, TypeOK, Placed, Fits, Keyed, Writers
<1>3. Barrier'
  BY DEF IInv, locks, Barrier, InGate, Slots, SameCredential, Email, HasToken, TypeOK, Placed, Fits, Keyed, Writers
<1>4. Semaphores'
  BY DEF IInv, locks, Semaphores, Wanted, Barrier, InGate, TypeOK, Placed, Fits, Keyed
<1>5. Committed'
  BY DEF IInv, locks, Committed, Barrier, InGate, TypeOK, Placed, Fits, Keyed, Writers
<1>6. Moves(c)
  BY DEF IInv, Moves, Placed, Fits, TypeOK, Keyed, Writers, locks
<1>7. Placed'
  BY <1>6, MovesPlaced DEF IInv
<1>8. Counted'
  BY CountedKept DEF IInv, TypeOK, locks
<1> QED
  BY <1>1, <1>2, <1>3, <1>4, <1>5, <1>7, <1>8 DEF IInv

LEMMA SwapKeeps ==
    ASSUME IInv, NEW c \in Call, Swap(c)
    PROVE  IInv'
<1> USE LocksAssumption DEF Swap, Goto, Release
<1>8. Counted' /\ store' \in 0 .. MaxStore
  <2> DEFINE S == {d \in Swappers : op[d].kind = "swap" /\ pc[d] = "done"}
  <2>1. c \in Swappers /\ c \notin S /\ S' = S \cup {c} /\ S' \subseteq Swappers
    BY DEF IInv, Placed, TypeOK, Swappers
  <2> HIDE DEF S, Swap
  <2>2. IsFiniteSet(S) /\ Cardinality(S) \in Nat /\ Cardinality(S') = Cardinality(S) + 1
        /\ Cardinality(S') <= Cardinality(Swappers)
    <3>1. S \subseteq Swappers
      BY DEF S
    <3>2. IsFiniteSet(S) /\ Cardinality(S) \in Nat
      BY <3>1, FS_Subset, FS_CardinalityType
    <3>3. Cardinality(S \cup {c}) = Cardinality(S) + 1
      BY <2>1, <3>2, FS_AddElement
    <3>4. Cardinality(S') <= Cardinality(Swappers)
      BY <2>1, FS_Subset
    <3> QED
      BY <2>1, <3>2, <3>3, <3>4
  <2>3. store <= Cardinality(S) /\ store \in Nat
    BY DEF IInv, Counted, TypeOK, S
  <2>4. store' <= Cardinality(S')
    BY <2>2, <2>3 DEF Swap
  <2>5. store' \in 0 .. MaxStore
    <3>1. Cardinality(S') \in Nat /\ Cardinality(Swappers) \in Nat
      BY <2>2, FS_CardinalityType
    <3> QED
      BY <2>2, <2>3, <2>4, <3>1 DEF Swap
  <2> QED
    BY <2>4, <2>5 DEF Counted, S
<1>1. TypeOK'
  <2>1. store' \in 0 .. MaxStore /\ op' = op
    BY <1>8 DEF IInv, TypeOK
  <2>2. readers' \subseteq readers /\ keys' \in [Call -> SUBSET Key]
        /\ \A d \in Call : keys'[d] \subseteq keys[d] /\ keys'[c] = {}
    BY DEF IInv, TypeOK
  <2> QED
    BY <2>1, <2>2 DEF IInv, TypeOK
<1>2. Slots'
  BY DEF IInv, locks, Slots, SameCredential, Email, HasToken, InGate, TypeOK, Placed, Fits, Keyed, Writers
<1>3. Barrier'
  BY DEF IInv, locks, Barrier, InGate, Slots, SameCredential, Email, HasToken, TypeOK, Placed, Fits, Keyed, Writers
<1>4. Semaphores'
  BY DEF IInv, locks, Semaphores, Wanted, Barrier, InGate, TypeOK, Placed, Fits, Keyed
<1>5. Committed'
  BY DEF IInv, locks, Committed, Barrier, InGate, TypeOK, Placed, Fits, Keyed, Writers
<1>6. Moves(c)
  BY DEF IInv, Moves, Placed, Fits, TypeOK, Keyed, Writers, locks
<1>7. Placed'
  BY <1>6, MovesPlaced DEF IInv
<1> QED
  BY <1>1, <1>2, <1>3, <1>4, <1>5, <1>7, <1>8 DEF IInv

LEMMA LoadKeeps ==
    ASSUME IInv, NEW c \in Call, Load(c)
    PROVE  IInv'
<1> USE LocksAssumption DEF Load, Goto, Release
<1>1. TypeOK'
  BY DEF IInv, locks, TypeOK, Ops, Kind, Keyed, Writers, Wanted, Key
<1>2. Slots'
  BY DEF IInv, locks, Slots, SameCredential, Email, HasToken, InGate, TypeOK, Placed, Fits, Keyed, Writers
<1>3. Barrier'
  BY DEF IInv, locks, Barrier, InGate, Slots, SameCredential, Email, HasToken, TypeOK, Placed, Fits, Keyed, Writers
<1>4. Semaphores'
  BY DEF IInv, locks, Semaphores, Wanted, Barrier, InGate, TypeOK, Placed, Fits, Keyed
<1>5. Committed'
  BY DEF IInv, locks, Committed, Barrier, InGate, TypeOK, Placed, Fits, Keyed, Writers
<1>6. Moves(c)
  BY DEF IInv, Moves, Placed, Fits, TypeOK, Keyed, Writers, locks
<1>7. Placed'
  BY <1>6, MovesPlaced DEF IInv
<1>8. Counted'
  BY CountedKept DEF IInv, TypeOK, locks
<1> QED
  BY <1>1, <1>2, <1>3, <1>4, <1>5, <1>7, <1>8 DEF IInv

LEMMA ScannedKeeps ==
    ASSUME IInv, NEW c \in Call, Scanned(c)
    PROVE  IInv'
<1> USE LocksAssumption DEF Scanned, Goto, Release, After
<1>1. TypeOK'
  BY DEF IInv, locks, TypeOK, Ops, Kind, Keyed, Writers, Wanted, Key
<1>2. Slots'
  BY DEF IInv, locks, Slots, SameCredential, Email, HasToken, InGate, TypeOK, Placed, Fits, Keyed, Writers
<1>3. Barrier'
  BY DEF IInv, locks, Barrier, InGate, Slots, SameCredential, Email, HasToken, TypeOK, Placed, Fits, Keyed, Writers
<1>4. Semaphores'
  BY DEF IInv, locks, Semaphores, Wanted, Barrier, InGate, TypeOK, Placed, Fits, Keyed
<1>5. Committed'
  BY DEF IInv, locks, Committed, Barrier, InGate, TypeOK, Placed, Fits, Keyed, Writers
<1>6. Moves(c)
  BY DEF IInv, Moves, Placed, Fits, TypeOK, Keyed, Writers, locks
<1>7. Placed'
  BY <1>6, MovesPlaced DEF IInv
<1>8. Counted'
  BY CountedKept DEF IInv, TypeOK, locks
<1> QED
  BY <1>1, <1>2, <1>3, <1>4, <1>5, <1>7, <1>8 DEF IInv

LEMMA DecidedKeeps ==
    ASSUME IInv, NEW c \in Call, Decided(c)
    PROVE  IInv'
<1> USE LocksAssumption DEF Decided, Goto, locks
<1>1. TypeOK'
  BY DEF IInv, locks, TypeOK, Ops, Kind, Keyed, Writers, Wanted, Key
<1>2. Slots'
  BY DEF IInv, locks, Slots, SameCredential, Email, HasToken, InGate, TypeOK, Placed, Fits, Keyed, Writers
<1>3. Barrier'
  BY DEF IInv, locks, Barrier, InGate, Slots, SameCredential, Email, HasToken, TypeOK, Placed, Fits, Keyed, Writers
<1>4. Semaphores'
  BY DEF IInv, locks, Semaphores, Wanted, Barrier, InGate, TypeOK, Placed, Fits, Keyed
<1>5. Committed'
  BY DEF IInv, locks, Committed, Barrier, InGate, TypeOK, Placed, Fits, Keyed, Writers
<1>6. Moves(c)
  BY DEF IInv, Moves, Placed, Fits, TypeOK, Keyed, Writers, locks
<1>7. Placed'
  BY <1>6, MovesPlaced DEF IInv
<1>8. Counted'
  BY CountedKept DEF IInv, TypeOK, locks
<1> QED
  BY <1>1, <1>2, <1>3, <1>4, <1>5, <1>7, <1>8 DEF IInv

LEMMA CloseKeeps ==
    ASSUME IInv, NEW c \in Call, Close(c)
    PROVE  IInv'
<1> USE LocksAssumption DEF Close, Goto
<1>1. TypeOK'
  BY DEF IInv, locks, TypeOK, Ops, Kind, Keyed, Writers, Wanted, Key
<1>2. Slots'
  BY DEF IInv, locks, Slots, SameCredential, Email, HasToken, InGate, TypeOK, Placed, Fits, Keyed, Writers
<1>3. Barrier'
  BY DEF IInv, locks, Barrier, InGate, Slots, SameCredential, Email, HasToken, TypeOK, Placed, Fits, Keyed, Writers
<1>4. Semaphores'
  BY DEF IInv, locks, Semaphores, Wanted, Barrier, InGate, TypeOK, Placed, Fits, Keyed
<1>5. Committed'
  BY DEF IInv, locks, Committed, Barrier, InGate, TypeOK, Placed, Fits, Keyed, Writers
<1>6. Moves(c)
  BY DEF IInv, Moves, Placed, Fits, TypeOK, Keyed, Writers, locks
<1>7. Placed'
  BY <1>6, MovesPlaced DEF IInv
<1>8. Counted'
  BY CountedKept DEF IInv, TypeOK, locks
<1> QED
  BY <1>1, <1>2, <1>3, <1>4, <1>5, <1>7, <1>8 DEF IInv

LEMMA CancelKeeps ==
    ASSUME IInv, NEW c \in Call, Cancel(c)
    PROVE  IInv'
<1> USE LocksAssumption DEF Cancel, Goto, Release, After
<1>1. TypeOK'
  BY DEF IInv, locks, TypeOK, Ops, Kind, Keyed, Writers, Wanted, Key
<1>2. Slots'
  BY DEF IInv, locks, Slots, SameCredential, Email, HasToken, InGate, TypeOK, Placed, Fits, Keyed, Writers
<1>3. Barrier'
  BY DEF IInv, locks, Barrier, InGate, Slots, SameCredential, Email, HasToken, TypeOK, Placed, Fits, Keyed, Writers
<1>4. Semaphores'
  BY DEF IInv, locks, Semaphores, Wanted, Barrier, InGate, TypeOK, Placed, Fits, Keyed
<1>5. Committed'
  BY DEF IInv, locks, Committed, Barrier, InGate, TypeOK, Placed, Fits, Keyed, Writers
<1>6. Moves(c)
  BY DEF IInv, Moves, Placed, Fits, TypeOK, Keyed, Writers, locks
<1>7. Placed'
  BY <1>6, MovesPlaced DEF IInv
<1>8. Counted'
  BY CountedKept DEF IInv, TypeOK, locks
<1> QED
  BY <1>1, <1>2, <1>3, <1>4, <1>5, <1>7, <1>8 DEF IInv

-----------------------------------------------------------------------------
\* Where a call begins is a place of its kind.
LEMMA FirstFits ==
    ASSUME NEW o \in Ops
    PROVE  /\ First(o) \in {"depGate", "dependency", "gate", "turnstile", "enumerate"}
           /\ Fits(o, First(o))
<1>1. Locking(o) \in {"gate", "turnstile"}
  BY DEF Locking
<1>2. Deciding(o) = "dependency" \/ (Deciding(o) = Locking(o) /\ o.kind # "decide")
  BY DEF Deciding, Required
<1>3. o.kind \in Kind
  BY DEF Ops
<1>4. CASE o.kind \in {"mutate", "delete", "decide"}
  <2>1. First(o) \in {"depGate", Deciding(o)} /\ (First(o) = "depGate" => o.dep # Nobody)
    BY <1>1, <1>2, <1>4 DEF First
  <2> QED
    BY <1>1, <1>2, <1>4, <2>1 DEF Fits, Keyed
<1>5. CASE o.kind = "load"
  <2>1. First(o) = "dependency"
    BY <1>5 DEF First
  <2> QED
    BY <1>5, <2>1 DEF Fits
<1>6. CASE o.kind \in {"edit", "commit"}
  <2>1. First(o) = Locking(o)
    BY <1>6 DEF First
  <2> QED
    BY <1>1, <1>6, <2>1 DEF Fits, Keyed
<1>7. CASE o.kind \in {"swap", "scan"}
  <2>1. First(o) = "turnstile" \/ (First(o) = "enumerate" /\ o.kind = "scan")
    BY <1>7 DEF First
  <2> QED
    BY <1>7, <2>1 DEF Fits
<1> QED
  BY <1>3, <1>4, <1>5, <1>6, <1>7 DEF Kind

\* A token in a context is that of a call in it.
LEMMA DepTokenType ==
    ASSUME NEW scope \in SUBSET Call
    PROVE  DepToken(scope) \in Call \cup {Nobody}
  BY DEF DepToken

LEMMA ContextsPlaced ==
    ASSUME IInv, NEW kind, NEW x \in Contexts(kind)
    PROVE  /\ x.scope \in SUBSET {o \in Call : pc[o] # "idle"}
           /\ x.awaiting \in SUBSET Call /\ x.dep \in Call \cup {Nobody}
           /\ kind = "commit" => x.scope = {}
<1>1. CASE x = Own
  BY <1>1 DEF Own
<1>2. ASSUME NEW via \in Call, Lends(via), NEW awaiting \in {{}, Callers(via)}, x = Context(via, awaiting)
      PROVE  /\ x.scope \in SUBSET {o \in Call : pc[o] # "idle"}
             /\ x.awaiting \in SUBSET Call /\ x.dep \in Call \cup {Nobody}
  <2> DEFINE scope == {o \in {via} \cup op[via].scope : pc[o] # "done"}
  <2>1. pc[via] # "idle" /\ op[via].scope \subseteq Call /\ op[via].awaiting \subseteq Call
    BY <1>2 DEF Lends, HasToken, IInv, TypeOK, Ops
  <2>2. scope \in SUBSET {o \in Call : pc[o] # "idle"}
    BY <2>1 DEF IInv, Placed
  <2>3. x = [scope |-> scope, awaiting |-> awaiting, dep |-> DepToken(scope)]
    BY <1>2 DEF Context
  <2> HIDE DEF scope
  <2>4. DepToken(scope) \in Call \cup {Nobody}
    BY <2>2, DepTokenType
  <2>5. awaiting \in SUBSET Call
    BY <2>1 DEF Callers
  <2> QED
    BY <2>2, <2>3, <2>4, <2>5
<1>3. x = Own \/ (kind # "commit" /\ \E via \in Call : Lends(via)
                                  /\ \E awaiting \in {{}, Callers(via)} : x = Context(via, awaiting))
  <2>1. x = Own \/ (kind # "commit" /\ x \in Lent(kind))
    BY DEF Contexts
  <2> QED
    BY <2>1, Zenon DEF Lent
<1> QED
  BY <1>1, <1>2, <1>3 DEF Own

LEMMA StartKeeps ==
    ASSUME IInv, NEW c \in Call, Start(c)
    PROVE  IInv'
<1> USE LocksAssumption
<1>1. PICK o \in Ops :
        /\ o.kind \in Planned[c]
        /\ o.kind # "mutate" => o.account = {}
        /\ o.kind = "commit" => o.scope = {}
        /\ \A p \in o.scope : pc[p] # "idle"
        /\ op' = [op EXCEPT ![c] = o]
        /\ Goto(c, First(o))
  <2>1. PICK kind \in Planned[c], auth \in Auth, incoming \in BOOLEAN :
          \E account \in IF kind = "mutate" THEN Accounts[auth] ELSE {{}}, x \in Contexts(kind) :
            /\ incoming => kind \in {"mutate", "delete"}
            /\ kind \notin Keyed => auth = AnyAuth
            /\ \A d \in Call \ x.awaiting : Underway(d) => op[d].awaiting \cap x.awaiting = {}
            /\ op' = [op EXCEPT ![c] = Request(kind, auth, account, incoming, x)]
            /\ Goto(c, First(Request(kind, auth, account, incoming, x)))
    BY Zenon DEF Start
  <2>2. PICK account \in IF kind = "mutate" THEN Accounts[auth] ELSE {{}}, x \in Contexts(kind) :
            /\ op' = [op EXCEPT ![c] = Request(kind, auth, account, incoming, x)]
            /\ Goto(c, First(Request(kind, auth, account, incoming, x)))
    BY <2>1, Zenon
  <2>3. /\ x.scope \in SUBSET {p \in Call : pc[p] # "idle"}
        /\ x.awaiting \in SUBSET Call /\ x.dep \in Call \cup {Nobody}
        /\ kind = "commit" => x.scope = {}
    BY ContextsPlaced
  <2>4. account \subseteq Key /\ kind \in Kind /\ store \in 0 .. MaxStore /\ (kind # "mutate" => account = {})
    BY DEF Key, IInv, TypeOK
  <2> DEFINE o == Request(kind, auth, account, incoming, x)
  <2>5. o \in Ops
    BY <2>3, <2>4 DEF Ops, Request
  <2>6. o.kind = kind /\ o.account = account /\ o.scope = x.scope
    BY DEF Request
  <2>7. op' = [op EXCEPT ![c] = o] /\ Goto(c, First(o))
    BY <2>2
  <2> HIDE DEF o
  <2> QED
    BY <2>3, <2>4, <2>5, <2>6, <2>7
<1>2. /\ pc[c] = "idle" /\ UNCHANGED <<locks, relevant, store>>
      /\ op'[c] = o /\ pc'[c] = First(o)
      /\ \A d \in Call \ {c} : op'[d] = op[d] /\ pc'[d] = pc[d]
  BY <1>1 DEF Start, Goto, IInv, TypeOK
<1>3. pc'[c] \in {"depGate", "dependency", "gate", "turnstile", "enumerate"} /\ Fits(o, pc'[c])
  BY <1>2, FirstFits
<1>4. /\ c \notin readers /\ turnstile # c /\ writer # c
      /\ \A d \in Call : gate[d] # c
      /\ gate[c] = Nobody /\ keys[c] = {}
  BY <1>2 DEF IInv, TypeOK, Slots, Barrier, HasToken
<1>6. \A d \in Call \ {c} : InGate(d)' = InGate(d) /\ Wanted(d)' = Wanted(d) /\ Email(d)' = Email(d)
  BY <1>2 DEF InGate, Wanted, Email, locks
<1>7. TypeOK'
  <2>1. op' \in [Call -> Ops] /\ pc' \in [Call -> {"idle", "depGate", "dependency", "gate", "turnstile",
              "barrier", "keys", "enumerate", "held", "closing", "done"}]
    BY <1>1, <1>2, <1>3 DEF IInv, TypeOK, Goto
  <2>2. readers' \subseteq {d \in Call : op'[d].kind \in Keyed}
    BY <1>2, <1>4 DEF IInv, TypeOK, locks
  <2> QED
    BY <1>2, <2>1, <2>2 DEF IInv, TypeOK, locks
<1>8. Placed'
  <2> SUFFICES ASSUME NEW d \in Call, pc'[d] # "idle"
               PROVE  /\ op'[d].kind \in Planned[d]
                      /\ Fits(op'[d], pc'[d])
                      /\ op'[d].kind # "mutate" => op'[d].account = {}
                      /\ op'[d].kind = "commit" => op'[d].scope = {}
                      /\ \A p \in op'[d].scope : pc'[p] # "idle"
    BY DEF Placed, Fits
  <2>1. \A p \in Call : pc[p] # "idle" => pc'[p] # "idle"
    BY <1>2, <1>3
  <2>2. op'[d].scope \subseteq Call
    BY <1>7 DEF TypeOK, Ops
  <2>3. CASE d = c
    BY <1>1, <1>2, <1>3, <2>1, <2>2, <2>3
  <2>4. CASE d # c
    BY <1>2, <2>1, <2>2, <2>4 DEF IInv, Placed
  <2> QED
    BY <2>3, <2>4
<1>9. Slots'
  <2> SUFFICES ASSUME NEW p \in Call, gate[p] # Nobody
               PROVE  /\ p \in op'[gate[p]].scope /\ pc'[gate[p]] = "held" /\ op'[gate[p]].kind \in Keyed
                      /\ HasToken(p)' /\ SameCredential(p, gate[p])'
    BY <1>2 DEF Slots, locks, HasToken, SameCredential, Email
  <2>1. p # c /\ gate[p] # c /\ gate[p] \in Call
    BY <1>4 DEF IInv, TypeOK
  <2> QED
    BY <1>2, <2>1 DEF IInv, Slots, HasToken, SameCredential, Email, locks
<1>10. Barrier'
  BY <1>2, <1>3, <1>4, <1>6 DEF IInv, Barrier, TypeOK, locks
<1>11. Semaphores'
  BY <1>2, <1>3, <1>4, <1>6 DEF IInv, Semaphores, locks
<1>12. Committed'
  BY <1>2, <1>3 DEF IInv, Committed
<1>13. Counted'
  BY <1>2, CountedKept DEF IInv, TypeOK
<1> QED
  BY <1>7, <1>8, <1>9, <1>10, <1>11, <1>12, <1>13 DEF IInv

-----------------------------------------------------------------------------
LEMMA InitIInv == Init => IInv
<1> SUFFICES ASSUME Init PROVE IInv
  OBVIOUS
<1> USE LocksAssumption DEF Init
<1>1. AnyAuth \in Auth
  BY DEF AnyAuth
<1>2. TypeOK
  BY <1>1 DEF TypeOK, Ops, Kind, Keyed
<1>3. Placed /\ Slots /\ Barrier /\ Committed
  BY DEF Placed, Slots, Barrier, Committed
<1>4. Semaphores
  BY DEF Semaphores
<1>5. Counted
  <2> DEFINE S == {c \in Swappers : op[c].kind = "swap" /\ pc[c] = "done"}
  <2>1. \A c \in Call : pc[c] # "done"
    OBVIOUS
  <2>2. store = 0
    OBVIOUS
  <2> HIDE DEF Init
  <2>3. S = {}
    BY <2>1 DEF Swappers
  <2> HIDE DEF S
  <2>4. Cardinality(S) = 0
    BY <2>3, FS_EmptySet
  <2>5. store <= Cardinality(S)
    BY <2>2, <2>4
  <2> QED
    BY <2>5 DEF Counted, S
<1> QED
  BY <1>2, <1>3, <1>4, <1>5 DEF IInv

LEMMA StutterKeeps == IInv /\ UNCHANGED vars => IInv'
  BY DEF IInv, vars, locks, TypeOK, Placed, Fits, Slots, SameCredential, Email, HasToken, Barrier, InGate,
         Semaphores, Wanted, Committed, Counted

LEMMA NextIInv == IInv /\ [Next]_vars => IInv'
<1> SUFFICES ASSUME IInv, [Next]_vars PROVE IInv'
  OBVIOUS
<1>1. ASSUME NEW c \in Call, Step(c) PROVE IInv'
  BY <1>1, EnterDepGateKeeps, TakeDependencyKeeps, EnterGateKeeps, TakeTurnstileKeeps,
     TakeReadKeeps, TakeWriteKeeps, TakeKeyKeeps, EnterKeeps, EnumerateKeeps, LeaveGateKeeps,
     UnlockKeeps, SwapKeeps, LoadKeeps, ScannedKeeps, DecidedKeeps, CloseKeeps DEF Step
<1> QED
  BY <1>1, StartKeeps, CancelKeeps, StutterKeeps DEF Next

LEMMA SpecIInv == Spec => []IInv
  BY InitIInv, NextIInv, PTL DEF Spec

-----------------------------------------------------------------------------
\* The calls that work on a credential hold the read side of the barrier and
\* all they want of the semaphores, or are inside the slot of one that holds
\* them for the credential and its email.
LEMMA WorkersHold ==
    ASSUME IInv, NEW c \in Call, Working(c)
    PROVE  \E o \in Call : /\ keys[o] = Wanted(o) /\ o \in readers /\ Serialized(c) \subseteq keys[o]
                           /\ o = c \/ gate[o] = c
<1>1. CASE ~InGate(c)
  BY <1>1 DEF IInv, Working, Barrier, Semaphores, Serialized
<1>2. CASE InGate(c)
  <2>1. PICK o \in Call : gate[o] = c /\ c # Nobody
    BY <1>2, LocksAssumption DEF IInv, TypeOK, Ops, InGate
  <2>2. HasToken(o) /\ SameCredential(o, c)
    BY <2>1 DEF IInv, Slots
  <2>3. o \in readers /\ keys[o] = Wanted(o)
    BY <2>2 DEF IInv, HasToken, Semaphores
  <2>4. Email(c) \subseteq Email(o)
    BY <2>2 DEF IInv, Placed, Working, SameCredential, Email
  <2>5. Serialized(c) \subseteq Wanted(o)
    BY <1>2, <2>2, <2>4 DEF Serialized, SameCredential, Email, Wanted
  <2> QED
    BY <2>1, <2>3, <2>5
<1> QED
  BY <1>1, <1>2

LEMMA IInvExclusion == IInv => Exclusion
<1> SUFFICES ASSUME IInv, NEW c \in Call, Working(c)
             PROVE  /\ writer = Nobody
                    /\ op[c].kind = "commit" => op[c].store = store
                    /\ \A d \in Call \ {c} : Working(d) =>
                          Serialized(c) \cap Serialized(d) = {} \/ gate[d] = c \/ gate[c] = d
  BY DEF Exclusion
<1>1. PICK o \in Call : /\ keys[o] = Wanted(o) /\ o \in readers /\ Serialized(c) \subseteq keys[o]
                        /\ o = c \/ gate[o] = c
  BY WorkersHold
<1>2. writer = Nobody
  BY <1>1 DEF IInv, TypeOK
<1>3. op[c].kind = "commit" => op[c].store = store
  BY DEF IInv, Committed, Working
<1>4. ASSUME NEW d \in Call \ {c}, Working(d), Serialized(c) \cap Serialized(d) # {}
      PROVE  gate[d] = c \/ gate[c] = d
  <2>1. PICK p \in Call : /\ keys[p] = Wanted(p) /\ Serialized(d) \subseteq keys[p]
                          /\ p = d \/ gate[p] = d
    BY <1>4, WorkersHold
  <2>2. keys[o] \cap keys[p] # {}
    BY <1>1, <1>4, <2>1
  <2>3. o = p
    BY <2>2 DEF IInv, Semaphores
  <2> QED
    BY <1>1, <1>4, <2>1, <2>3
<1> QED
  BY <1>2, <1>3, <1>4

\* The locks keep their types: keys are held under the read side of the
\* barrier only, and the writer has the turnstile and no reader beside it.
THEOREM MutationLocksTypes == Spec => []TypeOK
<1>1. IInv => TypeOK
  BY DEF IInv
<1> QED
  BY <1>1, SpecIInv, PTL

\* Two calls never work on one credential, on one email, or on an identity
\* that both have locked, but for a mutation and one call inside its slot; none works
\* beside a writer of the barrier, and a refresh is committed to the store
\* that is in place.
THEOREM MutationLocksExclude == Spec => []Exclusion
  BY IInvExclusion, SpecIInv, PTL
=============================================================================
