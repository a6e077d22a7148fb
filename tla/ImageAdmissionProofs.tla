------------------------ MODULE ImageAdmissionProofs ------------------------
(***************************************************************************)
(* Proofs about ImageAdmission for every finite set of clients and every    *)
(* set of limits the gate is configured with.                               *)
(***************************************************************************)
EXTENDS ImageAdmission, FiniteSetTheorems, TLAPS

\* A grant is only held for a client in the select or in cancelWaiter.
GrantState ==
    \A c \in Client : granted[c] => pc[c] \in {"waiting", "cancelling"}

IInv == TypeOK /\ GrantState /\ QueueIsWaiting /\ SlotAccounting /\ WorkConserving

Distinct(s) == \A i, j \in 1..Len(s) : s[i] = s[j] => i = j

-----------------------------------------------------------------------------
\* The entries of a range of a sequence without repetitions are as many as
\* the range is long.
LEMMA PrefixCardinality ==
    ASSUME NEW S, NEW s \in Seq(S), Distinct(s), NEW n \in 0..Len(s)
    PROVE  /\ IsFiniteSet({s[i] : i \in 1..n})
           /\ Cardinality({s[i] : i \in 1..n}) = n
<1> DEFINE W == {s[i] : i \in 1..n}
           f == [i \in 1..n |-> s[i]]
<1>1. IsFiniteSet(1..n) /\ Cardinality(1..n) = n
  BY FS_Interval
<1>2. f \in Bijection(1..n, W)
  <2>1. n \in Nat /\ Len(s) \in Nat /\ n <= Len(s)
    OBVIOUS
  <2>2. \A i, j \in 1..n : f[i] = f[j] => i = j
    BY <2>1 DEF Distinct
  <2>3. f \in [1..n -> W] /\ \A w \in W : \E i \in 1..n : f[i] = w
    OBVIOUS
  <2> HIDE DEF f, W
  <2> QED
    BY <2>2, <2>3 DEF Bijection, Injection, Surjection, IsInjective
<1>3. ExistsBijection(1..n, W)
  BY <1>2 DEF ExistsBijection
<1> HIDE DEF W
<1>4. IsFiniteSet(W) /\ Cardinality(W) = Cardinality(1..n)
  BY <1>1, <1>3, FS_Bijection
<1> QED
  BY <1>1, <1>4 DEF W

\* removeWaiter's splice keeps every other waiter, in order.
LEMMA SpliceKeepsOthers ==
    ASSUME NEW S, NEW s \in Seq(S), Distinct(s), NEW k \in 1..Len(s)
    PROVE  /\ RemoveAt(s, k) \in Seq(S)
           /\ Len(RemoveAt(s, k)) = Len(s) - 1
           /\ Distinct(RemoveAt(s, k))
           /\ ToSet(RemoveAt(s, k)) = ToSet(s) \ {s[k]}
<1> DEFINE front == SubSeq(s, 1, k-1)
           back == SubSeq(s, k+1, Len(s))
           r == RemoveAt(s, k)
           At(j) == IF j < k THEN j ELSE j + 1
<1>1. front \in Seq(S) /\ Len(front) = k-1 /\ \A j \in 1..(k-1) : front[j] = s[j]
  OBVIOUS
<1>2. back \in Seq(S) /\ Len(back) = Len(s)-k
      /\ \A j \in 1..(Len(s)-k) : back[j] = s[k+j]
  OBVIOUS
<1>3. r = front \o back
  BY DEF RemoveAt
<1>4. r \in Seq(S) /\ Len(r) = Len(s) - 1
  <2> HIDE DEF front, back
  <2> QED
    BY <1>1, <1>2, <1>3
<1>5. ASSUME NEW j \in 1..(Len(s) - 1)
      PROVE  r[j] = s[At(j)]
  <2> HIDE DEF front, back
  <2>1. CASE j < k
    BY <1>1, <1>2, <1>3, <2>1
  <2>2. CASE ~(j < k)
    <3>1. (front \o back)[j] = back[j - (k-1)]
      BY <1>1, <1>2, <2>2
    <3>2. j - (k-1) \in 1..(Len(s)-k) /\ k + (j - (k-1)) = j + 1
      BY <2>2
    <3> QED
      BY <1>2, <1>3, <2>2, <3>1, <3>2
  <2> QED
    BY <2>1, <2>2
<1> HIDE DEF r
<1>6. \A j \in 1..(Len(s) - 1) : At(j) \in 1..Len(s) /\ At(j) # k
  OBVIOUS
<1>7. \A j \in 1..Len(s) : j # k => \E m \in 1..(Len(s) - 1) : At(m) = j
  <2> SUFFICES ASSUME NEW j \in 1..Len(s), j # k
               PROVE  \E m \in 1..(Len(s) - 1) : At(m) = j
    OBVIOUS
  <2>1. CASE j < k
    <3> WITNESS j \in 1..(Len(s) - 1)
    <3> QED BY <2>1
  <2>2. CASE j > k
    <3>1. j - 1 \in 1..(Len(s) - 1) /\ At(j - 1) = j
      BY <2>2
    <3> QED BY <3>1
  <2> QED
    BY <2>1, <2>2
<1>8. Distinct(r)
  <2> SUFFICES ASSUME NEW i \in 1..Len(r), NEW j \in 1..Len(r), r[i] = r[j]
               PROVE  i = j
    BY DEF Distinct
  <2>1. s[At(i)] = s[At(j)] /\ At(i) \in 1..Len(s) /\ At(j) \in 1..Len(s)
    BY <1>4, <1>5, <1>6
  <2>2. At(i) = At(j)
    <3> HIDE DEF At
    <3> QED BY <2>1 DEF Distinct
  <2> QED
    BY <1>4, <2>2
<1>9. ToSet(r) = ToSet(s) \ {s[k]}
  <2>1. ToSet(r) = {r[j] : j \in 1..Len(r)} /\ ToSet(s) = {s[j] : j \in 1..Len(s)}
    BY <1>4 DEF ToSet
  <2>2. ASSUME NEW j \in 1..Len(r) PROVE r[j] \in ToSet(s) \ {s[k]}
    <3> HIDE DEF At
    <3> QED
      BY <1>4, <1>5, <1>6, <2>1 DEF Distinct
  <2>3. ASSUME NEW j \in 1..Len(s), s[j] # s[k] PROVE s[j] \in ToSet(r)
    <3>1. PICK m \in 1..(Len(s) - 1) : At(m) = j
      BY <1>7, <2>3
    <3>2. r[m] = s[j]
      <4> HIDE DEF At
      <4> QED BY <1>5, <3>1
    <3> QED
      BY <1>4, <2>1, <3>2
  <2> QED
    BY <2>1, <2>2, <2>3
<1> QED
  BY <1>4, <1>8, <1>9 DEF r

-----------------------------------------------------------------------------
\* The waiters W get the slots that since leaves free below lim; those who
\* stay in the queue were behind them.
LetIn(W, lim, since, ready) ==
    /\ activeSince' = since \union W
    /\ activeSince' \in SUBSET Client
    /\ active' \in Nat
    /\ active' = Cardinality(activeSince')
    /\ waiters' \in Seq(Client)
    /\ Distinct(waiters')
    /\ Len(waiters') <= Len(waiters)
    /\ ToSet(waiters') = ToSet(waiters) \ W
    /\ waiters' # <<>> => active' >= lim
    /\ W # {} => active' <= lim
    /\ granted' = [c \in Client |-> ready[c] \/ c \in W]
    /\ \A i \in 1..Len(waiters) : \A c \in W :
          waiters[i] \in ToSet(waiters') =>
              \E j \in 1..i : waiters[j] = c

\* What grantLocked does to the gate: the waiters it lets in are counted, are
\* as many as fit, and leave nobody behind who was ahead of them.
LEMMA GrantLockedEffect ==
    ASSUME waiters \in Seq(Client), Distinct(waiters),
           NEW lim \in Nat, NEW act \in Nat, NEW since \in SUBSET Client,
           act = Cardinality(since), since \cap ToSet(waiters) = {},
           NEW ready \in [Client -> BOOLEAN],
           GrantLocked(lim, act, since, ready)
    PROVE  \E W \in SUBSET ToSet(waiters) : LetIn(W, lim, since, ready)
<1>0. \A k \in 0..Len(waiters) : /\ IsFiniteSet({waiters[i] : i \in 1..k})
                                 /\ Cardinality({waiters[i] : i \in 1..k}) = k
  BY PrefixCardinality
<1> DEFINE n == Grants(lim, act)
           W == {waiters[i] : i \in 1..n}
<1>1. /\ waiters' = SubSeq(waiters, n + 1, Len(waiters))
      /\ active' = act + n
      /\ activeSince' = since \union W
      /\ granted' = [c \in Client |-> ready[c] \/ c \in W]
  BY DEF GrantLocked
<1>2. /\ n \in 0..Len(waiters)
      /\ n > 0 => act + n <= lim
      /\ n < Len(waiters) => act + n >= lim
  BY DEF Grants
<1> HIDE DEF n
<1>3. IsFiniteSet(W) /\ Cardinality(W) = n
  <2>1. n \in 0..Len(waiters)
    BY <1>2
  <2> QED
    BY <1>0, <2>1
<1>4. ToSet(waiters) = {waiters[i] : i \in 1..Len(waiters)}
  BY DEF ToSet
<1>5. W \subseteq ToSet(waiters) /\ ToSet(waiters) \subseteq Client
  BY <1>2, <1>4
<1>6. IsFiniteSet(since)
  BY ClientAssumption, FS_Subset
<1> HIDE DEF W
<1>7. Cardinality(since \union W) = act + n
  <2>1. since \cap W = {}
    BY <1>5
  <2>2. Cardinality(since \union W) = Cardinality(since) + Cardinality(W)
                                      - Cardinality(since \cap W)
    BY <1>3, <1>6, FS_Union
  <2> QED
    <3>1. Cardinality(since \cap W) = 0
      BY <2>1, FS_EmptySet
    <3>2. n \in Int
      BY <1>2
    <3>3. Cardinality(since \union W) = act + n - 0
      BY <1>3, <2>2, <3>1
    <3> QED
      BY <3>2, <3>3
<1>8. /\ waiters' \in Seq(Client)
      /\ Len(waiters') = Len(waiters) - n
      /\ \A i \in 1..(Len(waiters) - n) : waiters'[i] = waiters[n + i]
  <2>1. n \in Nat /\ Len(waiters) \in Nat /\ n <= Len(waiters)
    BY <1>2
  <2>2. \A i \in (n + 1)..Len(waiters) : waiters[i] \in Client
    BY <2>1
  <2> DEFINE q == SubSeq(waiters, n + 1, Len(waiters))
  <2>3. q \in Seq(Client) /\ Len(q) = Len(waiters) - n
    BY <2>1, <2>2
  <2>4. \A i \in 1..(Len(waiters) - n) : q[i] = waiters[n + i]
    BY <2>1
  <2> QED
    BY <1>1, <2>3, <2>4
<1>9. Distinct(waiters')
  <2> SUFFICES ASSUME NEW i \in 1..Len(waiters'), NEW j \in 1..Len(waiters'),
                      waiters'[i] = waiters'[j]
               PROVE  i = j
    BY DEF Distinct
  <2>1. n + i \in 1..Len(waiters) /\ n + j \in 1..Len(waiters)
    BY <1>2, <1>8
  <2>2. waiters[n + i] = waiters[n + j]
    BY <1>8
  <2>3. n + i = n + j
    BY <2>1, <2>2 DEF Distinct
  <2>4. i \in Int /\ j \in Int /\ n \in Int
    BY <1>2, <1>8
  <2> QED
    BY <2>3, <2>4
<1>10. ToSet(waiters') = {waiters'[i] : i \in 1..Len(waiters')}
  BY <1>8 DEF ToSet
<1>11. \A i \in 1..Len(waiters) : waiters[i] \in ToSet(waiters') <=> i > n
  <2> TAKE i \in 1..Len(waiters)
  <2>1. ASSUME i > n PROVE waiters[i] \in ToSet(waiters')
    <3>1. i - n \in 1..(Len(waiters) - n) /\ n + (i - n) = i
      BY <1>2, <2>1
    <3>2. waiters'[i - n] = waiters[i]
      BY <1>8, <3>1
    <3> QED
      BY <1>8, <1>10, <3>1, <3>2
  <2>2. ASSUME waiters[i] \in ToSet(waiters') PROVE i > n
    <3>1. PICK k \in 1..(Len(waiters) - n) : waiters[n + k] = waiters[i]
      BY <1>8, <1>10, <2>2
    <3>2. n + k \in 1..Len(waiters)
      BY <1>2
    <3>3. n + k = i
      BY <3>1, <3>2 DEF Distinct
    <3> QED
      BY <1>2, <3>3
  <2> QED
    BY <2>1, <2>2
<1>12. \A w \in W : \E j \in 1..n : waiters[j] = w
  BY DEF W
<1>13. \A i \in 1..n : waiters[i] \in W
  BY DEF W
<1>14. ToSet(waiters') = ToSet(waiters) \ W
  <2>1. ToSet(waiters') \subseteq ToSet(waiters)
    BY <1>2, <1>4, <1>8, <1>10
  <2>2. ASSUME NEW i \in 1..Len(waiters)
        PROVE  waiters[i] \in W <=> ~(i > n)
    <3>1. ASSUME waiters[i] \in W PROVE ~(i > n)
      <4>1. PICK j \in 1..n : waiters[j] = waiters[i]
        BY <1>12, <3>1
      <4>2. j \in 1..Len(waiters)
        BY <1>2
      <4>3. j = i
        BY <4>1, <4>2 DEF Distinct
      <4> QED
        BY <1>2, <4>3
    <3>2. ASSUME ~(i > n) PROVE waiters[i] \in W
      <4>1. i \in 1..n
        BY <1>2, <3>2
      <4> QED
        BY <1>13, <4>1
    <3> QED
      BY <3>1, <3>2
  <2> QED
    BY <1>4, <1>11, <2>1, <2>2
<1>15. waiters' # <<>> => active' >= lim
  BY <1>1, <1>2, <1>8
<1>16. W # {} => active' <= lim
  <2>1. n = 0 => W = {}
    BY DEF W
  <2> QED
    BY <1>1, <1>2, <2>1
<1>17. \A i \in 1..Len(waiters) : \A c \in W :
          waiters[i] \in ToSet(waiters') => \E j \in 1..i : waiters[j] = c
  <2> SUFFICES ASSUME NEW i \in 1..Len(waiters), NEW c \in W,
                      waiters[i] \in ToSet(waiters')
               PROVE  \E j \in 1..i : waiters[j] = c
    OBVIOUS
  <2>1. PICK j \in 1..n : waiters[j] = c
    BY <1>12
  <2>2. i > n
    BY <1>11
  <2>3. j \in 1..i
    BY <1>2, <2>2
  <2> QED
    BY <2>1, <2>3
<1>18. Len(waiters') <= Len(waiters)
  BY <1>2, <1>8
<1>19. activeSince' \in SUBSET Client /\ active' \in Nat
  BY <1>1, <1>2, <1>5
<1>20. active' = Cardinality(activeSince')
  BY <1>1, <1>7
<1> QED
  BY <1>1, <1>5, <1>8, <1>9, <1>14, <1>15, <1>16, <1>17, <1>18, <1>19, <1>20 DEF LetIn

-----------------------------------------------------------------------------
\* Every step keeps the type of every variable.  GrantLocked is the only
\* operator whose result needs the counting above.
LEMMA TypeStep == IInv /\ [Next]_vars => TypeOK'
<1> SUFFICES ASSUME IInv, [Next]_vars PROVE TypeOK'
  OBVIOUS
<1> USE DEF TypeOK, Stage, Wait, Return
<1>1. TypeOK /\ Distinct(waiters) /\ activeSince = Owners /\ ToSet(waiters) = Queueing
  BY DEF IInv, QueueIsWaiting, SlotAccounting, Distinct
<1>2. ASSUME NEW c \in Client, NEW w \in Wait, Begin(c, w) PROVE TypeOK'
  BY <1>1, <1>2 DEF Begin, gate
<1>3. ASSUME NEW c \in Client, CancelContext(c) PROVE TypeOK'
  BY <1>1, <1>3 DEF CancelContext, gate
<1>4. ASSUME NEW c \in Client, Admit(c) PROVE TypeOK'
  BY <1>1, <1>4 DEF Admit, EffectiveLimit, ClampLimit
<1>5. ASSUME NEW c \in Client, Reject(c) PROVE TypeOK'
  BY <1>1, <1>5 DEF Reject, EffectiveLimit, ClampLimit
<1>6. ASSUME NEW c \in Client, Enqueue(c) PROVE TypeOK'
  BY <1>1, <1>6 DEF Enqueue, EffectiveLimit, ClampLimit
<1>7. ASSUME NEW c \in Client, ReceiveReady(c) PROVE TypeOK'
  BY <1>1, <1>7 DEF ReceiveReady, gate
<1>8. ASSUME NEW c \in Client, GiveUp(c) PROVE TypeOK'
  BY <1>1, <1>8 DEF GiveUp, gate
<1>9. ASSUME NEW c \in Client, CancelQueued(c) PROVE TypeOK'
  <2>1. PICK i \in 1..Len(waiters) : waiters' = RemoveAt(waiters, i)
    BY <1>9 DEF CancelQueued
  <2>2. waiters' \in Seq(Client)
    BY <1>1, <2>1, SpliceKeepsOthers
  <2> QED
    BY <1>1, <1>9, <2>2 DEF CancelQueued
<1>10. ASSUME NEW lim \in Nat, NEW act \in Nat, NEW since \in SUBSET Client,
              NEW ready \in [Client -> BOOLEAN], GrantLocked(lim, act, since, ready)
       PROVE  /\ waiters' \in Seq(Client) /\ active' \in Nat
              /\ activeSince' \in SUBSET Client /\ granted' \in [Client -> BOOLEAN]
  <2> DEFINE n == Grants(lim, act)
  <2>1. n \in 0..Len(waiters)
    BY <1>1 DEF Grants
  <2>2. {waiters[i] : i \in 1..n} \subseteq Client
    <3> HIDE DEF n
    <3> QED BY <1>1, <2>1
  <2>3. SubSeq(waiters, n + 1, Len(waiters)) \in Seq(Client)
    <3>1. \A i \in (n + 1)..Len(waiters) : waiters[i] \in Client
      <4> HIDE DEF n
      <4> QED BY <1>1, <2>1
    <3> HIDE DEF n
    <3> QED BY <2>1, <3>1
  <2> QED
    BY <1>10, <2>1, <2>2, <2>3 DEF GrantLocked
<1>11. ASSUME NEW c \in Client, CancelGranted(c) PROVE TypeOK'
  <2>1. Deactivated(c) \in Nat
    BY <1>1 DEF Deactivated
  <2>2. [granted EXCEPT ![c] = FALSE] \in [Client -> BOOLEAN]
    BY <1>1
  <2>3. GrantLocked(limit, Deactivated(c), activeSince \ {c}, [granted EXCEPT ![c] = FALSE])
    BY <1>11 DEF CancelGranted
  <2>4. /\ waiters' \in Seq(Client) /\ active' \in Nat
        /\ activeSince' \in SUBSET Client /\ granted' \in [Client -> BOOLEAN]
    BY <1>1, <1>10, <2>1, <2>2, <2>3
  <2> QED
    BY <1>1, <1>11, <2>4 DEF CancelGranted
<1>12. ASSUME NEW c \in Client, Release(c) PROVE TypeOK'
  <2>1. Deactivated(c) \in Nat
    BY <1>1 DEF Deactivated
  <2>2. GrantLocked(limit, Deactivated(c), activeSince \ {c}, granted)
    BY <1>12 DEF Release
  <2>3. /\ waiters' \in Seq(Client) /\ active' \in Nat
        /\ activeSince' \in SUBSET Client /\ granted' \in [Client -> BOOLEAN]
    BY <1>1, <1>10, <2>1, <2>2
  <2> QED
    BY <1>1, <1>12, <2>3 DEF Release
<1>13. ASSUME NEW l \in LimitSetting, NEW q \in QueueSetting, Configure(l, q)
       PROVE  TypeOK'
  <2>1. ClampLimit(l) \in Nat /\ ClampQueue(q) \in Nat
    BY SettingAssumption DEF ClampLimit, ClampQueue
  <2>2. GrantLocked(ClampLimit(l), active, activeSince, granted)
    BY <1>13 DEF Configure
  <2>3. /\ waiters' \in Seq(Client) /\ active' \in Nat
        /\ activeSince' \in SUBSET Client /\ granted' \in [Client -> BOOLEAN]
    BY <1>1, <1>10, <2>1, <2>2
  <2> QED
    BY <1>1, <1>13, <2>1, <2>3 DEF Configure
<1>14. CASE UNCHANGED vars
  BY <1>1, <1>14 DEF vars
<1> QED
  BY <1>2, <1>3, <1>4, <1>5, <1>6, <1>7, <1>8, <1>9, <1>11, <1>12, <1>13, <1>14
  DEF Next, Step

-----------------------------------------------------------------------------
\* The structural part of the invariant survives any critical section that
\* ends in grantLocked, when before the call the slot owners and the queue are
\* what the section says they are.
LEMMA GrantStep ==
    ASSUME IInv, TypeOK',
           NEW lim \in Nat, NEW act \in Nat, NEW since \in SUBSET Client,
           NEW ready \in [Client -> BOOLEAN],
           GrantLocked(lim, act, since, ready), limit' = lim,
           act = Cardinality(since),
           since = {c \in Client : pc'[c] = "holding" \/ ready[c]},
           ToSet(waiters) = {c \in Client : pc'[c] \in {"waiting", "cancelling"} /\ ~ready[c]},
           \A c \in Client : ready[c] => pc'[c] \in {"waiting", "cancelling"},
           lim >= 1 \/ waiters = <<>>
    PROVE  GrantState' /\ QueueIsWaiting' /\ SlotAccounting' /\ WorkConserving'
<1>1. waiters \in Seq(Client) /\ Distinct(waiters)
  BY DEF IInv, TypeOK, QueueIsWaiting, Distinct
<1>2. since \cap ToSet(waiters) = {}
  OBVIOUS
<1>3. PICK W \in SUBSET ToSet(waiters) : LetIn(W, lim, since, ready)
  BY <1>1, <1>2, GrantLockedEffect
<1>4. \A c \in Client : granted'[c] <=> ready[c] \/ c \in W
  BY <1>3 DEF LetIn
<1>5. W \subseteq {c \in Client : pc'[c] \in {"waiting", "cancelling"} /\ ~ready[c]}
  OBVIOUS
<1>6. GrantState'
  BY <1>4, <1>5 DEF GrantState
<1>7. QueueIsWaiting'
  <2>1. Queueing' = {c \in Client : pc'[c] \in {"waiting", "cancelling"} /\ ~granted'[c]}
    BY DEF Queueing
  <2>2. ToSet(waiters') = Queueing'
    BY <1>3, <1>4, <2>1 DEF LetIn
  <2> QED
    BY <1>3, <2>2 DEF QueueIsWaiting, Distinct, LetIn
<1>8. SlotAccounting'
  <2>1. Owners' = {c \in Client : pc'[c] = "holding" \/ granted'[c]}
    BY DEF Owners
  <2>2. activeSince' = Owners'
    BY <1>3, <1>4, <2>1 DEF LetIn
  <2> QED
    BY <1>3, <2>2 DEF SlotAccounting, LetIn
<1>9. WorkConserving'
  <2>1. waiters' # <<>> => waiters # <<>>
    BY <1>1, <1>3 DEF TypeOK, LetIn
  <2> QED
    BY <1>3, <2>1 DEF WorkConserving, LetIn
<1> QED
  BY <1>6, <1>7, <1>8, <1>9

\* Retiring an owner's slot takes exactly that slot out of the count.
LEMMA DeactivatedCount ==
    ASSUME IInv, NEW c \in Client, c \in activeSince
    PROVE  /\ Deactivated(c) \in Nat
           /\ Deactivated(c) = Cardinality(activeSince \ {c})
<1>1. IsFiniteSet(activeSince) /\ activeSince \subseteq Client
  BY ClientAssumption, FS_Subset DEF IInv, TypeOK
<1>2. Cardinality(activeSince \ {c}) = Cardinality(activeSince) - 1
  BY <1>1, FS_RemoveElement
<1>3. active = Cardinality(activeSince) /\ active \in Nat
  BY DEF IInv, SlotAccounting, TypeOK
<1>4. active > 0
  <2>1. Cardinality(activeSince) # 0
    BY <1>1, FS_EmptySet
  <2> QED
    BY <1>3, <2>1
<1> QED
  BY <1>2, <1>3, <1>4 DEF Deactivated

-----------------------------------------------------------------------------
\* Steps that touch neither the slots nor the queue.
LEMMA QuietStep ==
    ASSUME IInv, TypeOK', NEW c \in Client,
           \/ \E w \in Wait : Begin(c, w)
           \/ CancelContext(c) \/ Reject(c) \/ ReceiveReady(c) \/ GiveUp(c)
    PROVE  IInv'
<1> DEFINE Ins(x) == x = "holding"
           Que(x) == x \in {"waiting", "cancelling"}
<1>1. TypeOK
  BY DEF IInv
<1>2. UNCHANGED <<active, activeSince, waiters>>
  BY DEF Begin, CancelContext, Reject, ReceiveReady, GiveUp, gate
<1>3. \A d \in Client :
         /\ pc'[d] = "holding" \/ granted'[d] <=> pc[d] = "holding" \/ granted[d]
         /\ pc'[d] \in {"waiting", "cancelling"} /\ ~granted'[d]
              <=> pc[d] \in {"waiting", "cancelling"} /\ ~granted[d]
         /\ granted'[d] => pc'[d] \in {"waiting", "cancelling"}
  <2>1. \A d \in Client : granted[d] => pc[d] \in {"waiting", "cancelling"}
    BY DEF IInv, GrantState
  <2>2. CASE \E w \in Wait : Begin(c, w)
    BY <1>1, <2>1, <2>2 DEF Begin, TypeOK
  <2>3. CASE CancelContext(c)
    BY <1>1, <2>1, <2>3 DEF CancelContext, TypeOK
  <2>4. CASE Reject(c)
    BY <1>1, <2>1, <2>4 DEF Reject, Return, TypeOK
  <2>5. CASE ReceiveReady(c)
    BY <1>1, <2>1, <2>5 DEF ReceiveReady, TypeOK
  <2>6. CASE GiveUp(c)
    BY <1>1, <2>1, <2>6 DEF GiveUp, TypeOK
  <2> QED
    BY <2>2, <2>3, <2>4, <2>5, <2>6
<1>4. GrantState'
  BY <1>3 DEF GrantState
<1>5. Owners' = Owners /\ Queueing' = Queueing
  BY <1>3 DEF Owners, Queueing
<1>6. SlotAccounting' /\ QueueIsWaiting'
  BY <1>2, <1>5 DEF IInv, SlotAccounting, QueueIsWaiting
<1>7. WorkConserving'
  <2>1. limit' = limit \/ limit' = EffectiveLimit
    BY DEF Begin, CancelContext, Reject, ReceiveReady, GiveUp, gate
  <2> QED
    BY <1>1, <1>2, <2>1 DEF IInv, WorkConserving, EffectiveLimit, ClampLimit, TypeOK
<1> QED
  BY <1>4, <1>6, <1>7 DEF IInv

\* A client gets in past an empty queue.
LEMMA AdmitStep ==
    ASSUME IInv, TypeOK', NEW c \in Client, Admit(c) PROVE IInv'
<1>1. TypeOK /\ activeSince = Owners /\ active = Cardinality(activeSince)
  BY DEF IInv, SlotAccounting
<1>2. ~granted[c] /\ c \notin activeSince /\ waiters = <<>> /\ waiters' = <<>>
  BY <1>1 DEF IInv, GrantState, Admit, RoomAtOnce, Owners
<1>3. /\ activeSince' = activeSince \union {c} /\ active' = active + 1
      /\ pc' = [pc EXCEPT ![c] = "holding"] /\ UNCHANGED granted
  BY DEF Admit
<1>4. Owners' = Owners \union {c} /\ Queueing' = Queueing
  BY <1>1, <1>3 DEF Owners, Queueing, TypeOK, Admit
<1>5. IsFiniteSet(activeSince)
  BY <1>1, ClientAssumption, FS_Subset DEF TypeOK
<1>6. Cardinality(activeSince \union {c}) = Cardinality(activeSince) + 1
  BY <1>2, <1>5, FS_AddElement
<1>7. SlotAccounting'
  BY <1>1, <1>3, <1>4, <1>6 DEF SlotAccounting
<1>8. GrantState'
  BY <1>1, <1>2, <1>3 DEF IInv, GrantState, TypeOK
<1>9. QueueIsWaiting'
  BY <1>2, <1>4 DEF IInv, QueueIsWaiting
<1>10. WorkConserving'
  BY <1>2 DEF WorkConserving
<1> QED
  BY <1>7, <1>8, <1>9, <1>10 DEF IInv

\* A client that is not in the queue yet goes to its end.
LEMMA EnqueueStep ==
    ASSUME IInv, TypeOK', NEW c \in Client, Enqueue(c) PROVE IInv'
<1>1. TypeOK /\ waiters \in Seq(Client) /\ ToSet(waiters) = Queueing /\ Distinct(waiters)
  BY DEF IInv, TypeOK, QueueIsWaiting, Distinct
<1>2. ~granted[c] /\ c \notin ToSet(waiters)
  BY <1>1 DEF IInv, GrantState, Enqueue, Queueing
<1>3. /\ waiters' = Append(waiters, c) /\ UNCHANGED <<active, activeSince, granted>>
      /\ pc' = [pc EXCEPT ![c] = "waiting"] /\ limit' = EffectiveLimit
  BY DEF Enqueue
<1>4. Owners' = Owners /\ Queueing' = Queueing \union {c}
  BY <1>1, <1>2, <1>3 DEF Owners, Queueing, TypeOK, Enqueue
<1>5. /\ Len(Append(waiters, c)) = Len(waiters) + 1
      /\ \A i \in 1..Len(waiters) : Append(waiters, c)[i] = waiters[i]
      /\ Append(waiters, c)[Len(waiters) + 1] = c
      /\ Len(waiters) \in Nat
  BY <1>1
<1>6. \A i \in 1..Len(waiters) : waiters[i] \in ToSet(waiters)
  BY DEF ToSet
<1>7. Distinct(Append(waiters, c))
  BY <1>1, <1>2, <1>5, <1>6 DEF Distinct
<1>8. ToSet(Append(waiters, c)) = ToSet(waiters) \union {c}
  <2>1. ToSet(Append(waiters, c)) = {Append(waiters, c)[i] : i \in 1..(Len(waiters) + 1)}
    BY <1>1, <1>5 DEF ToSet
  <2>2. ToSet(waiters) = {waiters[i] : i \in 1..Len(waiters)}
    BY DEF ToSet
  <2> QED
    BY <1>5, <2>1, <2>2
<1>9. QueueIsWaiting'
  BY <1>1, <1>3, <1>4, <1>7, <1>8 DEF QueueIsWaiting, Distinct
<1>10. SlotAccounting'
  BY <1>3, <1>4 DEF IInv, SlotAccounting
<1>11. GrantState'
  BY <1>1, <1>2, <1>3 DEF IInv, GrantState, TypeOK
<1>12. WorkConserving'
  <2>1. active >= EffectiveLimit \/ waiters # <<>>
    BY <1>1 DEF Enqueue, RoomAtOnce, TypeOK, EffectiveLimit, ClampLimit
  <2> QED
    BY <1>1, <1>3, <2>1 DEF IInv, WorkConserving, EffectiveLimit, ClampLimit, TypeOK
<1> QED
  BY <1>9, <1>10, <1>11, <1>12 DEF IInv

\* A waiter that gives up before it was granted a slot leaves the queue.
LEMMA CancelQueuedStep ==
    ASSUME IInv, TypeOK', NEW c \in Client, CancelQueued(c) PROVE IInv'
<1>1. TypeOK /\ waiters \in Seq(Client) /\ ToSet(waiters) = Queueing /\ Distinct(waiters)
  BY DEF IInv, TypeOK, QueueIsWaiting, Distinct
<1>2. PICK k \in 1..Len(waiters) : waiters[k] = c /\ waiters' = RemoveAt(waiters, k)
  BY DEF CancelQueued
<1>3. /\ Distinct(waiters')
      /\ ToSet(waiters') = ToSet(waiters) \ {c}
  BY <1>1, <1>2, SpliceKeepsOthers
<1>4. /\ UNCHANGED <<limit, active, activeSince, granted>> /\ ~granted[c]
      /\ pc' = [pc EXCEPT ![c] = "idle"] /\ pc[c] = "cancelling"
  BY DEF CancelQueued, Return
<1>5. Owners' = Owners /\ Queueing' = Queueing \ {c}
  BY <1>1, <1>4 DEF Owners, Queueing, TypeOK
<1>6. QueueIsWaiting' /\ SlotAccounting'
  BY <1>1, <1>3, <1>4, <1>5 DEF IInv, QueueIsWaiting, SlotAccounting, Distinct
<1>7. GrantState'
  BY <1>1, <1>4 DEF IInv, GrantState, TypeOK
<1>8. WorkConserving'
  <2>1. waiters # <<>>
    BY <1>1, <1>2
  <2> QED
    BY <1>4, <2>1 DEF IInv, WorkConserving
<1> QED
  BY <1>6, <1>7, <1>8 DEF IInv

\* The three critical sections that end in grantLocked.
LEMMA ConfigureStep ==
    ASSUME IInv, TypeOK', NEW l \in LimitSetting, NEW q \in QueueSetting, Configure(l, q)
    PROVE  IInv'
<1>1. TypeOK /\ ToSet(waiters) = Queueing /\ activeSince = Owners
      /\ active = Cardinality(activeSince)
  BY DEF IInv, QueueIsWaiting, SlotAccounting
<1>2. ClampLimit(l) \in Nat /\ ClampLimit(l) >= 1
  BY SettingAssumption DEF ClampLimit
<1>3. /\ limit' = ClampLimit(l) /\ UNCHANGED pc
      /\ GrantLocked(ClampLimit(l), active, activeSince, granted)
  BY DEF Configure
<1>4. /\ activeSince = {c \in Client : pc'[c] = "holding" \/ granted[c]}
      /\ ToSet(waiters) = {c \in Client : pc'[c] \in {"waiting", "cancelling"} /\ ~granted[c]}
      /\ \A c \in Client : granted[c] => pc'[c] \in {"waiting", "cancelling"}
  BY <1>1, <1>3 DEF Owners, Queueing, IInv, GrantState
<1>5. active \in Nat /\ activeSince \in SUBSET Client /\ granted \in [Client -> BOOLEAN]
  BY <1>1 DEF TypeOK
<1>6. GrantState' /\ QueueIsWaiting' /\ SlotAccounting' /\ WorkConserving'
  BY <1>1, <1>2, <1>3, <1>4, <1>5, GrantStep
<1> QED
  BY <1>6 DEF IInv

LEMMA ReleaseStep ==
    ASSUME IInv, TypeOK', NEW c \in Client, Release(c) PROVE IInv'
<1>1. TypeOK /\ ToSet(waiters) = Queueing /\ activeSince = Owners
  BY DEF IInv, QueueIsWaiting, SlotAccounting
<1>2. /\ pc[c] = "holding" /\ pc' = [pc EXCEPT ![c] = "idle"] /\ limit' = limit
      /\ GrantLocked(limit, Deactivated(c), activeSince \ {c}, granted)
  BY DEF Release, Return
<1>3. c \in activeSince /\ ~granted[c]
  BY <1>1, <1>2 DEF Owners, IInv, GrantState
<1>4. Deactivated(c) \in Nat /\ Deactivated(c) = Cardinality(activeSince \ {c})
  BY <1>3, DeactivatedCount
<1>5. /\ activeSince \ {c} = {d \in Client : pc'[d] = "holding" \/ granted[d]}
      /\ ToSet(waiters) = {d \in Client : pc'[d] \in {"waiting", "cancelling"} /\ ~granted[d]}
      /\ \A d \in Client : granted[d] => pc'[d] \in {"waiting", "cancelling"}
  BY <1>1, <1>2, <1>3 DEF Owners, Queueing, IInv, GrantState, TypeOK
<1>6. /\ limit \in Nat /\ granted \in [Client -> BOOLEAN]
      /\ activeSince \ {c} \in SUBSET Client
      /\ limit >= 1 \/ waiters = <<>>
  BY <1>1 DEF TypeOK, IInv, WorkConserving
<1>7. GrantState' /\ QueueIsWaiting' /\ SlotAccounting' /\ WorkConserving'
  BY <1>2, <1>4, <1>5, <1>6, GrantStep
<1> QED
  BY <1>7 DEF IInv

LEMMA CancelGrantedStep ==
    ASSUME IInv, TypeOK', NEW c \in Client, CancelGranted(c) PROVE IInv'
<1> DEFINE ready == [granted EXCEPT ![c] = FALSE]
<1>1. TypeOK /\ ToSet(waiters) = Queueing /\ activeSince = Owners
  BY DEF IInv, QueueIsWaiting, SlotAccounting
<1>2. /\ pc[c] = "cancelling" /\ granted[c]
      /\ pc' = [pc EXCEPT ![c] = "idle"] /\ limit' = limit
      /\ GrantLocked(limit, Deactivated(c), activeSince \ {c}, ready)
  BY DEF CancelGranted, Return
<1>3. c \in activeSince
  BY <1>1, <1>2 DEF Owners
<1>4. Deactivated(c) \in Nat /\ Deactivated(c) = Cardinality(activeSince \ {c})
  BY <1>3, DeactivatedCount
<1>5. ready \in [Client -> BOOLEAN] /\ \A d \in Client : ready[d] <=> granted[d] /\ d # c
  BY <1>1 DEF TypeOK
<1> HIDE DEF ready
<1>6. /\ activeSince \ {c} = {d \in Client : pc'[d] = "holding" \/ ready[d]}
      /\ ToSet(waiters) = {d \in Client : pc'[d] \in {"waiting", "cancelling"} /\ ~ready[d]}
      /\ \A d \in Client : ready[d] => pc'[d] \in {"waiting", "cancelling"}
  BY <1>1, <1>2, <1>5 DEF Owners, Queueing, IInv, GrantState, TypeOK
<1>7. /\ limit \in Nat /\ activeSince \ {c} \in SUBSET Client
      /\ limit >= 1 \/ waiters = <<>>
  BY <1>1 DEF TypeOK, IInv, WorkConserving
<1>8. GrantState' /\ QueueIsWaiting' /\ SlotAccounting' /\ WorkConserving'
  BY <1>2, <1>4, <1>5, <1>6, <1>7, GrantStep
<1> QED
  BY <1>8 DEF IInv

-----------------------------------------------------------------------------
LEMMA InitIInv == Init => IInv
<1> SUFFICES ASSUME Init PROVE IInv
  OBVIOUS
<1>1. TypeOK
  <2>1. waiters \in Seq(Client)
    BY DEF Init
  <2> QED
    BY <2>1 DEF Init, TypeOK, Stage, Wait
<1>2. GrantState /\ QueueIsWaiting /\ WorkConserving
  BY DEF Init, GrantState, QueueIsWaiting, WorkConserving, Queueing, ToSet
<1>3. Owners = {}
  BY DEF Init, Owners
<1>4. SlotAccounting
  BY <1>3, FS_EmptySet DEF Init, SlotAccounting
<1> QED
  BY <1>1, <1>2, <1>4 DEF IInv

LEMMA InvStep == IInv /\ [Next]_vars => IInv'
<1> SUFFICES ASSUME IInv, [Next]_vars PROVE IInv'
  OBVIOUS
<1>1. TypeOK'
  BY TypeStep
<1>2. ASSUME NEW c \in Client, Step(c) PROVE IInv'
  BY <1>1, <1>2, QuietStep, AdmitStep, EnqueueStep, CancelQueuedStep, ReleaseStep,
     CancelGrantedStep DEF Step
<1>3. ASSUME NEW c \in Client, (\E w \in Wait : Begin(c, w)) \/ CancelContext(c)
      PROVE  IInv'
  BY <1>1, <1>3, QuietStep
<1>4. ASSUME NEW l \in LimitSetting, NEW q \in QueueSetting, Configure(l, q)
      PROVE  IInv'
  BY <1>1, <1>4, ConfigureStep
<1>5. CASE UNCHANGED vars
  BY <1>5 DEF vars, IInv, TypeOK, GrantState, QueueIsWaiting, SlotAccounting,
     WorkConserving, Owners, Queueing
<1> QED
  BY <1>2, <1>3, <1>4, <1>5 DEF Next

\* The invariant the results below follow from.
THEOREM Invariance == Spec => []IInv
  BY InitIInv, InvStep, PTL DEF Spec

\* Every reachable state of the gate is type-correct.
THEOREM TypeCorrect == Spec => []TypeOK
<1>1. IInv => TypeOK
  BY DEF IInv
<1> QED
  BY <1>1, Invariance, PTL

\* The counter, the map of active attempts and the clients that own a slot
\* agree, whatever cancellations and limit changes happened.
THEOREM SlotsAccounted == Spec => []SlotAccounting
<1>1. IInv => SlotAccounting
  BY DEF IInv
<1> QED
  BY <1>1, Invariance, PTL

\* The queue holds exactly the clients that wait, each once.
THEOREM QueueExact == Spec => []QueueIsWaiting
<1>1. IInv => QueueIsWaiting
  BY DEF IInv
<1> QED
  BY <1>1, Invariance, PTL

\* Nobody waits while a slot is free, also right after a limit was raised.
THEOREM NoIdleSlot == Spec => []WorkConserving
<1>1. IInv => WorkConserving
  BY DEF IInv
<1> QED
  BY <1>1, Invariance, PTL

-----------------------------------------------------------------------------
\* In every step that calls grantLocked the slots kept are slots that were
\* out before, and the clients let in come from the head of the queue.
LEMMA GrantingStep ==
    ASSUME IInv,
           \/ \E c \in Client : Release(c) \/ CancelGranted(c)
           \/ \E l \in LimitSetting, q \in QueueSetting : Configure(l, q)
    PROVE  \E since \in SUBSET activeSince, ready \in [Client -> BOOLEAN] :
               /\ Cardinality(since) <= active
               /\ \E W \in SUBSET ToSet(waiters) : LetIn(W, limit', since, ready)
<1>1. /\ waiters \in Seq(Client) /\ Distinct(waiters) /\ TypeOK
      /\ ToSet(waiters) = Queueing /\ activeSince = Owners
      /\ active = Cardinality(activeSince)
  BY DEF IInv, TypeOK, QueueIsWaiting, SlotAccounting, Distinct
<1>2. ASSUME NEW lim \in Nat, NEW since \in SUBSET activeSince,
             NEW ready \in [Client -> BOOLEAN],
             GrantLocked(lim, Cardinality(since), since, ready), limit' = lim
      PROVE  \E W \in SUBSET ToSet(waiters) : LetIn(W, limit', since, ready)
  <2>1. since \in SUBSET Client /\ since \cap ToSet(waiters) = {}
    BY <1>1 DEF Owners, Queueing, TypeOK, IInv, GrantState
  <2>2. Cardinality(since) \in Nat
    BY <2>1, ClientAssumption, FS_Subset, FS_CardinalityType
  <2> QED
    BY <1>1, <1>2, <2>1, <2>2, GrantLockedEffect
<1>3. ASSUME NEW c \in Client, c \in activeSince
      PROVE  Cardinality(activeSince \ {c}) <= active
  <2>1. IsFiniteSet(activeSince)
    BY <1>1, ClientAssumption, FS_Subset DEF TypeOK
  <2> QED
    BY <1>1, <2>1, FS_Subset
<1>4. ASSUME NEW c \in Client, Release(c)
      PROVE  \E since \in SUBSET activeSince, ready \in [Client -> BOOLEAN] :
                 /\ Cardinality(since) <= active
                 /\ \E W \in SUBSET ToSet(waiters) : LetIn(W, limit', since, ready)
  <2>1. c \in activeSince
    BY <1>1, <1>4 DEF Release, Owners
  <2>2. Deactivated(c) = Cardinality(activeSince \ {c})
    BY <2>1, DeactivatedCount
  <2>3. /\ GrantLocked(limit, Cardinality(activeSince \ {c}), activeSince \ {c}, granted)
        /\ limit' = limit /\ limit \in Nat /\ granted \in [Client -> BOOLEAN]
    BY <1>1, <1>4, <2>2 DEF Release, TypeOK
  <2>4. \E W \in SUBSET ToSet(waiters) : LetIn(W, limit', activeSince \ {c}, granted)
    BY <1>2, <2>3
  <2> QED
    BY <1>3, <2>1, <2>3, <2>4
<1>5. ASSUME NEW c \in Client, CancelGranted(c)
      PROVE  \E since \in SUBSET activeSince, ready \in [Client -> BOOLEAN] :
                 /\ Cardinality(since) <= active
                 /\ \E W \in SUBSET ToSet(waiters) : LetIn(W, limit', since, ready)
  <2> DEFINE ready == [granted EXCEPT ![c] = FALSE]
  <2>1. c \in activeSince
    BY <1>1, <1>5 DEF CancelGranted, Owners
  <2>2. Deactivated(c) = Cardinality(activeSince \ {c})
    BY <2>1, DeactivatedCount
  <2>3. /\ GrantLocked(limit, Cardinality(activeSince \ {c}), activeSince \ {c}, ready)
        /\ limit' = limit /\ limit \in Nat /\ ready \in [Client -> BOOLEAN]
    BY <1>1, <1>5, <2>2 DEF CancelGranted, TypeOK
  <2> HIDE DEF ready
  <2>4. \E W \in SUBSET ToSet(waiters) : LetIn(W, limit', activeSince \ {c}, ready)
    BY <1>2, <2>3
  <2> QED
    BY <1>3, <2>1, <2>3, <2>4
<1>6. ASSUME NEW l \in LimitSetting, NEW q \in QueueSetting, Configure(l, q)
      PROVE  \E since \in SUBSET activeSince, ready \in [Client -> BOOLEAN] :
                 /\ Cardinality(since) <= active
                 /\ \E W \in SUBSET ToSet(waiters) : LetIn(W, limit', since, ready)
  <2>1. ClampLimit(l) \in Nat
    BY SettingAssumption DEF ClampLimit
  <2>2. /\ GrantLocked(ClampLimit(l), Cardinality(activeSince), activeSince, granted)
        /\ limit' = ClampLimit(l) /\ granted \in [Client -> BOOLEAN]
    BY <1>1, <1>6 DEF Configure, TypeOK
  <2>3. \E W \in SUBSET ToSet(waiters) : LetIn(W, limit', activeSince, granted)
    BY <1>2, <2>1, <2>2
  <2>4. Cardinality(activeSince) <= active
    BY <1>1 DEF TypeOK
  <2> QED
    BY <2>2, <2>3, <2>4
<1> QED
  BY <1>4, <1>5, <1>6

\* Every other step, as far as the slots and the queue are concerned.
LEMMA OtherStep ==
    ASSUME IInv, [Next]_vars,
           ~ \E c \in Client : Release(c) \/ CancelGranted(c),
           ~ \E l \in LimitSetting, q \in QueueSetting : Configure(l, q)
    PROVE  \/ UNCHANGED <<active, activeSince, waiters>>
           \/ \E c \in Client : Admit(c) \/ Enqueue(c) \/ CancelQueued(c)
<1>1. CASE UNCHANGED vars
  BY <1>1 DEF vars
<1>2. ASSUME NEW c \in Client,
             \/ \E w \in Wait : Begin(c, w)
             \/ CancelContext(c) \/ Reject(c) \/ ReceiveReady(c) \/ GiveUp(c)
      PROVE  UNCHANGED <<active, activeSince, waiters>>
  BY <1>2 DEF Begin, CancelContext, Reject, ReceiveReady, GiveUp, gate
<1> QED
  BY <1>1, <1>2 DEF Next, Step

\* What the two action properties say of one step.
LEMMA GrowthStep ==
    ASSUME IInv, IInv', [Next]_vars
    PROVE  /\ active' > active => active' <= limit'
           /\ Len(waiters') > Len(waiters) => Len(waiters') <= queueLimit'
           /\ \A i \in 1..Len(waiters) : \A c \in activeSince' \ activeSince :
                 waiters[i] \in ToSet(waiters') => \E j \in 1..i : waiters[j] = c
<1> DEFINE Fifo == \A i \in 1..Len(waiters) : \A c \in activeSince' \ activeSince :
                       waiters[i] \in ToSet(waiters') => \E j \in 1..i : waiters[j] = c
<1>1. /\ TypeOK /\ TypeOK' /\ waiters \in Seq(Client) /\ waiters' \in Seq(Client)
      /\ Len(waiters) \in Nat /\ Len(waiters') \in Nat
  BY DEF IInv, TypeOK
<1>2. CASE \/ \E c \in Client : Release(c) \/ CancelGranted(c)
           \/ \E l \in LimitSetting, q \in QueueSetting : Configure(l, q)
  <2>1. PICK since \in SUBSET activeSince, ready \in [Client -> BOOLEAN] :
               /\ Cardinality(since) <= active
               /\ \E W \in SUBSET ToSet(waiters) : LetIn(W, limit', since, ready)
    BY <1>2, GrantingStep
  <2>2. PICK W \in SUBSET ToSet(waiters) : LetIn(W, limit', since, ready)
    BY <2>1
  <2>3. W = {} => active' = Cardinality(since)
    BY <2>2 DEF LetIn
  <2>4. active' > active => active' <= limit'
    BY <1>1, <2>1, <2>2, <2>3 DEF LetIn, TypeOK
  <2>5. Len(waiters') <= Len(waiters)
    BY <2>2 DEF LetIn
  <2>6. \A c \in activeSince' \ activeSince : c \in W
    BY <2>2 DEF LetIn
  <2>7. Fifo
    BY <2>2, <2>6 DEF LetIn
  <2> QED
    BY <1>1, <2>4, <2>5, <2>7
<1>3. CASE UNCHANGED <<active, activeSince, waiters>>
  BY <1>1, <1>3 DEF TypeOK
<1>4. ASSUME NEW c \in Client, Admit(c)
      PROVE  (active' > active => active' <= limit') /\ UNCHANGED waiters /\ waiters = <<>>
  BY <1>1, <1>4 DEF Admit, RoomAtOnce, TypeOK, EffectiveLimit, ClampLimit
<1>5. ASSUME NEW c \in Client, Enqueue(c)
      PROVE  /\ UNCHANGED <<active, activeSince>>
             /\ Len(waiters') <= queueLimit'
  BY <1>1, <1>5 DEF Enqueue, QueueFull, TypeOK
<1>6. ASSUME NEW c \in Client, CancelQueued(c)
      PROVE  UNCHANGED <<active, activeSince>> /\ Len(waiters') <= Len(waiters)
  <2>1. PICK k \in 1..Len(waiters) : waiters' = RemoveAt(waiters, k)
    BY <1>6 DEF CancelQueued
  <2>2. Distinct(waiters)
    BY DEF IInv, QueueIsWaiting, Distinct
  <2>3. Len(waiters') = Len(waiters) - 1
    BY <1>1, <2>1, <2>2, SpliceKeepsOthers
  <2> QED
    BY <1>1, <1>6, <2>3 DEF CancelQueued
<1>7. CASE \E c \in Client : Admit(c) \/ Enqueue(c) \/ CancelQueued(c)
  BY <1>1, <1>4, <1>5, <1>6, <1>7 DEF TypeOK
<1> QED
  BY <1>2, <1>3, <1>7, OtherStep

\* Slots and queue places are only handed out below the limit of the moment.
THEOREM GrowthBounded == Spec => GrowsWithinLimits
<1>1. IInv /\ IInv' /\ [Next]_vars =>
          [/\ active' > active => active' <= limit'
           /\ Len(waiters') > Len(waiters) => Len(waiters') <= queueLimit']_vars
  BY GrowthStep
<1> QED
  BY <1>1, Invariance, PTL DEF Spec, GrowsWithinLimits

\* Slots are handed out in the order the clients queued.
THEOREM FirstComeFirstServed == Spec => NoOvertaking
<1>1. IInv /\ IInv' /\ [Next]_vars =>
          [\A i \in 1..Len(waiters) : \A c \in activeSince' \ activeSince :
              waiters[i] \in ToSet(waiters') => \E j \in 1..i : waiters[j] = c]_vars
  BY GrowthStep
<1> QED
  BY <1>1, Invariance, PTL DEF Spec, NoOvertaking

-----------------------------------------------------------------------------
\* The gate implements the abstract one.  The instance has its own copy of
\* Cardinality.
LEMMA GateCardinality == \A S : Gate!Cardinality(S) = Cardinality(S)
  BY DEF Gate!Cardinality, Cardinality

LEMMA InitGate == Init => Gate!GateInit
<1> SUFFICES ASSUME Init PROVE Gate!GateInit
  OBVIOUS
<1>1. Owners = {} /\ Queueing = {}
  BY DEF Init, Owners, Queueing
<1>2. EffectiveLimit \in {ClampLimit(l) : l \in LimitSetting \union {0}}
  BY DEF Init, EffectiveLimit
<1> QED
  BY <1>1, <1>2 DEF Gate!GateInit

\* A step that calls grantLocked refills the abstract gate.
LEMMA FillStep ==
    ASSUME IInv, IInv', NEW W \in SUBSET ToSet(waiters), NEW since, NEW ready,
           LetIn(W, limit', since, ready)
    PROVE  W \in SUBSET Queueing /\ Gate!Fill(since, W, EffectiveLimit')
<1>1. /\ ToSet(waiters) = Queueing /\ ToSet(waiters') = Queueing'
      /\ activeSince' = Owners' /\ active' = Cardinality(Owners')
      /\ limit' \in Nat
  BY DEF IInv, QueueIsWaiting, SlotAccounting, TypeOK
<1>2. Owners' = since \union W /\ Queueing' = Queueing \ W
  BY <1>1 DEF LetIn
<1>3. W = {} \/ Cardinality(since \union W) <= EffectiveLimit'
  BY <1>1, <1>2 DEF LetIn, EffectiveLimit, ClampLimit
<1>4. W = Queueing \/ Cardinality(since \union W) >= EffectiveLimit'
  <2>1. ASSUME W # Queueing PROVE waiters' # <<>>
    <3>1. ToSet(waiters') # {}
      BY <1>1, <1>2, <2>1
    <3> QED
      BY <3>1 DEF ToSet
  <2>2. ASSUME waiters' # <<>> PROVE Cardinality(since \union W) >= EffectiveLimit'
    <3>1. limit' >= 1 /\ active' >= limit'
      BY <2>2 DEF IInv, WorkConserving
    <3> QED
      BY <1>1, <1>2, <3>1 DEF EffectiveLimit, ClampLimit
  <2> QED
    BY <2>1, <2>2
<1> QED
  BY <1>1, <1>2, <1>3, <1>4, GateCardinality DEF Gate!Fill

LEMMA GateStep == IInv /\ IInv' /\ [Next]_vars => [Gate!GateNext]_(Gate!gateVars)
<1> SUFFICES ASSUME IInv, IInv', [Next]_vars PROVE [Gate!GateNext]_(Gate!gateVars)
  OBVIOUS
<1>1. /\ TypeOK /\ ToSet(waiters) = Queueing /\ activeSince = Owners
      /\ active = Cardinality(Owners) /\ waiters \in Seq(Client)
      /\ \A d \in Client : granted[d] => pc[d] \in {"waiting", "cancelling"}
  BY DEF IInv, QueueIsWaiting, SlotAccounting, GrantState, TypeOK
<1>2. ToSet(waiters') = Queueing' /\ activeSince' = Owners' /\ TypeOK'
  BY DEF IInv, QueueIsWaiting, SlotAccounting
<1>3. ASSUME NEW c \in Client, Release(c) \/ CancelGranted(c)
      PROVE  Gate!GateNext
  <2>1. c \in Owners
    BY <1>1, <1>3 DEF Release, CancelGranted, Owners
  <2>2. Deactivated(c) \in Nat /\ Deactivated(c) = Cardinality(activeSince \ {c})
    BY <1>1, <2>1, DeactivatedCount
  <2>3. PICK ready \in [Client -> BOOLEAN] :
               GrantLocked(limit, Deactivated(c), activeSince \ {c}, ready)
    BY <1>1, <1>3 DEF Release, CancelGranted, TypeOK
  <2>4. limit' = limit
    BY <1>3 DEF Release, CancelGranted
  <2>5. /\ waiters \in Seq(Client) /\ Distinct(waiters) /\ limit \in Nat
        /\ activeSince \ {c} \in SUBSET Client
        /\ (activeSince \ {c}) \cap ToSet(waiters) = {}
    BY <1>1 DEF IInv, QueueIsWaiting, Distinct, Owners, Queueing, TypeOK
  <2>6. PICK W \in SUBSET ToSet(waiters) : LetIn(W, limit, activeSince \ {c}, ready)
    BY <2>2, <2>3, <2>5, GrantLockedEffect
  <2>7. W \in SUBSET Queueing /\ Gate!Fill(Owners \ {c}, W, EffectiveLimit')
    BY <1>1, <2>4, <2>6, FillStep
  <2>8. EffectiveLimit' = EffectiveLimit
    BY <2>4 DEF EffectiveLimit
  <2>9. Gate!GiveBack(c)
    BY <2>1, <2>7, <2>8 DEF Gate!GiveBack
  <2> QED
    BY <2>9 DEF Gate!GateNext
<1>4. ASSUME NEW l \in LimitSetting, NEW q \in QueueSetting, Configure(l, q)
      PROVE  Gate!GateNext
  <2>1. ClampLimit(l) \in Nat /\ ClampLimit(l) >= 1
    BY SettingAssumption DEF ClampLimit
  <2>2. limit' = ClampLimit(l) /\ GrantLocked(ClampLimit(l), active, activeSince, granted)
    BY <1>4 DEF Configure
  <2>3. /\ waiters \in Seq(Client) /\ Distinct(waiters)
        /\ active \in Nat /\ active = Cardinality(activeSince)
        /\ activeSince \in SUBSET Client /\ granted \in [Client -> BOOLEAN]
        /\ activeSince \cap ToSet(waiters) = {}
    BY <1>1 DEF IInv, QueueIsWaiting, SlotAccounting, Distinct, Owners, Queueing, TypeOK
  <2>4. PICK W \in SUBSET ToSet(waiters) : LetIn(W, limit', activeSince, granted)
    BY <2>1, <2>2, <2>3, GrantLockedEffect
  <2>5. W \in SUBSET Queueing /\ Gate!Fill(Owners, W, EffectiveLimit')
    BY <1>1, <2>4, FillStep
  <2>6. EffectiveLimit' = ClampLimit(l)
    BY <2>1, <2>2 DEF EffectiveLimit, ClampLimit
  <2>7. Gate!Resize(ClampLimit(l))
    BY <2>5, <2>6 DEF Gate!Resize
  <2>8. ClampLimit(l) \in {ClampLimit(m) : m \in LimitSetting \union {0}}
    OBVIOUS
  <2> QED
    BY <2>7, <2>8 DEF Gate!GateNext
<1>5. ASSUME NEW c \in Client, Admit(c)
      PROVE  Gate!GateNext
  <2>1. c \notin Owners \union Queueing /\ Queueing = {} /\ Queueing' = {}
    BY <1>1, <1>2, <1>5 DEF Admit, RoomAtOnce, Owners, Queueing, ToSet
  <2>2. Owners' = Owners \union {c} /\ EffectiveLimit' = EffectiveLimit
    BY <1>1, <1>2, <1>5 DEF Admit, EffectiveLimit, ClampLimit, TypeOK
  <2>3. Cardinality(Owners) < EffectiveLimit
    BY <1>1, <1>5 DEF Admit, RoomAtOnce
  <2>4. Gate!Enter(c)
    BY <2>1, <2>2, <2>3, GateCardinality DEF Gate!Enter
  <2> QED
    BY <2>4 DEF Gate!GateNext
<1>6. ASSUME NEW c \in Client, Enqueue(c)
      PROVE  Gate!GateNext
  <2>1. c \notin Owners \union Queueing
    BY <1>1, <1>6 DEF Enqueue, Owners, Queueing
  <2>2. Owners' = Owners /\ Queueing' = Queueing \union {c}
    BY <1>1, <1>6 DEF Enqueue, Owners, Queueing, TypeOK
  <2>3. EffectiveLimit' = EffectiveLimit
    BY <1>1, <1>6 DEF Enqueue, EffectiveLimit, ClampLimit, TypeOK
  <2>4. Queueing # {} \/ Cardinality(Owners) >= EffectiveLimit
    <3>1. active >= EffectiveLimit \/ waiters # <<>>
      BY <1>1, <1>6 DEF Enqueue, RoomAtOnce, TypeOK, EffectiveLimit, ClampLimit
    <3>2. waiters # <<>> => ToSet(waiters) # {}
      <4>1. waiters # <<>> => 1 \in DOMAIN waiters
        BY <1>1
      <4> QED
        BY <4>1 DEF ToSet
    <3> QED
      BY <1>1, <3>1, <3>2
  <2>5. Gate!Join(c)
    BY <2>1, <2>2, <2>3, <2>4, GateCardinality DEF Gate!Join
  <2> QED
    BY <2>5 DEF Gate!GateNext
<1>7. ASSUME NEW c \in Client, CancelQueued(c)
      PROVE  Gate!GateNext
  <2>1. c \in Queueing /\ Owners' = Owners /\ Queueing' = Queueing \ {c}
    BY <1>1, <1>7 DEF CancelQueued, Return, Owners, Queueing, TypeOK
  <2>2. EffectiveLimit' = EffectiveLimit
    BY <1>7 DEF CancelQueued, EffectiveLimit
  <2>3. Gate!Leave(c)
    BY <2>1, <2>2 DEF Gate!Leave
  <2> QED
    BY <2>3 DEF Gate!GateNext
<1>8. ASSUME NEW c \in Client,
             \/ \E w \in Wait : Begin(c, w)
             \/ CancelContext(c) \/ Reject(c) \/ ReceiveReady(c) \/ GiveUp(c)
      PROVE  UNCHANGED <<Owners, Queueing, EffectiveLimit>>
  <2>1. UNCHANGED <<activeSince, waiters>>
    BY <1>8 DEF Begin, CancelContext, Reject, ReceiveReady, GiveUp, gate
  <2>2. Owners' = Owners /\ Queueing' = Queueing
    BY <1>1, <1>2, <2>1
  <2>3. limit' = limit \/ limit' = EffectiveLimit
    BY <1>8 DEF Begin, CancelContext, Reject, ReceiveReady, GiveUp, gate
  <2> QED
    BY <1>1, <2>2, <2>3 DEF EffectiveLimit, ClampLimit, TypeOK
<1>9. CASE UNCHANGED vars
  BY <1>9 DEF vars, Owners, Queueing, EffectiveLimit, Gate!gateVars
<1>10. ASSUME NEW c \in Client,
             \/ \E w \in Wait : Begin(c, w)
             \/ CancelContext(c) \/ Reject(c) \/ ReceiveReady(c) \/ GiveUp(c)
      PROVE  UNCHANGED Gate!gateVars
  BY <1>8, <1>10 DEF Gate!gateVars
<1> QED
  BY <1>3, <1>4, <1>5, <1>6, <1>7, <1>9, <1>10 DEF Next, Step

\* The image gate implements the abstract gate, limit changes included.
THEOREM RefinesGate == Spec => ImplementsGate
  BY InitGate, GateStep, Invariance, PTL DEF Spec, ImplementsGate, Gate!GateSpec

=============================================================================
