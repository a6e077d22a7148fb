---------------------- MODULE RefreshPersistenceProofs ----------------------
(***************************************************************************)
(* Proofs about RefreshPersistence for every finite set of callers, every   *)
(* limit and every pair of burst constants.                                 *)
(***************************************************************************)
EXTENDS RefreshPersistence, FiniteSetTheorems, TLAPS

\* How the queues, the queued flags, the grant channels and the callers'
\* positions agree: every queue entry is a caller that is in the select and
\* has no answer yet, and every such caller is queued exactly once.
QueueEntries ==
    \A p \in Priority : \A i \in 1..Len(queues[p]) :
        /\ queued[queues[p][i]]
        /\ prio[queues[p][i]] = p
        /\ \A j \in 1..Len(queues[p]) : queues[p][i] = queues[p][j] => i = j

CallerState ==
    \A c \in Caller :
        /\ queued[c] => /\ \E i \in 1..Len(queues[prio[c]]) : queues[prio[c]][i] = c
                        /\ pc[c] \in {"waiting", "cancelling"}
                        /\ grant[c] = "none"
        /\ grant[c] # "none" => pc[c] \in {"waiting", "cancelling", "draining"}
        /\ pc[c] \in {"waiting", "cancelling"} => queued[c] \/ grant[c] # "none"

ClosedEmpty == closed => \A p \in Priority : queues[p] = <<>>

Structure == QueueEntries /\ CallerState /\ ClosedEmpty

\* A slot is out only to a caller that is not queued, the count is exact, and
\* nobody waits while a slot is free.
SlotInv ==
    /\ SlotAccounting
    /\ active <= Concurrency
    /\ (\E p \in Priority : queues[p] # <<>>) => active = Concurrency

\* The history of passed-over grants is covered by the burst counters.
BypassInv ==
    /\ \A p \in Priority : queues[p] = <<>> => bypass[p] = 0
    /\ bypass["maintenance"] <= sinceMaint
    /\ \/ bypass["import"] <= sinceImport
       \/ /\ bypass["import"] <= SessionBurst + 1 + sinceImport
          /\ sinceMaint = sinceImport
    /\ bypass["session"] <= 2
    /\ bypass["session"] = 2 => sinceImport = 0 /\ sinceMaint = 0
    /\ bypass["session"] = 1 => sinceImport = 0

IInv == TypeOK /\ Structure /\ SlotInv /\ BypassInv

-----------------------------------------------------------------------------
\* removeWaiterLocked's splice: everything behind the removed index moves up.
LEMMA RemoveAtProperties ==
    ASSUME NEW S, NEW s \in Seq(S), NEW i \in 1..Len(s)
    PROVE  /\ RemoveAt(s, i) \in Seq(S)
           /\ Len(RemoveAt(s, i)) = Len(s) - 1
           /\ \A j \in 1..(Len(s) - 1) :
                 RemoveAt(s, i)[j] = IF j < i THEN s[j] ELSE s[j+1]
<1> DEFINE front == SubSeq(s, 1, i-1)
           back == SubSeq(s, i+1, Len(s))
<1>1. front \in Seq(S) /\ Len(front) = i-1 /\ \A j \in 1..(i-1) : front[j] = s[j]
  OBVIOUS
<1>2. back \in Seq(S) /\ Len(back) = Len(s)-i
      /\ \A j \in 1..(Len(s)-i) : back[j] = s[i+j]
  OBVIOUS
<1>3. RemoveAt(s, i) = front \o back
  BY DEF RemoveAt
<1> HIDE DEF front, back
<1>4. front \o back \in Seq(S) /\ Len(front \o back) = Len(s) - 1
  BY <1>1, <1>2
<1>5. ASSUME NEW j \in 1..(Len(s) - 1)
      PROVE  (front \o back)[j] = IF j < i THEN s[j] ELSE s[j+1]
  <2>1. CASE j < i
    BY <1>1, <1>2, <2>1
  <2>2. CASE ~(j < i)
    <3>1. (front \o back)[j] = back[j - (i-1)]
      BY <1>1, <1>2, <2>2
    <3>2. j - (i-1) \in 1..(Len(s)-i) /\ i + (j - (i-1)) = j + 1
      BY <2>2
    <3> QED
      BY <1>2, <2>2, <3>1, <3>2
  <2> QED
    BY <2>1, <2>2
<1> QED
  BY <1>3, <1>4, <1>5

\* The queue is empty exactly when every class is.
LEMMA QueuedCountEmpty ==
    ASSUME TypeOK
    PROVE  /\ QueuedCount \in Nat
           /\ QueuedCount = 0 <=> \A p \in Priority : queues[p] = <<>>
  BY DEF TypeOK, QueuedCount, Priority

-----------------------------------------------------------------------------
\* Every step keeps the type of every variable.
LEMMA TypeStep == TypeOK /\ [Next]_vars => TypeOK'
<1> SUFFICES ASSUME TypeOK, [Next]_vars PROVE TypeOK'
  OBVIOUS
<1> USE BurstAssumption DEF TypeOK, Stage, Grant, coordinator, Return
<1>1. ASSUME NEW c \in Caller, NEW p \in Priority, Begin(c, p) PROVE TypeOK'
  BY <1>1 DEF Begin
<1>2. ASSUME NEW c \in Caller, CancelContext(c) PROVE TypeOK'
  BY <1>2 DEF CancelContext
<1>3. ASSUME NEW c \in Caller, Refuse(c) PROVE TypeOK'
  BY <1>3 DEF Refuse, Priority
<1>4. ASSUME NEW c \in Caller, Admit(c) PROVE TypeOK'
  BY <1>4 DEF Admit
<1>5. ASSUME NEW c \in Caller, Enqueue(c) PROVE TypeOK'
  BY <1>5 DEF Enqueue
<1>6. ASSUME NEW c \in Caller, ReceiveReservation(c) PROVE TypeOK'
  BY <1>6 DEF ReceiveReservation
<1>7. ASSUME NEW c \in Caller, ReceiveClosed(c) PROVE TypeOK'
  BY <1>7 DEF ReceiveClosed, Priority
<1>8. ASSUME NEW c \in Caller, ObserveDone(c) PROVE TypeOK'
  BY <1>8 DEF ObserveDone
<1>9. ASSUME NEW c \in Caller, CancelQueued(c) PROVE TypeOK'
  <2>1. PICK i \in 1..Len(queues[prio[c]]) :
           queues' = [queues EXCEPT ![prio[c]] = RemoveAt(@, i)]
    BY <1>9 DEF CancelQueued
  <2>2. RemoveAt(queues[prio[c]], i) \in Seq(Caller)
    BY RemoveAtProperties
  <2>3. queues' \in [Priority -> Seq(Caller)]
    BY <2>1, <2>2
  <2>4. bypass' \in [Priority -> Nat]
    BY <1>9 DEF CancelQueued
  <2> QED
    BY <1>9, <2>3, <2>4 DEF CancelQueued, Priority
<1>10. ASSUME NEW c \in Caller, CancelDequeued(c) PROVE TypeOK'
  BY <1>10 DEF CancelDequeued
<1>11. ASSUME NEW c \in Caller, DrainReservation(c) PROVE TypeOK'
  BY <1>11 DEF DrainReservation
<1>12. ASSUME NEW c \in Caller, DrainNothing(c) PROVE TypeOK'
  BY <1>12 DEF DrainNothing, Priority
<1>13. ASSUME NEW c \in Caller, Release(c) PROVE TypeOK'
  <2>1. FreeSlot \in Nat
    BY DEF FreeSlot
  <2>2. ASSUME NEW p \in Priority, HandOver(p)
        PROVE  /\ queues' \in [Priority -> Seq(Caller)]
               /\ active' \in Nat
               /\ sinceImport' \in 0..SessionBurst
               /\ sinceMaint' \in 0..MaintenanceBurst
               /\ queued' \in [Caller -> BOOLEAN]
               /\ grant' \in [Caller -> Grant]
               /\ bypass' \in [Priority -> Nat]
    <3>1. queues[p] \in Seq(Caller) /\ queues[p] # <<>>
      BY <2>2 DEF HandOver, Picks, Waiting
    <3>2. Tail(queues[p]) \in Seq(Caller)
      BY <3>1
    <3> QED
      BY <2>1, <2>2, <3>2 DEF HandOver, PopWaiter, CountUpTo
  <2>3. /\ queues' \in [Priority -> Seq(Caller)]
        /\ active' \in Nat
        /\ sinceImport' \in 0..SessionBurst
        /\ sinceMaint' \in 0..MaintenanceBurst
        /\ queued' \in [Caller -> BOOLEAN]
        /\ grant' \in [Caller -> Grant]
        /\ bypass' \in [Priority -> Nat]
    BY <1>13, <2>1, <2>2 DEF Release
  <2>4. /\ pc' \in [Caller -> Stage]
        /\ prio' \in [Caller -> Priority]
        /\ ctxDone' \in [Caller -> BOOLEAN]
        /\ closed' \in BOOLEAN
    BY <1>13 DEF Release, Priority
  <2> QED
    BY <2>3, <2>4
<1>14. ASSUME Close PROVE TypeOK'
  BY <1>14 DEF Close
<1>15. ASSUME UNCHANGED vars PROVE TypeOK'
  BY <1>15 DEF vars
<1> QED
  BY <1>1, <1>2, <1>3, <1>4, <1>5, <1>6, <1>7, <1>8, <1>9, <1>10, <1>11,
     <1>12, <1>13, <1>14, <1>15 DEF Next, Step

LEMMA InitType == Init => TypeOK
<1> SUFFICES ASSUME Init PROVE TypeOK
  OBVIOUS
<1>1. queues \in [Priority -> Seq(Caller)]
  BY DEF Init
<1>2. /\ 0 \in Nat
      /\ 0 \in 0..SessionBurst
      /\ 0 \in 0..MaintenanceBurst
  BY BurstAssumption
<1>3. /\ pc \in [Caller -> Stage]
      /\ prio \in [Caller -> Priority]
      /\ queued \in [Caller -> BOOLEAN]
      /\ grant \in [Caller -> Grant]
      /\ ctxDone \in [Caller -> BOOLEAN]
  BY DEF Init, Stage, Grant, Priority
<1> QED
  BY <1>1, <1>2, <1>3 DEF Init, TypeOK

\* Type correctness of the coordinator and its callers.
THEOREM TypeCorrect == Spec => []TypeOK
  BY InitType, TypeStep, PTL DEF Spec

-----------------------------------------------------------------------------
\* A step of a caller that is not queued leaves every queue entry as it is.
LEMMA UnqueuedCallerStep ==
    ASSUME TypeOK, Structure, NEW c \in Caller, ~queued[c],
           UNCHANGED <<queues, queued, closed>>,
           prio' \in [Caller -> Priority],
           \A d \in Caller \ {c} : prio'[d] = prio[d]
    PROVE  QueueEntries' /\ ClosedEmpty'
<1>1. ASSUME NEW p \in Priority, NEW i \in 1..Len(queues[p])
      PROVE  queues[p][i] \in Caller \ {c}
  BY DEF TypeOK, Structure, QueueEntries
<1> QED
  BY <1>1 DEF TypeOK, Structure, QueueEntries, ClosedEmpty

\* Structure survives every step that leaves the queues alone.
LEMMA StructureSimpleStep ==
    ASSUME TypeOK, TypeOK', Structure, NEW c \in Caller,
           \/ \E p \in Priority : Begin(c, p)
           \/ CancelContext(c) \/ Refuse(c) \/ Admit(c)
           \/ ReceiveReservation(c) \/ ReceiveClosed(c) \/ ObserveDone(c)
           \/ CancelDequeued(c) \/ DrainReservation(c) \/ DrainNothing(c)
    PROVE  Structure'
<1> DEFINE Moves == \/ \E p \in Priority : Begin(c, p)
                    \/ Refuse(c) \/ Admit(c) \/ ReceiveReservation(c)
                    \/ ReceiveClosed(c) \/ CancelDequeued(c)
                    \/ DrainReservation(c) \/ DrainNothing(c)
           Looks == CancelContext(c) \/ ObserveDone(c)
<1>1. CASE Looks
  <2>1. UNCHANGED <<queues, queued, grant, prio, closed>>
    BY <1>1 DEF CancelContext, ObserveDone, coordinator
  <2>2. QueueEntries' /\ ClosedEmpty'
    BY <2>1 DEF Structure, QueueEntries, ClosedEmpty
  <2>3. \A d \in Caller : pc'[d] = pc[d] \/ (pc[d] = "waiting" /\ pc'[d] = "cancelling")
    BY <1>1 DEF CancelContext, ObserveDone, TypeOK
  <2>4. CallerState'
    BY <2>1, <2>3 DEF Structure, CallerState
  <2> QED
    BY <2>2, <2>4 DEF Structure
<1>2. CASE Moves
  <2>1. ~queued[c]
    BY <1>2 DEF Structure, CallerState, Begin, Refuse, Admit, ReceiveReservation,
       ReceiveClosed, CancelDequeued, DrainReservation, DrainNothing
  <2>2. /\ UNCHANGED <<queues, queued, closed>>
        /\ \A d \in Caller \ {c} :
              prio'[d] = prio[d] /\ pc'[d] = pc[d] /\ grant'[d] = grant[d]
    BY <1>2 DEF TypeOK, coordinator, Return, Begin, Refuse, Admit, ReceiveReservation,
       ReceiveClosed, CancelDequeued, DrainReservation, DrainNothing
  <2>3. QueueEntries' /\ ClosedEmpty'
    BY <2>1, <2>2, UnqueuedCallerStep DEF TypeOK
  <2>4. /\ grant'[c] # "none" => pc'[c] = "draining"
        /\ pc'[c] \notin {"waiting", "cancelling"}
    <3>1. pc[c] \in {"idle", "entering"} => grant[c] = "none"
      BY DEF Structure, CallerState
    <3>2. CASE (\E p \in Priority : Begin(c, p)) \/ Refuse(c) \/ Admit(c)
      BY <3>1, <3>2 DEF TypeOK, Begin, Refuse, Admit, Return
    <3>3. CASE CancelDequeued(c)
      BY <3>3 DEF TypeOK, CancelDequeued
    <3>4. CASE \/ ReceiveReservation(c) \/ ReceiveClosed(c)
               \/ DrainReservation(c) \/ DrainNothing(c)
      BY <3>4 DEF TypeOK, ReceiveReservation, ReceiveClosed, DrainReservation,
         DrainNothing, Return
    <3> QED
      BY <1>2, <3>2, <3>3, <3>4
  <2>5. CallerState'
    BY <2>1, <2>2, <2>4 DEF Structure, CallerState
  <2> QED
    BY <2>3, <2>5 DEF Structure
<1> QED
  BY <1>1, <1>2

\* A caller is appended only when it is not in a queue yet.
LEMMA StructureEnqueue ==
    ASSUME TypeOK, TypeOK', Structure, NEW c \in Caller, Enqueue(c)
    PROVE  Structure'
<1> DEFINE q == queues[prio[c]]
<1>1. ~queued[c] /\ grant[c] = "none"
  BY DEF Structure, CallerState, Enqueue
<1>2. /\ prio[c] \in Priority /\ q \in Seq(Caller)
      /\ queues' = [queues EXCEPT ![prio[c]] = Append(q, c)]
      /\ queued' = [queued EXCEPT ![c] = TRUE]
      /\ pc' = [pc EXCEPT ![c] = "waiting"]
      /\ ~closed /\ UNCHANGED <<prio, grant, closed>>
  BY DEF Enqueue, TypeOK
<1>3. ASSUME NEW p \in Priority, NEW i \in 1..Len(queues[p])
      PROVE  queues[p][i] \in Caller /\ queues[p][i] # c
  <2>1. queues[p] \in Seq(Caller)
    BY DEF TypeOK
  <2>2. queued[queues[p][i]]
    BY DEF Structure, QueueEntries
  <2> QED
    BY <1>1, <2>1, <2>2
<1>4. /\ Len(Append(q, c)) = Len(q) + 1
      /\ \A i \in 1..Len(q) : Append(q, c)[i] = q[i]
      /\ Append(q, c)[Len(q) + 1] = c
      /\ Len(q) \in Nat
  BY <1>2
<1>5. QueueEntries'
  <2> SUFFICES ASSUME NEW p \in Priority, NEW i \in 1..Len(queues'[p])
               PROVE  /\ queued'[queues'[p][i]]
                      /\ prio'[queues'[p][i]] = p
                      /\ \A j \in 1..Len(queues'[p]) :
                            queues'[p][i] = queues'[p][j] => i = j
    BY DEF QueueEntries
  <2>1. CASE p # prio[c]
    <3>1. queues'[p] = queues[p]
      BY <1>2, <2>1 DEF TypeOK
    <3>2. \A j \in 1..Len(queues[p]) : queued[queues[p][j]] /\ prio[queues[p][j]] = p
      BY DEF Structure, QueueEntries
    <3>3. \A j \in 1..Len(queues[p]) : queues[p][i] = queues[p][j] => i = j
      BY <3>1 DEF Structure, QueueEntries
    <3> QED
      BY <1>2, <1>3, <3>1, <3>2, <3>3 DEF TypeOK
  <2>2. CASE p = prio[c]
    <3>1. queues'[p] = Append(q, c) /\ queues[p] = q
      BY <1>2, <2>2 DEF TypeOK
    <3>2. \A j \in 1..Len(q) : queued[q[j]] /\ prio[q[j]] = p
                               /\ \A k \in 1..Len(q) : q[j] = q[k] => j = k
      BY <2>2 DEF Structure, QueueEntries
    <3> HIDE DEF q
    <3>3. \A j \in 1..Len(q) : q[j] \in Caller /\ q[j] # c
      BY <1>3, <3>1
    <3>4. /\ queues'[p][i] \in Caller
          /\ queued'[queues'[p][i]]
          /\ prio'[queues'[p][i]] = p
      <4>1. CASE i \in 1..Len(q)
        <5>1. queues'[p][i] = q[i]
          BY <1>4, <3>1, <4>1
        <5> QED
          BY <1>2, <3>2, <3>3, <4>1, <5>1 DEF TypeOK
      <4>2. CASE i = Len(q) + 1
        <5>1. queues'[p][i] = c
          BY <1>4, <3>1, <4>2
        <5> QED
          BY <1>2, <2>2, <5>1 DEF TypeOK
      <4> QED
        BY <1>4, <3>1, <4>1, <4>2
    <3>5. ASSUME NEW j \in 1..Len(queues'[p]), queues'[p][i] = queues'[p][j]
          PROVE  i = j
      BY <1>4, <3>1, <3>2, <3>3, <3>5
    <3> QED
      BY <3>4, <3>5
  <2> QED
    BY <2>1, <2>2
<1>6. CallerState'
  <2> SUFFICES ASSUME NEW d \in Caller
               PROVE  CallerState!(d)'
    BY DEF CallerState
  <2>1. CASE d = c
    <3>1. queues'[prio'[c]] = Append(q, c)
      BY <1>2 DEF TypeOK
    <3>2. \E i \in 1..Len(queues'[prio'[c]]) : queues'[prio'[c]][i] = c
      BY <1>4, <3>1
    <3> QED
      BY <1>1, <1>2, <2>1, <3>2 DEF TypeOK
  <2>2. CASE d # c
    <3>1. queued[d] => \E i \in 1..Len(queues'[prio[d]]) : queues'[prio[d]][i] = d
      <4>1. CASE prio[d] = prio[c]
        BY <1>2, <1>4, <4>1 DEF Structure, CallerState, TypeOK
      <4>2. CASE prio[d] # prio[c]
        BY <1>2, <4>2 DEF Structure, CallerState, TypeOK
      <4> QED
        BY <4>1, <4>2
    <3>2. /\ queued'[d] = queued[d] /\ prio'[d] = prio[d]
          /\ pc'[d] = pc[d] /\ grant'[d] = grant[d]
      BY <1>2, <2>2 DEF TypeOK
    <3>3. CallerState!(d)
      BY DEF Structure, CallerState
    <3> QED
      BY <3>1, <3>2, <3>3
  <2> QED
    BY <2>1, <2>2
<1>7. ClosedEmpty'
  BY <1>2 DEF ClosedEmpty
<1> QED
  BY <1>5, <1>6, <1>7 DEF Structure

\* Taking the k-th waiter w out of one queue, by popWaiterLocked (k = 1) or by
\* removeWaiterLocked, while only the caller x returns.
Dequeued(p, k, s, w, x) ==
    /\ s \in Seq(Caller) /\ Len(s) = Len(queues[p]) - 1
    /\ \A j \in 1..Len(s) : s[j] = IF j < k THEN queues[p][j] ELSE queues[p][j+1]
    /\ queues' = [queues EXCEPT ![p] = s]
    /\ w = queues[p][k]
    /\ queued' = [queued EXCEPT ![w] = FALSE]
    /\ x = w \/ ~queued[x]
    /\ \A d \in Caller \ {x} : prio'[d] = prio[d]

LEMMA Dequeue ==
    ASSUME TypeOK, TypeOK', Structure,
           NEW p0 \in Priority, NEW k \in 1..Len(queues[p0]), NEW s,
           NEW w \in Caller, NEW x \in Caller, Dequeued(p0, k, s, w, x)
    PROVE  /\ QueueEntries'
           /\ \A d \in Caller : queued'[d] =>
                 \E i \in 1..Len(queues'[prio'[d]]) : queues'[prio'[d]][i] = d
<1> USE DEF Dequeued
<1> DEFINE q == queues[p0]
<1>0. queues \in [Priority -> Seq(Caller)]
  BY DEF TypeOK
<1>1. q \in Seq(Caller) /\ Len(q) \in Nat /\ Len(s) \in Nat /\ queues'[p0] = s
  <2>1. q \in Seq(Caller)
    BY <1>0
  <2>2. queues'[p0] = s
    BY <1>0
  <2> QED
    BY <2>1, <2>2
<1>2. ASSUME NEW p \in Priority, NEW i \in 1..Len(queues[p])
      PROVE  /\ queues[p][i] \in Caller
             /\ queued[queues[p][i]]
             /\ prio[queues[p][i]] = p
             /\ \A j \in 1..Len(queues[p]) : queues[p][i] = queues[p][j] => i = j
  <2>1. queues[p] \in Seq(Caller)
    BY <1>0
  <2>2. queues[p][i] \in Caller
    BY <2>1
  <2> QED
    BY <2>2 DEF Structure, QueueEntries
<1>3. prio[w] = p0 /\ queued[w]
  BY <1>2
<1>4. ASSUME NEW j \in 1..Len(s)
      PROVE  \E m \in 1..Len(q) : m # k /\ s[j] = q[m] /\ (j < k => m = j) /\ (~(j < k) => m = j + 1)
  <2>1. CASE j < k
    BY <1>1, <2>1
  <2>2. CASE ~(j < k)
    BY <1>1, <2>2
  <2> QED
    BY <2>1, <2>2
<1>5. ASSUME NEW j \in 1..Len(s)
      PROVE  /\ s[j] \in Caller /\ s[j] # w /\ s[j] # x
             /\ queued'[s[j]] /\ prio'[s[j]] = p0
  <2>1. PICK m \in 1..Len(q) : m # k /\ s[j] = q[m]
    BY <1>4
  <2>2. s[j] \in Caller /\ s[j] # w /\ queued[s[j]] /\ prio[s[j]] = p0
    BY <1>2, <2>1
  <2> QED
    BY <2>2 DEF TypeOK
<1>6. ASSUME NEW i \in 1..Len(s), NEW j \in 1..Len(s), s[i] = s[j]
      PROVE  i = j
  <2>1. PICK m \in 1..Len(q) : s[i] = q[m] /\ (i < k => m = i) /\ (~(i < k) => m = i + 1)
    BY <1>4
  <2>2. PICK n \in 1..Len(q) : s[j] = q[n] /\ (j < k => n = j) /\ (~(j < k) => n = j + 1)
    BY <1>4
  <2>3. m = n
    <3>1. q[m] = q[n]
      BY <1>6, <2>1, <2>2
    <3> QED
      BY <1>2, <3>1
  <2> QED
    BY <1>1, <2>1, <2>2, <2>3
<1>7. QueueEntries'
  <2> SUFFICES ASSUME NEW p \in Priority, NEW i \in 1..Len(queues'[p])
               PROVE  /\ queued'[queues'[p][i]]
                      /\ prio'[queues'[p][i]] = p
                      /\ \A j \in 1..Len(queues'[p]) :
                            queues'[p][i] = queues'[p][j] => i = j
    BY DEF QueueEntries
  <2>1. CASE p = p0
    BY <1>1, <1>5, <1>6, <2>1
  <2>2. CASE p # p0
    <3>1. queues'[p] = queues[p]
      BY <2>2 DEF TypeOK
    <3>2. queues[p][i] # w /\ queues[p][i] # x
      BY <1>2, <1>3, <2>2, <3>1
    <3>3. queues[p][i] \in Caller /\ queued[queues[p][i]] /\ prio[queues[p][i]] = p
      BY <1>2, <3>1
    <3>4. queued'[queues[p][i]] /\ prio'[queues[p][i]] = p
      BY <3>2, <3>3 DEF TypeOK
    <3>5. \A j \in 1..Len(queues[p]) : queues[p][i] = queues[p][j] => i = j
      BY <1>2, <3>1
    <3> QED
      BY <3>1, <3>4, <3>5
  <2> QED
    BY <2>1, <2>2
<1>8. ASSUME NEW d \in Caller, queued'[d]
      PROVE  \E i \in 1..Len(queues'[prio'[d]]) : queues'[prio'[d]][i] = d
  <2>1. d # w /\ queued[d] /\ d # x /\ prio'[d] = prio[d]
    BY <1>8 DEF TypeOK
  <2>2. PICK i \in 1..Len(queues[prio[d]]) : queues[prio[d]][i] = d
    BY <2>1 DEF Structure, CallerState
  <2>3. CASE prio[d] # p0
    BY <2>1, <2>2, <2>3 DEF TypeOK
  <2>4. CASE prio[d] = p0
    <3>1. i # k /\ q[i] = d /\ i \in 1..Len(q)
      BY <2>1, <2>2, <2>4
    <3>2. CASE i < k
      <4>1. i \in 1..Len(s)
        BY <1>1, <3>1, <3>2
      <4>2. s[i] = d
        BY <3>1, <3>2, <4>1
      <4> QED
        BY <1>1, <2>1, <2>4, <4>1, <4>2
    <3>3. CASE i > k
      <4>1. i - 1 \in 1..Len(s) /\ ~(i - 1 < k) /\ (i - 1) + 1 = i
        BY <1>1, <3>1, <3>3
      <4>2. s[i-1] = d
        BY <3>1, <4>1
      <4> QED
        BY <1>1, <2>1, <2>4, <4>1, <4>2
    <3> QED
      BY <1>1, <3>1, <3>2, <3>3
  <2> QED
    BY <2>3, <2>4
<1> QED
  BY <1>7, <1>8

\* A cancelled waiter leaves its queue.
LEMMA StructureCancelQueued ==
    ASSUME TypeOK, TypeOK', Structure, NEW c \in Caller, CancelQueued(c)
    PROVE  Structure'
<1>1. PICK k \in 1..Len(queues[prio[c]]) :
         /\ queues[prio[c]][k] = c
         /\ queues' = [queues EXCEPT ![prio[c]] = RemoveAt(@, k)]
  BY DEF CancelQueued
<1>2. prio[c] \in Priority /\ queues[prio[c]] \in Seq(Caller)
  BY DEF TypeOK
<1>3. /\ RemoveAt(queues[prio[c]], k) \in Seq(Caller)
      /\ Len(RemoveAt(queues[prio[c]], k)) = Len(queues[prio[c]]) - 1
      /\ \A j \in 1..(Len(queues[prio[c]]) - 1) :
            RemoveAt(queues[prio[c]], k)[j] =
                IF j < k THEN queues[prio[c]][j] ELSE queues[prio[c]][j+1]
  BY <1>2, RemoveAtProperties
<1>4. /\ queued' = [queued EXCEPT ![c] = FALSE]
      /\ \A d \in Caller \ {c} : prio'[d] = prio[d] /\ pc'[d] = pc[d]
      /\ pc'[c] = "idle"
      /\ UNCHANGED <<grant, closed>>
  BY DEF CancelQueued, Return, TypeOK
<1>5. /\ QueueEntries'
      /\ \A d \in Caller : queued'[d] =>
            \E i \in 1..Len(queues'[prio'[d]]) : queues'[prio'[d]][i] = d
  <2> DEFINE s == RemoveAt(queues[prio[c]], k)
  <2>1. queues' = [queues EXCEPT ![prio[c]] = s]
    BY <1>1
  <2>2. /\ s \in Seq(Caller)
        /\ Len(s) = Len(queues[prio[c]]) - 1
        /\ \A j \in 1..Len(s) :
              s[j] = IF j < k THEN queues[prio[c]][j] ELSE queues[prio[c]][j+1]
    BY <1>3
  <2> HIDE DEF s
  <2>3. queued' = [queued EXCEPT ![c] = FALSE]
    BY <1>4
  <2>4. \A d \in Caller \ {c} : prio'[d] = prio[d]
    BY <1>4
  <2>5. prio[c] \in Priority /\ c = queues[prio[c]][k]
    BY <1>1, <1>2
  <2>6. s \in Seq(Caller) /\ Len(s) = Len(queues[prio[c]]) - 1
    BY <2>2
  <2>7. \A j \in 1..Len(s) :
           s[j] = IF j < k THEN queues[prio[c]][j] ELSE queues[prio[c]][j+1]
    BY <2>2
  <2>8. Dequeued(prio[c], k, s, c, c)
    BY <2>1, <2>3, <2>4, <2>5, <2>6, <2>7 DEF Dequeued
  <2> QED
    BY <2>5, <2>8, Dequeue
<1>6. grant[c] = "none"
  BY DEF Structure, CallerState, CancelQueued
<1>7. CallerState'
  <2> SUFFICES ASSUME NEW d \in Caller
               PROVE  CallerState!(d)'
    BY DEF CallerState
  <2>1. CASE d = c
    BY <1>4, <1>6, <2>1 DEF TypeOK
  <2>2. CASE d # c
    <3>1. queued'[d] = queued[d] /\ pc'[d] = pc[d] /\ grant'[d] = grant[d]
      BY <1>4, <2>2 DEF TypeOK
    <3> QED
      BY <1>5, <3>1 DEF Structure, CallerState
  <2> QED
    BY <2>1, <2>2
<1>8. ClosedEmpty'
  <2>1. \A p \in Priority : queues[p] = <<>> => queues'[p] = <<>>
    <3>1. Len(queues[prio[c]]) \in Nat
      BY <1>2
    <3>2. queues[prio[c]] # <<>>
      BY <1>1, <3>1
    <3> QED
      BY <1>1, <3>2 DEF TypeOK
  <2> QED
    BY <1>4, <2>1 DEF Structure, ClosedEmpty
<1> QED
  BY <1>5, <1>7, <1>8 DEF Structure

\* Tail is the splice of the first element.
LEMMA TailProperties ==
    ASSUME NEW S, NEW q \in Seq(S), q # <<>>
    PROVE  /\ Tail(q) \in Seq(S)
           /\ Len(Tail(q)) = Len(q) - 1
           /\ \A j \in 1..Len(Tail(q)) : Tail(q)[j] = IF j < 1 THEN q[j] ELSE q[j+1]
           /\ Head(q) \in S /\ Head(q) = q[1] /\ 1 \in 1..Len(q)
  OBVIOUS

\* What a hand-over does to the head w of the picked class.
LEMMA HandOverHead ==
    ASSUME TypeOK, Structure, NEW p \in Priority, HandOver(p)
    PROVE  LET w == Head(queues[p]) IN
           /\ queues[p] # <<>> /\ w \in Caller /\ w = queues[p][1]
           /\ queued[w] /\ grant[w] = "none" /\ pc[w] \in {"waiting", "cancelling"}
           /\ queues' = [queues EXCEPT ![p] = Tail(queues[p])]
           /\ queued' = [queued EXCEPT ![w] = FALSE]
           /\ grant' = [grant EXCEPT ![w] = "reservation"]
<1> DEFINE w == Head(queues[p])
<1>1. queues[p] # <<>> /\ queues[p] \in Seq(Caller)
  BY DEF HandOver, Picks, Waiting, TypeOK
<1>2. w \in Caller /\ w = queues[p][1] /\ 1 \in 1..Len(queues[p])
  BY <1>1, TailProperties
<1>3. queued[w]
  BY <1>2 DEF Structure, QueueEntries
<1>4. grant[w] = "none" /\ pc[w] \in {"waiting", "cancelling"}
  BY <1>2, <1>3 DEF Structure, CallerState
<1> QED
  BY <1>1, <1>2, <1>3, <1>4 DEF HandOver, PopWaiter

\* A released slot moves to the head of one queue.
LEMMA StructureRelease ==
    ASSUME TypeOK, TypeOK', Structure, NEW c \in Caller, Release(c)
    PROVE  Structure'
<1>1. /\ ~queued[c] /\ grant[c] = "none" /\ pc'[c] = "idle"
      /\ \A d \in Caller \ {c} : prio'[d] = prio[d] /\ pc'[d] = pc[d]
      /\ closed' = closed
  <2>1. pc[c] \in {"holding", "releasing"} /\ Return(c) /\ closed' = closed
    BY DEF Release
  <2>2. ~queued[c] /\ grant[c] = "none"
    BY <2>1 DEF Structure, CallerState, TypeOK
  <2>3. pc'[c] = "idle" /\ \A d \in Caller \ {c} : prio'[d] = prio[d] /\ pc'[d] = pc[d]
    BY <2>1 DEF Return, TypeOK
  <2> QED
    BY <2>1, <2>2, <2>3
<1>2. CASE UNCHANGED <<queues, queued, grant>>
  <2>1. QueueEntries' /\ ClosedEmpty'
    BY <1>1, <1>2, UnqueuedCallerStep DEF TypeOK
  <2>2. CallerState'
    BY <1>1, <1>2 DEF Structure, CallerState
  <2> QED
    BY <2>1, <2>2 DEF Structure
<1>3. ASSUME NEW p \in Priority, ~closed, HandOver(p)
      PROVE  Structure'
  <2> DEFINE w == Head(queues[p])
             s == Tail(queues[p])
  <2>1. /\ queues[p] # <<>> /\ w \in Caller /\ w = queues[p][1]
        /\ queued[w] /\ grant[w] = "none" /\ pc[w] \in {"waiting", "cancelling"}
        /\ queues' = [queues EXCEPT ![p] = s]
        /\ queued' = [queued EXCEPT ![w] = FALSE]
        /\ grant' = [grant EXCEPT ![w] = "reservation"]
    BY <1>3, HandOverHead
  <2>2. queues[p] \in Seq(Caller)
    BY DEF TypeOK
  <2>3. /\ s \in Seq(Caller) /\ Len(s) = Len(queues[p]) - 1 /\ 1 \in 1..Len(queues[p])
        /\ \A j \in 1..Len(s) :
              s[j] = IF j < 1 THEN queues[p][j] ELSE queues[p][j+1]
    BY <2>1, <2>2, TailProperties
  <2> HIDE DEF w, s
  <2>4. \A d \in Caller \ {c} : prio'[d] = prio[d]
    BY <1>1
  <2>5. /\ QueueEntries'
        /\ \A d \in Caller : queued'[d] =>
              \E i \in 1..Len(queues'[prio'[d]]) : queues'[prio'[d]][i] = d
    <3>1. Dequeued(p, 1, s, w, c)
      BY <1>1, <2>1, <2>3, <2>4 DEF Dequeued
    <3> QED
      BY <2>1, <2>3, <3>1, Dequeue
  <2>6. CallerState'
    <3> SUFFICES ASSUME NEW d \in Caller
                 PROVE  CallerState!(d)'
      BY DEF CallerState
    <3>1. CASE d = w
      <4>1. ~queued'[d] /\ grant'[d] = "reservation" /\ d # c
        BY <1>1, <2>1, <3>1 DEF TypeOK
      <4> QED
        BY <1>1, <2>1, <3>1, <4>1
    <3>2. CASE d # w
      <4>1. queued'[d] = queued[d] /\ grant'[d] = grant[d]
        BY <2>1, <3>2 DEF TypeOK
      <4>2. CASE d = c
        BY <1>1, <4>1, <4>2
      <4>3. CASE d # c
        BY <1>1, <2>5, <4>1, <4>3 DEF Structure, CallerState
      <4> QED
        BY <4>2, <4>3
    <3> QED
      BY <3>1, <3>2
  <2>7. ClosedEmpty'
    BY <1>1, <1>3 DEF ClosedEmpty
  <2> QED
    BY <2>5, <2>6, <2>7 DEF Structure
<1> QED
  BY <1>2, <1>3 DEF Release

\* The callers found in the queues are exactly the queued ones.
LEMMA DismissedAreQueued ==
    ASSUME TypeOK, Structure, NEW c \in Caller
    PROVE  queued[c] <=> c \in Dismissed
<1>1. ASSUME queued[c] PROVE c \in Dismissed
  <2>1. PICK i \in 1..Len(queues[prio[c]]) : queues[prio[c]][i] = c
    BY <1>1 DEF Structure, CallerState
  <2>2. queues[prio[c]] \in Seq(Caller) /\ prio[c] \in Priority
    BY DEF TypeOK
  <2>3. c \in Range(queues[prio[c]])
    BY <2>1, <2>2 DEF Range
  <2> QED
    BY <2>2, <2>3 DEF Dismissed
<1>2. ASSUME c \in Dismissed PROVE queued[c]
  <2>1. PICK p \in Priority : c \in Range(queues[p])
    BY <1>2 DEF Dismissed
  <2>2. PICK i \in DOMAIN queues[p] : queues[p][i] = c
    BY <2>1 DEF Range
  <2>3. queues[p] \in Seq(Caller)
    BY DEF TypeOK
  <2>4. i \in 1..Len(queues[p])
    BY <2>2, <2>3
  <2> QED
    BY <2>2, <2>4 DEF Structure, QueueEntries
<1> QED
  BY <1>1, <1>2

\* close() dismisses exactly the queued callers.
LEMMA StructureClose ==
    ASSUME TypeOK, TypeOK', Structure, Close
    PROVE  Structure'
<1>1. \A c \in Caller : queued[c] <=> c \in Dismissed
  BY DismissedAreQueued
<1>2. \A p \in Priority : queues'[p] = <<>> /\ Len(queues'[p]) = 0
  BY DEF Close
<1>3. QueueEntries' /\ ClosedEmpty'
  BY <1>2 DEF QueueEntries, ClosedEmpty
<1>4. \A c \in Caller : /\ ~queued'[c] /\ pc'[c] = pc[c]
                        /\ grant'[c] = IF queued[c] THEN "nil" ELSE grant[c]
  BY <1>1 DEF Close
<1>5. CallerState'
  BY <1>4 DEF Structure, CallerState
<1> QED
  BY <1>3, <1>5 DEF Structure

\* The queues, flags, channels and positions stay consistent.
LEMMA StructureStep == TypeOK /\ Structure /\ [Next]_vars => Structure'
<1> SUFFICES ASSUME TypeOK, Structure, [Next]_vars PROVE Structure'
  OBVIOUS
<1>1. TypeOK'
  BY TypeStep
<1>2. CASE UNCHANGED vars
  BY <1>2 DEF vars, Structure, QueueEntries, CallerState, ClosedEmpty
<1>3. CASE Close
  BY <1>1, <1>3, StructureClose
<1>4. ASSUME NEW c \in Caller,
             (\E p \in Priority : Begin(c, p)) \/ CancelContext(c) \/ Step(c)
      PROVE  Structure'
  BY <1>1, <1>4, StructureSimpleStep, StructureEnqueue, StructureCancelQueued,
     StructureRelease DEF Step
<1> QED
  BY <1>2, <1>3, <1>4 DEF Next

-----------------------------------------------------------------------------
\* Cardinalities of the set of slot owners.
LEMMA OutstandingCount ==
    /\ IsFiniteSet(Outstanding) /\ Cardinality(Outstanding) \in Nat
    /\ \A c \in Caller \ Outstanding :
          Cardinality(Outstanding \union {c}) = Cardinality(Outstanding) + 1
    /\ \A c \in Outstanding :
          Cardinality(Outstanding \ {c}) = Cardinality(Outstanding) - 1
    /\ \A c \in Outstanding : \A w \in Caller \ Outstanding :
          Cardinality((Outstanding \ {c}) \union {w}) = Cardinality(Outstanding)
<1>1. IsFiniteSet(Outstanding) /\ Cardinality(Outstanding) \in Nat
  BY CallerAssumption, FS_Subset, FS_CardinalityType DEF Outstanding
<1>2. ASSUME NEW c \in Caller \ Outstanding
      PROVE  Cardinality(Outstanding \union {c}) = Cardinality(Outstanding) + 1
  BY <1>1, FS_AddElement
<1>3. ASSUME NEW c \in Outstanding
      PROVE  /\ IsFiniteSet(Outstanding \ {c})
             /\ Cardinality(Outstanding \ {c}) = Cardinality(Outstanding) - 1
  BY <1>1, FS_RemoveElement
<1>4. ASSUME NEW c \in Outstanding, NEW w \in Caller \ Outstanding
      PROVE  Cardinality((Outstanding \ {c}) \union {w}) = Cardinality(Outstanding)
  <2>1. Cardinality((Outstanding \ {c}) \union {w}) = Cardinality(Outstanding \ {c}) + 1
    BY <1>3, FS_AddElement
  <2> QED
    BY <1>1, <1>3, <2>1
<1> QED
  BY <1>1, <1>2, <1>3, <1>4

\* How each kind of step changes the set of slot owners: only an immediate
\* grant adds one, only a release removes one, and a hand-over replaces the
\* releasing caller by the waiter it picked.
LEMMA OutstandingStep ==
    ASSUME TypeOK, TypeOK', Structure, NEW c \in Caller,
           (\E p \in Priority : Begin(c, p)) \/ CancelContext(c) \/ Step(c)
    PROVE  \/ /\ Outstanding' = Outstanding
              /\ active' = active
              /\ ~Admit(c) /\ ~Release(c)
           \/ /\ Admit(c)
              /\ c \notin Outstanding
              /\ Outstanding' = Outstanding \union {c}
           \/ /\ Release(c)
              /\ c \in Outstanding
              /\ \/ /\ Outstanding' = Outstanding \ {c}
                    /\ active' = FreeSlot
                    /\ UNCHANGED <<queues, queued>>
                    /\ closed \/ \A p \in Priority : ~Picks(p)
                 \/ \E p \in Priority :
                       /\ ~closed /\ HandOver(p)
                       /\ Head(queues[p]) \in Caller \ Outstanding
                       /\ Outstanding' = (Outstanding \ {c}) \union {Head(queues[p])}
<1>1. pc[c] \in {"idle", "entering", "holding", "releasing"} => grant[c] = "none"
  BY DEF Structure, CallerState
<1>2. CASE \/ \E p \in Priority : Begin(c, p)
           \/ CancelContext(c) \/ Refuse(c) \/ ObserveDone(c) \/ CancelDequeued(c)
  <2>1. /\ \A d \in Caller : /\ grant'[d] = grant[d]
                             /\ pc'[d] \in {"holding", "releasing"} <=>
                                pc[d] \in {"holding", "releasing"}
        /\ active' = active
    BY <1>2 DEF TypeOK, Begin, CancelContext, Refuse, ObserveDone, CancelDequeued,
       Return, coordinator
  <2>2. Outstanding' = Outstanding
    BY <2>1 DEF Outstanding
  <2>3. ~Admit(c) /\ ~Release(c)
    <3>1. CASE ~Refuse(c)
      BY <1>2, <3>1 DEF TypeOK, Begin, CancelContext, Refuse, ObserveDone,
         CancelDequeued, Admit, Release, Return
    <3>2. CASE Refuse(c)
      BY <3>2 DEF TypeOK, Refuse, Admit, Release, Return
    <3> QED
      BY <3>1, <3>2
  <2> QED
    BY <2>1, <2>2, <2>3
<1>3. CASE Admit(c)
  <2>1. c \notin Outstanding
    BY <1>1, <1>3 DEF Outstanding, Admit
  <2>2. Outstanding' = Outstanding \union {c}
    BY <1>3 DEF Outstanding, Admit, TypeOK
  <2> QED
    BY <1>3, <2>1, <2>2
<1>4. CASE Enqueue(c) \/ CancelQueued(c)
  <2>1. /\ \A d \in Caller : /\ grant'[d] = grant[d]
                             /\ pc'[d] \in {"holding", "releasing"} <=>
                                pc[d] \in {"holding", "releasing"}
        /\ active' = active
    BY <1>4 DEF TypeOK, Enqueue, CancelQueued, Return
  <2>2. Outstanding' = Outstanding
    BY <2>1 DEF Outstanding
  <2>3. ~Admit(c) /\ ~Release(c)
    BY <1>4 DEF TypeOK, Enqueue, CancelQueued, Return, Admit, Release
  <2> QED
    BY <2>1, <2>2, <2>3
<1>5. CASE ReceiveReservation(c) \/ ReceiveClosed(c) \/ DrainReservation(c) \/ DrainNothing(c)
  <2>1. /\ \A d \in Caller \ {c} : grant'[d] = grant[d] /\ pc'[d] = pc[d]
        /\ pc[c] \in {"waiting", "draining"}
        /\ grant'[c] = "none"
        /\ pc'[c] \in {"holding", "releasing"} <=> grant[c] = "reservation"
        /\ active' = active
    BY <1>5 DEF TypeOK, Return, ReceiveReservation, ReceiveClosed, DrainReservation,
       DrainNothing, coordinator
  <2>2. Outstanding' = Outstanding
    BY <2>1 DEF Outstanding
  <2>3. ~Admit(c) /\ ~Release(c)
    BY <2>1 DEF Admit, Release
  <2> QED
    BY <2>1, <2>2, <2>3
<1>6. CASE Release(c)
  <2>1. /\ c \in Outstanding /\ grant[c] = "none"
        /\ pc' = [pc EXCEPT ![c] = "idle"]
    BY <1>1, <1>6 DEF Outstanding, Release, Return
  <2>2. CASE /\ closed \/ \A p \in Priority : ~Picks(p)
             /\ active' = FreeSlot
             /\ UNCHANGED <<queues, queued, grant>>
    <3>1. Outstanding' = Outstanding \ {c}
      BY <2>1, <2>2 DEF Outstanding, TypeOK
    <3> QED
      BY <1>6, <2>1, <2>2, <3>1
  <2>3. ASSUME NEW p \in Priority, ~closed, HandOver(p)
        PROVE  /\ Head(queues[p]) \in Caller \ Outstanding
               /\ Outstanding' = (Outstanding \ {c}) \union {Head(queues[p])}
    <3> DEFINE w == Head(queues[p])
    <3>1. /\ w \in Caller /\ grant[w] = "none" /\ pc[w] \in {"waiting", "cancelling"}
          /\ grant' = [grant EXCEPT ![w] = "reservation"]
      BY <2>3, HandOverHead
    <3> HIDE DEF w
    <3>2. w \in Caller \ Outstanding
      BY <3>1 DEF Outstanding
    <3>3. Outstanding' = (Outstanding \ {c}) \union {w}
      <4>1. w # c
        BY <2>1, <3>2
      <4>2. \A d \in Caller :
               /\ grant'[d] = "reservation" <=> (d = w \/ grant[d] = "reservation")
               /\ pc'[d] \in {"holding", "releasing"} <=>
                  (d # c /\ pc[d] \in {"holding", "releasing"})
        BY <2>1, <3>1 DEF TypeOK
      <4> QED
        BY <2>1, <3>1, <4>1, <4>2 DEF Outstanding
    <3> QED
      BY <3>2, <3>3 DEF w
  <2>4. \/ \E p \in Priority : ~closed /\ HandOver(p)
        \/ /\ closed \/ \A p \in Priority : ~Picks(p)
           /\ active' = FreeSlot
           /\ UNCHANGED <<queues, queued, grant>>
    BY <1>6 DEF Release
  <2> QED
    BY <1>6, <2>1, <2>2, <2>3, <2>4
<1> QED
  BY <1>2, <1>3, <1>4, <1>5, <1>6 DEF Step

\* A class is picked whenever somebody waits.
LEMMA SomebodyPicked ==
    (\E p \in Priority : queues[p] # <<>>) => \E p \in Priority : Picks(p)
  BY DEF Priority, Picks, Waiting, MaintenanceDue, ImportDue

\* close() takes no slot away.
LEMMA CloseKeepsOutstanding ==
    ASSUME TypeOK, Structure, Close
    PROVE  Outstanding' = Outstanding /\ Queueing' = {}
<1>1. \A c \in Caller :
         /\ pc'[c] = pc[c]
         /\ queued'[c] = (queued[c] /\ c \notin Dismissed)
         /\ grant'[c] = IF c \in Dismissed THEN "nil" ELSE grant[c]
  BY DEF Close
<1>2. \A c \in Dismissed : queued[c] /\ grant[c] = "none"
  BY DismissedAreQueued DEF Structure, CallerState, Dismissed
<1>3. \A c \in Caller : ~queued'[c]
  BY <1>1, DismissedAreQueued
<1> QED
  BY <1>1, <1>2, <1>3 DEF Outstanding, Queueing

\* Slots are counted exactly, stay within the limit, and none idles.
LEMMA SlotStep ==
    TypeOK /\ Structure /\ SlotInv /\ [Next]_vars => SlotInv'
<1> SUFFICES ASSUME TypeOK, Structure, SlotInv, [Next]_vars PROVE SlotInv'
  OBVIOUS
<1>1. TypeOK'
  BY TypeStep
<1>2. /\ active = Cardinality(Outstanding) /\ active \in Nat
      /\ active <= Concurrency /\ Concurrency \in Nat
      /\ (\E p \in Priority : queues[p] # <<>>) => active = Concurrency
  BY ConcurrencyAssumption DEF SlotInv, SlotAccounting, TypeOK
<1>3. CASE UNCHANGED vars
  BY <1>3 DEF vars, SlotInv, SlotAccounting, Outstanding
<1>4. CASE Close
  <2>1. Outstanding' = Outstanding
    BY <1>4, CloseKeepsOutstanding
  <2>2. active' = active /\ \A p \in Priority : queues'[p] = <<>>
    BY <1>4 DEF Close
  <2> QED
    BY <1>2, <2>1, <2>2 DEF SlotInv, SlotAccounting
<1>5. ASSUME NEW c \in Caller,
             (\E p \in Priority : Begin(c, p)) \/ CancelContext(c) \/ Step(c)
      PROVE  SlotInv'
  <2>1. CASE Outstanding' = Outstanding /\ active' = active /\ ~Admit(c) /\ ~Release(c)
    <3>1. (\E p \in Priority : queues'[p] # <<>>) => active = Concurrency
      <4>1. CASE Enqueue(c)
        <5>1. ~(active < Concurrency /\ QueuedCount = 0)
          BY <4>1 DEF Enqueue
        <5> QED
          BY <1>2, <5>1, QueuedCountEmpty
      <4>2. CASE CancelQueued(c)
        <5>1. PICK i \in 1..Len(queues[prio[c]]) : queues[prio[c]][i] = c
          BY <4>2 DEF CancelQueued
        <5>2. queues[prio[c]] \in Seq(Caller) /\ prio[c] \in Priority
          BY DEF TypeOK
        <5>3. queues[prio[c]] # <<>>
          BY <5>1, <5>2
        <5> QED
          BY <1>2, <5>2, <5>3
      <4>3. CASE ~Enqueue(c) /\ ~CancelQueued(c)
        <5>1. queues' = queues
          BY <1>5, <2>1, <4>3 DEF Step, Begin, CancelContext, Refuse, ObserveDone,
             ReceiveReservation, ReceiveClosed, CancelDequeued, DrainReservation,
             DrainNothing, coordinator
        <5> QED
          BY <1>2, <5>1
      <4> QED
        BY <4>1, <4>2, <4>3
    <3> QED
      BY <1>2, <2>1, <3>1 DEF SlotInv, SlotAccounting
  <2>2. CASE Admit(c) /\ c \notin Outstanding /\ Outstanding' = Outstanding \union {c}
    <3>1. active' = active + 1 /\ active < Concurrency /\ queues' = queues
          /\ QueuedCount = 0
      BY <2>2 DEF Admit
    <3>2. Cardinality(Outstanding') = Cardinality(Outstanding) + 1
      BY <2>2, OutstandingCount
    <3>3. \A p \in Priority : queues'[p] = <<>>
      BY <3>1, QueuedCountEmpty
    <3> QED
      BY <1>2, <3>1, <3>2, <3>3 DEF SlotInv, SlotAccounting
  <2>3. CASE /\ c \in Outstanding
             /\ \/ /\ Outstanding' = Outstanding \ {c}
                   /\ active' = FreeSlot
                   /\ UNCHANGED <<queues, queued>>
                   /\ closed \/ \A p \in Priority : ~Picks(p)
                \/ \E p \in Priority :
                      /\ ~closed /\ HandOver(p)
                      /\ Head(queues[p]) \in Caller \ Outstanding
                      /\ Outstanding' = (Outstanding \ {c}) \union {Head(queues[p])}
    <3>1. Cardinality(Outstanding) # 0
      BY <2>3, OutstandingCount, FS_EmptySet
    <3>2. FreeSlot = active - 1
      BY <1>2, <3>1 DEF FreeSlot
    <3>3. ASSUME Outstanding' = Outstanding \ {c}, active' = FreeSlot, queues' = queues,
                 closed \/ \A p \in Priority : ~Picks(p)
          PROVE  SlotInv'
      <4>1. Cardinality(Outstanding') = Cardinality(Outstanding) - 1
        BY <2>3, <3>3, OutstandingCount
      <4>2. \A p \in Priority : queues'[p] = <<>>
        BY <3>3, SomebodyPicked DEF Structure, ClosedEmpty
      <4> QED
        BY <1>2, <3>2, <3>3, <4>1, <4>2 DEF SlotInv, SlotAccounting
    <3>4. ASSUME NEW p \in Priority, HandOver(p),
                 Head(queues[p]) \in Caller \ Outstanding,
                 Outstanding' = (Outstanding \ {c}) \union {Head(queues[p])}
          PROVE  SlotInv'
      <4>1. Cardinality(Outstanding') = Cardinality(Outstanding)
        BY <2>3, <3>4, OutstandingCount
      <4>2. active' = FreeSlot + 1 /\ queues[p] # <<>>
        BY <3>4 DEF HandOver, Picks, Waiting
      <4> QED
        BY <1>2, <3>2, <4>1, <4>2 DEF SlotInv, SlotAccounting
    <3> QED
      BY <2>3, <3>3, <3>4
  <2> QED
    BY <1>1, <1>5, <2>1, <2>2, <2>3, OutstandingStep
<1> QED
  BY <1>3, <1>4, <1>5 DEF Next

-----------------------------------------------------------------------------
\* The pop policy keeps the history of passed-over grants within the counters.
LEMMA BypassHandOver ==
    ASSUME TypeOK, TypeOK', BypassInv, NEW p \in Priority, HandOver(p)
    PROVE  BypassInv'
<1> USE DEF BypassInv
<1>1. /\ queues[p] # <<>>
      /\ queues' = [queues EXCEPT ![p] = Tail(@)]
      /\ sinceImport' = IF p = "session" THEN CountUpTo(sinceImport, SessionBurst) ELSE 0
      /\ sinceMaint' = IF p = "maintenance" THEN 0 ELSE CountUpTo(sinceMaint, MaintenanceBurst)
      /\ \A q \in Priority :
            bypass'[q] = IF q = p \/ queues[q] = <<>> THEN 0 ELSE bypass[q] + 1
  BY DEF HandOver, PopWaiter, Picks, Waiting
<1>2. /\ \A q \in Priority : bypass[q] \in Nat
      /\ sinceImport \in 0..SessionBurst /\ sinceMaint \in 0..MaintenanceBurst
      /\ SessionBurst \in Nat \ {0} /\ MaintenanceBurst \in Nat
      /\ SessionBurst < MaintenanceBurst
  BY BurstAssumption DEF TypeOK
<1>3. \A q \in Priority : queues'[q] = <<>> => bypass'[q] = 0
  <2> TAKE q \in Priority
  <2>1. CASE q = p
    BY <1>1, <2>1
  <2>2. CASE q # p
    BY <1>1, <2>2 DEF TypeOK
  <2> QED
    BY <2>1, <2>2
<1>4. CASE p = "session"
  <2>1. /\ queues["maintenance"] # <<>> => sinceMaint < MaintenanceBurst
        /\ queues["import"] # <<>> => sinceImport < SessionBurst
    BY <1>2, <1>4 DEF HandOver, Picks, MaintenanceDue, ImportDue, Waiting
  <2>2. bypass'["session"] = 0
    BY <1>1, <1>4 DEF Priority
  <2>3. bypass'["maintenance"] <= sinceMaint'
    BY <1>1, <1>2, <1>4, <2>1 DEF CountUpTo, Priority
  <2>4. CASE queues["import"] = <<>>
    BY <1>1, <1>2, <1>3, <1>4, <2>2, <2>3, <2>4 DEF CountUpTo, Priority
  <2>5. CASE queues["import"] # <<>>
    <3>1. /\ sinceImport' = sinceImport + 1
          /\ bypass'["import"] = bypass["import"] + 1
      BY <1>1, <1>2, <1>4, <2>1, <2>5 DEF CountUpTo, Priority
    <3>2. sinceMaint = sinceImport => sinceMaint' = sinceMaint + 1
      BY <1>1, <1>2, <1>4, <2>1, <2>5 DEF CountUpTo
    <3> QED
      BY <1>2, <1>3, <2>2, <2>3, <3>1, <3>2 DEF Priority
  <2> QED
    BY <2>4, <2>5
<1>5. CASE p = "import"
  <2>1. /\ queues["maintenance"] # <<>> => sinceMaint < MaintenanceBurst
        /\ queues["session"] # <<>> => sinceImport >= SessionBurst
    BY <1>2, <1>5 DEF HandOver, Picks, MaintenanceDue, ImportDue, Waiting
  <2>2. bypass'["import"] = 0 /\ sinceImport' = 0
    BY <1>1, <1>5 DEF Priority
  <2>3. bypass'["maintenance"] <= sinceMaint'
    BY <1>1, <1>2, <1>5, <2>1 DEF CountUpTo, Priority
  <2>4. bypass'["session"] \in Nat /\ bypass'["session"] <= 1
    BY <1>1, <1>2, <1>5, <2>1 DEF Priority
  <2>5. bypass'["import"] <= sinceImport'
    BY <2>2
  <2>6. /\ bypass'["session"] <= 2
        /\ bypass'["session"] = 2 => sinceImport' = 0 /\ sinceMaint' = 0
        /\ bypass'["session"] = 1 => sinceImport' = 0
    BY <2>2, <2>4
  <2> QED
    BY <1>3, <2>3, <2>5, <2>6
<1>6. CASE p = "maintenance"
  <2>1. \/ sinceMaint >= MaintenanceBurst
        \/ queues["session"] = <<>> /\ queues["import"] = <<>>
    BY <1>6 DEF HandOver, Picks, MaintenanceDue, Waiting
  <2>2. bypass'["maintenance"] = 0 /\ sinceImport' = 0 /\ sinceMaint' = 0
    BY <1>1, <1>6 DEF Priority
  <2>3. bypass'["session"] <= 2
    BY <1>1, <1>2, <1>6, <2>1 DEF Priority
  <2>4. bypass'["import"] <= SessionBurst + 1
    BY <1>1, <1>2, <1>6, <2>1 DEF Priority
  <2> QED
    BY <1>2, <1>3, <2>2, <2>3, <2>4 DEF Priority, TypeOK
<1> QED
  BY <1>4, <1>5, <1>6 DEF Priority

LEMMA BypassStep ==
    TypeOK /\ BypassInv /\ [Next]_vars => BypassInv'
<1> SUFFICES ASSUME TypeOK, BypassInv, [Next]_vars PROVE BypassInv'
  OBVIOUS
<1>1. TypeOK'
  BY TypeStep
<1>2. CASE UNCHANGED vars
  BY <1>2 DEF vars, BypassInv
<1>3. CASE Close
  BY <1>3, BurstAssumption DEF Close, BypassInv, TypeOK, Priority
<1>4. ASSUME NEW c \in Caller,
             (\E p \in Priority : Begin(c, p)) \/ CancelContext(c) \/ Step(c)
      PROVE  BypassInv'
  <2>1. CASE Enqueue(c)
    <3>1. /\ \A p \in Priority : queues'[p] = <<>> => queues[p] = <<>>
          /\ UNCHANGED <<bypass, sinceImport, sinceMaint>>
      <4>1. queues' = [queues EXCEPT ![prio[c]] = Append(@, c)]
            /\ UNCHANGED <<bypass, sinceImport, sinceMaint>>
        BY <2>1 DEF Enqueue
      <4>2. queues[prio[c]] \in Seq(Caller)
        BY DEF TypeOK
      <4>3. Append(queues[prio[c]], c) # <<>>
        BY <4>2
      <4> QED
        BY <4>1, <4>3 DEF TypeOK
    <3> QED
      BY <3>1 DEF BypassInv
  <2>2. CASE CancelQueued(c)
    <3>1. /\ \A p \in Priority : bypass'[p] = IF queues'[p] = <<>> THEN 0 ELSE bypass[p]
          /\ UNCHANGED <<sinceImport, sinceMaint>>
      BY <2>2 DEF CancelQueued
    <3>2. /\ \A p \in Priority : bypass[p] \in Nat
          /\ sinceImport \in Nat /\ sinceMaint \in Nat
      BY BurstAssumption DEF TypeOK
    <3>3. /\ bypass'["maintenance"] = 0 \/ bypass'["maintenance"] = bypass["maintenance"]
          /\ bypass'["import"] = 0 \/ bypass'["import"] = bypass["import"]
          /\ bypass'["session"] = 0 \/ bypass'["session"] = bypass["session"]
          /\ \A p \in Priority : queues'[p] = <<>> => bypass'[p] = 0
      BY <3>1 DEF Priority
    <3> QED
      BY <3>1, <3>2, <3>3 DEF BypassInv, Priority
  <2>3. CASE Release(c)
    <3>1. CASE \E p \in Priority : HandOver(p)
      BY <1>1, <3>1, BypassHandOver
    <3>2. CASE UNCHANGED <<queues, sinceImport, sinceMaint, bypass>>
      BY <3>2 DEF BypassInv
    <3> QED
      BY <2>3, <3>1, <3>2 DEF Release
  <2>4. CASE ~Enqueue(c) /\ ~CancelQueued(c) /\ ~Release(c)
    <3>1. UNCHANGED <<queues, sinceImport, sinceMaint, bypass>>
      BY <1>4, <2>4 DEF Step, Begin, CancelContext, Refuse, Admit, ObserveDone,
         ReceiveReservation, ReceiveClosed, CancelDequeued, DrainReservation,
         DrainNothing, coordinator
    <3> QED
      BY <3>1 DEF BypassInv
  <2> QED
    BY <2>1, <2>2, <2>3, <2>4
<1> QED
  BY <1>2, <1>3, <1>4 DEF Next

-----------------------------------------------------------------------------
\* The inductive invariant holds initially, ...
LEMMA InitInv == Init => IInv
<1> SUFFICES ASSUME Init PROVE IInv
  OBVIOUS
<1>1. TypeOK
  BY InitType
<1>2. Structure
  BY DEF Init, Structure, QueueEntries, CallerState, ClosedEmpty
<1>3. SlotInv
  <2>1. Outstanding = {}
    BY DEF Init, Outstanding
  <2>2. active = Cardinality(Outstanding)
    BY <2>1, FS_EmptySet DEF Init
  <2> QED
    BY <2>2, ConcurrencyAssumption DEF Init, SlotInv, SlotAccounting
<1>4. BypassInv
  BY BurstAssumption DEF Init, BypassInv, Priority
<1> QED
  BY <1>1, <1>2, <1>3, <1>4 DEF IInv

\* ... and is preserved by every step.
LEMMA StepInv == IInv /\ [Next]_vars => IInv'
  BY TypeStep, StructureStep, SlotStep, BypassStep DEF IInv

THEOREM Invariance == Spec => []IInv
  BY InitInv, StepInv, PTL DEF Spec

\* active is the number of reservations that are out, for any number of
\* callers, limit and interleaving of grants and cancellations.
THEOREM SlotsAccounted == Spec => []SlotAccounting
<1>1. IInv => SlotAccounting
  BY DEF IInv, SlotInv
<1> QED
  BY <1>1, Invariance, PTL

\* At most Concurrency writes are admitted at a time.
THEOREM ConcurrencyBounded == Spec => []BoundedConcurrency
<1>1. IInv => BoundedConcurrency
  BY DEF IInv, SlotInv, SlotAccounting, BoundedConcurrency
<1> QED
  BY <1>1, Invariance, PTL

\* No slot is free while a caller waits.
THEOREM NoIdleSlot == Spec => []WorkConserving
<1>1. IInv => WorkConserving
  BY QueuedCountEmpty DEF IInv, SlotInv, WorkConserving
<1> QED
  BY <1>1, Invariance, PTL

\* A class with a waiter is passed over a bounded number of times in a row.
THEOREM BypassBounded == Spec => []BoundedBypass
<1>1. IInv => BoundedBypass
  BY BurstAssumption DEF IInv, TypeOK, BypassInv, BoundedBypass, Priority
<1> QED
  BY <1>1, Invariance, PTL

\* Every caller in the select is queued exactly once or has its answer.
THEOREM NoStrandedCaller == Spec => []NobodyStranded
<1>1. IInv => NobodyStranded
  <2> SUFFICES ASSUME IInv, NEW c \in Caller, pc[c] \in {"waiting", "cancelling"}
               PROVE  NobodyStranded!(c)
    BY DEF NobodyStranded
  <2>0. TypeOK /\ QueueEntries /\ CallerState
    BY DEF IInv, Structure
  <2>1. CASE grant[c] = "none"
    <3>1. queued[c]
      BY <2>0, <2>1 DEF CallerState
    <3>2. PICK i \in 1..Len(queues[prio[c]]) : queues[prio[c]][i] = c
      BY <2>0, <3>1 DEF CallerState
    <3>3. \A j \in 1..Len(queues[prio[c]]) : queues[prio[c]][j] = c <=> j = i
      BY <2>0, <3>2 DEF QueueEntries, TypeOK
    <3> QED
      BY <2>1, <3>1, <3>2, <3>3
  <2>2. CASE grant[c] # "none"
    <3>1. ~queued[c]
      BY <2>0, <2>2 DEF CallerState
    <3>2. ASSUME NEW p \in Priority, c \in Range(queues[p]) PROVE FALSE
      <4>1. queues[p] \in Seq(Caller)
        BY <2>0 DEF TypeOK
      <4>2. PICK i \in 1..Len(queues[p]) : queues[p][i] = c
        BY <3>2, <4>1 DEF Range
      <4> QED
        BY <2>0, <3>1, <4>2 DEF QueueEntries
    <3> QED
      BY <2>2, <3>1, <3>2
  <2> QED
    BY <2>1, <2>2
<1> QED
  BY <1>1, Invariance, PTL

-----------------------------------------------------------------------------
\* After close() the set of slot owners only shrinks.
THEOREM NothingAdmittedAfterClose == Spec => NoAdmissionAfterClose
<1>1. IInv /\ [Next]_vars => [closed => closed' /\ Outstanding' \subseteq Outstanding]_vars
  <2> SUFFICES ASSUME IInv, Next, closed
               PROVE  closed' /\ Outstanding' \subseteq Outstanding
    BY DEF vars
  <2>1. TypeOK /\ TypeOK' /\ Structure
    BY TypeStep DEF IInv
  <2>2. PICK c \in Caller :
           (\E p \in Priority : Begin(c, p)) \/ CancelContext(c) \/ Step(c)
    BY DEF Next, Close
  <2>3. closed'
    BY <2>2 DEF Step, Begin, CancelContext, Refuse, Admit, Enqueue, ObserveDone,
       ReceiveReservation, ReceiveClosed, CancelQueued, CancelDequeued,
       DrainReservation, DrainNothing, Release, coordinator
  <2>4. ~Admit(c)
    BY DEF Admit
  <2>5. Outstanding' \subseteq Outstanding
    BY <2>1, <2>2, <2>4, OutstandingStep
  <2> QED
    BY <2>3, <2>5
<1> QED
  BY <1>1, Invariance, PTL DEF Spec, NoAdmissionAfterClose

-----------------------------------------------------------------------------
\* Callers queue exactly while some queue has an entry.
LEMMA NobodyQueued ==
    ASSUME TypeOK, Structure
    PROVE  Queueing = {} <=> \A p \in Priority : queues[p] = <<>>
<1>1. ASSUME NEW c \in Caller, queued[c], \A p \in Priority : queues[p] = <<>>
      PROVE  FALSE
  <2>1. PICK i \in 1..Len(queues[prio[c]]) : queues[prio[c]][i] = c
    BY <1>1 DEF Structure, CallerState
  <2>2. queues[prio[c]] = <<>>
    BY <1>1 DEF TypeOK
  <2> QED
    BY <2>1, <2>2
<1>2. ASSUME NEW p \in Priority, queues[p] # <<>>
      PROVE  Queueing # {}
  <2>1. queues[p] \in Seq(Caller)
    BY DEF TypeOK
  <2>2. 1 \in 1..Len(queues[p]) /\ queues[p][1] \in Caller
    BY <1>2, <2>1, TailProperties
  <2> QED
    BY <2>2 DEF Structure, QueueEntries, Queueing
<1> QED
  BY <1>1, <1>2 DEF Queueing

\* The gate counts with the same cardinality.
LEMMA GateCardinality == \A S : Gate!Cardinality(S) = Cardinality(S)
  BY DEF Gate!Cardinality, Cardinality

LEMMA InitGate == Init => Gate!GateInit
<1> SUFFICES ASSUME Init PROVE Gate!GateInit
  OBVIOUS
<1>1. Outstanding = {} /\ Queueing = {}
  BY DEF Init, Outstanding, Queueing
<1> QED
  BY <1>1 DEF Init, Gate!GateInit

\* The callers' steps, sorted by the step of the gate they implement.
LEMMA CallerGateStep ==
    ASSUME IInv, NEW c \in Caller,
           (\E p \in Priority : Begin(c, p)) \/ CancelContext(c) \/ Step(c)
    PROVE  [Gate!GateNext]_(Gate!gateVars)
<1>1. /\ TypeOK /\ Structure /\ TypeOK'
      /\ active = Cardinality(Outstanding) /\ active \in Nat
      /\ active <= Concurrency /\ Concurrency \in Nat
      /\ (\E p \in Priority : queues[p] # <<>>) => active = Concurrency
  <2>1. TypeOK'
    BY TypeStep DEF IInv, Next
  <2> QED
    BY <2>1, ConcurrencyAssumption DEF IInv, SlotInv, SlotAccounting, TypeOK
<1>2. closed' = closed
  BY DEF Step, Begin, CancelContext, Refuse, Admit, Enqueue, ObserveDone,
     ReceiveReservation, ReceiveClosed, CancelQueued, CancelDequeued,
     DrainReservation, DrainNothing, Release, coordinator
<1>3. pc[c] \in {"entering", "holding", "releasing"} => ~queued[c] /\ grant[c] = "none"
  BY <1>1 DEF Structure, CallerState
<1>4. CASE Admit(c)
  <2>1. Queueing = {} /\ Queueing' = Queueing
    BY <1>1, <1>4, NobodyQueued, QueuedCountEmpty DEF Admit, Queueing
  <2>2. c \notin Outstanding /\ Outstanding' = Outstanding \union {c}
    BY <1>1, <1>4, OutstandingStep DEF Admit, Release
  <2>3. Gate!Enter(c)
    BY <1>1, <1>2, <1>4, <2>1, <2>2, GateCardinality DEF Admit, Gate!Enter
  <2> QED
    BY <2>3 DEF Gate!GateNext
<1>5. CASE Enqueue(c)
  <2>1. c \notin Queueing /\ Queueing' = Queueing \union {c}
    BY <1>1, <1>3, <1>5 DEF Enqueue, Queueing, TypeOK
  <2>2. c \notin Outstanding /\ Outstanding' = Outstanding
    BY <1>3, <1>5 DEF Enqueue, Outstanding, TypeOK
  <2>3. Queueing # {} \/ Cardinality(Outstanding) >= Concurrency
    BY <1>1, <1>5, NobodyQueued, QueuedCountEmpty DEF Enqueue
  <2>4. Gate!Join(c)
    BY <1>2, <1>5, <2>1, <2>2, <2>3, GateCardinality DEF Enqueue, Gate!Join
  <2> QED
    BY <2>4 DEF Gate!GateNext
<1>6. CASE CancelQueued(c)
  <2>1. c \in Queueing /\ Queueing' = Queueing \ {c}
    BY <1>1, <1>6 DEF CancelQueued, Queueing, TypeOK
  <2>2. Outstanding' = Outstanding
    BY <1>1, <1>6, OutstandingStep DEF CancelQueued, Admit, Release
  <2>3. Gate!Leave(c)
    BY <1>2, <2>1, <2>2 DEF Gate!Leave
  <2> QED
    BY <2>3 DEF Gate!GateNext
<1>7. CASE Release(c)
  <2>1. c \in Outstanding /\ Cardinality(Outstanding) = active
    BY <1>1, <1>7 DEF Outstanding, Release
  <2>2. ASSUME Outstanding' = Outstanding \ {c}, UNCHANGED queued,
               closed \/ \A p \in Priority : ~Picks(p)
        PROVE  Gate!Fill(Outstanding \ {c}, {}, Concurrency)
    <3>1. Queueing = {} /\ Queueing' = {}
      BY <1>1, <2>2, SomebodyPicked, NobodyQueued
         DEF Structure, ClosedEmpty, Queueing
    <3> QED
      BY <2>2, <3>1 DEF Gate!Fill
  <2>3. ASSUME NEW p \in Priority, HandOver(p), Head(queues[p]) \in Caller \ Outstanding,
               Outstanding' = (Outstanding \ {c}) \union {Head(queues[p])}
        PROVE  /\ {Head(queues[p])} \in SUBSET Queueing
               /\ Gate!Fill(Outstanding \ {c}, {Head(queues[p])}, Concurrency)
    <3> DEFINE w == Head(queues[p])
    <3>1. /\ queues[p] # <<>> /\ w \in Caller /\ queued[w]
          /\ queued' = [queued EXCEPT ![w] = FALSE]
      BY <1>1, <2>3, HandOverHead
    <3>2. Cardinality((Outstanding \ {c}) \union {w}) = Concurrency
      BY <1>1, <2>1, <2>3, <3>1, OutstandingCount
    <3>3. w \in Caller \ Outstanding /\ Outstanding' = (Outstanding \ {c}) \union {w}
      BY <2>3
    <3> HIDE DEF w
    <3>4. {w} \subseteq Queueing /\ Queueing' = Queueing \ {w}
      BY <1>1, <3>1 DEF Queueing, TypeOK
    <3>5. Gate!Fill(Outstanding \ {c}, {w}, Concurrency)
      BY <1>1, <3>2, <3>3, <3>4, GateCardinality DEF Gate!Fill
    <3> QED
      BY <3>4, <3>5 DEF w
  <2>4. ~Admit(c)
    BY <1>7 DEF Admit, Release
  <2>5. \E W \in SUBSET Queueing : Gate!Fill(Outstanding \ {c}, W, Concurrency)
    <3>1. CASE /\ Outstanding' = Outstanding \ {c} /\ UNCHANGED queued
               /\ closed \/ \A p \in Priority : ~Picks(p)
      <4>1. {} \in SUBSET Queueing
        OBVIOUS
      <4> QED
        BY <2>2, <3>1, <4>1
    <3>2. CASE \E p \in Priority :
                  /\ HandOver(p) /\ Head(queues[p]) \in Caller \ Outstanding
                  /\ Outstanding' = (Outstanding \ {c}) \union {Head(queues[p])}
      BY <2>3, <3>2
    <3> QED
      BY <1>1, <1>7, <2>4, <3>1, <3>2, OutstandingStep
  <2>6. Gate!GiveBack(c)
    BY <1>2, <2>1, <2>5 DEF Gate!GiveBack
  <2> QED
    BY <2>6 DEF Gate!GateNext
<1>8. CASE ~Admit(c) /\ ~Enqueue(c) /\ ~CancelQueued(c) /\ ~Release(c)
  <2>1. Outstanding' = Outstanding
    BY <1>1, <1>8, OutstandingStep
  <2>2. queued' = queued
    BY <1>8 DEF Step, Begin, CancelContext, Refuse, ObserveDone, ReceiveReservation,
       ReceiveClosed, CancelDequeued, DrainReservation, DrainNothing, coordinator
  <2> QED
    BY <1>2, <2>1, <2>2 DEF Gate!gateVars, Queueing
<1> QED
  BY <1>4, <1>5, <1>6, <1>7, <1>8

\* Every step of the coordinator is a step of the gate, or changes nothing
\* that the gate sees.
LEMMA GateStep == IInv /\ [Next]_vars => [Gate!GateNext]_(Gate!gateVars)
<1> SUFFICES ASSUME IInv, [Next]_vars PROVE [Gate!GateNext]_(Gate!gateVars)
  OBVIOUS
<1>1. CASE UNCHANGED vars
  BY <1>1 DEF vars, Outstanding, Queueing, Gate!gateVars
<1>2. CASE Close
  <2>1. Outstanding' = Outstanding /\ Queueing' = {}
    BY <1>2, CloseKeepsOutstanding DEF IInv
  <2>2. Gate!Shut
    BY <1>2, <2>1 DEF Gate!Shut, Close
  <2> QED
    BY <2>2 DEF Gate!GateNext
<1> QED
  BY <1>1, <1>2, CallerGateStep DEF Next

\* The coordinator refines the admission gate, whatever its parameters.
THEOREM RefinesGate == Spec => ImplementsGate
  BY InitGate, GateStep, Invariance, PTL DEF Spec, ImplementsGate, Gate!GateSpec

=============================================================================
