------------------------ MODULE ResultPersistenceProofs ------------------------
(***************************************************************************)
(* Proofs about ResultPersistence for every number of credentials,         *)
(* producers and workers, every queue limit and every bound: types, that   *)
(* no result is forgotten, that the source hash does not run ahead of the  *)
(* file, that a save replaces only what the credential came from, that a   *)
(* complete drain leaves everything in the store, and that the writer      *)
(* implements StoredContent.                                               *)
(***************************************************************************)
EXTENDS ResultPersistence, FiniteSetTheorems, TLAPS

\* Where a worker has an entry in its hands, and where the credential's lock.
Busy == {"acquiring", "saving", "syncing", "succeeded", "failed", "terminal"}
Inside == {"saving", "syncing"}

\* The queue holds each queued entry once.
QueueSound ==
    /\ \A i \in 1..Len(queue) : status[queue[i]] = "queued"
    /\ \A i, j \in 1..Len(queue) : queue[i] = queue[j] => i = j
    /\ \A a \in Auth : status[a] = "queued" => \E i \in 1..Len(queue) : queue[i] = a

\* An active entry is in the hands of one worker.
Owned ==
    /\ \A w \in Worker : IF pc[w] \in Busy THEN work[w].auth \in Auth ELSE work[w] = NoWork
    /\ \A w \in Worker : work[w].auth # NoAuth => status[work[w].auth] = "active"
    /\ \A v, w \in Worker : work[v].auth = work[w].auth /\ work[v].auth # NoAuth => v = w
    /\ \A a \in Auth : status[a] = "active" => \E w \in Worker : work[w].auth = a

\* A rescan has one worker, and the flag says that it is under way.
Scanned ==
    /\ \A w \in Worker : pc[w] # "scanning" => scan[w] = NoScan
    /\ \A w \in Worker : pc[w] = "scanning" => rescanRunning
    /\ \A v, w \in Worker : pc[v] = "scanning" /\ pc[w] = "scanning" => v = w

\* Once the coordinator closes, whoever brings results was abandoned.
Abandoned ==
    /\ \A a \in Auth : producing[a] # NoProducer => producer[producing[a]] # "none"
    /\ closing => ~accepting /\ \A p \in Producer : producer[p] \in {"none", "abandoned"}
    /\ closed => closing

\* No content is newer than the last event, nor the hash than the content or
\* the file it stands for.
Ordered ==
    \A a \in Auth : /\ mem[a] <= ver[a] /\ disk[a] <= ver[a]
                    /\ src[a] <= mem[a] /\ src[a] <= disk[a]

\* Inside the lock the hash is the one of the snapshot, whose content is newer
\* and still is the credential's or older than it.
Snapped ==
    \A w \in Worker : pc[w] \in Inside =>
        LET a == work[w].auth
        IN  /\ src[a] = work[w].base /\ work[w].base # NoHash
            /\ work[w].base < work[w].snap /\ work[w].snap <= mem[a]
            /\ pc[w] = "syncing" => work[w].snap <= disk[a]

\* Worker w will look at the present content of a, or has it in its hands.
Carries(w, a) ==
    /\ work[w].auth = a
    /\ \/ pc[w] \in {"acquiring", "failed"}
       \/ pc[w] \in Inside /\ work[w].snap = mem[a]

\* The rescan will come to a, or will be run again.
Sought(a) ==
    \/ rescanNeeded
    \/ \E w \in Worker : a \in scan[w].todo \union scan[w].found \/ scan[w].more

\* Who is responsible for a result that is not durable, by the state of the
\* entry: for an active one it is its worker or a newer generation, not a scan.
Tracked ==
    \A a \in Auth : Dirty(a) /\ ~closed /\ ~dropped[a] /\ producing[a] = NoProducer =>
        /\ status[a] = "none" => Sought(a)
        /\ status[a] = "active" => newer[a] \/ \E w \in Worker : Carries(w, a)

IInv == TypeOK /\ QueueSound /\ Owned /\ Scanned /\ Abandoned /\ Ordered /\ Snapped /\ Tracked

-----------------------------------------------------------------------------
\* ensureWorkersLocked() starts workers and moves no other.
Started ==
    /\ pc' \in [Worker -> Stage]
    /\ \A w \in Worker : pc'[w] = pc[w] \/ (pc[w] = "off" /\ pc'[w] = "loop")

LEMMA EnsureWorkersStarted ==
    ASSUME TypeOK, NEW n, EnsureWorkers(n, pc)
    PROVE  Started
  BY DEF EnsureWorkers, Started, TypeOK, Stage

\* What enqueueInternal() does with an accepted result.
Enqueued(a) ==
    \/ /\ status[a] # "none" /\ newer' = [newer EXCEPT ![a] = status[a] = "active"]
       /\ UNCHANGED <<status, resting, queue, rescanNeeded>>
    \/ /\ status[a] = "none" /\ rescanNeeded' = TRUE
       /\ UNCHANGED <<status, newer, resting, queue>>
    \/ /\ status[a] = "none" /\ status' = [status EXCEPT ![a] = "queued"]
       /\ queue' = Append(queue, a)
       /\ UNCHANGED <<newer, resting, rescanNeeded>>

LEMMA EnqueueEffect ==
    ASSUME TypeOK, NEW a \in Auth, Enqueue(a, pc)
    PROVE  Started /\ Enqueued(a)
<1>1. Started
  BY EnsureWorkersStarted DEF Enqueue
<1>2. Enqueued(a)
  BY DEF Enqueue, Overflow, Enqueued, entries
<1> QED
  BY <1>1, <1>2

\* The queue after an entry was added, and after one was taken out.
LEMMA QueueAppended ==
    ASSUME TypeOK, QueueSound, NEW a \in Auth, status[a] # "queued",
           status' = [status EXCEPT ![a] = "queued"], queue' = Append(queue, a)
    PROVE  QueueSound' /\ queue' \in Seq(Auth)
<1>1. /\ queue \in Seq(Auth) /\ Len(queue) \in Nat /\ Len(queue') = Len(queue) + 1
      /\ queue' \in Seq(Auth) /\ queue'[Len(queue) + 1] = a
      /\ \A i \in 1..Len(queue) : queue'[i] = queue[i] /\ queue[i] \in Auth
  BY DEF TypeOK
<1>2. \A b \in Auth : status'[b] = IF b = a THEN "queued" ELSE status[b]
  BY DEF TypeOK
<1>3. \A i \in 1..Len(queue) : queue[i] # a
  BY DEF QueueSound
<1>4. \A i \in 1..Len(queue') : i \in 1..Len(queue) \/ i = Len(queue) + 1
  BY <1>1
<1>5. \A i \in 1..Len(queue') : status'[queue'[i]] = "queued"
  BY <1>1, <1>2, <1>4 DEF QueueSound
<1>6. \A i, j \in 1..Len(queue') : queue'[i] = queue'[j] => i = j
  BY <1>1, <1>3, <1>4 DEF QueueSound
<1>7. ASSUME NEW b \in Auth, status'[b] = "queued" PROVE \E i \in 1..Len(queue') : queue'[i] = b
  <2>1. CASE b = a
    <3>1. Len(queue) + 1 \in 1..Len(queue')
      BY <1>1
    <3> QED
      BY <1>1, <2>1, <3>1
  <2>2. CASE b # a
    <3>1. PICK i \in 1..Len(queue) : queue[i] = b
      BY <1>2, <1>7, <2>2 DEF QueueSound
    <3>2. i \in 1..Len(queue') /\ queue'[i] = b
      BY <1>1, <3>1
    <3> QED
      BY <3>2
  <2> QED
    BY <2>1, <2>2
<1> QED
  BY <1>1, <1>5, <1>6, <1>7 DEF QueueSound

LEMMA Concatenated ==
    ASSUME NEW S, NEW s \in Seq(S), NEW t \in Seq(S)
    PROVE  s \o t \in Seq(S) /\ Len(s \o t) = Len(s) + Len(t)
  OBVIOUS

LEMMA QueueTaken ==
    ASSUME TypeOK, QueueSound, NEW i \in 1..Len(queue),
           status' = [status EXCEPT ![queue[i]] = "active"], queue' = RemoveAt(queue, i)
    PROVE  QueueSound' /\ queue' \in Seq(Auth) /\ queue[i] \in Auth /\ status[queue[i]] = "queued"
<1> DEFINE n == Len(queue)
<1>1. queue \in Seq(Auth) /\ n \in Nat /\ \A j \in 1..n : queue[j] \in Auth
  BY DEF TypeOK
<1> DEFINE left == SubSeq(queue, 1, i - 1)
           right == SubSeq(queue, i + 1, n)
<1>2. /\ left \in Seq(Auth) /\ Len(left) = i - 1
      /\ \A j \in 1..(i - 1) : left[j] = queue[j]
  BY <1>1
<1>3. /\ right \in Seq(Auth) /\ Len(right) = n - i
      /\ \A j \in 1..(n - i) : right[j] = queue[i + j]
  BY <1>1
<1>4. queue' = left \o right
  BY DEF RemoveAt
<1> HIDE DEF left, right
<1>5. queue' \in Seq(Auth) /\ Len(queue') = n - 1
  <2>1. left \o right \in Seq(Auth) /\ Len(left \o right) = Len(left) + Len(right)
    BY <1>2, <1>3, Concatenated
  <2>2. Len(left) + Len(right) = n - 1
    BY <1>1, <1>2, <1>3
  <2> QED
    BY <1>4, <2>1, <2>2
<1>6. \A j \in 1..(n - 1) : queue'[j] = IF j < i THEN queue[j] ELSE queue[j + 1]
  BY <1>1, <1>2, <1>3, <1>4
<1>7. \A b \in Auth : status'[b] = IF b = queue[i] THEN "active" ELSE status[b]
  BY <1>1 DEF TypeOK
<1> DEFINE back(j) == IF j < i THEN j ELSE j + 1
<1>8. \A j \in 1..(n - 1) : back(j) \in 1..n /\ back(j) # i /\ queue'[j] = queue[back(j)]
  BY <1>1, <1>6
<1>9. \A j, k \in 1..(n - 1) : back(j) = back(k) => j = k
  OBVIOUS
<1> HIDE DEF back
<1>10. ASSUME NEW j \in 1..(n - 1) PROVE status'[queue'[j]] = "queued"
  <2>1. queue[back(j)] # queue[i] /\ status[queue[back(j)]] = "queued"
    BY <1>8 DEF QueueSound
  <2> QED
    BY <1>1, <1>7, <1>8, <2>1
<1>11. \A j, k \in 1..(n - 1) : queue'[j] = queue'[k] => j = k
  BY <1>8, <1>9 DEF QueueSound
<1>12. ASSUME NEW b \in Auth, status'[b] = "queued" PROVE \E j \in 1..(n - 1) : queue'[j] = b
  <2>1. b # queue[i] /\ status[b] = "queued"
    BY <1>7, <1>12
  <2>2. PICK k \in 1..n : queue[k] = b
    BY <2>1 DEF QueueSound
  <2>3. CASE k < i
    <3>1. k \in 1..(n - 1) /\ queue'[k] = b
      BY <1>1, <1>6, <2>2, <2>3
    <3> QED
      BY <3>1
  <2>4. CASE k > i
    <3>1. k - 1 \in 1..(n - 1) /\ queue'[k - 1] = b
      BY <1>1, <1>6, <2>2, <2>4
    <3> QED
      BY <3>1
  <2> QED
    BY <2>1, <2>2, <2>3, <2>4
<1>13. status[queue[i]] = "queued"
  BY DEF QueueSound
<1> QED
  BY <1>1, <1>5, <1>10, <1>11, <1>12, <1>13 DEF QueueSound

\* One more event of a credential is a version.
LEMMA NextVersion ==
    ASSUME TypeOK, NEW a \in Auth, MoreEvents(a)
    PROVE  ver[a] + 1 \in Version /\ ver[a] \in Nat
<1>1. ver[a] < MaxVersion
  BY Zenon DEF MoreEvents
<1> QED
  BY <1>1, BoundAssumption DEF TypeOK, Version

LEMMA EntriesCounted == Cardinality(Entries) \in Nat
<1>1. Entries \in SUBSET Auth
  BY DEF Entries
<1> QED
  BY <1>1, FiniteAssumption, FS_Subset, FS_CardinalityType

\* A step that changes no content, entry or worker leaves most of it as it is.
Frame == UNCHANGED <<mem, src, disk, ver, producing, status, newer, queue, rescanNeeded,
                     rescanRunning, pc, work, scan, dropped>>

LEMMA FrameKeeps ==
    ASSUME IInv, Frame, closed => closed', TypeOK', Abandoned'
    PROVE  IInv'
<1>1. QueueSound' /\ Owned' /\ Scanned' /\ Ordered'
  BY DEF IInv, Frame, QueueSound, Owned, Scanned, Ordered
<1>2. Snapped'
  BY DEF IInv, Frame, Snapped
<1>3. Tracked'
  BY DEF IInv, Frame, Tracked, Sought, Carries, Dirty
<1> QED
  BY <1>1, <1>2, <1>3 DEF IInv

LEMMA ProducersKeep ==
    ASSUME IInv, NEW p \in Producer,
           Unregister(p) \/ \E kind \in {"request", "flight"} : Register(p, kind)
    PROVE  IInv'
<1>1. Frame /\ closed' = closed
  BY DEF Unregister, Register, Frame, content, entries, lifecycle
<1>2. TypeOK'
  BY DEF IInv, TypeOK, Unregister, Register, content, entries, lifecycle
<1>3. Unregister(p) => Abandoned'
  BY NullAssumption DEF IInv, TypeOK, Abandoned, Unregister, lifecycle
<1>4. ASSUME NEW kind \in {"request", "flight"}, Register(p, kind) PROVE Abandoned'
  BY <1>4, NullAssumption DEF IInv, TypeOK, Abandoned, Register, lifecycle
<1>5. Abandoned'
  BY <1>3, <1>4
<1> QED
  BY <1>1, <1>2, <1>5, FrameKeeps

LEMMA LifecycleKeeps ==
    ASSUME IInv, StopAccepting \/ AbandonProducers \/ DrainTimeout \/ CloseEnd
    PROVE  IInv'
<1>1. Frame /\ (closed => closed')
  BY DEF StopAccepting, AbandonProducers, DrainTimeout, CloseEnd, Frame, content, entries, producers, lifecycle
<1>2. TypeOK'
  BY DEF IInv, TypeOK, StopAccepting, AbandonProducers, DrainTimeout, CloseEnd, content, entries, producers, lifecycle
<1>3. Abandoned'
  BY NullAssumption DEF IInv, TypeOK, Abandoned, StopAccepting, AbandonProducers, DrainTimeout, CloseEnd,
     Counted, producers, lifecycle
<1> QED
  BY <1>1, <1>2, <1>3, FrameKeeps

LEMMA RetryDueKeeps ==
    ASSUME IInv, NEW a \in Auth, RetryDue(a)
    PROVE  IInv'
<1>1. Frame /\ closed' = closed
  BY DEF RetryDue, Frame, content, producers, lifecycle
<1>2. TypeOK' /\ Abandoned'
  BY DEF IInv, TypeOK, Abandoned, RetryDue, content, producers, lifecycle
<1> QED
  BY <1>1, <1>2, FrameKeeps

LEMMA CloseBeginKeeps ==
    ASSUME IInv, CloseBegin
    PROVE  IInv'
<1>1. Started
  BY EnsureWorkersStarted DEF CloseBegin, IInv
<1>2. UNCHANGED <<content, producers, entries, rescanNeeded, rescanRunning,
                  accepting, closed, expired, work, scan, faults, dropped>>
  BY DEF CloseBegin
<1>3. TypeOK'
  BY <1>1, <1>2 DEF IInv, TypeOK, Started, CloseBegin, content, producers, entries
<1>4. QueueSound' /\ Ordered'
  BY <1>2 DEF IInv, QueueSound, Ordered, content, entries
<1>5. Owned' /\ Scanned'
  BY <1>1, <1>2 DEF IInv, Owned, Scanned, Started, Busy, entries
<1>6. Abandoned'
  BY <1>2 DEF IInv, Abandoned, CloseBegin, Counted, TypeOK, producers
<1>7. Snapped'
  BY <1>1, <1>2 DEF IInv, Snapped, Started, Inside, content
<1>8. Tracked'
  <2>1. \A w \in Worker, a \in Auth : Carries(w, a) => Carries(w, a)'
    BY <1>1, <1>2 DEF Carries, Started, Inside, content
  <2>2. \A a \in Auth : Sought(a)' = Sought(a) /\ Dirty(a)' = Dirty(a)
    BY <1>2 DEF Sought, Dirty, content
  <2> QED
    BY <1>2, <2>1, <2>2 DEF IInv, Tracked, entries, producers
<1> QED
  BY <1>3, <1>4, <1>5, <1>6, <1>7, <1>8 DEF IInv

-----------------------------------------------------------------------------
LEMMA MutateKeeps ==
    ASSUME IInv, NEW p \in Producer, NEW a \in Auth, NEW durable \in BOOLEAN, Mutate(p, a, durable)
    PROVE  IInv'
<1>1. ver[a] + 1 \in Version /\ ver[a] \in Nat /\ ver' = [ver EXCEPT ![a] = ver[a] + 1]
  BY NextVersion DEF Mutate, IInv
<1>2. /\ mem' = IF durable THEN [mem EXCEPT ![a] = ver[a] + 1] ELSE mem
      /\ producing[a] = NoProducer /\ producing' = [producing EXCEPT ![a] = p]
      /\ producer[p] # "none"
      /\ UNCHANGED <<src, disk, producer, entries, rescanNeeded, rescanRunning,
                     lifecycle, pc, work, scan, faults, dropped>>
  BY DEF Mutate
<1>3. TypeOK'
  BY <1>1, <1>2 DEF IInv, TypeOK, entries, lifecycle
<1>4. QueueSound' /\ Owned' /\ Scanned'
  BY <1>2 DEF IInv, QueueSound, Owned, Scanned, entries
<1>5. Abandoned'
  BY <1>2, NullAssumption DEF IInv, Abandoned, TypeOK, lifecycle
<1>6. \A b \in Auth : mem[b] \in Nat /\ mem'[b] \in Nat /\ mem[b] <= mem'[b]
  BY <1>1, <1>2, BoundAssumption DEF IInv, TypeOK, Version, Ordered
<1>7. Ordered'
  <2> SUFFICES ASSUME NEW b \in Auth
               PROVE  /\ mem'[b] <= ver'[b] /\ disk[b] <= ver'[b]
                      /\ src[b] <= mem'[b] /\ src[b] <= disk[b]
    BY <1>2 DEF Ordered
  <2>1. /\ mem[b] \in Int /\ disk[b] \in Int /\ ver[b] \in Int /\ src[b] \in Int
        /\ mem[b] <= ver[b] /\ disk[b] <= ver[b] /\ src[b] <= mem[b] /\ src[b] <= disk[b]
    BY BoundAssumption DEF IInv, TypeOK, Version, NoHash, Ordered
  <2>2. ver'[b] = IF b = a THEN ver[b] + 1 ELSE ver[b]
    BY <1>1 DEF IInv, TypeOK
  <2>3. mem'[b] \in {mem[b], ver'[b]}
    BY <1>1, <1>2 DEF IInv, TypeOK
  <2> QED
    BY <2>1, <2>2, <2>3
<1>8. Snapped'
  <2> SUFFICES ASSUME NEW w \in Worker, pc[w] \in Inside
               PROVE  work[w].snap <= mem'[work[w].auth]
    BY <1>2 DEF IInv, Snapped
  <2>1. work[w].auth \in Auth /\ work[w].snap \in Nat
    BY BoundAssumption DEF IInv, Owned, Busy, Inside, TypeOK, Version
  <2> QED
    BY <1>6, <2>1 DEF IInv, Snapped
<1>9. Tracked'
  <2> SUFFICES ASSUME NEW b \in Auth, Dirty(b)', ~closed', ~dropped'[b], producing'[b] = NoProducer
               PROVE  /\ status'[b] = "none" => Sought(b)'
                      /\ status'[b] = "active" => newer'[b] \/ \E w \in Worker : Carries(w, b)'
    BY DEF Tracked
  <2>1. b # a /\ producing[b] = NoProducer
    BY <1>2, NullAssumption DEF IInv, TypeOK
  <2>2. mem'[b] = mem[b]
    BY <1>2, <2>1 DEF IInv, TypeOK
  <2>3. Dirty(b) /\ ~closed /\ ~dropped[b]
    BY <1>2, <2>2 DEF Dirty, lifecycle
  <2>4. \A w \in Worker : Carries(w, b)' = Carries(w, b)
    BY <1>2, <2>2 DEF Carries
  <2>5. Sought(b)' = Sought(b)
    BY <1>2 DEF Sought
  <2> QED
    BY <1>2, <2>1, <2>3, <2>4, <2>5 DEF IInv, Tracked, entries
<1> QED
  BY <1>3, <1>4, <1>5, <1>7, <1>8, <1>9 DEF IInv

-----------------------------------------------------------------------------
\* What the two callers of enqueueInternal() share: the entries and the workers
\* stay sound, the result is tracked, and nothing is taken from the others.
LEMMA EnqueuedKeeps ==
    ASSUME IInv, NEW a \in Auth, Started, Enqueued(a), producing' \in [Auth -> Producer \union {NoProducer}],
           dropped' \in [Auth -> BOOLEAN], scan' \in [Worker -> [todo : SUBSET Auth, found : SUBSET Auth,
                                                               room : 0..QueueLimit, more : BOOLEAN]],
           UNCHANGED <<content, producer, rescanRunning, lifecycle, work, faults>>
    PROVE  /\ TypeOK' /\ QueueSound' /\ Owned' /\ Snapped'
           /\ scan' = scan => Scanned'
<1>1. QueueSound' /\ queue' \in Seq(Auth)
  <2>1. CASE status' = [status EXCEPT ![a] = "queued"] /\ queue' = Append(queue, a) /\ status[a] = "none"
    BY <2>1, QueueAppended DEF IInv
  <2>2. CASE status' = status /\ queue' = queue
    BY <2>2 DEF IInv, QueueSound, TypeOK
  <2> QED
    BY <2>1, <2>2 DEF Enqueued
<1>2. /\ status' \in [Auth -> {"none", "queued", "active"}] /\ newer' \in [Auth -> BOOLEAN]
      /\ resting' = resting /\ rescanNeeded' \in BOOLEAN
  BY DEF Enqueued, IInv, TypeOK
<1>3. TypeOK'
  BY <1>1, <1>2 DEF Started, IInv, TypeOK, content, lifecycle
<1>4. \A b \in Auth : status'[b] = "active" <=> status[b] = "active"
  BY DEF Enqueued, IInv, TypeOK
<1>5. \A w \in Worker : /\ pc'[w] \in Busy <=> pc[w] \in Busy
                        /\ pc'[w] = "scanning" <=> pc[w] = "scanning"
                        /\ pc[w] \in Inside \/ pc'[w] \in Inside => pc'[w] = pc[w]
  BY DEF Started, Busy, Inside
<1>6. Owned'
  BY <1>4, <1>5 DEF IInv, Owned, TypeOK, NoWork
<1>7. Snapped'
  BY <1>5 DEF IInv, Snapped, Inside, content
<1>8. scan' = scan => Scanned'
  BY <1>5 DEF IInv, Scanned
<1> QED
  BY <1>1, <1>3, <1>6, <1>7, <1>8

LEMMA EnqueuedTracks ==
    ASSUME TypeOK, NEW a \in Auth, Enqueued(a)
    PROVE  /\ status'[a] = "none" => Sought(a)'
           /\ status'[a] = "active" => newer'[a]
  BY DEF TypeOK, Enqueued, Sought

LEMMA EnqueuedOthers ==
    ASSUME TypeOK, NEW a \in Auth, NEW b \in Auth \ {a}, Started, Enqueued(a),
           UNCHANGED <<content, work>>
    PROVE  /\ status'[b] = status[b] /\ newer'[b] = newer[b]
           /\ \A w \in Worker : Carries(w, b) => Carries(w, b)'
<1>1. status'[b] = status[b] /\ newer'[b] = newer[b]
  BY DEF TypeOK, Enqueued
<1>2. \A w \in Worker : Carries(w, b) => Carries(w, b)'
  BY DEF Carries, Started, Inside, content
<1> QED
  BY <1>1, <1>2

LEMMA EnqueueResultKeeps ==
    ASSUME IInv, NEW a \in Auth, EnqueueResult(a)
    PROVE  IInv'
<1>1. Started /\ Enqueued(a)
  BY EnqueueEffect DEF EnqueueResult, IInv
<1>2. /\ producing[a] # NoProducer /\ producing' = [producing EXCEPT ![a] = NoProducer]
      /\ dropped' = [dropped EXCEPT ![a] = FALSE]
      /\ UNCHANGED <<content, producer, rescanRunning, lifecycle, work, scan, faults>>
  BY DEF EnqueueResult
<1>3. TypeOK' /\ QueueSound' /\ Owned' /\ Scanned' /\ Snapped'
  <2>1. producing' \in [Auth -> Producer \union {NoProducer}] /\ dropped' \in [Auth -> BOOLEAN]
        /\ scan' \in [Worker -> [todo : SUBSET Auth, found : SUBSET Auth,
                                 room : 0..QueueLimit, more : BOOLEAN]]
    BY <1>2 DEF IInv, TypeOK
  <2> QED
    BY <1>1, <1>2, <2>1, EnqueuedKeeps
<1>4. Abandoned'
  BY <1>2, NullAssumption DEF IInv, Abandoned, TypeOK, lifecycle
<1>5. Ordered'
  BY <1>2 DEF IInv, Ordered, content
<1>6. Tracked'
  <2> SUFFICES ASSUME NEW b \in Auth, Dirty(b)', ~closed', ~dropped'[b], producing'[b] = NoProducer
               PROVE  /\ status'[b] = "none" => Sought(b)'
                      /\ status'[b] = "active" => newer'[b] \/ \E w \in Worker : Carries(w, b)'
    BY DEF Tracked
  <2>1. CASE b = a
    BY <1>1, <2>1, EnqueuedTracks DEF IInv
  <2>2. CASE b # a
    <3>1. Dirty(b) /\ ~closed /\ ~dropped[b] /\ producing[b] = NoProducer
      BY <1>2, <2>2 DEF Dirty, content, lifecycle, IInv, TypeOK
    <3>2. Sought(b) => Sought(b)'
      BY <1>1, <1>2 DEF Sought, Enqueued
    <3> QED
      BY <1>1, <1>2, <2>2, <3>1, <3>2, EnqueuedOthers DEF IInv, Tracked
  <2> QED
    BY <2>1, <2>2
<1> QED
  BY <1>3, <1>4, <1>5, <1>6 DEF IInv

\* A result is refused only while closing, and then its producer was abandoned.
LEMMA RefuseResultKeeps ==
    ASSUME IInv, NEW a \in Auth, RefuseResult(a)
    PROVE  IInv'
<1>1. /\ producing[a] # NoProducer /\ producing' = [producing EXCEPT ![a] = NoProducer]
      /\ dropped' = [dropped EXCEPT ![a] = @ \/ producer[producing[a]] = "abandoned"]
      /\ UNCHANGED <<content, producer, entries, rescanNeeded, rescanRunning,
                     lifecycle, pc, work, scan, faults>>
  BY DEF RefuseResult
<1>2. TypeOK'
  BY <1>1 DEF IInv, TypeOK, content, entries, lifecycle
<1>3. QueueSound' /\ Owned' /\ Scanned' /\ Ordered'
  BY <1>1 DEF IInv, QueueSound, Owned, Scanned, Ordered, content, entries
<1>4. Abandoned'
  BY <1>1, NullAssumption DEF IInv, Abandoned, TypeOK, lifecycle
<1>5. Snapped'
  BY <1>1 DEF IInv, Snapped, content
<1>6. closed \/ dropped'[a]
  BY <1>1 DEF RefuseResult, Accepts, IInv, Abandoned, TypeOK
<1>7. Tracked'
  <2>1. \A b \in Auth : /\ Sought(b)' = Sought(b) /\ Dirty(b)' = Dirty(b)
                        /\ \A w \in Worker : Carries(w, b)' = Carries(w, b)
    BY <1>1 DEF Sought, Dirty, Carries, content
  <2>2. \A b \in Auth \ {a} : producing'[b] = producing[b] /\ dropped'[b] = dropped[b]
    BY <1>1 DEF IInv, TypeOK
  <2> QED
    BY <1>1, <1>6, <2>1, <2>2 DEF IInv, Tracked, entries, lifecycle
<1> QED
  BY <1>2, <1>3, <1>4, <1>5, <1>7 DEF IInv

LEMMA WriteFileKeeps ==
    ASSUME IInv, NEW a \in Auth, WriteFile(a)
    PROVE  IInv'
<1>1. ver[a] + 1 \in Version /\ ver[a] \in Nat /\ ver' = [ver EXCEPT ![a] = ver[a] + 1]
  BY NextVersion DEF WriteFile, IInv
<1>2. /\ disk' = [disk EXCEPT ![a] = ver[a] + 1]
      /\ UNCHANGED <<mem, src, producers, entries, rescanNeeded, rescanRunning,
                     lifecycle, pc, work, scan, faults, dropped>>
  BY DEF WriteFile
<1>3. TypeOK'
  BY <1>1, <1>2 DEF IInv, TypeOK, producers, entries, lifecycle
<1>4. QueueSound' /\ Owned' /\ Scanned' /\ Abandoned'
  BY <1>2 DEF IInv, QueueSound, Owned, Scanned, Abandoned, producers, entries, lifecycle
<1>5. ASSUME NEW b \in Auth
      PROVE  /\ mem[b] \in Int /\ disk[b] \in Int /\ disk'[b] \in Int /\ ver[b] \in Int /\ src[b] \in Int
             /\ disk[b] <= disk'[b] /\ disk'[b] <= ver'[b] /\ ver[b] <= ver'[b]
  <2>1. /\ mem[b] \in Int /\ disk[b] \in Int /\ ver[b] \in Int /\ src[b] \in Int /\ disk[b] <= ver[b]
    BY BoundAssumption DEF IInv, TypeOK, Version, NoHash, Ordered
  <2>2. ver'[b] = IF b = a THEN ver[b] + 1 ELSE ver[b]
    BY <1>1 DEF IInv, TypeOK
  <2>3. disk'[b] = IF b = a THEN ver'[b] ELSE disk[b]
    BY <1>1, <1>2 DEF IInv, TypeOK
  <2> QED
    BY <2>1, <2>2, <2>3
<1>6. Ordered'
  <2> SUFFICES ASSUME NEW b \in Auth
               PROVE  /\ mem[b] <= ver'[b] /\ disk'[b] <= ver'[b]
                      /\ src[b] <= mem[b] /\ src[b] <= disk'[b]
    BY <1>2 DEF Ordered
  <2>1. mem[b] <= ver[b] /\ src[b] <= mem[b] /\ src[b] <= disk[b]
    BY DEF IInv, Ordered
  <2>2. ver'[b] \in Int
    BY <1>3, BoundAssumption DEF TypeOK, Version
  <2> QED
    BY <1>5, <2>1, <2>2
<1>7. Snapped'
  <2> SUFFICES ASSUME NEW w \in Worker, pc[w] = "syncing"
               PROVE  work[w].snap <= disk'[work[w].auth]
    BY <1>2 DEF IInv, Snapped
  <2>1. work[w].auth \in Auth /\ work[w].snap \in Int
    BY BoundAssumption DEF IInv, Owned, Busy, TypeOK, Version
  <2>2. work[w].snap <= disk[work[w].auth]
    BY DEF IInv, Snapped, Inside
  <2> QED
    BY <1>5, <2>1, <2>2
<1>8. Tracked'
  BY <1>2 DEF IInv, Tracked, Sought, Carries, Dirty, producers, entries, lifecycle
<1> QED
  BY <1>3, <1>4, <1>6, <1>7, <1>8 DEF IInv

\* A reload leaves the credential with the content of its file and its hash, or
\* without a hash, and does not happen during its save.
LEMMA ReloadKeeps ==
    ASSUME IInv, NEW a \in Auth, NEW h \in {disk[a], NoHash}, Reload(a, h)
    PROVE  IInv'
<1>1. /\ ~Locked(a) /\ mem' = [mem EXCEPT ![a] = disk[a]] /\ src' = [src EXCEPT ![a] = h]
      /\ UNCHANGED <<disk, producers, entries, rescanNeeded, rescanRunning,
                     lifecycle, pc, work, scan, faults, dropped>>
  BY DEF Reload
<1>2. ver' \in [Auth -> Version] /\ \A b \in Auth : ver[b] <= ver'[b] /\ ver[b] \in Int
  <2>1. CASE h = NoHash
    <3>1. ver[a] + 1 \in Version /\ ver' = [ver EXCEPT ![a] = ver[a] + 1]
      BY <2>1, NextVersion DEF Reload, IInv
    <3> QED
      BY <3>1, BoundAssumption DEF IInv, TypeOK, Version
  <2>2. CASE h # NoHash
    <3>1. ver' = ver
      BY <2>2 DEF Reload
    <3> QED
      BY <3>1, BoundAssumption DEF IInv, TypeOK, Version
  <2> QED
    BY <2>1, <2>2
<1>3. TypeOK'
  BY <1>1, <1>2 DEF IInv, TypeOK, producers, entries, lifecycle
<1>4. QueueSound' /\ Owned' /\ Scanned' /\ Abandoned'
  BY <1>1 DEF IInv, QueueSound, Owned, Scanned, Abandoned, producers, entries, lifecycle
<1>5. Ordered'
  <2> SUFFICES ASSUME NEW b \in Auth
               PROVE  /\ mem'[b] <= ver'[b] /\ disk[b] <= ver'[b]
                      /\ src'[b] <= mem'[b] /\ src'[b] <= disk[b]
    BY <1>1 DEF Ordered
  <2>1. /\ mem[b] \in Int /\ disk[b] \in Int /\ src[b] \in Int /\ ver'[b] \in Int /\ disk[b] >= -1
        /\ mem[b] <= ver[b] /\ disk[b] <= ver[b] /\ src[b] <= mem[b] /\ src[b] <= disk[b]
    BY <1>2, BoundAssumption DEF IInv, TypeOK, Version, NoHash, Ordered
  <2>2. /\ mem'[b] = IF b = a THEN disk[b] ELSE mem[b]
        /\ src'[b] = IF b = a THEN h ELSE src[b]
    BY <1>1 DEF IInv, TypeOK
  <2> QED
    BY <1>2, <2>1, <2>2 DEF NoHash
<1>6. Snapped'
  <2> SUFFICES ASSUME NEW w \in Worker, pc[w] \in Inside
               PROVE  src'[work[w].auth] = src[work[w].auth] /\ mem'[work[w].auth] = mem[work[w].auth]
    BY <1>1 DEF IInv, Snapped
  <2> QED
    BY <1>1 DEF IInv, Locked, Inside, TypeOK
<1>7. Tracked'
  <2> SUFFICES ASSUME NEW b \in Auth, Dirty(b)', ~closed', ~dropped'[b], producing'[b] = NoProducer
               PROVE  /\ status'[b] = "none" => Sought(b)'
                      /\ status'[b] = "active" => newer'[b] \/ \E w \in Worker : Carries(w, b)'
    BY DEF Tracked
  <2>1. b # a
    BY <1>1 DEF Dirty, IInv, TypeOK
  <2>2. mem'[b] = mem[b] /\ src'[b] = src[b]
    BY <1>1, <2>1 DEF IInv, TypeOK
  <2>3. Sought(b)' = Sought(b) /\ Dirty(b)' = Dirty(b) /\ \A w \in Worker : Carries(w, b)' = Carries(w, b)
    BY <1>1, <2>2 DEF Sought, Dirty, Carries
  <2> QED
    BY <1>1, <2>3 DEF IInv, Tracked, producers, entries, lifecycle
<1> QED
  BY <1>3, <1>4, <1>5, <1>6, <1>7 DEF IInv

-----------------------------------------------------------------------------
\* The locals of a rescan.
ScanLocals == [todo : SUBSET Auth, found : SUBSET Auth, room : 0..QueueLimit, more : BOOLEAN]

\* A rescan that begins comes to every credential that has no entry.
LEMMA RescanStartKeeps ==
    ASSUME IInv, NEW w \in Worker, RescanStart(w)
    PROVE  IInv'
<1> DEFINE todo == {a \in Auth : status[a] = "none" /\ src[a] # NoHash}
           room == QueueLimit - Cardinality(Entries)
<1>1. /\ pc[w] = "loop" /\ pc' = [pc EXCEPT ![w] = "scanning"]
      /\ ~rescanRunning /\ rescanRunning' = TRUE /\ rescanNeeded' = FALSE
      /\ Cardinality(Entries) < QueueLimit
      /\ scan' = [scan EXCEPT ![w] = [todo |-> todo, found |-> {}, room |-> room, more |-> FALSE]]
      /\ UNCHANGED <<content, producers, entries, lifecycle, work, faults, dropped>>
  BY DEF RescanStart, Goto
<1>2. room \in 0..QueueLimit
  BY <1>1, EntriesCounted, BoundAssumption
<1>3. TypeOK'
  BY <1>1, <1>2 DEF IInv, TypeOK, Stage, content, producers, entries, lifecycle
<1>4. QueueSound' /\ Abandoned' /\ Ordered'
  BY <1>1 DEF IInv, QueueSound, Abandoned, Ordered, content, producers, entries, lifecycle
<1>5. \A v \in Worker : pc'[v] = IF v = w THEN "scanning" ELSE pc[v]
  BY <1>1 DEF IInv, TypeOK
<1>6. Owned'
  BY <1>1, <1>5 DEF IInv, Owned, Busy, entries
<1>7. Scanned'
  BY <1>1, <1>5 DEF IInv, Scanned, TypeOK
<1>8. Snapped'
  BY <1>1, <1>5 DEF IInv, Snapped, Inside, content
<1>9. Tracked'
  <2>1. scan'[w].todo = todo
    BY <1>1 DEF IInv, TypeOK
  <2>2. \A a \in Auth : Dirty(a) /\ status[a] = "none" => Sought(a)'
    BY <2>1 DEF Dirty, Sought
  <2>3. \A a \in Auth, v \in Worker : Carries(v, a)' = Carries(v, a)
    BY <1>1, <1>5 DEF Carries, Inside, content
  <2>4. \A a \in Auth : Dirty(a)' = Dirty(a)
    BY <1>1 DEF Dirty, content
  <2> QED
    BY <1>1, <2>2, <2>3, <2>4 DEF IInv, Tracked, producers, entries, lifecycle
<1> QED
  BY <1>3, <1>4, <1>6, <1>7, <1>8, <1>9 DEF IInv

\* A credential is not left out unless it is durable or the scan is repeated.
LEMMA RescanVisitKeeps ==
    ASSUME IInv, NEW w \in Worker, NEW a \in Auth, RescanVisit(w, a)
    PROVE  IInv'
<1>1. /\ pc[w] = "scanning" /\ a \in scan[w].todo
      /\ UNCHANGED <<content, producers, entries, rescanNeeded, rescanRunning,
                     lifecycle, pc, work, faults, dropped>>
  BY DEF RescanVisit
<1>2. /\ scan' = [scan EXCEPT ![w] = scan'[w]] /\ scan'[w] \in ScanLocals
      /\ \/ scan'[w].more
         \/ /\ scan'[w].found = scan[w].found /\ scan'[w].todo = scan[w].todo \ {a}
            /\ scan'[w].more = scan[w].more /\ ~PersistenceNeeded(a)
         \/ /\ scan'[w].found = scan[w].found \union {a} /\ scan'[w].todo = scan[w].todo \ {a}
            /\ scan'[w].more = scan[w].more
  <2>1. scan[w] \in ScanLocals
    BY DEF IInv, TypeOK, ScanLocals
  <2>2. CASE ~PersistenceNeeded(a)
    <3>1. scan' = [scan EXCEPT ![w] = [scan[w] EXCEPT !.todo = scan[w].todo \ {a}]]
      BY <2>2, Zenon DEF RescanVisit
    <3> QED
      BY <2>1, <2>2, <3>1 DEF IInv, TypeOK, ScanLocals
  <2>3. CASE PersistenceNeeded(a) /\ Cardinality(scan[w].found) >= scan[w].room
    <3>1. scan' = [scan EXCEPT ![w] = [scan[w] EXCEPT !.todo = {}, !.more = TRUE]]
      BY <2>3 DEF RescanVisit
    <3> QED
      BY <2>1, <2>3, <3>1 DEF IInv, TypeOK, ScanLocals
  <2>4. CASE PersistenceNeeded(a) /\ ~(Cardinality(scan[w].found) >= scan[w].room)
    <3>1. scan' = [scan EXCEPT ![w] = [scan[w] EXCEPT !.todo = scan[w].todo \ {a},
                                                      !.found = scan[w].found \union {a}]]
      BY <2>4, Zenon DEF RescanVisit
    <3> QED
      BY <2>1, <2>4, <3>1 DEF IInv, TypeOK, ScanLocals
  <2> QED
    BY <2>2, <2>3, <2>4
<1>3. \A v \in Worker \ {w} : scan'[v] = scan[v]
  BY <1>2 DEF IInv, TypeOK
<1>4. TypeOK'
  <2>1. scan' \in [Worker -> ScanLocals]
    BY <1>2 DEF IInv, TypeOK, ScanLocals
  <2> QED
    BY <1>1, <2>1 DEF IInv, TypeOK, ScanLocals, content, producers, entries, lifecycle
<1>5. QueueSound' /\ Abandoned' /\ Ordered' /\ Owned'
  BY <1>1 DEF IInv, QueueSound, Abandoned, Ordered, Owned, content, producers, entries, lifecycle
<1>6. Snapped'
  BY <1>1 DEF IInv, Snapped, content
<1>7. Scanned'
  BY <1>1, <1>3 DEF IInv, Scanned
<1>8. Tracked'
  <2>1. ASSUME NEW b \in Auth, Dirty(b), Sought(b) PROVE Sought(b)'
    <3>1. CASE rescanNeeded
      BY <1>1, <3>1 DEF Sought
    <3>2. ASSUME NEW v \in Worker, b \in scan[v].todo \union scan[v].found \/ scan[v].more
          PROVE  b \in scan'[v].todo \union scan'[v].found \/ scan'[v].more
      <4>1. CASE v # w
        BY <1>3, <3>2, <4>1
      <4>2. CASE v = w
        BY <1>2, <2>1, <3>2, <4>2 DEF Dirty, PersistenceNeeded
      <4> QED
        BY <4>1, <4>2
    <3> QED
      BY <2>1, <3>1, <3>2 DEF Sought
  <2>2. \A b \in Auth : /\ Dirty(b)' = Dirty(b)
                        /\ \A v \in Worker : Carries(v, b)' = Carries(v, b)
    BY <1>1 DEF Dirty, Carries, content
  <2> QED
    BY <1>1, <2>1, <2>2 DEF IInv, Tracked, producers, entries, lifecycle
<1> QED
  BY <1>4, <1>5, <1>6, <1>7, <1>8 DEF IInv

\* What the scan found is enqueued, unless the coordinator is closed.
LEMMA RescanEnqueueKeeps ==
    ASSUME IInv, NEW w \in Worker, NEW a \in Auth, RescanEnqueue(w, a)
    PROVE  IInv'
<1>1. /\ pc[w] = "scanning" /\ a \in scan[w].found
      /\ scan' = [scan EXCEPT ![w].found = scan[w].found \ {a}]
      /\ UNCHANGED <<content, producers, rescanRunning, lifecycle, work, faults>>
  BY DEF RescanEnqueue
<1>2. /\ scan' \in [Worker -> ScanLocals] /\ \A v \in Worker \ {w} : scan'[v] = scan[v]
      /\ scan'[w].found = scan[w].found \ {a} /\ scan'[w].todo = scan[w].todo
      /\ scan'[w].more = scan[w].more
  <2>1. scan \in [Worker -> ScanLocals] /\ scan[w] \in ScanLocals
    BY DEF IInv, TypeOK, ScanLocals
  <2>2. scan' = [scan EXCEPT ![w] = [scan[w] EXCEPT !.found = scan[w].found \ {a}]]
    BY <1>1
  <2>3. scan'[w] = [scan[w] EXCEPT !.found = scan[w].found \ {a}]
    BY <2>1, <2>2
  <2>4. scan'[w] \in ScanLocals /\ scan'[w].found = scan[w].found \ {a}
        /\ scan'[w].todo = scan[w].todo /\ scan'[w].more = scan[w].more
    BY <2>1, <2>3 DEF ScanLocals
  <2>5. scan' \in [Worker -> ScanLocals] /\ \A v \in Worker \ {w} : scan'[v] = scan[v]
    BY <2>1, <2>2, <2>4
  <2> QED
    BY <2>4, <2>5
<1>3. \A b \in Auth \ {a} : Sought(b) /\ (rescanNeeded => rescanNeeded') => Sought(b)'
  <2> SUFFICES ASSUME NEW b \in Auth \ {a}, Sought(b), rescanNeeded => rescanNeeded'
               PROVE  Sought(b)'
    OBVIOUS
  <2>1. \A v \in Worker : b \in scan[v].todo \union scan[v].found \/ scan[v].more
                            => b \in scan'[v].todo \union scan'[v].found \/ scan'[v].more
    BY <1>2
  <2> QED
    BY <2>1 DEF Sought
<1>4. CASE Accepts(TRUE)
  <2>1. Enqueue(a, pc) /\ dropped' = [dropped EXCEPT ![a] = FALSE]
    BY <1>4 DEF RescanEnqueue
  <2>2. Started /\ Enqueued(a)
    BY <2>1, EnqueueEffect DEF IInv
  <2>3. TypeOK' /\ QueueSound' /\ Owned' /\ Snapped'
    <3>1. producing' \in [Auth -> Producer \union {NoProducer}] /\ dropped' \in [Auth -> BOOLEAN]
      BY <1>1, <2>1 DEF IInv, TypeOK, producers
    <3> QED
      BY <1>1, <1>2, <2>2, <3>1, EnqueuedKeeps DEF ScanLocals, producers
  <2>4. Scanned'
    BY <1>1, <1>2, <2>2 DEF IInv, Scanned, Started
  <2>5. Abandoned' /\ Ordered'
    BY <1>1 DEF IInv, Abandoned, Ordered, content, producers, lifecycle
  <2>6. Tracked'
    <3> SUFFICES ASSUME NEW b \in Auth, Dirty(b)', ~closed', ~dropped'[b], producing'[b] = NoProducer
                 PROVE  /\ status'[b] = "none" => Sought(b)'
                        /\ status'[b] = "active" => newer'[b] \/ \E v \in Worker : Carries(v, b)'
      BY DEF Tracked
    <3>1. CASE b = a
      BY <2>2, <3>1, EnqueuedTracks DEF IInv
    <3>2. CASE b # a
      <4>1. Dirty(b) /\ ~closed /\ ~dropped[b] /\ producing[b] = NoProducer
        BY <1>1, <2>1, <3>2 DEF Dirty, content, lifecycle, producers, IInv, TypeOK
      <4>2. Sought(b) => Sought(b)'
        BY <1>3, <2>2, <3>2 DEF Enqueued
      <4> QED
        BY <1>1, <2>2, <3>2, <4>1, <4>2, EnqueuedOthers DEF IInv, Tracked
    <3> QED
      BY <3>1, <3>2
  <2> QED
    BY <2>3, <2>4, <2>5, <2>6 DEF IInv
<1>5. CASE ~Accepts(TRUE)
  <2>1. UNCHANGED <<entries, rescanNeeded, pc, dropped>> /\ closed
    BY <1>5 DEF RescanEnqueue, Accepts
  <2>2. TypeOK'
    BY <1>1, <1>2, <2>1 DEF IInv, TypeOK, ScanLocals, content, producers, entries, lifecycle
  <2>3. QueueSound' /\ Abandoned' /\ Ordered' /\ Owned'
    BY <1>1, <2>1 DEF IInv, QueueSound, Abandoned, Ordered, Owned, content, producers, entries, lifecycle
  <2>4. Snapped'
    BY <1>1, <2>1 DEF IInv, Snapped, content
  <2>5. Scanned'
    BY <1>1, <1>2, <2>1 DEF IInv, Scanned
  <2>6. Tracked'
    BY <1>1, <2>1 DEF Tracked, lifecycle
  <2> QED
    BY <2>2, <2>3, <2>4, <2>5, <2>6 DEF IInv
<1> QED
  BY <1>4, <1>5

LEMMA RescanEndKeeps ==
    ASSUME IInv, NEW w \in Worker, RescanEnd(w)
    PROVE  IInv'
<1>1. /\ pc[w] = "scanning" /\ pc' = [pc EXCEPT ![w] = "loop"]
      /\ scan[w].todo = {} /\ scan[w].found = {} /\ scan' = [scan EXCEPT ![w] = NoScan]
      /\ rescanRunning' = FALSE /\ rescanNeeded' = (rescanNeeded \/ scan[w].more)
      /\ UNCHANGED <<content, producers, entries, lifecycle, work, faults, dropped>>
  BY DEF RescanEnd, Goto
<1>2. TypeOK'
  <2>1. NoScan \in ScanLocals
    BY BoundAssumption DEF NoScan, ScanLocals
  <2>2. rescanNeeded' \in BOOLEAN
    BY <1>1
  <2>3. scan' \in [Worker -> ScanLocals] /\ pc' \in [Worker -> Stage]
    BY <1>1, <2>1 DEF IInv, TypeOK, ScanLocals, Stage
  <2> QED
    BY <1>1, <2>2, <2>3 DEF IInv, TypeOK, ScanLocals, content, producers, entries, lifecycle
<1>3. QueueSound' /\ Abandoned' /\ Ordered'
  BY <1>1 DEF IInv, QueueSound, Abandoned, Ordered, content, producers, entries, lifecycle
<1>4. \A v \in Worker : /\ pc'[v] = IF v = w THEN "loop" ELSE pc[v]
                        /\ scan'[v] = IF v = w THEN NoScan ELSE scan[v]
  BY <1>1 DEF IInv, TypeOK
<1>5. Owned'
  BY <1>1, <1>4 DEF IInv, Owned, Busy, entries
<1>6. Scanned'
  BY <1>1, <1>4 DEF IInv, Scanned
<1>7. Snapped'
  BY <1>1, <1>4 DEF IInv, Snapped, Inside, content
<1>8. Tracked'
  <2>1. ASSUME NEW a \in Auth, Sought(a) PROVE Sought(a)'
    <3>1. CASE rescanNeeded
      BY <1>1, <3>1 DEF Sought
    <3>2. CASE ~rescanNeeded
      <4>1. PICK v \in Worker : a \in scan[v].todo \union scan[v].found \/ scan[v].more
        BY <2>1, <3>2 DEF Sought
      <4>2. CASE v = w
        BY <1>1, <4>1, <4>2 DEF Sought
      <4>3. CASE v # w
        BY <1>4, <4>1, <4>3 DEF Sought
      <4> QED
        BY <4>2, <4>3
    <3> QED
      BY <3>1, <3>2
  <2>2. \A a \in Auth : /\ Dirty(a)' = Dirty(a)
                        /\ \A v \in Worker : Carries(v, a)' = Carries(v, a)
    BY <1>1, <1>4 DEF Dirty, Carries, Inside, content
  <2> QED
    BY <1>1, <2>1, <2>2 DEF IInv, Tracked, producers, entries, lifecycle
<1> QED
  BY <1>2, <1>3, <1>5, <1>6, <1>7, <1>8 DEF IInv

-----------------------------------------------------------------------------
\* A worker without an entry goes between its loop, its two selects and its end.
LEMMA IdleKeeps ==
    ASSUME IInv, NEW w \in Worker, Wait(w) \/ WakeUp(w) \/ ExitIfIdle(w) \/ ExitClosed(w)
    PROVE  IInv'
<1> DEFINE Idle == {"off", "loop", "idling", "napping"}
<1>1. /\ pc[w] \in Idle
      /\ UNCHANGED <<content, producers, entries, rescanNeeded, rescanRunning,
                     lifecycle, work, scan, faults, dropped>>
  BY DEF Wait, WakeUp, ExitIfIdle, ExitClosed, Polling
<1>2. \E stage \in Idle : pc' = [pc EXCEPT ![w] = stage]
  BY DEF Wait, WakeUp, ExitIfIdle, ExitClosed, Goto
<1>3. pc' \in [Worker -> Stage] /\ pc'[w] \in Idle /\ \A v \in Worker \ {w} : pc'[v] = pc[v]
  BY <1>2 DEF IInv, TypeOK, Stage
<1>4. TypeOK'
  BY <1>1, <1>3 DEF IInv, TypeOK, content, producers, entries, lifecycle
<1>5. QueueSound' /\ Abandoned' /\ Ordered'
  BY <1>1 DEF IInv, QueueSound, Abandoned, Ordered, content, producers, entries, lifecycle
<1>6. Owned'
  BY <1>1, <1>3 DEF IInv, Owned, Busy, entries
<1>7. Scanned'
  BY <1>1, <1>3 DEF IInv, Scanned
<1>8. Snapped'
  BY <1>1, <1>3 DEF IInv, Snapped, Inside, content
<1>9. Tracked'
  <2>1. \A a \in Auth, v \in Worker : Carries(v, a)' = Carries(v, a)
    BY <1>1, <1>3 DEF Carries, Inside, content
  <2>2. \A a \in Auth : Dirty(a)' = Dirty(a) /\ Sought(a)' = Sought(a)
    BY <1>1 DEF Dirty, Sought, content
  <2> QED
    BY <1>1, <2>1, <2>2 DEF IInv, Tracked, producers, entries, lifecycle
<1> QED
  BY <1>4, <1>5, <1>6, <1>7, <1>8, <1>9 DEF IInv

\* The worker that takes an entry is responsible for it from then on.
LEMMA TakeReadyWorkKeeps ==
    ASSUME IInv, NEW w \in Worker, TakeReadyWork(w)
    PROVE  IInv'
<1>1. PICK i \in 1..Len(queue) :
         /\ queue' = RemoveAt(queue, i)
         /\ status' = [status EXCEPT ![queue[i]] = "active"]
         /\ newer' = [newer EXCEPT ![queue[i]] = FALSE]
         /\ work' = [work EXCEPT ![w] = [NoWork EXCEPT !.auth = queue[i]]]
  BY DEF TakeReadyWork
<1> DEFINE a == queue[i]
<1>2. /\ pc[w] = "loop" /\ pc' = [pc EXCEPT ![w] = "acquiring"]
      /\ UNCHANGED <<content, producers, resting, rescanNeeded, rescanRunning,
                     lifecycle, scan, faults, dropped>>
  BY DEF TakeReadyWork, Polling, Goto
<1>3. QueueSound' /\ queue' \in Seq(Auth) /\ a \in Auth /\ status[a] = "queued"
  BY <1>1, QueueTaken DEF IInv
<1> HIDE DEF a
<1>4. /\ status' = [status EXCEPT ![a] = "active"]
      /\ newer' = [newer EXCEPT ![a] = FALSE]
      /\ work' = [work EXCEPT ![w] = [auth |-> a, snap |-> 0, base |-> NoHash]]
  <2>1. [NoWork EXCEPT !.auth = a] = [auth |-> a, snap |-> 0, base |-> NoHash]
    BY DEF NoWork
  <2> QED
    BY <1>1, <2>1, Zenon DEF a
<1>5. TypeOK'
  <2>1. [auth |-> a, snap |-> 0, base |-> NoHash]
           \in [auth : Auth \union {NoAuth}, snap : Version, base : Version \union {NoHash}]
    BY <1>3, BoundAssumption DEF Version
  <2> QED
    BY <1>2, <1>3, <1>4, <2>1 DEF IInv, TypeOK, Stage, content, producers, lifecycle
<1>6. \A v \in Worker : /\ pc'[v] = IF v = w THEN "acquiring" ELSE pc[v]
                        /\ v # w => work'[v] = work[v]
  BY <1>2, <1>4 DEF IInv, TypeOK
<1>7. work'[w].auth = a
  BY <1>4 DEF IInv, TypeOK
<1>8. \A b \in Auth : status'[b] = IF b = a THEN "active" ELSE status[b]
  BY <1>4 DEF IInv, TypeOK
<1>9. \A v \in Worker : work[v].auth # a
  BY <1>3, NullAssumption DEF IInv, Owned
<1>10. Owned'
  <2>1. \A v \in Worker : IF pc'[v] \in Busy THEN work'[v].auth \in Auth ELSE work'[v] = NoWork
    BY <1>3, <1>6, <1>7 DEF IInv, Owned, Busy
  <2>2. \A v \in Worker : work'[v].auth # NoAuth => status'[work'[v].auth] = "active"
    <3> SUFFICES ASSUME NEW v \in Worker, work'[v].auth # NoAuth
                 PROVE  status'[work'[v].auth] = "active"
      OBVIOUS
    <3>1. work'[v].auth \in Auth
      BY <1>5 DEF TypeOK
    <3> QED
      BY <1>6, <1>7, <1>8, <3>1 DEF IInv, Owned
  <2>3. \A u, v \in Worker : work'[u].auth = work'[v].auth /\ work'[u].auth # NoAuth => u = v
    BY <1>6, <1>7, <1>9 DEF IInv, Owned
  <2>4. \A b \in Auth : status'[b] = "active" => \E v \in Worker : work'[v].auth = b
    <3> SUFFICES ASSUME NEW b \in Auth, status'[b] = "active"
                 PROVE  \E v \in Worker : work'[v].auth = b
      OBVIOUS
    <3>1. CASE b = a
      BY <1>7, <3>1
    <3>2. CASE b # a
      <4>1. PICK v \in Worker : work[v].auth = b
        BY <1>8, <3>2 DEF IInv, Owned
      <4>2. v # w
        BY <1>2, <4>1, NullAssumption DEF IInv, Owned, Busy, NoWork
      <4> QED
        BY <1>6, <4>1, <4>2
    <3> QED
      BY <3>1, <3>2
  <2> QED
    BY <2>1, <2>2, <2>3, <2>4 DEF Owned
<1>11. Scanned'
  BY <1>2, <1>6 DEF IInv, Scanned
<1>12. Abandoned' /\ Ordered'
  BY <1>2 DEF IInv, Abandoned, Ordered, content, producers, lifecycle
<1>13. Snapped'
  BY <1>2, <1>6 DEF IInv, Snapped, Inside, content
<1>14. Tracked'
  <2> SUFFICES ASSUME NEW b \in Auth, Dirty(b)', ~closed', ~dropped'[b], producing'[b] = NoProducer
               PROVE  /\ status'[b] = "none" => Sought(b)'
                      /\ status'[b] = "active" => newer'[b] \/ \E v \in Worker : Carries(v, b)'
    BY DEF Tracked
  <2>1. CASE b = a
    <3>1. Carries(w, b)'
      BY <1>6, <1>7, <2>1 DEF Carries
    <3> QED
      BY <1>8, <2>1, <3>1
  <2>2. CASE b # a
    <3>1. Dirty(b) /\ ~closed /\ ~dropped[b] /\ producing[b] = NoProducer
      BY <1>2 DEF Dirty, content, producers, lifecycle
    <3>2. newer'[b] = newer[b] /\ status'[b] = status[b] /\ (Sought(b) => Sought(b)')
      BY <1>2, <1>4, <1>8, <2>2 DEF IInv, TypeOK, Sought
    <3>3. \A v \in Worker : Carries(v, b) => Carries(v, b)'
      BY <1>2, <1>6 DEF Carries, Inside, content
    <3> QED
      BY <3>1, <3>2, <3>3 DEF IInv, Tracked
  <2> QED
    BY <2>1, <2>2
<1> QED
  BY <1>3, <1>5, <1>10, <1>11, <1>12, <1>13, <1>14 DEF IInv

-----------------------------------------------------------------------------
\* A worker that gives up before the save, or is refused by the store, still has
\* the entry in its hands.
LEMMA GiveUpKeeps ==
    ASSUME IInv, NEW w \in Worker, AcquireFails(w) \/ SaveStale(w)
    PROVE  IInv'
<1>1. /\ pc[w] \in Busy \ {"syncing"} /\ pc' = [pc EXCEPT ![w] = "failed"]
      /\ UNCHANGED <<content, producers, entries, rescanNeeded, rescanRunning,
                     lifecycle, work, scan, dropped>>
  BY DEF AcquireFails, SaveStale, Goto, Busy
<1>2. faults' \in 0..MaxFault
  BY BoundAssumption DEF AcquireFails, SaveStale, IInv, TypeOK
<1>3. \A v \in Worker : pc'[v] = IF v = w THEN "failed" ELSE pc[v]
  BY <1>1 DEF IInv, TypeOK
<1>4. TypeOK'
  BY <1>1, <1>2 DEF IInv, TypeOK, Stage, content, producers, entries, lifecycle
<1>5. QueueSound' /\ Abandoned' /\ Ordered'
  BY <1>1 DEF IInv, QueueSound, Abandoned, Ordered, content, producers, entries, lifecycle
<1>6. Owned'
  BY <1>1, <1>3 DEF IInv, Owned, Busy, entries
<1>7. Scanned'
  BY <1>1, <1>3 DEF IInv, Scanned, Busy
<1>8. Snapped'
  BY <1>1, <1>3 DEF IInv, Snapped, Inside, content
<1>9. Tracked'
  <2>1. \A a \in Auth, v \in Worker : Carries(v, a) => Carries(v, a)'
    BY <1>1, <1>3 DEF Carries, Inside, content
  <2>2. \A a \in Auth : Dirty(a)' = Dirty(a) /\ Sought(a)' = Sought(a)
    BY <1>1 DEF Dirty, Sought, content
  <2> QED
    BY <1>1, <2>1, <2>2 DEF IInv, Tracked, producers, entries, lifecycle
<1> QED
  BY <1>4, <1>5, <1>6, <1>7, <1>8, <1>9 DEF IInv

\* The lock's holder has the present content in its snapshot, or nothing is left
\* to be saved.
LEMMA SnapshotKeeps ==
    ASSUME IInv, NEW w \in Worker, Snapshot(w)
    PROVE  IInv'
<1> DEFINE a == work[w].auth
           next == IF src[a] = NoHash THEN "terminal"
                   ELSE IF PersistenceNeeded(a) THEN "saving" ELSE "succeeded"
<1>1. /\ pc[w] = "acquiring" /\ pc' = [pc EXCEPT ![w] = next]
      /\ work' = [work EXCEPT ![w].snap = mem[a], ![w].base = src[a]]
      /\ UNCHANGED <<content, producers, entries, rescanNeeded, rescanRunning,
                     lifecycle, scan, faults, dropped>>
  BY DEF Snapshot, Goto
<1>2. a \in Auth
  BY <1>1 DEF IInv, Owned, Busy
<1>3. next \in {"terminal", "saving", "succeeded"}
  BY DEF PersistenceNeeded
<1>4. \A v \in Worker : /\ pc'[v] = IF v = w THEN next ELSE pc[v]
                        /\ v # w => work'[v] = work[v]
  BY <1>1 DEF IInv, TypeOK
<1>5. work'[w] = [auth |-> a, snap |-> mem[a], base |-> src[a]]
  <2>1. /\ work \in [Worker -> [auth : Auth \union {NoAuth}, snap : Version,
                               base : Version \union {NoHash}]]
        /\ work[w] = [auth |-> a, snap |-> work[w].snap, base |-> work[w].base]
    BY DEF IInv, TypeOK
  <2>2. work'[w] = [work[w] EXCEPT !.snap = mem[a], !.base = src[a]]
    BY <1>1, <2>1
  <2> QED
    BY <2>1, <2>2
<1>6. TypeOK'
  <2>1. [auth |-> a, snap |-> mem[a], base |-> src[a]]
           \in [auth : Auth \union {NoAuth}, snap : Version, base : Version \union {NoHash}]
    BY <1>2 DEF IInv, TypeOK
  <2>2. work' = [work EXCEPT ![w] = [auth |-> a, snap |-> mem[a], base |-> src[a]]]
    BY <1>1, <1>5 DEF IInv, TypeOK
  <2>3. work' \in [Worker -> [auth : Auth \union {NoAuth}, snap : Version,
                              base : Version \union {NoHash}]]
    BY <2>1, <2>2 DEF IInv, TypeOK
  <2>4. pc' \in [Worker -> Stage]
    <3> HIDE DEF next
    <3> QED
      BY <1>1, <1>3 DEF IInv, TypeOK, Stage
  <2> QED
    BY <1>1, <2>3, <2>4 DEF IInv, TypeOK, content, producers, entries, lifecycle
<1>7. \A v \in Worker : work'[v].auth = work[v].auth
  BY <1>4, <1>5
<1>8. QueueSound' /\ Abandoned' /\ Ordered'
  BY <1>1 DEF IInv, QueueSound, Abandoned, Ordered, content, producers, entries, lifecycle
<1>9. Owned'
  <2>1. \A v \in Worker : IF pc'[v] \in Busy THEN work'[v].auth \in Auth ELSE work'[v] = NoWork
    BY <1>2, <1>3, <1>4, <1>7 DEF IInv, Owned, Busy
  <2>2. status' = status
    BY <1>1 DEF entries
  <2>3. /\ \A v \in Worker : work'[v].auth # NoAuth => status'[work'[v].auth] = "active"
        /\ \A u, v \in Worker : work'[u].auth = work'[v].auth /\ work'[u].auth # NoAuth => u = v
        /\ \A b \in Auth : status'[b] = "active" => \E v \in Worker : work'[v].auth = b
    BY <1>7, <2>2 DEF IInv, Owned
  <2> QED
    BY <2>1, <2>3 DEF Owned
<1>10. Scanned'
  BY <1>1, <1>3, <1>4 DEF IInv, Scanned
<1>11. Snapped'
  <2> SUFFICES ASSUME NEW v \in Worker, pc'[v] \in Inside
               PROVE  /\ src[work'[v].auth] = work'[v].base /\ work'[v].base # NoHash
                      /\ work'[v].base < work'[v].snap /\ work'[v].snap <= mem[work'[v].auth]
                      /\ pc'[v] = "syncing" => work'[v].snap <= disk[work'[v].auth]
    BY <1>1 DEF Snapped, content
  <2>1. CASE v = w
    <3>1. src[a] <= mem[a] /\ mem[a] \in Int /\ src[a] \in Int
      BY <1>2, BoundAssumption DEF IInv, Ordered, TypeOK, Version, NoHash
    <3>2. next = "saving" /\ src[a] # NoHash /\ mem[a] # src[a]
      BY <1>4, <2>1 DEF Inside, PersistenceNeeded
    <3> QED
      BY <1>4, <1>5, <2>1, <3>1, <3>2
  <2>2. CASE v # w
    BY <1>4, <2>2 DEF IInv, Snapped
  <2> QED
    BY <2>1, <2>2
<1>12. Tracked'
  <2>1. ASSUME NEW b \in Auth, NEW v \in Worker, Carries(v, b), Dirty(b) PROVE Carries(v, b)'
    <3>1. CASE v = w
      <4>1. b = a /\ next = "saving" /\ mem'[b] = mem[b]
        BY <1>1, <2>1, <3>1 DEF Carries, Dirty, PersistenceNeeded, content
      <4> QED
        BY <1>4, <1>5, <3>1, <4>1 DEF Carries, Inside
    <3>2. CASE v # w
      BY <1>1, <1>4, <2>1, <3>2 DEF Carries, content
    <3> QED
      BY <3>1, <3>2
  <2>2. \A b \in Auth : Dirty(b)' = Dirty(b) /\ Sought(b)' = Sought(b)
    BY <1>1 DEF Dirty, Sought, content
  <2> QED
    BY <1>1, <2>1, <2>2 DEF IInv, Tracked, producers, entries, lifecycle
<1> QED
  BY <1>6, <1>8, <1>9, <1>10, <1>11, <1>12 DEF IInv

\* A save writes the snapshot, whose content is at most as new as the
\* credential's and not older than the one it replaces.
LEMMA Written ==
    ASSUME IInv, NEW w \in Worker, pc[w] = "saving", disk[work[w].auth] = work[w].base,
           disk' = [disk EXCEPT ![work[w].auth] = work[w].snap]
    PROVE  /\ disk' \in [Auth -> Version] /\ disk'[work[w].auth] = work[w].snap
           /\ \A b \in Auth : disk[b] <= disk'[b] /\ disk'[b] <= ver[b]
<1> DEFINE a == work[w].auth
<1>1. a \in Auth /\ work[w].snap \in Version
  BY DEF IInv, Owned, Busy, TypeOK
<1>2. disk' \in [Auth -> Version] /\ \A b \in Auth : disk'[b] = IF b = a THEN work[w].snap ELSE disk[b]
  BY <1>1 DEF IInv, TypeOK
<1>3. work[w].base < work[w].snap /\ work[w].snap <= mem[a] /\ mem[a] <= ver[a]
  BY <1>1 DEF IInv, Snapped, Inside, Ordered
<1>4. \A b \in Auth : disk[b] \in Int /\ mem[b] \in Int /\ ver[b] \in Int /\ disk[b] <= ver[b]
  BY BoundAssumption DEF IInv, TypeOK, Version, Ordered
<1>5. work[w].snap \in Int /\ work[w].base \in Int
  BY <1>1, BoundAssumption DEF IInv, TypeOK, Version, NoHash
<1> QED
  BY <1>1, <1>2, <1>3, <1>4, <1>5

\* What the two ends of a save have in common, next being where the worker goes.
LEMMA SavedKeeps ==
    ASSUME IInv, NEW w \in Worker, NEW next \in {"syncing", "failed"},
           pc[w] = "saving", pc' = [pc EXCEPT ![w] = next],
           faults' \in 0..MaxFault,
           disk' \in [Auth -> Version],
           \A b \in Auth : disk[b] <= disk'[b] /\ disk'[b] <= ver[b],
           next = "syncing" => disk'[work[w].auth] = work[w].snap,
           UNCHANGED <<mem, src, ver, producers, entries, rescanNeeded,
                       rescanRunning, lifecycle, work, scan, dropped>>
    PROVE  IInv'
<1>1. \A v \in Worker : pc'[v] = IF v = w THEN next ELSE pc[v]
  BY DEF IInv, TypeOK
<1>2. TypeOK'
  BY DEF IInv, TypeOK, Stage, producers, entries, lifecycle
<1>3. QueueSound' /\ Abandoned'
  BY DEF IInv, QueueSound, Abandoned, producers, entries, lifecycle
<1>4. Owned'
  BY <1>1 DEF IInv, Owned, Busy, entries
<1>5. Scanned'
  BY <1>1 DEF IInv, Scanned
<1>6. \A b \in Auth : disk[b] \in Int /\ disk'[b] \in Int /\ src[b] \in Int
  BY BoundAssumption DEF IInv, TypeOK, Version, NoHash
<1>7. Ordered'
  BY <1>6 DEF IInv, Ordered
<1>8. Snapped'
  <2> SUFFICES ASSUME NEW v \in Worker, pc'[v] \in Inside
               PROVE  /\ src[work[v].auth] = work[v].base /\ work[v].base # NoHash
                      /\ work[v].base < work[v].snap /\ work[v].snap <= mem[work[v].auth]
                      /\ pc'[v] = "syncing" => work[v].snap <= disk'[work[v].auth]
    BY DEF Snapped
  <2>1. pc[v] \in Inside
    BY <1>1 DEF Inside
  <2>2. work[v].auth \in Auth /\ work[v].snap \in Int
    BY <2>1, BoundAssumption DEF IInv, Owned, Busy, Inside, TypeOK, Version
  <2>3. pc'[v] = "syncing" => work[v].snap <= disk'[work[v].auth]
    <3>1. CASE v = w
      BY <1>1, <2>2, <3>1
    <3>2. CASE v # w
      <4>1. pc'[v] = "syncing" => work[v].snap <= disk[work[v].auth]
        BY <1>1, <2>1, <3>2 DEF IInv, Snapped
      <4> QED
        BY <1>6, <2>2, <4>1
    <3> QED
      BY <3>1, <3>2
  <2> QED
    BY <2>1, <2>3 DEF IInv, Snapped
<1>9. Tracked'
  <2>1. \A b \in Auth, v \in Worker : Carries(v, b) => Carries(v, b)'
    BY <1>1 DEF Carries, Inside
  <2>2. \A b \in Auth : Dirty(b)' = Dirty(b) /\ Sought(b)' = Sought(b)
    BY DEF Dirty, Sought
  <2> QED
    BY <2>1, <2>2 DEF IInv, Tracked, producers, entries, lifecycle
<1> QED
  BY <1>2, <1>3, <1>4, <1>5, <1>7, <1>8, <1>9 DEF IInv

LEMMA SaveKeeps ==
    ASSUME IInv, NEW w \in Worker, Save(w)
    PROVE  IInv'
<1>1. /\ pc[w] = "saving" /\ pc' = [pc EXCEPT ![w] = "syncing"]
      /\ disk[work[w].auth] = work[w].base
      /\ disk' = [disk EXCEPT ![work[w].auth] = work[w].snap]
      /\ faults' = faults
      /\ UNCHANGED <<mem, src, ver, producers, entries, rescanNeeded,
                     rescanRunning, lifecycle, work, scan, dropped>>
  BY DEF Save, Goto
<1>2. faults' \in 0..MaxFault
  BY <1>1 DEF IInv, TypeOK
<1> QED
  BY <1>1, <1>2, Written, SavedKeeps

LEMMA SaveFailsKeeps ==
    ASSUME IInv, NEW w \in Worker, NEW written \in BOOLEAN, SaveFails(w, written)
    PROVE  IInv'
<1>1. /\ pc[w] = "saving" /\ pc' = [pc EXCEPT ![w] = "failed"]
      /\ UNCHANGED <<mem, src, ver, producers, entries, rescanNeeded,
                     rescanRunning, lifecycle, work, scan, dropped>>
  BY DEF SaveFails, Goto
<1>2. faults' \in 0..MaxFault
  BY BoundAssumption DEF SaveFails, IInv, TypeOK
<1>3. disk' \in [Auth -> Version] /\ \A b \in Auth : disk[b] <= disk'[b] /\ disk'[b] <= ver[b]
  <2>1. CASE written
    <3>1. disk[work[w].auth] = work[w].base /\ disk' = [disk EXCEPT ![work[w].auth] = work[w].snap]
      BY <2>1 DEF SaveFails
    <3> QED
      BY <1>1, <3>1, Written
  <2>2. CASE ~written
    <3>1. disk' = disk
      BY <2>2 DEF SaveFails
    <3> QED
      BY <3>1, BoundAssumption DEF IInv, TypeOK, Ordered, Version
  <2> QED
    BY <2>1, <2>2
<1> QED
  BY <1>1, <1>2, <1>3, SavedKeeps

\* The hash follows the save; a content that came during it stays dirty, and
\* then the entry's generation had passed.
LEMMA SyncSourceHashKeeps ==
    ASSUME IInv, NEW w \in Worker, SyncSourceHash(w)
    PROVE  IInv'
<1> DEFINE a == work[w].auth
<1>1. /\ pc[w] = "syncing" /\ pc' = [pc EXCEPT ![w] = "succeeded"]
      /\ UNCHANGED <<mem, disk, ver, producers, entries, rescanNeeded,
                     rescanRunning, lifecycle, work, scan, faults, dropped>>
  BY DEF SyncSourceHash, Goto
<1>2. /\ a \in Auth /\ src[a] = work[w].base /\ work[w].snap \in Version
      /\ work[w].snap <= mem[a] /\ work[w].snap <= disk[a]
  BY <1>1 DEF IInv, Owned, Busy, Snapped, Inside, TypeOK
<1>3. src' = [src EXCEPT ![a] = work[w].snap]
  BY <1>2 DEF SyncSourceHash
<1>4. \A b \in Auth : src'[b] = IF b = a THEN work[w].snap ELSE src[b]
  BY <1>3 DEF IInv, TypeOK
<1>5. \A v \in Worker : pc'[v] = IF v = w THEN "succeeded" ELSE pc[v]
  BY <1>1 DEF IInv, TypeOK
<1>6. TypeOK'
  BY <1>1, <1>2, <1>3 DEF IInv, TypeOK, Stage, producers, entries, lifecycle
<1>7. QueueSound' /\ Abandoned'
  BY <1>1 DEF IInv, QueueSound, Abandoned, producers, entries, lifecycle
<1>8. Owned'
  BY <1>1, <1>5 DEF IInv, Owned, Busy, entries
<1>9. Scanned'
  BY <1>1, <1>5 DEF IInv, Scanned
<1>10. Ordered'
  BY <1>1, <1>2, <1>4 DEF IInv, Ordered
<1>11. Snapped'
  <2> SUFFICES ASSUME NEW v \in Worker, pc'[v] \in Inside
               PROVE  src'[work[v].auth] = work[v].base /\ pc[v] = pc'[v]
    BY <1>1 DEF IInv, Snapped
  <2>1. v # w /\ pc[v] = pc'[v]
    BY <1>5 DEF Inside
  <2>2. work[v].auth \in Auth /\ work[v].auth # a
    BY <1>2, <2>1, NullAssumption DEF IInv, Owned, Busy, Inside
  <2> QED
    BY <1>4, <2>1, <2>2 DEF IInv, Snapped
<1>12. Tracked'
  <2> SUFFICES ASSUME NEW b \in Auth, Dirty(b)', ~closed', ~dropped'[b], producing'[b] = NoProducer
               PROVE  /\ status'[b] = "none" => Sought(b)'
                      /\ status'[b] = "active" => newer'[b] \/ \E v \in Worker : Carries(v, b)'
    BY DEF Tracked
  <2>1. Sought(b)' = Sought(b)
    BY <1>1 DEF Sought
  <2>2. CASE b = a
    <3>1. work[w].snap # mem[a]
      BY <1>1, <1>4, <2>2 DEF Dirty
    <3>2. Dirty(a)
      <4>1. work[w].base < work[w].snap /\ work[w].snap <= mem[a]
        BY <1>1 DEF IInv, Snapped, Inside
      <4>2. work[w].snap \in Int /\ work[w].base \in Int /\ mem[a] \in Int
        BY <1>2, BoundAssumption DEF IInv, TypeOK, Version, NoHash
      <4>3. src[a] # mem[a]
        BY <1>2, <3>1, <4>1, <4>2
      <4>4. src[a] # NoHash
        BY <1>1 DEF IInv, Snapped, Inside
      <4> QED
        BY <4>3, <4>4 DEF Dirty
    <3>3. \A v \in Worker : ~Carries(v, a)
      BY <1>1, <1>2, <3>1, NullAssumption DEF IInv, Owned, Carries, Inside
    <3>4. status[a] = "active" /\ newer[a]
      BY <1>1, <1>2, <2>2, <3>2, <3>3, NullAssumption DEF IInv, Tracked, Owned, producers, lifecycle
    <3> QED
      BY <1>1, <2>2, <3>4 DEF entries
  <2>3. CASE b # a
    <3>1. Dirty(b)
      BY <1>1, <1>4, <2>3 DEF Dirty
    <3>2. \A v \in Worker : Carries(v, b) => Carries(v, b)'
      BY <1>1, <1>5, <2>3 DEF Carries
    <3> QED
      BY <1>1, <2>1, <3>1, <3>2 DEF IInv, Tracked, producers, entries, lifecycle
  <2> QED
    BY <2>2, <2>3
<1> QED
  BY <1>6, <1>7, <1>8, <1>9, <1>10, <1>11, <1>12 DEF IInv

-----------------------------------------------------------------------------
\* When a save is over and no newer generation came, nothing is left to save.
LEMMA NothingLeft ==
    ASSUME IInv, NEW w \in Worker, pc[w] \in {"succeeded", "terminal"}, ~newer[work[w].auth],
           Dirty(work[w].auth), ~closed, producing[work[w].auth] = NoProducer
    PROVE  dropped[work[w].auth]
<1> DEFINE a == work[w].auth
<1>1. a \in Auth /\ status[a] = "active"
  BY NullAssumption DEF IInv, Owned, Busy
<1>2. \A v \in Worker : ~Carries(v, a)
  BY <1>1, NullAssumption DEF IInv, Owned, Carries, Inside
<1> QED
  BY <1>1, <1>2 DEF IInv, Tracked

\* What the three finishes have in common, next being what becomes of the entry.
LEMMA FinishedKeeps ==
    ASSUME IInv, NEW w \in Worker, pc[w] \in {"succeeded", "failed", "terminal"}, Finished(w),
           NEW next \in {"none", "queued"},
           status' = [status EXCEPT ![work[w].auth] = next],
           newer' = [newer EXCEPT ![work[w].auth] = FALSE],
           resting' \in [Auth -> BOOLEAN], queue' \in Seq(Auth), QueueSound',
           dropped' \in [Auth -> BOOLEAN],
           \A b \in Auth \ {work[w].auth} : dropped'[b] = dropped[b],
           next = "none" => \/ closed \/ dropped'[work[w].auth] \/ ~Dirty(work[w].auth)
                            \/ producing[work[w].auth] # NoProducer
    PROVE  IInv'
<1> DEFINE a == work[w].auth
<1>1. /\ pc' = [pc EXCEPT ![w] = "loop"] /\ work' = [work EXCEPT ![w] = NoWork]
      /\ UNCHANGED <<content, producers, rescanNeeded, rescanRunning, lifecycle, scan, faults>>
  BY DEF Finished, Goto
<1>2. a \in Auth /\ status[a] = "active"
  BY NullAssumption DEF IInv, Owned, Busy
<1>3. \A v \in Worker : /\ pc'[v] = IF v = w THEN "loop" ELSE pc[v]
                        /\ work'[v] = IF v = w THEN NoWork ELSE work[v]
  BY <1>1 DEF IInv, TypeOK
<1>4. \A b \in Auth : status'[b] = IF b = a THEN next ELSE status[b]
  BY <1>2 DEF IInv, TypeOK
<1>5. \A v \in Worker \ {w} : work[v].auth # a
  BY <1>2, NullAssumption DEF IInv, Owned
<1>6. TypeOK'
  <2>1. NoWork \in [auth : Auth \union {NoAuth}, snap : Version, base : Version \union {NoHash}]
    BY BoundAssumption DEF NoWork, Version
  <2>2. /\ work' \in [Worker -> [auth : Auth \union {NoAuth}, snap : Version,
                                 base : Version \union {NoHash}]]
        /\ pc' \in [Worker -> Stage]
    BY <1>1, <2>1 DEF IInv, TypeOK, Stage
  <2>3. status' \in [Auth -> {"none", "queued", "active"}] /\ newer' \in [Auth -> BOOLEAN]
    BY DEF IInv, TypeOK
  <2> QED
    BY <1>1, <2>2, <2>3 DEF IInv, TypeOK, content, producers, lifecycle
<1>7. Owned'
  <2>1. \A v \in Worker : IF pc'[v] \in Busy THEN work'[v].auth \in Auth ELSE work'[v] = NoWork
    BY <1>3 DEF IInv, Owned, Busy
  <2>2. NoWork.auth = NoAuth
    BY DEF NoWork
  <2>3. \A v \in Worker : work'[v].auth # NoAuth => v # w /\ work'[v] = work[v] /\ work[v].auth \in Auth
    BY <1>3, <1>6, <2>2 DEF TypeOK
  <2>4. \A v \in Worker : work'[v].auth # NoAuth => status'[work'[v].auth] = "active"
    BY <1>4, <1>5, <2>3 DEF IInv, Owned
  <2>5. \A u, v \in Worker : work'[u].auth = work'[v].auth /\ work'[u].auth # NoAuth => u = v
    BY <2>3 DEF IInv, Owned
  <2>6. ASSUME NEW b \in Auth, status'[b] = "active" PROVE \E v \in Worker : work'[v].auth = b
    <3>1. b # a /\ status[b] = "active"
      BY <1>4, <2>6
    <3>2. PICK v \in Worker : work[v].auth = b
      BY <3>1 DEF IInv, Owned
    <3>3. v # w
      BY <3>1, <3>2
    <3> QED
      BY <1>3, <3>2, <3>3
  <2> QED
    BY <2>1, <2>4, <2>5, <2>6 DEF Owned
<1>8. Scanned'
  BY <1>1, <1>3 DEF IInv, Scanned
<1>9. Abandoned' /\ Ordered'
  BY <1>1 DEF IInv, Abandoned, Ordered, content, producers, lifecycle
<1>10. Snapped'
  BY <1>1, <1>3 DEF IInv, Snapped, Inside, content
<1>11. Tracked'
  <2> SUFFICES ASSUME NEW b \in Auth, Dirty(b)', ~closed', ~dropped'[b], producing'[b] = NoProducer
               PROVE  /\ status'[b] = "none" => Sought(b)'
                      /\ status'[b] = "active" => newer'[b] \/ \E v \in Worker : Carries(v, b)'
    BY DEF Tracked
  <2>1. Dirty(b) /\ ~closed /\ producing[b] = NoProducer
    BY <1>1 DEF Dirty, content, producers, lifecycle
  <2>2. CASE b = a
    BY <1>4, <2>1, <2>2
  <2>3. CASE b # a
    <3>1. ~dropped[b] /\ newer'[b] = newer[b] /\ status'[b] = status[b]
      BY <1>4, <2>3 DEF IInv, TypeOK
    <3>2. Sought(b) => Sought(b)'
      BY <1>1 DEF Sought
    <3>3. \A v \in Worker : Carries(v, b) => Carries(v, b)'
      BY <1>1, <1>3, <2>3 DEF Carries, Inside, content
    <3> QED
      BY <2>1, <3>1, <3>2, <3>3 DEF IInv, Tracked
  <2> QED
    BY <2>2, <2>3
<1> QED
  BY <1>6, <1>7, <1>8, <1>9, <1>10, <1>11 DEF IInv

LEMMA RequeueEffect ==
    ASSUME IInv, NEW a \in Auth, status[a] = "active", NEW rests \in BOOLEAN, Requeue(a, rests)
    PROVE  /\ status' = [status EXCEPT ![a] = "queued"] /\ newer' = [newer EXCEPT ![a] = FALSE]
           /\ resting' \in [Auth -> BOOLEAN] /\ queue' \in Seq(Auth) /\ QueueSound'
<1>1. status' = [status EXCEPT ![a] = "queued"] /\ queue' = Append(queue, a)
  BY DEF Requeue
<1>2. QueueSound' /\ queue' \in Seq(Auth)
  BY <1>1, QueueAppended DEF IInv
<1> QED
  BY <1>2 DEF Requeue, IInv, TypeOK

LEMMA DeleteEffect ==
    ASSUME IInv, NEW a \in Auth, status[a] = "active", Delete(a)
    PROVE  /\ status' = [status EXCEPT ![a] = "none"] /\ newer' = [newer EXCEPT ![a] = FALSE]
           /\ resting' \in [Auth -> BOOLEAN] /\ queue' \in Seq(Auth) /\ QueueSound'
<1>1. /\ status' = [status EXCEPT ![a] = "none"] /\ newer' = [newer EXCEPT ![a] = FALSE]
      /\ resting' = resting /\ queue' = queue
  BY DEF Delete
<1>2. queue \in Seq(Auth) /\ \A i \in 1..Len(queue) : queue[i] \in Auth
  BY DEF IInv, TypeOK
<1>3. \A b \in Auth : /\ b # a => status'[b] = status[b]
                      /\ b = a => status'[b] = "none"
  BY <1>1 DEF IInv, TypeOK
<1>4. QueueSound'
  BY <1>1, <1>2, <1>3 DEF IInv, QueueSound
<1> QED
  BY <1>1, <1>2, <1>4 DEF IInv, TypeOK

LEMMA FinishSuccessKeeps ==
    ASSUME IInv, NEW w \in Worker, FinishSuccess(w)
    PROVE  IInv'
<1> DEFINE a == work[w].auth
<1>1. pc[w] = "succeeded" /\ Finished(w) /\ a \in Auth /\ status[a] = "active"
  BY NullAssumption DEF FinishSuccess, IInv, Owned, Busy
<1>2. CASE newer[a] /\ ~closed
  <2>1. Requeue(a, FALSE) /\ dropped' = dropped
    BY <1>2 DEF FinishSuccess
  <2>2. dropped' \in [Auth -> BOOLEAN] /\ \A b \in Auth \ {a} : dropped'[b] = dropped[b]
    BY <2>1 DEF IInv, TypeOK
  <2> HIDE DEF a
  <2>3. /\ status' = [status EXCEPT ![a] = "queued"] /\ newer' = [newer EXCEPT ![a] = FALSE]
        /\ resting' \in [Auth -> BOOLEAN] /\ queue' \in Seq(Auth) /\ QueueSound'
    BY <1>1, <2>1, RequeueEffect
  <2> QED
    BY <1>1, <2>2, <2>3, FinishedKeeps DEF a
<1>3. CASE ~(newer[a] /\ ~closed)
  <2>1. Delete(a) /\ dropped' = [dropped EXCEPT ![a] = @ \/ newer[a]]
    BY <1>3 DEF FinishSuccess
  <2>2. /\ dropped' \in [Auth -> BOOLEAN] /\ \A b \in Auth \ {a} : dropped'[b] = dropped[b]
        /\ dropped[a] => dropped'[a]
    BY <1>1, <2>1 DEF IInv, TypeOK
  <2>3. closed \/ dropped'[a] \/ ~Dirty(a) \/ producing[a] # NoProducer
    BY <1>1, <1>3, <2>2, NothingLeft
  <2> HIDE DEF a
  <2>4. /\ status' = [status EXCEPT ![a] = "none"] /\ newer' = [newer EXCEPT ![a] = FALSE]
        /\ resting' \in [Auth -> BOOLEAN] /\ queue' \in Seq(Auth) /\ QueueSound'
    BY <1>1, <2>1, DeleteEffect
  <2> QED
    BY <1>1, <2>2, <2>3, <2>4, FinishedKeeps DEF a
<1> QED
  BY <1>2, <1>3

LEMMA FinishFailureKeeps ==
    ASSUME IInv, NEW w \in Worker, FinishFailure(w)
    PROVE  IInv'
<1> DEFINE a == work[w].auth
<1>1. pc[w] = "failed" /\ Finished(w) /\ a \in Auth /\ status[a] = "active"
  BY NullAssumption DEF FinishFailure, IInv, Owned, Busy
<1>2. CASE ~closed
  <2>1. Requeue(a, TRUE) /\ dropped' = dropped
    BY <1>2 DEF FinishFailure
  <2>2. dropped' \in [Auth -> BOOLEAN] /\ \A b \in Auth \ {a} : dropped'[b] = dropped[b]
    BY <2>1 DEF IInv, TypeOK
  <2> HIDE DEF a
  <2>3. /\ status' = [status EXCEPT ![a] = "queued"] /\ newer' = [newer EXCEPT ![a] = FALSE]
        /\ resting' \in [Auth -> BOOLEAN] /\ queue' \in Seq(Auth) /\ QueueSound'
    BY <1>1, <2>1, RequeueEffect
  <2> QED
    BY <1>1, <2>2, <2>3, FinishedKeeps DEF a
<1>3. CASE closed
  <2>1. Delete(a) /\ dropped' = [dropped EXCEPT ![a] = TRUE]
    BY <1>3 DEF FinishFailure
  <2>2. dropped' \in [Auth -> BOOLEAN] /\ \A b \in Auth \ {a} : dropped'[b] = dropped[b]
    BY <1>1, <2>1 DEF IInv, TypeOK
  <2> HIDE DEF a
  <2>3. /\ status' = [status EXCEPT ![a] = "none"] /\ newer' = [newer EXCEPT ![a] = FALSE]
        /\ resting' \in [Auth -> BOOLEAN] /\ queue' \in Seq(Auth) /\ QueueSound'
    BY <1>1, <2>1, DeleteEffect
  <2> QED
    BY <1>1, <1>3, <2>2, <2>3, FinishedKeeps DEF a
<1> QED
  BY <1>2, <1>3

LEMMA FinishTerminalKeeps ==
    ASSUME IInv, NEW w \in Worker, FinishTerminal(w)
    PROVE  IInv'
<1> DEFINE a == work[w].auth
<1>1. pc[w] = "terminal" /\ Finished(w) /\ a \in Auth /\ status[a] = "active"
  BY NullAssumption DEF FinishTerminal, IInv, Owned, Busy
<1>2. Delete(a) /\ dropped' = [dropped EXCEPT ![a] = @ \/ newer[a]]
  BY DEF FinishTerminal
<1>3. /\ dropped' \in [Auth -> BOOLEAN] /\ \A b \in Auth \ {a} : dropped'[b] = dropped[b]
      /\ dropped[a] \/ newer[a] => dropped'[a]
  BY <1>1, <1>2 DEF IInv, TypeOK
<1>4. closed \/ dropped'[a] \/ ~Dirty(a) \/ producing[a] # NoProducer
  BY <1>1, <1>3, NothingLeft
<1> HIDE DEF a
<1>5. /\ status' = [status EXCEPT ![a] = "none"] /\ newer' = [newer EXCEPT ![a] = FALSE]
      /\ resting' \in [Auth -> BOOLEAN] /\ queue' \in Seq(Auth) /\ QueueSound'
  BY <1>1, <1>2, DeleteEffect
<1> QED
  BY <1>1, <1>3, <1>4, <1>5, FinishedKeeps DEF a

-----------------------------------------------------------------------------
LEMMA InitIInv == Init => IInv
<1> SUFFICES ASSUME Init PROVE IInv
  OBVIOUS
<1>1. TypeOK
  <2>1. NoWork \in [auth : Auth \union {NoAuth}, snap : Version, base : Version \union {NoHash}]
        /\ NoScan \in [todo : SUBSET Auth, found : SUBSET Auth, room : 0..QueueLimit, more : BOOLEAN]
        /\ 0 \in Version /\ 0 \in 0..MaxFault
    BY BoundAssumption DEF NoWork, NoScan, Version
  <2>2. queue \in Seq(Auth)
    BY DEF Init
  <2> QED
    BY <2>1, <2>2 DEF Init, TypeOK, Stage
<1>2. QueueSound
  BY DEF Init, QueueSound
<1>3. Owned /\ Scanned /\ Abandoned /\ Snapped
  BY DEF Init, Owned, Scanned, Abandoned, Snapped, Busy, Inside, NoWork
<1>4. Ordered
  BY DEF Init, Ordered
<1>5. Tracked
  BY DEF Init, Tracked, Dirty
<1> QED
  BY <1>1, <1>2, <1>3, <1>4, <1>5 DEF IInv

LEMMA StutterKeeps ==
    ASSUME IInv, UNCHANGED vars
    PROVE  IInv'
<1>1. Frame /\ UNCHANGED <<producers, lifecycle, resting, faults>>
  BY DEF vars, Frame, content, producers, entries, lifecycle
<1>2. TypeOK' /\ Abandoned'
  BY <1>1 DEF IInv, TypeOK, Abandoned, Frame, producers, lifecycle
<1> QED
  BY <1>1, <1>2, FrameKeeps DEF lifecycle

LEMMA NextIInv ==
    ASSUME IInv, [Next]_vars
    PROVE  IInv'
<1>1. ASSUME NEW a \in Auth, NEW p \in Producer, NEW durable \in BOOLEAN, Mutate(p, a, durable)
      PROVE  IInv'
  BY <1>1, MutateKeeps
<1>2. ASSUME NEW a \in Auth, ResultStep(a) PROVE IInv'
  BY <1>2, EnqueueResultKeeps, RefuseResultKeeps DEF ResultStep
<1>3. ASSUME NEW a \in Auth, WriteFile(a) \/ RetryDue(a) PROVE IInv'
  BY <1>3, WriteFileKeeps, RetryDueKeeps
<1>4. ASSUME NEW a \in Auth, NEW h \in {disk[a], NoHash}, Reload(a, h) PROVE IInv'
  BY <1>4, ReloadKeeps
<1>5. ASSUME NEW p \in Producer, Unregister(p) \/ \E kind \in {"request", "flight"} : Register(p, kind)
      PROVE  IInv'
  BY <1>5, ProducersKeep
<1>6. ASSUME NEW w \in Worker, WorkerStep(w) PROVE IInv'
  <2>1. CASE RescanStart(w) \/ RescanEnd(w) \/ \E a \in Auth : RescanVisit(w, a) \/ RescanEnqueue(w, a)
    BY <2>1, RescanStartKeeps, RescanEndKeeps, RescanVisitKeeps, RescanEnqueueKeeps
  <2>2. CASE TakeReadyWork(w) \/ Wait(w) \/ WakeUp(w) \/ ExitIfIdle(w) \/ ExitClosed(w)
    BY <2>2, TakeReadyWorkKeeps, IdleKeeps
  <2>3. CASE Snapshot(w) \/ Save(w) \/ SaveStale(w) \/ SyncSourceHash(w)
    BY <2>3, SnapshotKeeps, SaveKeeps, GiveUpKeeps, SyncSourceHashKeeps
  <2>4. CASE FinishSuccess(w) \/ FinishFailure(w) \/ FinishTerminal(w)
    BY <2>4, FinishSuccessKeeps, FinishFailureKeeps, FinishTerminalKeeps
  <2> QED
    BY <1>6, <2>1, <2>2, <2>3, <2>4 DEF WorkerStep
<1>7. ASSUME NEW w \in Worker, Fault(w) PROVE IInv'
  BY <1>7, GiveUpKeeps, SaveFailsKeeps DEF Fault
<1>8. ASSUME StopAccepting \/ AbandonProducers \/ CloseBegin \/ DrainTimeout \/ CloseEnd PROVE IInv'
  BY <1>8, LifecycleKeeps, CloseBeginKeeps
<1> QED
  BY <1>1, <1>2, <1>3, <1>4, <1>5, <1>6, <1>7, <1>8, StutterKeeps DEF Next

LEMMA SpecIInv == Spec => []IInv
  BY InitIInv, NextIInv, PTL DEF Spec

-----------------------------------------------------------------------------
\* Every variable keeps the type of the field or local it stands for, whatever
\* the sizes and bounds.
THEOREM ResultTypes == Spec => []TypeOK
<1>1. IInv => TypeOK
  BY DEF IInv
<1> QED
  BY <1>1, SpecIInv, PTL

LEMMA TrackedAwaited == IInv => NothingForgotten
<1> SUFFICES ASSUME IInv, NEW a \in Auth, Dirty(a), ~closed, ~dropped[a], producing[a] = NoProducer
             PROVE  Awaited(a)
  BY DEF NothingForgotten, Awaited
<1>1. CASE status[a] = "none"
  BY <1>1 DEF IInv, Tracked, Sought, Awaited
<1>2. CASE status[a] = "queued"
  BY <1>2 DEF Awaited
<1>3. CASE status[a] = "active"
  BY <1>3 DEF IInv, Tracked, Carries, Inside, Awaited
<1>4. status[a] \in {"none", "queued", "active"}
  BY DEF IInv, TypeOK
<1> QED
  BY <1>1, <1>2, <1>3, <1>4

\* enqueueInternal(), the rescan and finish*(): while the coordinator is open,
\* somebody will still look at every content that is not durable, but for the
\* two losses by design.
THEOREM ResultNotForgotten == Spec => []NothingForgotten
  BY SpecIInv, TrackedAwaited, PTL

\* syncResultPersistenceSourceHash(): the source hash never stands for a content
\* the file has not held.
THEOREM ResultHashFollows == Spec => []HashNotAhead
<1>1. IInv => HashNotAhead
  BY DEF IInv, Ordered, HashNotAhead
<1> QED
  BY <1>1, SpecIInv, PTL

\* Only these steps change a file.
LEMMA FileWriters ==
    ASSUME [Next]_vars, NEW a \in Auth, disk'[a] # disk[a]
    PROVE  \/ \E b \in Auth : WriteFile(b)
           \/ \E w \in Worker : Save(w) \/ \E written \in BOOLEAN : SaveFails(w, written)
<1> SUFFICES ASSUME ~(\E b \in Auth : WriteFile(b)),
                    ~(\E w \in Worker : Save(w) \/ \E written \in BOOLEAN : SaveFails(w, written))
             PROVE  disk' = disk
  OBVIOUS
<1>1. CASE UNCHANGED vars
  BY <1>1 DEF vars, content
<1>2. ASSUME NEW b \in Auth,
             \/ \E p \in Producer, durable \in BOOLEAN : Mutate(p, b, durable)
             \/ ResultStep(b)
             \/ \E h \in {disk[b], NoHash} : Reload(b, h)
             \/ RetryDue(b)
      PROVE  disk' = disk
  BY <1>2 DEF Mutate, ResultStep, EnqueueResult, RefuseResult, Reload, RetryDue, content
<1>3. ASSUME NEW p \in Producer, Unregister(p) \/ \E kind \in {"request", "flight"} : Register(p, kind)
      PROVE  disk' = disk
  BY <1>3 DEF Unregister, Register, content
<1>4. ASSUME NEW w \in Worker, WorkerStep(w) \/ AcquireFails(w) PROVE disk' = disk
  BY <1>4 DEF WorkerStep, AcquireFails, RescanStart, RescanEnd, RescanVisit, RescanEnqueue, TakeReadyWork,
     Wait, WakeUp, ExitIfIdle, ExitClosed, Snapshot, SaveStale, SyncSourceHash, FinishSuccess, FinishFailure,
     FinishTerminal, Finished, content
<1>5. ASSUME StopAccepting \/ AbandonProducers \/ CloseBegin \/ DrainTimeout \/ CloseEnd PROVE disk' = disk
  BY <1>5 DEF StopAccepting, AbandonProducers, CloseBegin, DrainTimeout, CloseEnd, content
<1> QED
  BY <1>1, <1>2, <1>3, <1>4, <1>5 DEF Next, Fault

LEMMA KnownReplaced ==
    ASSUME IInv, [Next]_vars
    PROVE  \A a \in Auth : disk'[a] # disk[a] => disk[a] = src[a] \/ ver'[a] > ver[a]
<1> SUFFICES ASSUME NEW a \in Auth, disk'[a] # disk[a]
             PROVE  disk[a] = src[a] \/ ver'[a] > ver[a]
  OBVIOUS
<1>1. ASSUME NEW b \in Auth, WriteFile(b) PROVE ver'[a] > ver[a]
  <2>1. ver' = [ver EXCEPT ![b] = ver[b] + 1] /\ disk' = [disk EXCEPT ![b] = ver[b] + 1]
    BY <1>1 DEF WriteFile
  <2>2. b = a
    BY <2>1 DEF IInv, TypeOK
  <2> QED
    BY <2>1, <2>2, BoundAssumption DEF IInv, TypeOK, Version
<1>2. ASSUME NEW w \in Worker, Save(w) \/ \E written \in BOOLEAN : SaveFails(w, written)
      PROVE  disk[a] = src[a]
  <2>1. /\ pc[w] = "saving" /\ disk[work[w].auth] = work[w].base
        /\ disk' = [disk EXCEPT ![work[w].auth] = work[w].snap]
    BY <1>2 DEF Save, SaveFails
  <2>2. a = work[w].auth
    BY <2>1 DEF IInv, TypeOK
  <2> QED
    BY <2>1, <2>2 DEF IInv, Snapped, Inside
<1> QED
  BY <1>1, <1>2, FileWriters

\* persist(): a background save replaces only the content the runtime credential
\* came from; a foreign write is never overwritten unseen.
THEOREM ResultReplacesKnown == Spec => OnlyKnownReplaced
<1>1. IInv /\ [Next]_vars => [\A a \in Auth :
          disk'[a] # disk[a] => disk[a] = src[a] \/ ver'[a] > ver[a]]_vars
  BY KnownReplaced
<1> QED
  BY <1>1, SpecIInv, PTL DEF Spec, OnlyKnownReplaced

\* Only the end of close() sets the flag.
LEMMA ClosesAtTheEnd ==
    ASSUME [Next]_vars, closed' # closed
    PROVE  CloseEnd
<1> SUFFICES ASSUME ~CloseEnd PROVE closed' = closed
  OBVIOUS
<1>1. CASE UNCHANGED vars
  BY <1>1 DEF vars, lifecycle
<1>2. ASSUME NEW b \in Auth,
             \/ \E p \in Producer, durable \in BOOLEAN : Mutate(p, b, durable)
             \/ ResultStep(b)
             \/ WriteFile(b)
             \/ \E h \in {disk[b], NoHash} : Reload(b, h)
             \/ RetryDue(b)
      PROVE  closed' = closed
  BY <1>2 DEF Mutate, ResultStep, EnqueueResult, RefuseResult, WriteFile, Reload, RetryDue, lifecycle
<1>3. ASSUME NEW p \in Producer, Unregister(p) \/ \E kind \in {"request", "flight"} : Register(p, kind)
      PROVE  closed' = closed
  BY <1>3 DEF Unregister, Register, lifecycle
<1>4. ASSUME NEW w \in Worker, WorkerStep(w) \/ Fault(w) PROVE closed' = closed
  BY <1>4 DEF WorkerStep, Fault, AcquireFails, RescanStart, RescanEnd, RescanVisit, RescanEnqueue,
     TakeReadyWork, Wait, WakeUp, ExitIfIdle, ExitClosed, Snapshot, Save, SaveFails, SaveStale, SyncSourceHash,
     FinishSuccess, FinishFailure, FinishTerminal, Finished, lifecycle
<1>5. ASSUME StopAccepting \/ AbandonProducers \/ CloseBegin \/ DrainTimeout PROVE closed' = closed
  BY <1>5 DEF StopAccepting, AbandonProducers, CloseBegin, DrainTimeout, lifecycle
<1> QED
  BY <1>1, <1>2, <1>3, <1>4, <1>5 DEF Next

LEMMA DrainedDurable ==
    ASSUME IInv, [Next]_vars, closed', ~closed, Drained, NEW a \in Auth, Dirty(a), ~dropped[a]
    PROVE  producing[a] # NoProducer /\ producer[producing[a]] = "abandoned"
<1>1. closing
  BY ClosesAtTheEnd DEF CloseEnd
<1>2. status[a] = "none" /\ ~rescanNeeded /\ ~rescanRunning
  BY DEF Drained, Entries
<1>3. \A w \in Worker : scan[w] = NoScan
  BY <1>2 DEF IInv, Scanned
<1>4. ~Sought(a)
  BY <1>2, <1>3 DEF Sought, NoScan
<1>5. producing[a] # NoProducer
  BY <1>2, <1>4 DEF IInv, Tracked
<1>6. producing[a] \in Producer
  BY <1>5 DEF IInv, TypeOK
<1> QED
  BY <1>1, <1>5, <1>6 DEF IInv, Abandoned

\* close(): when it reports a complete drain, only results of producers that
\* outlived both deadlines are not in the store.
THEOREM ResultDrained == Spec => DrainedMeansDurable
<1>1. IInv /\ [Next]_vars => [closed' /\ ~closed /\ Drained =>
          \A a \in Auth : Dirty(a) =>
             \/ dropped[a]
             \/ producing[a] # NoProducer /\ producer[producing[a]] = "abandoned"]_vars
  BY DrainedDurable
<1> QED
  BY <1>1, SpecIInv, PTL DEF Spec, DrainedMeansDurable

-----------------------------------------------------------------------------
(* ResultPersistence implements StoredContent *)

\* The workers between the save of a and the change of its source hash.
Syncing(a) == {w \in Worker : pc[w] = "syncing" /\ work[w].auth = a}

LEMMA UnconfirmedValue ==
    ASSUME NEW a
    PROVE  /\ Syncing(a) = {} => Unconfirmed(a) = NoHash
           /\ \A w : Syncing(a) = {w} => Unconfirmed(a) = work[w].snap
           /\ Syncing(a)' = {} => Unconfirmed(a)' = NoHash
           /\ \A w : Syncing(a)' = {w} => Unconfirmed(a)' = work'[w].snap
<1>1. Syncing(a) = {} => Unconfirmed(a) = NoHash
  BY DEF Unconfirmed, Syncing
<1>2. ASSUME NEW w, Syncing(a) = {w} PROVE Unconfirmed(a) = work[w].snap
  BY <1>2 DEF Unconfirmed, Syncing
<1>3. Syncing(a)' = {} => Unconfirmed(a)' = NoHash
  BY DEF Unconfirmed, Syncing
<1>4. ASSUME NEW w, Syncing(a)' = {w} PROVE Unconfirmed(a)' = work'[w].snap
  BY <1>4 DEF Unconfirmed, Syncing
<1> QED
  BY <1>1, <1>2, <1>3, <1>4

\* A step that changes no content and moves nobody to or from its hash.
Calm ==
    /\ UNCHANGED content
    /\ \A v \in Worker : /\ pc'[v] = "syncing" <=> pc[v] = "syncing"
                         /\ pc[v] = "syncing" => work'[v] = work[v]

LEMMA UnconfirmedSame ==
    ASSUME NEW a, Syncing(a)' = Syncing(a), \A v \in Syncing(a) : work'[v].snap = work[v].snap
    PROVE  Unconfirmed(a)' = Unconfirmed(a)
<1>1. CASE Syncing(a) = {}
  BY <1>1, UnconfirmedValue
<1>2. CASE Syncing(a) # {}
  <2>1. (CHOOSE v \in Syncing(a) : TRUE) \in Syncing(a)
    BY <1>2
  <2>2. Unconfirmed(a) = work[CHOOSE v \in Syncing(a) : TRUE].snap
    BY <1>2 DEF Unconfirmed, Syncing
  <2>3. Unconfirmed(a)' = work'[CHOOSE v \in Syncing(a)' : TRUE].snap
    BY <1>2 DEF Unconfirmed, Syncing
  <2> QED
    BY <2>1, <2>2, <2>3
<1> QED
  BY <1>1, <1>2

LEMMA CalmStutters == Calm => UNCHANGED Stored!storedVars
<1> SUFFICES ASSUME Calm PROVE UNCHANGED Stored!storedVars
  OBVIOUS
<1>1. ASSUME NEW a \in Auth PROVE Unconfirmed(a)' = Unconfirmed(a)
  <2>1. Syncing(a)' = Syncing(a) /\ \A v \in Syncing(a) : work'[v].snap = work[v].snap
    BY DEF Calm, Syncing
  <2> QED
    BY <2>1, UnconfirmedSame
<1>2. [a \in Auth |-> Unconfirmed(a)]' = [a \in Auth |-> Unconfirmed(a)]
  BY <1>1
<1> QED
  BY <1>2 DEF Calm, content, Stored!storedVars

\* Of a credential in the hands of a worker nothing is unconfirmed but what
\* this worker saved.
LEMMA Alone ==
    ASSUME IInv, NEW w \in Worker, pc[w] \in Busy
    PROVE  /\ work[w].auth \in Auth
           /\ Syncing(work[w].auth) = IF pc[w] = "syncing" THEN {w} ELSE {}
<1>1. work[w].auth \in Auth /\ work[w].auth # NoAuth
  BY NullAssumption DEF IInv, Owned
<1>2. \A v \in Worker : work[v].auth = work[w].auth => v = w
  BY <1>1 DEF IInv, Owned
<1> QED
  BY <1>1, <1>2 DEF Syncing

LEMMA InitStored == Init => Stored!StoredInit
<1> SUFFICES ASSUME Init PROVE Stored!StoredInit
  OBVIOUS
<1>1. \A a \in Auth : Unconfirmed(a) = NoHash
  <2>1. \A a \in Auth : Syncing(a) = {}
    BY DEF Init, Syncing
  <2> QED
    BY <2>1, UnconfirmedValue
<1>2. 0 \in Version
  BY BoundAssumption DEF Version
<1> QED
  BY <1>1, <1>2 DEF Init, Stored!StoredInit

LEMMA MutateStored ==
    ASSUME IInv, NEW p \in Producer, NEW a \in Auth, NEW durable \in BOOLEAN, Mutate(p, a, durable)
    PROVE  \/ \E v \in Version : Stored!Change(a, v)
           \/ UNCHANGED Stored!storedVars
<1>1. UNCHANGED <<src, disk, pc, work>> /\ ver[a] < MaxVersion
  BY DEF Mutate, MoreEvents
<1>2. [b \in Auth |-> Unconfirmed(b)]' = [b \in Auth |-> Unconfirmed(b)]
  BY <1>1 DEF Unconfirmed
<1>3. CASE durable
  <2>1. mem' = [mem EXCEPT ![a] = ver[a] + 1]
    BY <1>3 DEF Mutate
  <2>2. ver[a] + 1 \in Version /\ ver[a] + 1 > mem[a] /\ ver[a] + 1 > disk[a]
    BY <1>1, BoundAssumption DEF IInv, TypeOK, Ordered, Version
  <2>3. Stored!Change(a, ver[a] + 1)
    BY <1>1, <1>2, <2>1, <2>2 DEF Stored!Change
  <2> QED
    BY <2>2, <2>3
<1>4. CASE ~durable
  BY <1>1, <1>2, <1>4 DEF Mutate, Stored!storedVars
<1> QED
  BY <1>3, <1>4

LEMMA WriteFileStored ==
    ASSUME IInv, NEW a \in Auth, WriteFile(a)
    PROVE  \E v \in Version : Stored!Overwrite(a, v)
<1>1. /\ UNCHANGED <<src, mem, pc, work>> /\ ver[a] < MaxVersion
      /\ disk' = [disk EXCEPT ![a] = ver[a] + 1]
  BY DEF WriteFile, MoreEvents
<1>2. [b \in Auth |-> Unconfirmed(b)]' = [b \in Auth |-> Unconfirmed(b)]
  BY <1>1 DEF Unconfirmed
<1>3. ver[a] + 1 \in Version /\ ver[a] + 1 > mem[a] /\ ver[a] + 1 > disk[a]
  BY <1>1, BoundAssumption DEF IInv, TypeOK, Ordered, Version
<1> QED
  BY <1>1, <1>2, <1>3 DEF Stored!Overwrite

\* A reload takes the credential's lock, so that nothing is unconfirmed.
LEMMA ReloadStored ==
    ASSUME IInv, NEW a \in Auth, NEW h \in {disk[a], NoHash}, Reload(a, h)
    PROVE  Stored!Load(a, h)
<1>1. /\ UNCHANGED <<disk, pc, work>> /\ ~Locked(a)
      /\ mem' = [mem EXCEPT ![a] = disk[a]] /\ src' = [src EXCEPT ![a] = h]
  BY DEF Reload
<1>2. [b \in Auth |-> Unconfirmed(b)]' = [b \in Auth |-> Unconfirmed(b)]
  BY <1>1 DEF Unconfirmed
<1>3. Unconfirmed(a) = NoHash
  <2>1. Syncing(a) = {}
    BY <1>1 DEF Locked, Syncing
  <2> QED
    BY <2>1, UnconfirmedValue
<1> QED
  BY <1>1, <1>2, <1>3 DEF Stored!Load

\* A save, told or not: told is where the worker goes to change the hash.
LEMMA SavedStored ==
    ASSUME IInv, NEW w \in Worker, pc[w] = "saving", NEW next \in {"syncing", "failed"},
           pc' = [pc EXCEPT ![w] = next], UNCHANGED <<mem, src, work>>,
           disk[work[w].auth] = work[w].base,
           disk' = [disk EXCEPT ![work[w].auth] = work[w].snap]
    PROVE  \E told \in BOOLEAN : Stored!Save(work[w].auth, work[w].snap, told)
<1> DEFINE a == work[w].auth
           v == work[w].snap
           told == next = "syncing"
           found == [b \in Auth |-> Unconfirmed(b)]
<1>1. a \in Auth /\ Syncing(a) = {}
  BY Alone DEF Busy
<1>2. \A u \in Worker : pc'[u] = IF u = w THEN next ELSE pc[u]
  BY DEF IInv, TypeOK
<1>3. Syncing(a)' = IF told THEN {w} ELSE {}
  BY <1>1, <1>2 DEF Syncing
<1>4. \A b \in Auth \ {a} : Syncing(b)' = Syncing(b)
  BY <1>2 DEF Syncing
<1>5. Unconfirmed(a) = NoHash /\ Unconfirmed(a)' = IF told THEN v ELSE NoHash
  BY <1>1, <1>3, UnconfirmedValue
<1>6. \A b \in Auth \ {a} : Unconfirmed(b)' = Unconfirmed(b)
  BY <1>4, UnconfirmedSame
<1>7. found' = [found EXCEPT ![a] = IF told THEN v ELSE NoHash]
  BY <1>1, <1>5, <1>6
<1>8. src[a] # NoHash /\ disk[a] = src[a] /\ src[a] < v /\ v <= mem[a] /\ found[a] = NoHash
  BY <1>1, <1>5 DEF IInv, Snapped, Inside
<1>9. told \in BOOLEAN
  OBVIOUS
<1> HIDE DEF told
<1>10. Stored!Save(a, v, told)
  BY <1>7, <1>8 DEF Stored!Save
<1> QED
  BY <1>9, <1>10

LEMMA SyncStored ==
    ASSUME IInv, NEW w \in Worker, SyncSourceHash(w)
    PROVE  Stored!Confirm(work[w].auth)
<1> DEFINE a == work[w].auth
           v == work[w].snap
           found == [b \in Auth |-> Unconfirmed(b)]
<1>1. pc[w] = "syncing" /\ pc' = [pc EXCEPT ![w] = "succeeded"] /\ UNCHANGED <<mem, disk, work>>
  BY DEF SyncSourceHash, Goto
<1>2. a \in Auth /\ Syncing(a) = {w}
  BY <1>1, Alone DEF Busy
<1>3. \A u \in Worker : pc'[u] = IF u = w THEN "succeeded" ELSE pc[u]
  BY <1>1 DEF IInv, TypeOK
<1>4. Syncing(a)' = {} /\ \A b \in Auth \ {a} : Syncing(b)' = Syncing(b)
  BY <1>1, <1>2, <1>3 DEF Syncing
<1>5. Unconfirmed(a) = v /\ Unconfirmed(a)' = NoHash
  BY <1>2, <1>4, UnconfirmedValue
<1>6. \A b \in Auth \ {a} : Unconfirmed(b)' = Unconfirmed(b)
  BY <1>1, <1>4, UnconfirmedSame
<1>7. found' = [found EXCEPT ![a] = NoHash]
  <2>1. \A b \in Auth : Unconfirmed(b)' = IF b = a THEN NoHash ELSE Unconfirmed(b)
    BY <1>1, <1>5, <1>6
  <2> QED
    BY <1>2, <2>1
<1>8. v # NoHash /\ src' = [src EXCEPT ![a] = v]
  <2>1. src[a] = work[w].base /\ v \in Version
    BY <1>1, <1>2 DEF IInv, Snapped, Inside, TypeOK
  <2> QED
    BY <2>1, BoundAssumption DEF SyncSourceHash, Version, NoHash
<1>9. found[a] = v
  BY <1>2, <1>5
<1> QED
  BY <1>1, <1>7, <1>8, <1>9 DEF Stored!Confirm

\* Steps of the queue, of a rescan, of an acquisition and of a finish.
LEMMA WorkerCalm ==
    ASSUME IInv, NEW w \in Worker, WorkerStep(w) \/ AcquireFails(w), ~Save(w), ~SyncSourceHash(w)
    PROVE  Calm
<1>1. TypeOK
  BY DEF IInv
<1>2. CASE \E a \in Auth : RescanEnqueue(w, a)
  <2>1. UNCHANGED <<content, work>>
    BY <1>2 DEF RescanEnqueue
  <2>2. pc' = pc \/ Started
    BY <1>1, <1>2, EnqueueEffect DEF RescanEnqueue
  <2> QED
    BY <2>1, <2>2 DEF Calm, Started
<1>3. CASE RescanStart(w) \/ RescanEnd(w) \/ \E a \in Auth : RescanVisit(w, a)
  BY <1>1, <1>3 DEF RescanStart, RescanEnd, RescanVisit, Goto, Calm, TypeOK
<1>4. CASE TakeReadyWork(w)
  BY <1>1, <1>4 DEF TakeReadyWork, Polling, Goto, Calm, TypeOK
<1>5. CASE Wait(w) \/ WakeUp(w) \/ ExitIfIdle(w) \/ ExitClosed(w)
  BY <1>1, <1>5 DEF Wait, WakeUp, ExitIfIdle, ExitClosed, Polling, Goto, Calm, TypeOK
<1>6. CASE Snapshot(w)
  <2>1. pc[w] = "acquiring" /\ UNCHANGED content
    BY <1>6 DEF Snapshot
  <2>2. \E next \in {"terminal", "saving", "succeeded"} : pc' = [pc EXCEPT ![w] = next]
    BY <1>6 DEF Snapshot, Goto
  <2>3. \A v \in Worker \ {w} : work'[v] = work[v]
    BY <1>1, <1>6 DEF Snapshot, TypeOK
  <2> QED
    BY <1>1, <2>1, <2>2, <2>3 DEF Calm, TypeOK
<1>7. CASE SaveStale(w) \/ AcquireFails(w)
  BY <1>1, <1>7 DEF SaveStale, AcquireFails, Goto, Calm, TypeOK
<1>8. CASE FinishSuccess(w) \/ FinishFailure(w) \/ FinishTerminal(w)
  BY <1>1, <1>8 DEF FinishSuccess, FinishFailure, FinishTerminal, Finished, Goto, Calm, TypeOK
<1> QED
  BY <1>2, <1>3, <1>4, <1>5, <1>6, <1>7, <1>8 DEF WorkerStep

\* Each step of the writer is a step of the abstract one, or none.
LEMMA StoredStep == IInv /\ [Next]_vars => [Stored!StoredNext]_(Stored!storedVars)
<1> SUFFICES ASSUME IInv, [Next]_vars PROVE [Stored!StoredNext]_(Stored!storedVars)
  OBVIOUS
<1>1. ASSUME NEW p \in Producer, NEW a \in Auth, NEW durable \in BOOLEAN, Mutate(p, a, durable)
      PROVE  [Stored!StoredNext]_(Stored!storedVars)
  BY <1>1, MutateStored DEF Stored!StoredNext
<1>2. ASSUME NEW a \in Auth, WriteFile(a) PROVE Stored!StoredNext
  BY <1>2, WriteFileStored DEF Stored!StoredNext
<1>3. ASSUME NEW a \in Auth, NEW h \in {disk[a], NoHash}, Reload(a, h) PROVE Stored!StoredNext
  BY <1>3, ReloadStored DEF Stored!StoredNext
<1>4. ASSUME NEW w \in Worker, Save(w) \/ SaveFails(w, TRUE) PROVE Stored!StoredNext
  <2>1. /\ pc[w] = "saving" /\ UNCHANGED <<mem, src, work>> /\ disk[work[w].auth] = work[w].base
        /\ disk' = [disk EXCEPT ![work[w].auth] = work[w].snap]
        /\ \E next \in {"syncing", "failed"} : pc' = [pc EXCEPT ![w] = next]
    BY <1>4 DEF Save, SaveFails, Goto
  <2>2. PICK told \in BOOLEAN : Stored!Save(work[w].auth, work[w].snap, told)
    BY <2>1, SavedStored
  <2>3. work[w].auth \in Auth /\ work[w].snap \in Version
    BY <2>1 DEF IInv, Owned, Busy, TypeOK
  <2> QED
    BY <2>2, <2>3 DEF Stored!StoredNext
<1>5. ASSUME NEW w \in Worker, SyncSourceHash(w) PROVE Stored!StoredNext
  <2>1. work[w].auth \in Auth
    BY <1>5 DEF SyncSourceHash, IInv, Owned, Busy
  <2> QED
    BY <1>5, <2>1, SyncStored DEF Stored!StoredNext
<1>6. ASSUME NEW w \in Worker, WorkerStep(w) \/ AcquireFails(w), ~Save(w), ~SyncSourceHash(w)
      PROVE  Calm
  BY <1>6, WorkerCalm
<1>7. ASSUME NEW w \in Worker, SaveFails(w, FALSE) PROVE Calm
  BY <1>7 DEF SaveFails, Goto, Calm, content, IInv, TypeOK
<1>8. ASSUME NEW a \in Auth, ResultStep(a) \/ RetryDue(a) PROVE Calm
  <2>1. UNCHANGED <<content, work>>
    BY <1>8 DEF ResultStep, EnqueueResult, RefuseResult, RetryDue
  <2>2. pc' = pc \/ Started
    BY <1>8, EnqueueEffect DEF ResultStep, EnqueueResult, RefuseResult, RetryDue, IInv
  <2> QED
    BY <2>1, <2>2 DEF Calm, Started
<1>9. ASSUME NEW p \in Producer, Unregister(p) \/ \E kind \in {"request", "flight"} : Register(p, kind)
      PROVE  Calm
  BY <1>9 DEF Unregister, Register, Calm
<1>10. ASSUME StopAccepting \/ AbandonProducers \/ CloseBegin \/ DrainTimeout \/ CloseEnd PROVE Calm
  <2>1. UNCHANGED <<content, work>>
    BY <1>10 DEF StopAccepting, AbandonProducers, CloseBegin, DrainTimeout, CloseEnd
  <2>2. pc' = pc \/ Started
    BY <1>10, EnsureWorkersStarted DEF StopAccepting, AbandonProducers, CloseBegin, DrainTimeout, CloseEnd, IInv
  <2> QED
    BY <2>1, <2>2 DEF Calm, Started
<1>11. ASSUME UNCHANGED vars PROVE Calm
  <2>1. UNCHANGED content /\ pc' = pc /\ work' = work
    BY <1>11 DEF vars, content
  <2> QED
    BY <2>1 DEF Calm
<1>12. ASSUME NEW w \in Worker, Fault(w) PROVE AcquireFails(w) \/ SaveFails(w, TRUE) \/ SaveFails(w, FALSE)
  BY <1>12 DEF Fault
<1>13. Calm \/ [Stored!StoredNext]_(Stored!storedVars)
  BY <1>1, <1>2, <1>3, <1>4, <1>5, <1>6, <1>7, <1>8, <1>9, <1>10, <1>11, <1>12 DEF Next
<1> QED
  BY <1>13, CalmStutters

\* The background writer implements optimistic writing back for any number of
\* credentials, workers, places and faults: queue, rescan, retries and shutdown
\* change nothing about which content may replace which.
THEOREM ResultImplementsStored == Spec => ImplementsStored
  BY InitStored, StoredStep, SpecIInv, PTL DEF Spec, ImplementsStored, Stored!StoredSpec

=============================================================================
