------------------------ MODULE RequestLimiterProofs ------------------------
(***************************************************************************)
(* Theorems of RequestLimiter: type correctness, the exactness of the       *)
(* counts, the limit of an entry and the fate of every reservation, for any *)
(* requests, credentials, limits and bounds.                               *)
(***************************************************************************)
EXTENDS RequestLimiter, FiniteSetTheorems, TLAPS

\* A reservation that takes capacity and has not given it back.
Active(rs) == rs.state \in {"reserved", "committed", "releasing"} /\ rs.limit > 0

\* Only an entry the limiter made has a version; a missing one counts nothing.
EntriesVersioned ==
    \A a \in Auth : counts[a] = NoEntry \/ counts[a].version > 0

\* A reservation and the entry it is charged to agree on window and limit.
ChargesAgree ==
    \A r \in Request, i \in Attempt : Active(res[r][i]) =>
        LET rs == res[r][i] IN
        /\ rs.version > 0
        /\ rs.version = counts[rs.auth].version /\ rs.generation = generation
              => rs.window = counts[rs.auth].window /\ rs.limit = counts[rs.auth].limit

\* What holds of one request: its slot holds its latest reservation, which is
\* the only one that can be pending, and is not released while it is needed.
SlotOK(r) ==
    /\ bound[r] = made[r]
    /\ pc[r] \in {"picked", "reserving", "again", "timing", "rereserving"} =>
          made[r] < MaxAttempts
    /\ \A i \in Attempt : i > made[r] => res[r][i].state = "none"
    /\ \A i \in Attempt : res[r][i].state = "reserved" => i = made[r]
    /\ started[r] \subseteq 1..made[r] /\ seen[r] \subseteq 1..made[r]
    /\ pc[r] \in {"bound", "running"} =>
          made[r] > 0 /\ res[r][made[r]].state \in {"reserved", "committed"}
    /\ pc[r] = "bound" =>
          /\ made[r] \notin started[r]
          /\ res[r][made[r]].state = "committed" => made[r] \in seen[r]
    /\ pc[r] = "done" => \A i \in Attempt : res[r][i].state # "reserved"
    /\ \A i \in seen[r] : res[r][i].state = "committed"
    /\ \A i \in Attempt :
          res[r][i].state = "committed" => i \notin started[r] \/ i \in seen[r]

SlotsOK == \A r \in Request : SlotOK(r)

IInv == TypeOK /\ EntriesVersioned /\ ChargesAgree /\ WithinLimit /\ CountExact /\ SlotsOK

-----------------------------------------------------------------------------
LEMMA NoReservationType == NoReservation.auth \in Auth
BY AuthAssumption DEF NoReservation

LEMMA NoReservationIsOne ==
    ASSUME NEW n \in Nat
    PROVE  NoReservation \in [state : State, auth : Auth, window : Window,
                              limit : Nat, version : 0..n, generation : Nat]
<1>1. (CHOOSE a \in Auth : TRUE) \in Auth
  BY AuthAssumption
<1>2. 0 \in Window
  BY BoundAssumption DEF Window
<1> QED
  BY <1>1, <1>2 DEF NoReservation, State

LEMMA InitTypeOK == Init => TypeOK
<1> SUFFICES ASSUME Init PROVE TypeOK
  OBVIOUS
<1>1. NoReservation \in Reservation
  BY NoReservationIsOne DEF Init, Reservation
<1>2. (CHOOSE a \in Auth : TRUE) \in Auth
  BY AuthAssumption
<1>3. 0 \in Window /\ 0 \in 0..MaxAttempts
  BY BoundAssumption DEF Window
<1>4. NoEntry \in Entry
  BY DEF NoEntry, Entry, Init
<1>5. counts \in [Auth -> Entry]
  BY <1>4 DEF Init
<1>6. res \in [Request -> [Attempt -> Reservation]]
  BY <1>1 DEF Init
<1> QED
  BY <1>2, <1>3, <1>5, <1>6 DEF Init, TypeOK, Stage

\* Release and commit of a reservation change its state only.
LEMMA SettledTypes ==
    ASSUME TypeOK, NEW r \in Request
    PROVE  /\ SlotReleased(r) \in [Attempt -> Reservation]
           /\ \A i \in Attempt : Committed(res[r][i]) \in Reservation
<1>1. \A i \in Attempt : res[r][i] \in Reservation
  BY DEF TypeOK
<1>2. \A rs \in Reservation : Released(rs) \in Reservation /\ Committed(rs) \in Reservation
  BY DEF Reservation, Released, Committed, State
<1> QED
  BY <1>1, <1>2 DEF SlotReleased

LEMMA CurrentEntryType ==
    ASSUME TypeOK, NEW a \in Auth, NEW w \in Window, NEW l \in Nat
    PROVE  /\ CurrentEntry(a, w, l) \in [window : Window, limit : Nat, count : Nat,
                                         version : 0..(nextVersion + 1)]
           /\ CurrentEntry(a, w, l).window = w
           /\ CurrentEntry(a, w, l).limit = l
<1>1. counts[a] \in Entry
  BY DEF TypeOK
<1>2. nextVersion \in Nat
  BY DEF TypeOK
<1> QED
  BY <1>1, <1>2 DEF CurrentEntry, Entry

-----------------------------------------------------------------------------
\* Bind keeps the types: versions only grow, one reservation more is made.
LEMMA BindSlotTypes ==
    ASSUME TypeOK, NEW r \in Request, made[r] < MaxAttempts,
           nextVersion' \in Nat, nextVersion' >= nextVersion,
           NEW rs \in Reservation', BindSlot(r, rs)
    PROVE  /\ made' \in [Request -> 0..MaxAttempts]
           /\ bound' \in [Request -> 0..MaxAttempts]
           /\ res' \in [Request -> [Attempt -> Reservation']]
           /\ pc' \in [Request -> Stage]
           /\ now' \in [Request -> Window]
           /\ polLimit' \in [Request -> Nat]
           /\ polGen' \in [Request -> Nat]
<1>1. made[r] + 1 \in 0..MaxAttempts
  BY BoundAssumption DEF TypeOK
<1>2. made[r] + 1 \in Attempt
  BY BoundAssumption DEF TypeOK, Attempt
<1>3. Reservation \subseteq Reservation'
  BY DEF Reservation, TypeOK
<1>4. SlotReleased(r) \in [Attempt -> Reservation']
  BY <1>3, SettledTypes
<1>5. [SlotReleased(r) EXCEPT ![made[r] + 1] = rs] \in [Attempt -> Reservation']
  BY <1>2, <1>4
<1>6. res \in [Request -> [Attempt -> Reservation']]
  BY <1>3 DEF TypeOK
<1>7. res' \in [Request -> [Attempt -> Reservation']]
  BY <1>5, <1>6 DEF BindSlot
<1>8. 0 \in Window /\ 0 \in Nat
  BY BoundAssumption DEF Window
<1> QED
  BY <1>1, <1>7, <1>8 DEF BindSlot, Forget, TypeOK, Stage

LEMMA ReserveTypeOK ==
    ASSUME TypeOK, NEW r \in Request, made[r] < MaxAttempts, Reserve(r)
    PROVE  TypeOK'
<1> DEFINE a == target[r]
           e == CurrentEntry(a, now[r], polLimit[r])
           rs == [state |-> "reserved", auth |-> a, window |-> e.window,
                  limit |-> e.limit, version |-> e.version, generation |-> generation]
<1>1. a \in Auth /\ now[r] \in Window /\ polLimit[r] \in Nat
  BY DEF TypeOK
<1>2. e \in [window : Window, limit : Nat, count : Nat, version : 0..(nextVersion + 1)]
  BY <1>1, CurrentEntryType
<1>3. /\ counts' = [counts EXCEPT ![a] = [e EXCEPT !.count = @ + 1]]
      /\ nextVersion' = IF e.version > nextVersion THEN e.version ELSE nextVersion
      /\ BindSlot(r, rs)
      /\ UNCHANGED <<clock, policy, generation, target, started, seen>>
  BY DEF Reserve
<1> HIDE DEF e
<1>4. /\ nextVersion' \in Nat /\ nextVersion' >= nextVersion
      /\ e.version \in 0..nextVersion'
  BY <1>2, <1>3 DEF TypeOK
<1>5. Entry \subseteq Entry'
  BY <1>4 DEF Entry, TypeOK
<1>6. [e EXCEPT !.count = @ + 1] \in Entry'
  BY <1>2, <1>4 DEF Entry
<1>7. counts' \in [Auth -> Entry']
  BY <1>3, <1>5, <1>6 DEF TypeOK
<1>8. rs \in Reservation'
  BY <1>1, <1>2, <1>4 DEF Reservation, State, TypeOK
<1> QED
  <2>1. /\ made' \in [Request -> 0..MaxAttempts]
        /\ bound' \in [Request -> 0..MaxAttempts]
        /\ res' \in [Request -> [Attempt -> Reservation']]
        /\ pc' \in [Request -> Stage]
        /\ now' \in [Request -> Window]
        /\ polLimit' \in [Request -> Nat]
        /\ polGen' \in [Request -> Nat]
    <3> HIDE DEF rs
    <3> QED
      BY <1>3, <1>4, <1>8, BindSlotTypes
  <2> QED
    BY <1>3, <1>4, <1>7, <2>1 DEF TypeOK

LEMMA ReserveNoOpTypeOK ==
    ASSUME TypeOK, NEW r \in Request, made[r] < MaxAttempts, ReserveNoOp(r)
    PROVE  TypeOK'
<1> DEFINE rs == [NoReservation EXCEPT !.state = "reserved", !.auth = target[r]]
<1>1. /\ BindSlot(r, rs)
      /\ UNCHANGED <<clock, policy, generation, nextVersion, counts, target, started, seen>>
  BY DEF ReserveNoOp, limiter
<1>2. rs \in Reservation'
  <2>1. NoReservation \in Reservation
    BY NoReservationIsOne DEF Reservation, TypeOK
  <2>2. target[r] \in Auth
    BY DEF TypeOK
  <2>3. Reservation' = Reservation
    BY <1>1 DEF Reservation
  <2> QED
    BY <2>1, <2>2, <2>3 DEF Reservation, State
<1> HIDE DEF rs
<1>3. nextVersion' \in Nat /\ nextVersion' >= nextVersion
  BY <1>1 DEF TypeOK
<1>4. /\ made' \in [Request -> 0..MaxAttempts]
      /\ bound' \in [Request -> 0..MaxAttempts]
      /\ res' \in [Request -> [Attempt -> Reservation']]
      /\ pc' \in [Request -> Stage]
      /\ now' \in [Request -> Window]
      /\ polLimit' \in [Request -> Nat]
      /\ polGen' \in [Request -> Nat]
  BY <1>1, <1>2, <1>3, BindSlotTypes
<1>5. Entry' = Entry
  BY <1>1 DEF Entry
<1> QED
  BY <1>1, <1>4, <1>5 DEF TypeOK

LEMMA GiveBackTypeOK ==
    ASSUME TypeOK, NEW r \in Request, NEW i \in Attempt, GiveBack(r, i)
    PROVE  TypeOK'
<1> DEFINE rs == res[r][i]
           e == counts[rs.auth]
<1>1. /\ res' = [res EXCEPT ![r][i] = [NoReservation EXCEPT !.state = "released"]]
      /\ counts' = IF rs.limit = 0 \/ ~Matches(rs) THEN counts
                   ELSE [counts EXCEPT ![rs.auth] =
                            IF e.count <= 1 THEN NoEntry ELSE [e EXCEPT !.count = @ - 1]]
      /\ UNCHANGED <<clock, policy, generation, nextVersion, pc, target, now,
                     polLimit, polGen, made, bound, started, seen>>
  BY DEF GiveBack
<1>2. rs \in Reservation /\ rs.auth \in Auth /\ e \in Entry
  BY DEF TypeOK, Reservation
<1>3. NoEntry \in Entry
  BY DEF NoEntry, Entry, TypeOK
<1>4. e.count > 1 => [e EXCEPT !.count = @ - 1] \in Entry
  <2>1. \A x \in Entry : x.count > 1 => [x EXCEPT !.count = @ - 1] \in Entry
    BY DEF Entry
  <2> QED
    BY <1>2, <2>1
<1>5. e.count \in Nat
  BY <1>2 DEF Entry
<1> HIDE DEF rs
<1>6. counts' \in [Auth -> Entry]
  BY <1>1, <1>2, <1>3, <1>4, <1>5 DEF TypeOK
<1>7. [NoReservation EXCEPT !.state = "released"] \in Reservation
  <2>1. NoReservation \in Reservation
    BY NoReservationIsOne DEF Reservation, TypeOK
  <2> QED
    BY <2>1 DEF Reservation, State
<1>8. res' \in [Request -> [Attempt -> Reservation]]
  BY <1>1, <1>7 DEF TypeOK
<1>9. Entry' = Entry /\ Reservation' = Reservation
  BY <1>1 DEF Entry, Reservation
<1> QED
  BY <1>1, <1>6, <1>8, <1>9 DEF TypeOK

-----------------------------------------------------------------------------
\* Nothing that SlotOK speaks of changed for request q.
SameSlot(q) ==
    /\ pc'[q] = pc[q] /\ made'[q] = made[q] /\ bound'[q] = bound[q]
    /\ res'[q] = res[q] /\ started'[q] = started[q] /\ seen'[q] = seen[q]

LEMMA SlotFrame ==
    ASSUME NEW q \in Request, SlotOK(q), SameSlot(q)
    PROVE  SlotOK(q)'
BY DEF SlotOK, SameSlot

\* The slot between two attempts is released on the way to stage s.
LEMMA SlotAfterRelease ==
    ASSUME TypeOK, NEW r \in Request, SlotOK(r), pc[r] = "between",
           NEW s \in {"between", "again", "done"}, s = "again" => made[r] < MaxAttempts,
           pc'[r] = s, res'[r] = SlotReleased(r),
           made'[r] = made[r], bound'[r] = bound[r],
           started'[r] = started[r], seen'[r] = seen[r]
    PROVE  SlotOK(r)'
<1>1. \A i \in Attempt : res[r][i].state # "reserved" => res'[r][i] = res[r][i]
  BY DEF SlotReleased, Released
<1>2. res[r] \in [Attempt -> Reservation]
  BY DEF TypeOK
<1>3. \A rs \in Reservation : rs.state = "reserved" => Released(rs).state = "releasing"
  BY DEF Released, Reservation
<1>4. \A i \in Attempt : res[r][i].state = "reserved" => res'[r][i].state = "releasing"
  <2>1. \A i \in Attempt : res[r][i].state = "reserved" => i = bound[r]
    BY DEF SlotOK
  <2> QED
    BY <1>2, <1>3, <2>1 DEF SlotReleased
<1>5. \A i \in Attempt : res'[r][i].state # "reserved"
  BY <1>1, <1>4
<1>6. seen[r] \subseteq Attempt
  BY DEF TypeOK
<1> QED
  BY <1>1, <1>4, <1>5, <1>6 DEF SlotOK

\* A new reservation is bound: the previous one is no longer pending.
LEMMA SlotAfterBind ==
    ASSUME TypeOK, NEW r \in Request, SlotOK(r), Reserving(r),
           NEW rs, rs.state = "reserved", BindSlot(r, rs),
           UNCHANGED <<started, seen>>
    PROVE  SlotOK(r)' /\ \A q \in Request \ {r} : SameSlot(q)
<1> DEFINE m == made[r] + 1
<1>1. made[r] \in 0..MaxAttempts /\ made[r] < MaxAttempts
  BY DEF SlotOK, Reserving, Free, TypeOK
<1>2. m \in Attempt /\ m \in Nat /\ m > made[r] /\ m > 0
  BY <1>1, BoundAssumption DEF Attempt
<1>3. /\ made'[r] = m /\ bound'[r] = m /\ pc'[r] = "bound"
      /\ res'[r] = [SlotReleased(r) EXCEPT ![m] = rs]
      /\ started'[r] = started[r] /\ seen'[r] = seen[r]
  BY DEF BindSlot, TypeOK
<1>4. SlotReleased(r) \in [Attempt -> Reservation]
  BY SettledTypes
<1>5. res'[r][m] = rs /\ \A i \in Attempt : i # m => res'[r][i] = SlotReleased(r)[i]
  BY <1>2, <1>3, <1>4
<1>6. \A i \in Attempt : res[r][i].state # "reserved" => SlotReleased(r)[i] = res[r][i]
  BY DEF SlotReleased, Released
<1>7. \A i \in Attempt : res[r][i].state = "reserved" => SlotReleased(r)[i].state = "releasing"
  <2>1. \A i \in Attempt : res[r][i].state = "reserved" => i = bound[r]
    BY DEF SlotOK
  <2>2. \A x \in Reservation : x.state = "reserved" => Released(x).state = "releasing"
    BY DEF Released, Reservation
  <2>3. res[r] \in [Attempt -> Reservation]
    BY DEF TypeOK
  <2> QED
    BY <2>1, <2>2, <2>3 DEF SlotReleased
<1> HIDE DEF m
<1>8. \A i \in Attempt : i > m => i > made[r] /\ i # m
  BY <1>1, <1>2 DEF Attempt
<1>9. m \notin started[r] /\ m \notin seen[r] /\ 1..made[r] \subseteq 1..m
  BY <1>1, <1>2 DEF SlotOK
<1>10. started[r] \subseteq Attempt /\ seen[r] \subseteq Attempt
  BY DEF TypeOK
<1>11. SlotOK(r)'
  <2>1. \A i \in Attempt : i > m => res'[r][i].state = "none"
    BY <1>5, <1>6, <1>8 DEF SlotOK
  <2>2. \A i \in Attempt : res'[r][i].state = "reserved" => i = m
    BY <1>5, <1>6, <1>7
  <2>3. \A i \in Attempt : i # m /\ res'[r][i].state = "committed" =>
           i \notin started[r] \/ i \in seen[r]
    BY <1>5, <1>6, <1>7 DEF SlotOK
  <2>4. \A i \in seen[r] : res'[r][i].state = "committed"
    BY <1>5, <1>6, <1>9, <1>10 DEF SlotOK
  <2>5. started[r] \subseteq 1..m /\ seen[r] \subseteq 1..m
    BY <1>9 DEF SlotOK
  <2>6. res'[r][m].state = "reserved"
    BY <1>5
  <2> QED
    BY <1>2, <1>3, <1>9, <2>1, <2>2, <2>3, <2>4, <2>5, <2>6 DEF SlotOK
<1>12. \A q \in Request \ {r} : SameSlot(q)
  BY DEF BindSlot, SameSlot, TypeOK
<1> QED
  BY <1>11, <1>12

\* The transport of attempt i reports.
LEMMA SlotAfterMark ==
    ASSUME TypeOK, NEW r \in Request, SlotOK(r), NEW i \in Attempt,
           MarkUpstreamAttempt(r, i)
    PROVE  SlotOK(r)' /\ \A q \in Request \ {r} : SameSlot(q)
<1>1. /\ i \in started[r]
      /\ started'[r] = started[r] \ {i}
      /\ res'[r] = [res[r] EXCEPT ![i] = Committed(res[r][i])]
      /\ seen'[r] = IF pc[r] = "running" /\ i = bound[r] THEN seen[r] \union {i} ELSE seen[r]
      /\ pc'[r] = pc[r] /\ made'[r] = made[r] /\ bound'[r] = bound[r]
  BY DEF MarkUpstreamAttempt, TypeOK
<1>2. res[r] \in [Attempt -> Reservation]
  BY DEF TypeOK
<1>3. /\ res'[r][i] = Committed(res[r][i])
      /\ \A j \in Attempt : j # i => res'[r][j] = res[r][j]
  BY <1>1, <1>2
<1>4. /\ res[r][i].state = "reserved" => res'[r][i].state = "committed"
      /\ res[r][i].state # "reserved" => res'[r][i] = res[r][i]
  BY <1>2, <1>3 DEF Committed, Reservation
<1>5. i \in 1..made[r] /\ made[r] \in 0..MaxAttempts
  BY <1>1 DEF SlotOK, TypeOK
<1>6. started[r] \subseteq Attempt /\ seen[r] \subseteq Attempt
  BY DEF TypeOK
<1>7. pc[r] # "bound" \/ i # made[r]
  BY <1>1 DEF SlotOK
<1>8. \A j \in Attempt : j > made[r] => j # i
  BY <1>5 DEF Attempt
<1>9. pc[r] = "running" /\ i = made[r] => res'[r][i].state = "committed"
  BY <1>4 DEF SlotOK
<1>10. SlotOK(r)'
  <2>1. \A j \in Attempt : j > made[r] => res'[r][j].state = "none"
    BY <1>3, <1>8 DEF SlotOK
  <2>2. \A j \in Attempt : res'[r][j].state = "reserved" => res[r][j].state = "reserved"
    BY <1>3, <1>4
  <2>3. \A j \in Attempt : res[r][j].state = "committed" => res'[r][j].state = "committed"
    BY <1>3, <1>4
  <2>4. started'[r] \subseteq 1..made[r] /\ seen'[r] \subseteq 1..made[r]
    BY <1>1, <1>5 DEF SlotOK
  <2>5. pc[r] \in {"bound", "running"} =>
           made[r] > 0 /\ res'[r][made[r]].state \in {"reserved", "committed"}
    <3>1. made[r] > 0 => made[r] \in Attempt
      BY <1>5, BoundAssumption DEF Attempt
    <3> QED
      BY <1>3, <1>4, <3>1 DEF SlotOK
  <2>6. pc[r] = "bound" =>
           /\ made[r] \notin started'[r]
           /\ res'[r][made[r]].state = "committed" => made[r] \in seen'[r]
    <3> SUFFICES ASSUME pc[r] = "bound"
                 PROVE  /\ made[r] \notin started'[r]
                        /\ res'[r][made[r]].state = "committed" => made[r] \in seen'[r]
      OBVIOUS
    <3>1. made[r] \in Attempt /\ made[r] # i
      BY <1>5, <1>7, BoundAssumption DEF Attempt, SlotOK
    <3>2. res'[r][made[r]] = res[r][made[r]]
      BY <1>3, <3>1
    <3> QED
      BY <1>1, <3>2 DEF SlotOK
  <2>7. \A j \in seen'[r] : res'[r][j].state = "committed"
    <3>1. \A j \in seen[r] : res'[r][j].state = "committed"
      BY <1>6, <2>3 DEF SlotOK
    <3>2. bound[r] = made[r]
      BY DEF SlotOK
    <3> QED
      BY <1>1, <1>9, <3>1, <3>2
  <2>8. \A j \in Attempt :
           res'[r][j].state = "committed" => j \notin started'[r] \/ j \in seen'[r]
    BY <1>1, <1>3 DEF SlotOK
  <2> QED
    BY <1>1, <2>1, <2>2, <2>4, <2>5, <2>6, <2>7, <2>8 DEF SlotOK
<1>11. \A q \in Request \ {r} : SameSlot(q)
  BY DEF MarkUpstreamAttempt, SameSlot, TypeOK
<1> QED
  BY <1>10, <1>11

\* The critical section of Release ends.
LEMMA SlotAfterGiveBack ==
    ASSUME TypeOK, NEW r \in Request, SlotOK(r), NEW i \in Attempt, GiveBack(r, i)
    PROVE  SlotOK(r)' /\ \A q \in Request \ {r} : SameSlot(q)
<1>1. /\ res[r][i].state = "releasing"
      /\ res'[r] = [res[r] EXCEPT ![i] = [NoReservation EXCEPT !.state = "released"]]
      /\ UNCHANGED <<pc, made, bound, started, seen>>
  BY DEF GiveBack, TypeOK
<1>2. res[r] \in [Attempt -> Reservation]
  BY DEF TypeOK
<1>3. /\ res'[r][i].state = "released"
      /\ \A j \in Attempt : j # i => res'[r][j] = res[r][j]
  BY <1>1, <1>2 DEF NoReservation
<1>4. seen[r] \subseteq Attempt
  BY DEF TypeOK
<1>5. \A j \in Attempt : j > made[r] => j # i
  BY <1>1 DEF SlotOK
<1>6. made[r] > 0 => made[r] \in Attempt
  BY BoundAssumption DEF TypeOK, Attempt
<1>7. SlotOK(r)'
  BY <1>1, <1>3, <1>4, <1>5, <1>6 DEF SlotOK
<1>8. \A q \in Request \ {r} : SameSlot(q)
  BY DEF GiveBack, SameSlot, TypeOK
<1> QED
  BY <1>7, <1>8

\* An executor that does not report is charged at once.
LEMMA SlotAfterCommit ==
    ASSUME TypeOK, NEW r \in Request, SlotOK(r), CommitImmediately(r)
    PROVE  SlotOK(r)' /\ \A q \in Request \ {r} : SameSlot(q)
<1> DEFINE m == made[r]
<1>1. /\ pc[r] = "bound" /\ bound[r] = m
      /\ m \in Attempt /\ m \in 1..m
      /\ res[r][m].state \in {"reserved", "committed"}
  BY BoundAssumption DEF CommitImmediately, Free, SlotOK, TypeOK, Attempt
<1>2. /\ res'[r] = [res[r] EXCEPT ![m] = Committed(res[r][m])]
      /\ seen'[r] = seen[r] \union {m}
      /\ UNCHANGED <<pc, made, bound, started>>
  BY <1>1 DEF CommitImmediately, TypeOK
<1>3. res[r] \in [Attempt -> Reservation]
  BY DEF TypeOK
<1>4. /\ res'[r][m].state = "committed"
      /\ \A j \in Attempt : j # m => res'[r][j] = res[r][j]
  <2>1. \A x \in Reservation : x.state \in {"reserved", "committed"}
           => Committed(x).state = "committed"
    BY DEF Committed, Reservation
  <2> QED
    BY <1>1, <1>2, <1>3, <2>1
<1>5. seen[r] \subseteq Attempt
  BY DEF TypeOK
<1>6. SlotOK(r)'
  <2>1. \A j \in Attempt : j > made[r] => j # m
    BY <1>1 DEF Attempt
  <2> QED
    BY <1>1, <1>2, <1>4, <1>5, <2>1 DEF SlotOK
<1>7. \A q \in Request \ {r} : SameSlot(q)
  BY DEF CommitImmediately, SameSlot, TypeOK
<1> QED
  BY <1>6, <1>7

LEMMA SlotsStep ==
    ASSUME TypeOK, SlotsOK, [Next]_vars
    PROVE  SlotsOK'
<1> SUFFICES ASSUME NEW q \in Request PROVE SlotOK(q)'
  BY DEF SlotsOK
<1>q. SlotOK(q)
  BY DEF SlotsOK
<1>1. CASE UNCHANGED vars
  BY <1>q, <1>1, SlotFrame DEF SameSlot, vars
<1>2. CASE Tick
  BY <1>q, <1>2, SlotFrame DEF SameSlot, Tick
<1>3. CASE \E a \in Auth, l \in LimitSetting : ChangePolicy(a, l)
  BY <1>q, <1>3, SlotFrame DEF SameSlot, ChangePolicy
<1>4. CASE \E f \in [Auth -> LimitSetting] : Reconfigure(f)
  BY <1>q, <1>4, SlotFrame DEF SameSlot, Reconfigure
<1>5. CASE \E a \in Removable : RemoveAuth(a)
  BY <1>q, <1>5, SlotFrame DEF SameSlot, RemoveAuth
<1>6. ASSUME NEW r \in Request, RequestStep(r)
      PROVE  SlotOK(q)'
  <2>r. SlotOK(r)
    BY DEF SlotsOK
  <2>o. SUFFICES SlotOK(r)' /\ \A p \in Request \ {r} : SameSlot(p)
    BY <1>q, SlotFrame
  <2> USE DEF SameSlot, Free, Stage
  <2>1. CASE \E a \in Auth : Pick(r, a)
    BY <2>r, <2>1 DEF Pick, SlotOK, TypeOK
  <2>2. CASE PickAgain(r)
    <3>1. /\ pc[r] = "between" /\ pc'[r] = "again" /\ made[r] < MaxAttempts
          /\ res'[r] = SlotReleased(r)
          /\ UNCHANGED <<made, bound, started, seen>>
      BY <2>2 DEF PickAgain, TypeOK
    <3>2. \A p \in Request \ {r} : SameSlot(p)
      BY <2>2 DEF PickAgain, TypeOK
    <3> QED
      BY <2>r, <3>1, <3>2, SlotAfterRelease
  <2>3. CASE ReadPolicy(r)
    BY <2>r, <2>3 DEF ReadPolicy, SlotOK, TypeOK
  <2>4. CASE ReadClock(r)
    BY <2>r, <2>4 DEF ReadClock, SlotOK, TypeOK
  <2>5. CASE ReserveStale(r)
    BY <2>r, <2>5 DEF ReserveStale, Reserving, SlotOK, TypeOK
  <2>6. CASE Reserve(r)
    <3>1. \E rs : rs.state = "reserved" /\ BindSlot(r, rs)
      BY <2>6 DEF Reserve
    <3>2. Reserving(r) /\ UNCHANGED <<started, seen>>
      BY <2>6 DEF Reserve
    <3> HIDE DEF SameSlot
    <3> QED
      BY <2>r, <3>1, <3>2, SlotAfterBind
  <2>7. CASE ReserveNoOp(r)
    <3>1. \E rs : rs.state = "reserved" /\ BindSlot(r, rs)
      BY <2>7 DEF ReserveNoOp, NoReservation
    <3>2. Reserving(r) /\ UNCHANGED <<started, seen>>
      BY <2>7 DEF ReserveNoOp
    <3> HIDE DEF SameSlot
    <3> QED
      BY <2>r, <3>1, <3>2, SlotAfterBind
  <2>8. CASE ReserveFull(r)
    BY <2>r, <2>8 DEF ReserveFull, Reserving, SlotOK, TypeOK
  <2>9. CASE StartAttempt(r)
    <3>1. /\ pc[r] = "bound" /\ pc'[r] = "running" /\ bound[r] = made[r]
          /\ started'[r] = started[r] \union {made[r]}
          /\ UNCHANGED <<made, bound, res, seen>>
      BY <2>r, <2>9 DEF StartAttempt, SlotOK, TypeOK
    <3>2. made[r] \in 1..made[r]
      BY <2>r, <3>1 DEF SlotOK, TypeOK
    <3>3. SlotOK(r)'
      BY <2>r, <3>1, <3>2 DEF SlotOK
    <3>4. \A p \in Request \ {r} : SameSlot(p)
      BY <2>9 DEF StartAttempt, TypeOK
    <3> QED
      BY <3>3, <3>4
  <2>10. CASE CommitImmediately(r)
    BY <2>r, <2>10, SlotAfterCommit
  <2>11. CASE EndAttempt(r)
    BY <2>r, <2>11 DEF EndAttempt, SlotOK, TypeOK
  <2>12. CASE ReleaseRetired(r)
    <3>1. /\ pc[r] = "between" /\ pc'[r] = "between"
          /\ res'[r] = SlotReleased(r)
          /\ UNCHANGED <<made, bound, started, seen>>
      BY <2>12 DEF ReleaseRetired, TypeOK
    <3>2. \A p \in Request \ {r} : SameSlot(p)
      BY <2>12 DEF ReleaseRetired, TypeOK
    <3> QED
      BY <2>r, <3>1, <3>2, SlotAfterRelease
  <2>13. CASE \E i \in Attempt : MarkUpstreamAttempt(r, i)
    BY <2>r, <2>13, SlotAfterMark
  <2>14. CASE \E i \in Attempt : GiveBack(r, i)
    BY <2>r, <2>14, SlotAfterGiveBack
  <2>15. CASE Finish(r)
    <3>1. /\ pc[r] = "between" /\ pc'[r] = "done"
          /\ res'[r] = SlotReleased(r)
          /\ UNCHANGED <<made, bound, started, seen>>
      BY <2>15 DEF Finish, TypeOK
    <3>2. \A p \in Request \ {r} : SameSlot(p)
      BY <2>15 DEF Finish, TypeOK
    <3> QED
      BY <2>r, <3>1, <3>2, SlotAfterRelease
  <2> QED
    BY <1>6, <2>1, <2>2, <2>3, <2>4, <2>5, <2>6, <2>7, <2>8, <2>9, <2>10, <2>11,
       <2>12, <2>13, <2>14, <2>15 DEF RequestStep
<1> QED
  BY <1>1, <1>2, <1>3, <1>4, <1>5, <1>6 DEF Next

LEMMA TypeStep ==
    ASSUME TypeOK, SlotsOK, [Next]_vars
    PROVE  TypeOK'
<1>1. CASE UNCHANGED vars
  BY <1>1 DEF TypeOK, vars, limiter, Entry, Reservation
<1>2. CASE Tick
  BY <1>2, BoundAssumption DEF Tick, TypeOK, limiter, Entry, Reservation, Window
<1>3. CASE \E a \in Auth, l \in LimitSetting : ChangePolicy(a, l)
  BY <1>3 DEF ChangePolicy, TypeOK, limiter, Entry, Reservation
<1>4. CASE \E f \in [Auth -> LimitSetting] : Reconfigure(f)
  <2>1. PICK f \in [Auth -> LimitSetting] : Reconfigure(f)
    BY <1>4
  <2>2. NoEntry \in Entry'
    BY <2>1 DEF NoEntry, Entry, TypeOK, Reconfigure
  <2>3. counts' \in [Auth -> Entry']
    BY <2>1, <2>2 DEF Reconfigure
  <2>4. Reservation' = Reservation
    BY <2>1 DEF Reconfigure, Reservation
  <2> QED
    BY <2>1, <2>3, <2>4 DEF Reconfigure, TypeOK
<1>5. CASE \E a \in Removable : RemoveAuth(a)
  <2>1. PICK a \in Removable : RemoveAuth(a)
    BY <1>5
  <2>2. NoEntry \in Entry
    BY DEF NoEntry, Entry, TypeOK
  <2>3. Reservation' = Reservation /\ Entry' = Entry
    BY <2>1 DEF RemoveAuth, Reservation, Entry
  <2>4. counts' \in [Auth -> Entry]
    BY <2>1, <2>2 DEF RemoveAuth, TypeOK
  <2> QED
    BY <2>1, <2>3, <2>4 DEF RemoveAuth, TypeOK
<1>6. ASSUME NEW r \in Request, RequestStep(r)
      PROVE  TypeOK'
  <2>m. Reserving(r) => made[r] < MaxAttempts
    BY DEF Reserving, Free, SlotsOK, SlotOK
  <2>n. made[r] \in 0..MaxAttempts /\ bound[r] = made[r]
    BY DEF TypeOK, SlotsOK, SlotOK
  <2> USE DEF limiter, Stage
  <2>1. CASE \E a \in Auth : Pick(r, a)
    BY <2>1 DEF Pick, TypeOK, Entry, Reservation
  <2>2. CASE PickAgain(r)
    <3>1. SlotReleased(r) \in [Attempt -> Reservation]
      BY SettledTypes
    <3>2. Reservation' = Reservation /\ Entry' = Entry
      BY <2>2 DEF PickAgain, Reservation, Entry
    <3> QED
      BY <2>2, <3>1, <3>2 DEF PickAgain, TypeOK
  <2>3. CASE ReadPolicy(r)
    <3>1. policy[target[r]] \in Nat
      BY LimitAssumption DEF TypeOK
    <3> QED
      BY <2>3, <3>1 DEF ReadPolicy, TypeOK, Entry, Reservation
  <2>4. CASE ReadClock(r)
    BY <2>4 DEF ReadClock, TypeOK, Entry, Reservation
  <2>5. CASE ReserveStale(r)
    BY <2>5 DEF ReserveStale, TypeOK, Entry, Reservation
  <2>6. CASE Reserve(r)
    BY <2>6, <2>m, ReserveTypeOK DEF Reserve
  <2>7. CASE ReserveNoOp(r)
    BY <2>7, <2>m, ReserveNoOpTypeOK DEF ReserveNoOp
  <2>8. CASE ReserveFull(r)
    <3>1. 0 \in Window
      BY BoundAssumption DEF Window
    <3> QED
      BY <2>8, <3>1 DEF ReserveFull, Forget, TypeOK, Entry, Reservation
  <2>9. CASE StartAttempt(r)
    <3>1. bound[r] \in Attempt
      BY <2>9, <2>n, BoundAssumption DEF StartAttempt, Free, SlotsOK, SlotOK, Attempt
    <3> QED
      BY <2>9, <3>1 DEF StartAttempt, TypeOK, Entry, Reservation
  <2>10. CASE CommitImmediately(r)
    <3>1. bound[r] \in Attempt
      BY <2>10, <2>n, BoundAssumption DEF CommitImmediately, Free, SlotsOK, SlotOK, Attempt
    <3>2. Committed(res[r][bound[r]]) \in Reservation
      BY <3>1, SettledTypes
    <3>3. Reservation' = Reservation /\ Entry' = Entry
      BY <2>10 DEF CommitImmediately, Reservation, Entry
    <3>4. res' \in [Request -> [Attempt -> Reservation]]
      BY <2>10, <3>2 DEF CommitImmediately, TypeOK
    <3>5. seen' \in [Request -> SUBSET Attempt]
      BY <2>10, <3>1 DEF CommitImmediately, TypeOK
    <3> QED
      BY <2>10, <3>3, <3>4, <3>5 DEF CommitImmediately, TypeOK
  <2>11. CASE EndAttempt(r)
    BY <2>11 DEF EndAttempt, TypeOK, Entry, Reservation
  <2>12. CASE ReleaseRetired(r)
    <3>1. SlotReleased(r) \in [Attempt -> Reservation]
      BY SettledTypes
    <3>2. Reservation' = Reservation /\ Entry' = Entry
      BY <2>12 DEF ReleaseRetired, Reservation, Entry
    <3> QED
      BY <2>12, <3>1, <3>2 DEF ReleaseRetired, TypeOK
  <2>13. CASE \E i \in Attempt : MarkUpstreamAttempt(r, i)
    <3>1. PICK i \in Attempt : MarkUpstreamAttempt(r, i)
      BY <2>13
    <3>2. Committed(res[r][i]) \in Reservation
      BY SettledTypes
    <3>3. Reservation' = Reservation /\ Entry' = Entry
      BY <3>1 DEF MarkUpstreamAttempt, Reservation, Entry
    <3>4. res' \in [Request -> [Attempt -> Reservation]]
      BY <3>1, <3>2 DEF MarkUpstreamAttempt, TypeOK
    <3>5. seen' \in [Request -> SUBSET Attempt] /\ started' \in [Request -> SUBSET Attempt]
      BY <3>1 DEF MarkUpstreamAttempt, TypeOK
    <3> QED
      BY <3>1, <3>3, <3>4, <3>5 DEF MarkUpstreamAttempt, TypeOK
  <2>14. CASE \E i \in Attempt : GiveBack(r, i)
    BY <2>14, GiveBackTypeOK
  <2>15. CASE Finish(r)
    <3>1. SlotReleased(r) \in [Attempt -> Reservation]
      BY SettledTypes
    <3>2. Reservation' = Reservation /\ Entry' = Entry
      BY <2>15 DEF Finish, Reservation, Entry
    <3> QED
      BY <2>15, <3>1, <3>2 DEF Finish, TypeOK
  <2> QED
    BY <1>6, <2>1, <2>2, <2>3, <2>4, <2>5, <2>6, <2>7, <2>8, <2>9, <2>10, <2>11,
       <2>12, <2>13, <2>14, <2>15 DEF RequestStep
<1> QED
  BY <1>1, <1>2, <1>3, <1>4, <1>5, <1>6 DEF Next

-----------------------------------------------------------------------------
Counting == EntriesVersioned /\ ChargesAgree /\ WithinLimit /\ CountExact

\* Two values of a reservation that take the same capacity.
SameCharge(x, y) ==
    /\ Active(y) <=> Active(x)
    /\ Active(x) => /\ y.auth = x.auth /\ y.window = x.window /\ y.limit = x.limit
                    /\ y.version = x.version /\ y.generation = x.generation

LEMMA ChargedIs ==
    ASSUME NEW a \in Auth
    PROVE  Charged(a) =
           {x \in Request \X Attempt :
              /\ Active(res[x[1]][x[2]])
              /\ res[x[1]][x[2]].auth = a
              /\ res[x[1]][x[2]].version = counts[a].version
              /\ res[x[1]][x[2]].generation = generation}
BY DEF Charged, Active

LEMMA ChargedIsPrime ==
    ASSUME NEW a \in Auth
    PROVE  Charged(a)' =
           {x \in Request \X Attempt :
              /\ Active(res'[x[1]][x[2]])
              /\ res'[x[1]][x[2]].auth = a
              /\ res'[x[1]][x[2]].version = counts'[a].version
              /\ res'[x[1]][x[2]].generation = generation'}
BY DEF Charged, Active

\* The same, member by member.
LEMMA ChargedMember ==
    ASSUME NEW a \in Auth, NEW q \in Request, NEW i \in Attempt
    PROVE  /\ <<q, i>> \in Charged(a) <=>
                 /\ Active(res[q][i]) /\ res[q][i].auth = a
                 /\ res[q][i].version = counts[a].version
                 /\ res[q][i].generation = generation
           /\ <<q, i>> \in Charged(a)' <=>
                 /\ Active(res'[q][i]) /\ res'[q][i].auth = a
                 /\ res'[q][i].version = counts'[a].version
                 /\ res'[q][i].generation = generation'
BY ChargedIs, ChargedIsPrime

LEMMA ChargedFinite ==
    ASSUME NEW a \in Auth
    PROVE  IsFiniteSet(Charged(a)) /\ Cardinality(Charged(a)) \in Nat
<1>1. IsFiniteSet(Request \X Attempt)
  <2>1. IsFiniteSet(1..MaxAttempts)
    BY BoundAssumption, FS_Interval
  <2> QED
    BY <2>1, RequestAssumption, FS_Product DEF Attempt
<1>2. Charged(a) \subseteq Request \X Attempt
  BY DEF Charged
<1> QED
  BY <1>1, <1>2, FS_Subset, FS_CardinalityType

\* A step that leaves entries, generation and charges alone.
LEMMA ChargesKept ==
    ASSUME TypeOK, Counting, counts' = counts, generation' = generation,
           \A r \in Request, i \in Attempt : SameCharge(res[r][i], res'[r][i])
    PROVE  Counting'
<1>1. \A a \in Auth : Charged(a)' = Charged(a)
  BY ChargedIs, ChargedIsPrime DEF SameCharge
<1>2. CountExact' /\ WithinLimit' /\ EntriesVersioned'
  BY <1>1 DEF Counting, CountExact, WithinLimit, EntriesVersioned
<1>3. ChargesAgree'
  <2> SUFFICES ASSUME NEW r \in Request, NEW i \in Attempt, Active(res'[r][i])
               PROVE  /\ res'[r][i].version > 0
                      /\ /\ res'[r][i].version = counts[res'[r][i].auth].version
                         /\ res'[r][i].generation = generation
                         => /\ res'[r][i].window = counts[res'[r][i].auth].window
                            /\ res'[r][i].limit = counts[res'[r][i].auth].limit
    BY DEF ChargesAgree
  <2> QED
    BY DEF Counting, ChargesAgree, SameCharge
<1> QED
  BY <1>2, <1>3 DEF Counting

\* A step that drops the entries of the credentials in S, nothing else.
LEMMA EntriesDropped ==
    ASSUME TypeOK, Counting, NEW S \in SUBSET Auth,
           counts' = [a \in Auth |-> IF a \in S THEN NoEntry ELSE counts[a]],
           generation' = generation \/ S = Auth,
           res' = res
    PROVE  Counting'
<1>1. \A a \in S : Charged(a)' = {}
  <2>1. \A a \in S : counts'[a].version = 0
    BY DEF NoEntry
  <2>2. \A r \in Request, i \in Attempt : Active(res'[r][i]) => res'[r][i].version # 0
    <3>1. \A r \in Request, i \in Attempt : Active(res[r][i]) => res[r][i].version > 0
      BY DEF Counting, ChargesAgree
    <3> QED
      BY <3>1
  <2> SUFFICES ASSUME NEW a \in S
               PROVE  Charged(a)' = {}
    OBVIOUS
  <2>3. a \in Auth /\ counts'[a].version = 0
    BY <2>1
  <2>4. Charged(a)' \subseteq {x \in Request \X Attempt :
                                 /\ Active(res'[x[1]][x[2]])
                                 /\ res'[x[1]][x[2]].version = counts'[a].version}
    <3>1. Charged(a)' =
           {x \in Request \X Attempt :
              /\ Active(res'[x[1]][x[2]])
              /\ res'[x[1]][x[2]].auth = a
              /\ res'[x[1]][x[2]].version = counts'[a].version
              /\ res'[x[1]][x[2]].generation = generation'}
      BY <2>3, ChargedIsPrime
    <3> QED
      BY <3>1, Zenon
  <2>5. \A x \in Request \X Attempt :
          ~ (/\ Active(res'[x[1]][x[2]])
             /\ res'[x[1]][x[2]].version = counts'[a].version)
    <3> SUFFICES ASSUME NEW q \in Request, NEW i \in Attempt,
                        Active(res'[q][i])
                 PROVE  res'[q][i].version # counts'[a].version
      OBVIOUS
    <3> QED
      BY <2>2, <2>3
  <2> QED
    BY <2>4, <2>5, Zenon
<1>2. \A a \in Auth \ S : Charged(a)' = Charged(a) /\ counts'[a] = counts[a]
  <2> SUFFICES ASSUME NEW a \in Auth \ S
               PROVE  Charged(a)' = Charged(a) /\ counts'[a] = counts[a]
    OBVIOUS
  <2>1. counts'[a] = counts[a] /\ generation' = generation /\ a \in Auth
    OBVIOUS
  <2> QED
    BY <2>1, ChargedIs, ChargedIsPrime
<1>3. CountExact'
  <2>1. \A a \in S : counts'[a].count = Cardinality(Charged(a)')
    BY <1>1, FS_EmptySet DEF NoEntry
  <2>2. \A a \in Auth \ S : counts'[a].count = Cardinality(Charged(a)')
    BY <1>2 DEF Counting, CountExact
  <2> QED
    BY <2>1, <2>2 DEF CountExact
<1>4. WithinLimit' /\ EntriesVersioned'
  BY DEF Counting, WithinLimit, EntriesVersioned, NoEntry
<1>5. ChargesAgree'
  <2> SUFFICES ASSUME NEW r \in Request, NEW i \in Attempt, Active(res[r][i])
               PROVE  /\ res[r][i].version > 0
                      /\ /\ res[r][i].version = counts'[res[r][i].auth].version
                         /\ res[r][i].generation = generation'
                         => /\ res[r][i].window = counts'[res[r][i].auth].window
                            /\ res[r][i].limit = counts'[res[r][i].auth].limit
    BY DEF ChargesAgree
  <2>1. res[r][i].auth \in Auth
    BY DEF TypeOK, Reservation
  <2>2. res[r][i].version > 0
    BY DEF Counting, ChargesAgree
  <2>3. CASE res[r][i].auth \in S
    <3>1. counts'[res[r][i].auth].version = 0
      BY <2>3 DEF NoEntry
    <3> QED
      BY <2>2, <3>1
  <2>4. CASE res[r][i].auth \notin S
    BY <2>1, <2>2, <2>4 DEF Counting, ChargesAgree
  <2> QED
    BY <2>3, <2>4
<1> QED
  BY <1>3, <1>4, <1>5 DEF Counting

\* Release and commit leave the charge of a reservation alone.
LEMMA SettledCharges ==
    ASSUME TypeOK, NEW r \in Request
    PROVE  \A i \in Attempt : /\ SameCharge(res[r][i], SlotReleased(r)[i])
                               /\ SameCharge(res[r][i], Committed(res[r][i]))
                               /\ SameCharge(res[r][i], res[r][i])
<1>1. \A x \in Reservation : /\ SameCharge(x, Released(x))
                              /\ SameCharge(x, Committed(x))
                              /\ SameCharge(x, x)
  BY DEF Reservation, SameCharge, Active, Released, Committed
<1>2. \A i \in Attempt : res[r][i] \in Reservation
  BY DEF TypeOK
<1> QED
  BY <1>1, <1>2 DEF SlotReleased

-----------------------------------------------------------------------------
\* What Reserve does to the limiter: one charge more, on the current entry.
LEMMA ReserveCounts ==
    ASSUME TypeOK, SlotsOK, Counting, NEW r \in Request, Reserve(r)
    PROVE  Counting'
<1> SUFFICES ASSUME NEW t, t = target[r],
                    NEW e, e = CurrentEntry(t, now[r], polLimit[r]),
                    NEW m, m = made[r] + 1,
                    NEW new, new = [state |-> "reserved", auth |-> t,
                                    window |-> e.window, limit |-> e.limit,
                                    version |-> e.version, generation |-> generation]
             PROVE  Counting'
  OBVIOUS
<1>1. /\ t \in Auth /\ now[r] \in Window /\ polLimit[r] \in Nat
      /\ nextVersion \in Nat
      /\ made[r] \in Nat
  BY DEF TypeOK
<1>2. /\ m \in Attempt
      /\ res[r][m].state = "none"
  BY <1>1, BoundAssumption DEF Reserve, Reserving, Free, SlotsOK, SlotOK, Attempt
<1>3. /\ polLimit[r] > 0 /\ e.count < polLimit[r]
      /\ counts' = [counts EXCEPT ![t] = [e EXCEPT !.count = @ + 1]]
      /\ res' = [res EXCEPT ![r] = [SlotReleased(r) EXCEPT ![m] = new]]
      /\ generation' = generation
  BY DEF Reserve, BindSlot
<1>4. /\ e \in [window : Window, limit : Nat, count : Nat, version : 0..(nextVersion + 1)]
      /\ e.window = now[r] /\ e.limit = polLimit[r]
  BY <1>1, CurrentEntryType
<1>5. \/ e = counts[t] /\ counts[t].version > 0
      \/ e.count = 0 /\ e.version = nextVersion + 1
  <2>1. counts[t].window = now[r] => counts[t] # NoEntry
    BY <1>1, BoundAssumption DEF NoEntry, Window
  <2>2. counts[t] = NoEntry \/ counts[t].version > 0
    BY <1>1 DEF Counting, EntriesVersioned
  <2> QED
    BY <1>1, <2>1, <2>2 DEF CurrentEntry
<1>6. SlotReleased(r) \in [Attempt -> Reservation]
  BY SettledTypes
<1>7. /\ counts'[t] = [e EXCEPT !.count = @ + 1]
      /\ \A a \in Auth : a # t => counts'[a] = counts[a]
  BY <1>1, <1>3 DEF TypeOK
<1>8. /\ counts'[t].count = e.count + 1 /\ counts'[t].version = e.version
      /\ counts'[t].window = e.window /\ counts'[t].limit = e.limit
      /\ e.version > 0 /\ e.version \in Nat /\ e.count \in Nat
  <2>1. e.version > 0
    BY <1>1, <1>5
  <2>2. e.version \in Nat
    BY <1>1, <1>4
  <2> QED
    BY <1>4, <1>7, <2>1, <2>2
<1>9. /\ res'[r][m] = new
      /\ \A q \in Request, i \in Attempt :
            <<q, i>> # <<r, m>> => SameCharge(res[q][i], res'[q][i])
  <2>1. res'[r] = [SlotReleased(r) EXCEPT ![m] = new] /\ \A q \in Request : q # r => res'[q] = res[q]
    BY <1>3 DEF TypeOK
  <2>2. res'[r][m] = new /\ \A i \in Attempt : i # m => res'[r][i] = SlotReleased(r)[i]
    BY <1>2, <1>6, <2>1
  <2>3. \A q \in Request, i \in Attempt : SameCharge(res[q][i], res[q][i])
    BY SettledCharges
  <2>4. \A i \in Attempt : SameCharge(res[r][i], SlotReleased(r)[i])
    BY SettledCharges
  <2> QED
    BY <2>1, <2>2, <2>3, <2>4
<1>10. ~Active(res[r][m])
  BY <1>2 DEF Active
<1>11. Active(new) /\ new.auth = t /\ new.version = e.version /\ new.generation = generation
       /\ new.window = e.window /\ new.limit = e.limit
  <2> QED
    BY <1>3, <1>4 DEF Active
<1>12. \A q \in Request, i \in Attempt : Active(res[q][i]) =>
          res[q][i].version \in 0..nextVersion /\ res[q][i].auth \in Auth
  BY DEF TypeOK, Reservation
<1>13. \A a \in Auth : a # t => Charged(a)' = Charged(a)
  <2> SUFFICES ASSUME NEW a \in Auth, a # t PROVE Charged(a)' = Charged(a)
    OBVIOUS
  <2>1. \A q \in Request, i \in Attempt : <<q, i>> \in Charged(a)' <=> <<q, i>> \in Charged(a)
    <3> SUFFICES ASSUME NEW q \in Request, NEW i \in Attempt
                 PROVE  <<q, i>> \in Charged(a)' <=> <<q, i>> \in Charged(a)
      OBVIOUS
    <3>1. counts'[a] = counts[a] /\ generation' = generation
      BY <1>3, <1>7
    <3>2. CASE <<q, i>> = <<r, m>>
      <4>1. q = r /\ i = m
        BY <3>2
      <4>2. <<q, i>> \notin Charged(a)
        BY <1>10, <4>1, ChargedMember
      <4>3. res'[q][i].auth # a
        BY <1>9, <1>11, <4>1
      <4> QED
        BY <4>2, <4>3, ChargedMember
    <3>3. CASE <<q, i>> # <<r, m>>
      <4>1. SameCharge(res[q][i], res'[q][i])
        BY <1>9, <3>3
      <4> QED
        BY <3>1, <4>1, ChargedMember DEF SameCharge
    <3> QED
      BY <3>2, <3>3
  <2>2. Charged(a) \subseteq Request \X Attempt /\ Charged(a)' \subseteq Request \X Attempt
    BY DEF Charged
  <2> QED
    BY <2>1, <2>2
<1>13a. <<r, m>> \in Charged(t)'
  <2>1. /\ Active(res'[r][m]) /\ res'[r][m].auth = t
        /\ res'[r][m].version = counts'[t].version
        /\ res'[r][m].generation = generation'
    BY <1>3, <1>8, <1>9, <1>11
  <2> QED
    BY <1>1, <1>2, <2>1, ChargedMember
<1>14. CountExact'
  <2>1. counts'[t].count = Cardinality(Charged(t)')
    <3>1. CASE e = counts[t] /\ counts[t].version > 0
      <4>1. Charged(t)' = Charged(t) \union {<<r, m>>} /\ <<r, m>> \notin Charged(t)
        <5>1. <<r, m>> \notin Charged(t)
          BY <1>1, <1>2, <1>10, ChargedMember
        <5>2. counts'[t].version = counts[t].version /\ generation' = generation
          BY <1>3, <1>8, <3>1
        <5>3. ASSUME NEW q \in Request, NEW i \in Attempt, <<q, i>> # <<r, m>>
              PROVE  <<q, i>> \in Charged(t)' <=> <<q, i>> \in Charged(t)
          <6>1. SameCharge(res[q][i], res'[q][i])
            BY <1>9, <5>3
          <6> QED
            BY <1>1, <5>2, <6>1, ChargedMember DEF SameCharge
        <5>4. Charged(t) \subseteq Request \X Attempt /\ Charged(t)' \subseteq Request \X Attempt
          BY DEF Charged
        <5>5. ASSUME NEW x \in Request \X Attempt, x # <<r, m>>
              PROVE  x \in Charged(t)' <=> x \in Charged(t)
          <6>1. PICK q \in Request, i \in Attempt : x = <<q, i>>
            OBVIOUS
          <6> QED
            BY <5>3, <5>5, <6>1
        <5> QED
          BY <1>13a, <5>1, <5>4, <5>5
      <4>2. Cardinality(Charged(t)') = Cardinality(Charged(t)) + 1
        BY <1>1, <4>1, ChargedFinite, FS_AddElement
      <4>3. counts[t].count = Cardinality(Charged(t))
        BY <1>1 DEF Counting, CountExact
      <4> QED
        BY <1>8, <3>1, <4>2, <4>3
    <3>2. CASE e.count = 0 /\ e.version = nextVersion + 1
      <4>1. \A q \in Request, i \in Attempt :
               Active(res'[q][i]) /\ <<q, i>> # <<r, m>> => res'[q][i].version # e.version
        BY <1>1, <1>9, <1>12, <3>2 DEF SameCharge
      <4>2. Charged(t)' = {<<r, m>>}
        <5>1. <<r, m>> \in Charged(t)'
          BY <1>13a
        <5>2. \A q \in Request, i \in Attempt : <<q, i>> # <<r, m>> => <<q, i>> \notin Charged(t)'
          <6> SUFFICES ASSUME NEW q \in Request, NEW i \in Attempt,
                              <<q, i>> # <<r, m>>, <<q, i>> \in Charged(t)'
                       PROVE  FALSE
            OBVIOUS
          <6>1. Active(res'[q][i]) /\ res'[q][i].version = counts'[t].version
            BY <1>1, ChargedMember
          <6> QED
            BY <1>8, <4>1, <6>1
        <5>3. \A x \in Charged(t)' : x = <<r, m>>
          <6> SUFFICES ASSUME NEW x \in Charged(t)' PROVE x = <<r, m>>
            OBVIOUS
          <6>1. x \in Request \X Attempt
            BY DEF Charged
          <6>2. PICK q \in Request, i \in Attempt : x = <<q, i>>
            BY <6>1
          <6> QED
            BY <5>2, <6>2
        <5> QED
          BY <5>1, <5>3
      <4> QED
        <5>1. Cardinality({<<r, m>>}) = 1
          BY FS_Singleton
        <5> QED
          BY <1>8, <3>2, <4>2, <5>1
    <3> QED
      BY <1>5, <3>1, <3>2
  <2>2. \A a \in Auth : a # t => counts'[a].count = Cardinality(Charged(a)')
    BY <1>7, <1>13 DEF Counting, CountExact
  <2> QED
    BY <2>1, <2>2 DEF CountExact
<1>15. WithinLimit' /\ EntriesVersioned'
  <2>1. counts'[t].count <= counts'[t].limit
    BY <1>1, <1>3, <1>4, <1>8
  <2> QED
    BY <1>7, <1>8, <2>1 DEF Counting, WithinLimit, EntriesVersioned
<1>16. ChargesAgree'
  <2> SUFFICES ASSUME NEW q \in Request, NEW i \in Attempt, Active(res'[q][i])
               PROVE  /\ res'[q][i].version > 0
                      /\ /\ res'[q][i].version = counts'[res'[q][i].auth].version
                         /\ res'[q][i].generation = generation'
                         => /\ res'[q][i].window = counts'[res'[q][i].auth].window
                            /\ res'[q][i].limit = counts'[res'[q][i].auth].limit
    BY DEF ChargesAgree
  <2>1. CASE <<q, i>> = <<r, m>>
    BY <1>8, <1>9, <1>11, <2>1
  <2>2. CASE <<q, i>> # <<r, m>>
    <3>1. /\ Active(res[q][i])
          /\ res'[q][i].auth = res[q][i].auth /\ res'[q][i].window = res[q][i].window
          /\ res'[q][i].limit = res[q][i].limit /\ res'[q][i].version = res[q][i].version
          /\ res'[q][i].generation = res[q][i].generation
      BY <1>9, <2>2 DEF SameCharge
    <3>2. /\ res[q][i].version > 0
          /\ res[q][i].version = counts[res[q][i].auth].version /\ res[q][i].generation = generation
             => /\ res[q][i].window = counts[res[q][i].auth].window
                /\ res[q][i].limit = counts[res[q][i].auth].limit
      BY <3>1 DEF Counting, ChargesAgree
    <3>3. CASE res[q][i].auth = t
      <4>1. CASE e = counts[t] /\ counts[t].version > 0
        BY <1>3, <1>8, <3>1, <3>2, <3>3, <4>1
      <4>2. CASE e.count = 0 /\ e.version = nextVersion + 1
        <5>1. res[q][i].version # e.version
          BY <1>1, <1>12, <3>1, <4>2
        <5> QED
          BY <1>8, <3>1, <3>2, <3>3, <5>1
      <4> QED
        BY <1>5, <4>1, <4>2
    <3>4. CASE res[q][i].auth # t
      <4>1. counts'[res[q][i].auth] = counts[res[q][i].auth]
        BY <1>7, <1>12, <3>1, <3>4
      <4> QED
        BY <1>3, <3>1, <3>2, <4>1
    <3> QED
      BY <3>3, <3>4
  <2> QED
    BY <2>1, <2>2
<1> QED
  BY <1>14, <1>15, <1>16 DEF Counting

\* What the critical section of Release does: the entry that was charged, and
\* no other, counts one reservation less.
LEMMA GiveBackCounts ==
    ASSUME TypeOK, Counting, NEW r \in Request, NEW i \in Attempt, GiveBack(r, i)
    PROVE  Counting'
<1> SUFFICES ASSUME NEW rs, rs = res[r][i],
                    NEW t, t = rs.auth,
                    NEW e, e = counts[t]
             PROVE  Counting'
  OBVIOUS
<1>1. /\ rs.state = "releasing"
      /\ res' = [res EXCEPT ![r][i] = [NoReservation EXCEPT !.state = "released"]]
      /\ counts' = IF rs.limit = 0 \/ ~Matches(rs) THEN counts
                   ELSE [counts EXCEPT ![t] =
                            IF e.count <= 1 THEN NoEntry ELSE [e EXCEPT !.count = @ - 1]]
      /\ generation' = generation
  BY DEF GiveBack
<1>2. rs \in Reservation /\ t \in Auth /\ e \in Entry /\ rs.limit \in Nat
  BY DEF TypeOK, Reservation
<1>3. /\ ~Active(res'[r][i])
      /\ \A q \in Request, j \in Attempt : <<q, j>> # <<r, i>> => res'[q][j] = res[q][j]
  BY <1>1 DEF TypeOK, Active, NoReservation
<1>4. \A q \in Request, j \in Attempt : Active(res'[q][j]) =>
         <<q, j>> # <<r, i>> /\ res'[q][j] = res[q][j]
  BY <1>3
<1>5. \A a \in Auth : counts'[a] = counts[a] => Charged(a)' = Charged(a) \ {<<r, i>>}
  <2> SUFFICES ASSUME NEW a \in Auth, counts'[a] = counts[a]
               PROVE  Charged(a)' = Charged(a) \ {<<r, i>>}
    OBVIOUS
  <2>1. \A q \in Request, j \in Attempt :
           <<q, j>> \in Charged(a)' <=> <<q, j>> \in Charged(a) \ {<<r, i>>}
    <3> SUFFICES ASSUME NEW q \in Request, NEW j \in Attempt
                 PROVE  <<q, j>> \in Charged(a)' <=> <<q, j>> \in Charged(a) \ {<<r, i>>}
      OBVIOUS
    <3>1. CASE <<q, j>> = <<r, i>>
      <4>1. q = r /\ j = i
        BY <3>1
      <4>2. <<q, j>> \notin Charged(a)'
        BY <1>3, <4>1, ChargedMember
      <4> QED
        BY <3>1, <4>2
    <3>2. CASE <<q, j>> # <<r, i>>
      <4>1. res'[q][j] = res[q][j]
        BY <1>3, <3>2
      <4>2. generation' = generation
        BY <1>1
      <4>3. <<q, j>> \in Charged(a)' <=> <<q, j>> \in Charged(a)
        BY <4>1, <4>2, ChargedMember
      <4> QED
        BY <3>2, <4>3
    <3> QED
      BY <3>1, <3>2
  <2>2. Charged(a) \subseteq Request \X Attempt /\ Charged(a)' \subseteq Request \X Attempt
    BY DEF Charged
  <2> QED
    BY <2>1, <2>2
<1>6. \A a \in Auth : <<r, i>> \in Charged(a) => a = t /\ rs.limit # 0 /\ Matches(rs)
  <2> SUFFICES ASSUME NEW a \in Auth, <<r, i>> \in Charged(a)
               PROVE  a = t /\ rs.limit # 0 /\ Matches(rs)
    OBVIOUS
  <2>1. /\ Active(rs) /\ rs.auth = a
        /\ rs.version = counts[a].version /\ rs.generation = generation
    BY ChargedMember
  <2>2. rs.window = counts[a].window /\ rs.limit = counts[a].limit
    BY <2>1 DEF Counting, ChargesAgree
  <2> QED
    BY <1>2, <2>1, <2>2 DEF Active, Matches
<1>7. CASE rs.limit = 0 \/ ~Matches(rs)
  <2>1. counts' = counts
    BY <1>1, <1>7
  <2>2. \A a \in Auth : Charged(a)' = Charged(a)
    <3> SUFFICES ASSUME NEW a \in Auth PROVE Charged(a)' = Charged(a)
      OBVIOUS
    <3>1. <<r, i>> \notin Charged(a)
      BY <1>6, <1>7
    <3>2. Charged(a)' = Charged(a) \ {<<r, i>>}
      BY <1>5, <2>1
    <3> QED
      BY <3>1, <3>2
  <2>3. CountExact'
    BY <2>1, <2>2 DEF Counting, CountExact
  <2>4. WithinLimit' /\ EntriesVersioned'
    BY <2>1 DEF Counting, WithinLimit, EntriesVersioned
  <2>5. ChargesAgree'
    <3>1. generation' = generation
      BY <1>1
    <3>2. ChargesAgree
      BY DEF Counting
    <3> QED
      BY <1>4, <2>1, <3>1, <3>2 DEF ChargesAgree
  <2> QED
    BY <2>3, <2>4, <2>5 DEF Counting
<1>8. CASE rs.limit # 0 /\ Matches(rs)
  <2>1. /\ Active(rs)
        /\ rs.version = e.version /\ rs.generation = generation
    BY <1>1, <1>2, <1>8 DEF Active, Matches
  <2>2. <<r, i>> \in Charged(t)
    BY <1>2, <2>1, ChargedMember
  <2>3. e.count = Cardinality(Charged(t)) /\ IsFiniteSet(Charged(t)) /\ e.count \in Nat
    BY <1>2, ChargedFinite DEF Counting, CountExact
  <2>4. rs.version > 0
    BY <2>1 DEF Counting, ChargesAgree
  <2>5. \A a \in Auth : a # t => counts'[a] = counts[a]
    BY <1>1, <1>8 DEF TypeOK
  <2>6. \A a \in Auth : a # t => Charged(a)' = Charged(a)
    BY <1>5, <1>6, <2>5
  <2>7. CASE e.count <= 1
    <3>1. counts'[t] = NoEntry
      BY <1>1, <1>2, <1>8, <2>7 DEF TypeOK
    <3>2. counts' = [a \in Auth |-> IF a \in {t} THEN NoEntry ELSE counts[a]]
      BY <1>1, <1>2, <1>8, <2>7 DEF TypeOK
    <3>3. \A q \in Request, j \in Attempt : Active(res'[q][j]) =>
             /\ res'[q][j].version > 0
             /\ /\ res'[q][j].version = counts[res'[q][j].auth].version
                /\ res'[q][j].generation = generation
                => /\ res'[q][j].window = counts[res'[q][j].auth].window
                   /\ res'[q][j].limit = counts[res'[q][j].auth].limit
      BY <1>4 DEF Counting, ChargesAgree
    <3>4. Charged(t)' = {}
      <4>1. counts'[t].version = 0
        BY <3>1 DEF NoEntry
      <4>2. \A q \in Request, j \in Attempt : <<q, j>> \notin Charged(t)'
        <5> SUFFICES ASSUME NEW q \in Request, NEW j \in Attempt, <<q, j>> \in Charged(t)'
                     PROVE  FALSE
          OBVIOUS
        <5>1. Active(res'[q][j]) /\ res'[q][j].version = 0
          BY <1>2, <4>1, ChargedMember
        <5> QED
          BY <3>3, <5>1
      <4>3. Charged(t)' \subseteq Request \X Attempt
        BY DEF Charged
      <4> QED
        BY <4>2, <4>3
    <3>5. CountExact'
      <4>1. counts'[t].count = Cardinality(Charged(t)')
        BY <3>1, <3>4, FS_EmptySet DEF NoEntry
      <4>2. \A a \in Auth : a # t => counts'[a].count = Cardinality(Charged(a)')
        BY <2>5, <2>6 DEF Counting, CountExact
      <4> QED
        BY <4>1, <4>2 DEF CountExact
    <3>6. WithinLimit' /\ EntriesVersioned'
      BY <2>5, <3>1 DEF Counting, WithinLimit, EntriesVersioned, NoEntry
    <3>7. ChargesAgree'
      <4> SUFFICES ASSUME NEW q \in Request, NEW j \in Attempt, Active(res'[q][j])
                   PROVE  /\ res'[q][j].version > 0
                          /\ /\ res'[q][j].version = counts'[res'[q][j].auth].version
                             /\ res'[q][j].generation = generation'
                             => /\ res'[q][j].window = counts'[res'[q][j].auth].window
                                /\ res'[q][j].limit = counts'[res'[q][j].auth].limit
        BY DEF ChargesAgree
      <4>1. res'[q][j].auth \in Auth
        BY <1>4 DEF TypeOK, Reservation
      <4>2. res'[q][j].version > 0
        BY <3>3
      <4>3. CASE res'[q][j].auth = t
        <5>1. counts'[res'[q][j].auth].version = 0
          BY <3>1, <4>3 DEF NoEntry
        <5> QED
          BY <4>2, <5>1
      <4>4. CASE res'[q][j].auth # t
        <5>1. counts'[res'[q][j].auth] = counts[res'[q][j].auth]
          BY <2>5, <4>1, <4>4
        <5>2. /\ res'[q][j].version = counts[res'[q][j].auth].version
              /\ res'[q][j].generation = generation
              => /\ res'[q][j].window = counts[res'[q][j].auth].window
                 /\ res'[q][j].limit = counts[res'[q][j].auth].limit
          BY <3>3
        <5> QED
          BY <1>1, <4>2, <5>1, <5>2
      <4> QED
        BY <4>3, <4>4
    <3> QED
      BY <3>5, <3>6, <3>7 DEF Counting
  <2>8. CASE e.count > 1
    <3>0. ~(e.count <= 1)
      BY <2>3, <2>8
    <3>1. counts'[t] = [e EXCEPT !.count = @ - 1]
      <4>1. counts' = [counts EXCEPT ![t] = [e EXCEPT !.count = @ - 1]]
        BY <1>1, <1>8, <3>0
      <4> QED
        BY <1>2, <4>1 DEF TypeOK
    <3>2. /\ counts'[t].count = e.count - 1 /\ counts'[t].version = e.version
          /\ counts'[t].window = e.window /\ counts'[t].limit = e.limit
      BY <1>2, <3>1 DEF Entry
    <3>3. Charged(t)' = Charged(t) \ {<<r, i>>}
      <4>1. \A q \in Request, j \in Attempt :
               <<q, j>> \in Charged(t)' <=> <<q, j>> \in Charged(t) \ {<<r, i>>}
        <5> SUFFICES ASSUME NEW q \in Request, NEW j \in Attempt
                     PROVE  <<q, j>> \in Charged(t)' <=> <<q, j>> \in Charged(t) \ {<<r, i>>}
          OBVIOUS
        <5>1. CASE <<q, j>> = <<r, i>>
          <6>1. q = r /\ j = i
            BY <5>1
          <6> QED
            BY <1>2, <1>3, <6>1, ChargedMember
        <5>2. CASE <<q, j>> # <<r, i>>
          <6>1. res'[q][j] = res[q][j]
            BY <1>3, <5>2
          <6>2. counts'[t].version = counts[t].version /\ generation' = generation
            BY <1>1, <3>2
          <6> QED
            BY <1>2, <5>2, <6>1, <6>2, ChargedMember
        <5> QED
          BY <5>1, <5>2
      <4>2. Charged(t) \subseteq Request \X Attempt /\ Charged(t)' \subseteq Request \X Attempt
        BY DEF Charged
      <4> QED
        BY <4>1, <4>2
    <3>4. CountExact'
      <4>1. Cardinality(Charged(t)') = Cardinality(Charged(t)) - 1
        BY <2>2, <2>3, <3>3, FS_RemoveElement
      <4>2. counts'[t].count = Cardinality(Charged(t)')
        BY <2>3, <3>2, <4>1
      <4>3. \A a \in Auth : a # t => counts'[a].count = Cardinality(Charged(a)')
        BY <2>5, <2>6 DEF Counting, CountExact
      <4> QED
        BY <4>2, <4>3 DEF CountExact
    <3>5. WithinLimit' /\ EntriesVersioned'
      <4>1. e.count <= e.limit /\ e.limit \in Nat
        BY <1>2 DEF Counting, WithinLimit, Entry
      <4>2. counts'[t].count <= counts'[t].limit
        BY <2>3, <3>2, <4>1
      <4>3. counts'[t].version > 0
        BY <2>1, <2>4, <3>2
      <4> QED
        BY <2>5, <4>2, <4>3 DEF Counting, WithinLimit, EntriesVersioned
    <3>6. ChargesAgree'
      <4> SUFFICES ASSUME NEW q \in Request, NEW j \in Attempt, Active(res'[q][j])
                   PROVE  /\ res'[q][j].version > 0
                          /\ /\ res'[q][j].version = counts'[res'[q][j].auth].version
                             /\ res'[q][j].generation = generation'
                             => /\ res'[q][j].window = counts'[res'[q][j].auth].window
                                /\ res'[q][j].limit = counts'[res'[q][j].auth].limit
        BY DEF ChargesAgree
      <4>1. res'[q][j] = res[q][j] /\ res[q][j].auth \in Auth
        BY <1>4 DEF TypeOK, Reservation
      <4>2. /\ res[q][j].version > 0
            /\ res[q][j].version = counts[res[q][j].auth].version /\ res[q][j].generation = generation
               => /\ res[q][j].window = counts[res[q][j].auth].window
                  /\ res[q][j].limit = counts[res[q][j].auth].limit
        BY <4>1 DEF Counting, ChargesAgree
      <4>3. CASE res[q][j].auth = t
        BY <1>1, <3>2, <4>1, <4>2, <4>3
      <4>4. CASE res[q][j].auth # t
        BY <1>1, <2>5, <4>1, <4>2, <4>4
      <4> QED
        BY <4>3, <4>4
    <3> QED
      BY <3>4, <3>5, <3>6 DEF Counting
  <2> QED
    BY <2>3, <2>7, <2>8
<1> QED
  BY <1>7, <1>8

LEMMA CountingStep ==
    ASSUME TypeOK, SlotsOK, Counting, [Next]_vars
    PROVE  Counting'
<1>s. \A q \in Request, i \in Attempt : SameCharge(res[q][i], res[q][i])
  BY SettledCharges
<1>1. CASE UNCHANGED vars
  BY <1>1, <1>s, ChargesKept DEF vars, limiter
<1>2. CASE Tick
  BY <1>2, <1>s, ChargesKept DEF Tick, limiter
<1>3. CASE \E a \in Auth, l \in LimitSetting : ChangePolicy(a, l)
  BY <1>3, <1>s, ChargesKept DEF ChangePolicy, limiter
<1>4. CASE \E f \in [Auth -> LimitSetting] : Reconfigure(f)
  <2>1. /\ counts' = [a \in Auth |-> IF a \in Auth THEN NoEntry ELSE counts[a]]
        /\ res' = res
    BY <1>4 DEF Reconfigure
  <2> QED
    BY <2>1, EntriesDropped
<1>5. CASE \E a \in Removable : RemoveAuth(a)
  <2>1. PICK a \in Removable : RemoveAuth(a)
    BY <1>5
  <2>2. /\ counts' = [b \in Auth |-> IF b \in {a} THEN NoEntry ELSE counts[b]]
        /\ res' = res /\ generation' = generation
    BY <2>1, RemovableAssumption DEF RemoveAuth, TypeOK
  <2>3. {a} \in SUBSET Auth
    BY RemovableAssumption
  <2> QED
    BY <2>2, <2>3, EntriesDropped
<1>6. ASSUME NEW r \in Request, RequestStep(r)
      PROVE  Counting'
  <2>s. \A i \in Attempt : /\ SameCharge(res[r][i], SlotReleased(r)[i])
                            /\ SameCharge(res[r][i], Committed(res[r][i]))
    BY SettledCharges
  <2>1. CASE \E a \in Auth : Pick(r, a)
    BY <2>1, <1>s, ChargesKept DEF Pick, limiter
  <2>2. CASE PickAgain(r)
    <3>1. \A q \in Request, i \in Attempt : SameCharge(res[q][i], res'[q][i])
      BY <1>s, <2>s, <2>2 DEF PickAgain, TypeOK
    <3> QED
      BY <2>2, <3>1, ChargesKept DEF PickAgain, limiter
  <2>3. CASE ReadPolicy(r)
    BY <2>3, <1>s, ChargesKept DEF ReadPolicy, limiter
  <2>4. CASE ReadClock(r)
    BY <2>4, <1>s, ChargesKept DEF ReadClock, limiter
  <2>5. CASE ReserveStale(r)
    BY <2>5, <1>s, ChargesKept DEF ReserveStale, limiter
  <2>6. CASE Reserve(r)
    BY <2>6, ReserveCounts
  <2>7. CASE ReserveNoOp(r)
    <3>1. /\ made[r] + 1 \in Attempt
          /\ res[r][made[r] + 1].state = "none"
      BY <2>7, BoundAssumption
         DEF ReserveNoOp, Reserving, Free, SlotsOK, SlotOK, Attempt, TypeOK
    <3>2. PICK rs : rs.limit = 0 /\ BindSlot(r, rs)
      BY <2>7 DEF ReserveNoOp, NoReservation
    <3>3. SlotReleased(r) \in [Attempt -> Reservation]
      BY SettledTypes
    <3>4. res' = [res EXCEPT ![r] = [SlotReleased(r) EXCEPT ![made[r] + 1] = rs]]
      BY <3>2 DEF BindSlot
    <3>5. SameCharge(res[r][made[r] + 1], rs)
      BY <3>1, <3>2 DEF SameCharge, Active
    <3>6. \A q \in Request, i \in Attempt : SameCharge(res[q][i], res'[q][i])
      BY <1>s, <2>s, <3>1, <3>3, <3>4, <3>5 DEF TypeOK
    <3> QED
      BY <2>7, <3>6, ChargesKept DEF ReserveNoOp, limiter
  <2>8. CASE ReserveFull(r)
    BY <2>8, <1>s, ChargesKept DEF ReserveFull, limiter
  <2>9. CASE StartAttempt(r)
    BY <2>9, <1>s, ChargesKept DEF StartAttempt, limiter
  <2>10. CASE CommitImmediately(r)
    <3>1. bound[r] \in Attempt
      BY <2>10, BoundAssumption DEF CommitImmediately, Free, SlotsOK, SlotOK, TypeOK, Attempt
    <3>2. \A q \in Request, i \in Attempt : SameCharge(res[q][i], res'[q][i])
      BY <1>s, <2>s, <2>10, <3>1 DEF CommitImmediately, TypeOK
    <3> QED
      BY <2>10, <3>2, ChargesKept DEF CommitImmediately, limiter
  <2>11. CASE EndAttempt(r)
    BY <2>11, <1>s, ChargesKept DEF EndAttempt, limiter
  <2>12. CASE ReleaseRetired(r)
    <3>1. \A q \in Request, i \in Attempt : SameCharge(res[q][i], res'[q][i])
      BY <1>s, <2>s, <2>12 DEF ReleaseRetired, TypeOK
    <3> QED
      BY <2>12, <3>1, ChargesKept DEF ReleaseRetired, limiter
  <2>13. CASE \E i \in Attempt : MarkUpstreamAttempt(r, i)
    <3>1. \A q \in Request, i \in Attempt : SameCharge(res[q][i], res'[q][i])
      BY <1>s, <2>s, <2>13 DEF MarkUpstreamAttempt, TypeOK
    <3> QED
      BY <2>13, <3>1, ChargesKept DEF MarkUpstreamAttempt, limiter
  <2>14. CASE \E i \in Attempt : GiveBack(r, i)
    BY <2>14, GiveBackCounts
  <2>15. CASE Finish(r)
    <3>1. \A q \in Request, i \in Attempt : SameCharge(res[q][i], res'[q][i])
      BY <1>s, <2>s, <2>15 DEF Finish, TypeOK
    <3> QED
      BY <2>15, <3>1, ChargesKept DEF Finish, limiter
  <2> QED
    BY <1>6, <2>1, <2>2, <2>3, <2>4, <2>5, <2>6, <2>7, <2>8, <2>9, <2>10, <2>11,
       <2>12, <2>13, <2>14, <2>15 DEF RequestStep
<1> QED
  BY <1>1, <1>2, <1>3, <1>4, <1>5, <1>6 DEF Next

LEMMA InitInvariant == Init => IInv
<1> SUFFICES ASSUME Init PROVE IInv
  OBVIOUS
<1>1. TypeOK
  BY InitTypeOK
<1>2. \A r \in Request, i \in Attempt : ~Active(res[r][i])
  BY DEF Init, NoReservation, Active
<1>3. \A a \in Auth : Charged(a) = {}
  BY <1>2, ChargedIs
<1>4. \A a \in Auth : counts[a] = NoEntry /\ counts[a].count = 0 /\ counts[a].limit = 0
  BY DEF Init, NoEntry
<1>5. CountExact
  BY <1>3, <1>4, FS_EmptySet DEF CountExact
<1>6. WithinLimit /\ EntriesVersioned /\ ChargesAgree
  BY <1>2, <1>4 DEF WithinLimit, EntriesVersioned, ChargesAgree
<1>7. SlotsOK
  BY DEF Init, SlotsOK, SlotOK, NoReservation
<1> QED
  BY <1>1, <1>5, <1>6, <1>7 DEF IInv

\* The inductive invariant behind the theorems.
THEOREM Invariance == Spec => []IInv
<1>1. IInv /\ [Next]_vars => IInv'
  <2> SUFFICES ASSUME IInv, [Next]_vars PROVE IInv'
    OBVIOUS
  <2>1. TypeOK /\ SlotsOK /\ Counting
    BY DEF IInv, Counting
  <2>2. TypeOK' /\ SlotsOK' /\ Counting'
    BY <2>1, TypeStep, SlotsStep, CountingStep
  <2> QED
    BY <2>2 DEF IInv, Counting
<1> QED
  BY <1>1, InitInvariant, PTL DEF Spec

\* Every variable keeps its type and every version in use was issued.
THEOREM TypeCorrect == Spec => []TypeOK
<1>1. IInv => TypeOK
  BY DEF IInv
<1> QED
  BY <1>1, Invariance, PTL

\* A count is exactly the reservations charged to it and not given back.
THEOREM CountsExact == Spec => []CountExact
<1>1. IInv => CountExact
  BY DEF IInv
<1> QED
  BY <1>1, Invariance, PTL

\* No entry counts more than its limit.
THEOREM LimitKept == Spec => []WithinLimit
<1>1. IInv => WithinLimit
  BY DEF IInv
<1> QED
  BY <1>1, Invariance, PTL

\* A late transport report consumes its own reservation and no other.
THEOREM NoForeignConsumption == Spec => []ConsumedByItsOwnAttempt
<1>1. IInv => ConsumedByItsOwnAttempt
  BY DEF IInv, SlotsOK, SlotOK, ConsumedByItsOwnAttempt
<1> QED
  BY <1>1, Invariance, PTL

\* What reached the transport stays charged.
THEOREM TransportCharged == Spec => []ReachedTransportCounts
<1>1. IInv => ReachedTransportCounts
  BY DEF IInv, SlotsOK, SlotOK, ReachedTransportCounts
<1> QED
  BY <1>1, Invariance, PTL

\* A finished request holds no pending reservation.
THEOREM NothingRetained == Spec => []NothingKept
<1>1. IInv => NothingKept
  BY DEF IInv, SlotsOK, SlotOK, NothingKept
<1> QED
  BY <1>1, Invariance, PTL
=============================================================================
