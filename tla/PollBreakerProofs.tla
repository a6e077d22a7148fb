-------------------------- MODULE PollBreakerProofs --------------------------
(***************************************************************************)
(* Proofs about PollBreaker for every finite set of attempts, every set of   *)
(* limits and stall durations, and every bound.                              *)
(***************************************************************************)
EXTENDS PollBreaker, FiniteSetTheorems, TLAPS

\* The values the breaker's fields take ...
Breaker == [enabled : BOOLEAN, stall : Nat, open : BOOLEAN,
            openedAt : Time \union {NoTime},
            fullSince : Time \union {NoTime},
            lastCompletion : Time \union {NoTime}]

\* ... together, and what a reader of the gate may hold.
Sound(b) ==
    /\ b \in Breaker
    /\ b.enabled => b.stall > 0
    /\ b.open <=> b.openedAt # NoTime

Look == [active : Nat, limit : Nat]

\* A disabled breaker has forgotten everything but the last completion.
Blank(b) == ~b.enabled => ~b.open /\ b.fullSince = NoTime

\* The breaker knows of the last completed exchange, or is about to be told.
CompletionTold ==
    \/ lastDone <= breaker.lastCompletion
    \/ \E c \in Client : place[c] = "completed"

\* The ghosts do not run ahead of the clock.
NotAhead == lastDone <= clock /\ enabledAt <= clock

IInv == TypeOK /\ OwnHistory /\ CompletionTold /\ NotAhead

-----------------------------------------------------------------------------
\* An observation keeps the breaker sound, starts a saturation only now, and
\* opens the breaker only if the last completion is a stall duration ago.
LEMMA ObservedSound ==
    ASSUME NEW b, NEW look \in Look, Sound(b), Blank(b), clock \in Time
    PROVE  /\ Sound(Observed(b, look))
           /\ Blank(Observed(b, look))
           /\ Observed(b, look).enabled = b.enabled
           /\ Observed(b, look).stall = b.stall
           /\ Observed(b, look).lastCompletion = b.lastCompletion
           /\ Observed(b, look).fullSince \in {NoTime, b.fullSince, clock}
           /\ Observed(b, look).open /\ ~b.open => clock - b.lastCompletion >= b.stall
<1> DEFINE o == ObserveAdmissionLocked(b, look)
<1>1. b \in Breaker /\ clock \in Int /\ clock # NoTime
  BY BoundAssumption DEF Sound, Time, NoTime
<1>2. /\ o \in Breaker
      /\ o.enabled = b.enabled /\ o.stall = b.stall
      /\ o.lastCompletion = b.lastCompletion
      /\ o.fullSince \in {NoTime, b.fullSince, clock}
      /\ o.open <=> o.openedAt # NoTime
      /\ o.open => b.open
      /\ ~b.enabled => o = b
  BY <1>1 DEF Sound, Breaker, Look, ObserveAdmissionLocked, CloseLocked
<1> HIDE DEF o
<1>3. /\ Baseline(o) \in Int
      /\ Baseline(o) >= o.lastCompletion
  BY <1>2, BoundAssumption DEF Baseline, Breaker, Time, NoTime
<1>4. CASE EvaluateLocked(o, look) = o
  <2>1. Observed(b, look) = o
    BY <1>4 DEF Observed, o
  <2> QED
    BY <1>2, <2>1 DEF Sound, Blank
<1>5. CASE EvaluateLocked(o, look) # o
  <2>1. /\ Observed(b, look) = [o EXCEPT !.open = TRUE, !.openedAt = clock]
        /\ o.enabled /\ ~o.open
        /\ clock - Baseline(o) >= o.stall
    BY <1>5 DEF Observed, EvaluateLocked, o
  <2>2. clock - b.lastCompletion >= b.stall
    BY <1>1, <1>2, <1>3, <2>1, BoundAssumption DEF Breaker, Time, NoTime
  <2>3. Observed(b, look) \in Breaker
    BY <1>2, <2>1 DEF Breaker
  <2> QED
    BY <1>1, <1>2, <2>1, <2>2, <2>3 DEF Sound, Blank, Breaker
<1> QED
  BY <1>4, <1>5

\* So does the report of a completed exchange, which never opens the breaker.
LEMMA CompletedSound ==
    ASSUME NEW b, NEW look \in Look, NEW canceled \in BOOLEAN,
           Sound(b), Blank(b), clock \in Time
    PROVE  /\ Sound(Completed(b, look, canceled))
           /\ Blank(Completed(b, look, canceled))
           /\ Completed(b, look, canceled).enabled = b.enabled
           /\ Completed(b, look, canceled).stall = b.stall
           /\ Completed(b, look, canceled).lastCompletion
                = IF canceled THEN b.lastCompletion ELSE clock
           /\ Completed(b, look, canceled).fullSince \in {NoTime, b.fullSince, clock}
           /\ Completed(b, look, canceled).open => b.open
<1> DEFINE t == IF canceled THEN b ELSE CloseLocked([b EXCEPT !.lastCompletion = clock])
           n == ObserveAdmissionLocked(t, look)
<1>1. b \in Breaker /\ clock \in Int /\ clock # NoTime
  BY BoundAssumption DEF Sound, Time, NoTime
<1>2. /\ t \in Breaker
      /\ t.enabled = b.enabled /\ t.stall = b.stall /\ t.fullSince = b.fullSince
      /\ t.lastCompletion = IF canceled THEN b.lastCompletion ELSE clock
      /\ t.open <=> t.openedAt # NoTime
      /\ t.open => b.open
  BY <1>1 DEF Sound, Breaker, CloseLocked
<1> HIDE DEF t
<1>3. /\ n \in Breaker
      /\ n.enabled = t.enabled /\ n.stall = t.stall
      /\ n.lastCompletion = t.lastCompletion
      /\ n.fullSince \in {NoTime, t.fullSince, clock}
      /\ n.open <=> n.openedAt # NoTime
      /\ n.open => t.open
      /\ ~t.enabled => n = t
  BY <1>1, <1>2 DEF Breaker, Look, ObserveAdmissionLocked, CloseLocked
<1> HIDE DEF n
<1>4. Completed(b, look, canceled)
        = IF n.open /\ look.active = 0 THEN CloseLocked(n) ELSE n
  BY DEF Completed, n, t
<1>5. CASE n.open /\ look.active = 0
  <2>1. Completed(b, look, canceled) = [n EXCEPT !.open = FALSE, !.openedAt = NoTime]
    BY <1>4, <1>5 DEF CloseLocked
  <2>2. Completed(b, look, canceled) \in Breaker
    BY <1>3, <2>1 DEF Breaker
  <2> QED
    BY <1>2, <1>3, <2>1, <2>2 DEF Sound, Blank, Breaker
<1>6. CASE ~(n.open /\ look.active = 0)
  <2>1. Completed(b, look, canceled) = n
    BY <1>4, <1>6
  <2> QED
    BY <1>2, <1>3, <2>1 DEF Sound, Blank, Breaker
<1> QED
  BY <1>5, <1>6

-----------------------------------------------------------------------------
\* Every initial state satisfies the invariant.
LEMMA InitIInv == Init => IInv
<1> SUFFICES ASSUME Init PROVE IInv
  OBVIOUS
<1>1. TypeOK
  BY BoundAssumption, LimitAssumption
     DEF Init, Gate!GateInit, TypeOK, Time, NoTime, NoLook, Place, Observing
<1>2. OwnHistory /\ CompletionTold /\ NotAhead
  BY DEF Init, OwnHistory, CompletionTold, NotAhead, NoTime
<1> QED
  BY <1>1, <1>2 DEF IInv

\* The gate's clients stay clients and its limit a configured one.
LEMMA GateTypes ==
    ASSUME TypeOK,
           \/ \E c \in Client : Gate!Enter(c) \/ Gate!Join(c)
                                \/ Gate!Leave(c) \/ Gate!GiveBack(c)
           \/ \E l \in LimitSetting : Gate!Resize(l)
    PROVE  /\ inside' \subseteq Client /\ waiting' \subseteq Client
           /\ limit' \in LimitSetting /\ open' = TRUE
BY DEF TypeOK, Gate!Enter, Gate!Join, Gate!Leave, Gate!GiveBack, Gate!Resize, Gate!Fill

\* What the invariant says of the breaker, and what it needs of the next one.
LEMMA BreakerOf ==
    ASSUME IInv PROVE Sound(breaker) /\ Blank(breaker) /\ clock \in Time
BY DEF IInv, TypeOK, OwnHistory, Sound, Blank, Breaker

\* What an observer has read is a snapshot of the gate.
LEMMA LookOf ==
    ASSUME IInv, NEW c \in Client, seen[c] # NoLook PROVE seen[c] \in Look
BY DEF IInv, TypeOK, Look

\* An observation that keeps the breaker's clocks in order keeps the invariant.
LEMMA ObserveKeeps ==
    ASSUME IInv, NEW c \in Client, NEW next, NEW p \in Place,
           Observe(c, next), Goto(c, p),
           Sound(next), Blank(next),
           next.fullSince \in {NoTime, breaker.fullSince, clock},
           next.enabled = breaker.enabled,
           p # "completed",
           IF place[c] = "completed" THEN next.lastCompletion = clock
                                     ELSE next.lastCompletion >= breaker.lastCompletion
    PROVE  IInv'
<1>1. /\ breaker' = next /\ seen' = [seen EXCEPT ![c] = NoLook]
      /\ place' = [place EXCEPT ![c] = p]
      /\ UNCHANGED <<inside, waiting, limit, open, clock, polls, lastDone, enabledAt, lastFree>>
  BY DEF Observe, Forget, Goto, gate
<1>2. TypeOK'
  BY <1>1 DEF IInv, TypeOK, Sound, Breaker, NoLook
<1>3. OwnHistory'
  <2>1. enabledAt \in Int /\ clock \in Int /\ enabledAt <= clock
    BY BoundAssumption DEF IInv, TypeOK, NotAhead, Time, NoTime
  <2>2. ~next.enabled => ~next.open /\ next.fullSince = NoTime
    BY DEF Blank
  <2>3. next.fullSince # NoTime => next.fullSince >= enabledAt
    BY <2>1 DEF IInv, OwnHistory
  <2> QED
    BY <1>1, <2>2, <2>3 DEF OwnHistory
<1>4. CompletionTold'
  <2>1. /\ lastDone \in Int /\ clock \in Int /\ lastDone <= clock
        /\ breaker.lastCompletion \in Int /\ next.lastCompletion \in Int
    BY BoundAssumption DEF IInv, TypeOK, NotAhead, Time, NoTime, Sound, Breaker
  <2>2. CASE place[c] = "completed"
    BY <1>1, <2>1, <2>2 DEF CompletionTold
  <2>3. CASE place[c] # "completed"
    <3>1. CASE lastDone <= breaker.lastCompletion
      BY <1>1, <2>1, <2>3, <3>1 DEF CompletionTold
    <3>2. CASE \E e \in Client : place[e] = "completed"
      <4>1. PICK e \in Client : place[e] = "completed"
        BY <3>2
      <4>2. place' [e] = "completed"
        BY <1>1, <2>3, <4>1 DEF IInv, TypeOK
      <4> QED
        BY <4>2 DEF CompletionTold
    <3> QED
      BY <3>1, <3>2 DEF IInv, CompletionTold
  <2> QED
    BY <2>2, <2>3
<1>5. NotAhead'
  BY <1>1 DEF IInv, NotAhead
<1> QED
  BY <1>2, <1>3, <1>4, <1>5 DEF IInv

\* A goroutine that moves without touching the breaker, from and to a place in
\* which it has no completion to report, keeps the invariant.
LEMMA MoveKeeps ==
    ASSUME IInv, NEW c \in Client, NEW p \in Place, Goto(c, p),
           place[c] # "completed",
           inside' \subseteq Client, waiting' \subseteq Client,
           limit' \in LimitSetting, open' = TRUE,
           polls' \in [Client -> 0..MaxPolls],
           UNCHANGED <<clock, breaker, seen, enabledAt, lastFree>>,
           lastDone' = lastDone \/ (lastDone' = clock /\ p = "completed")
    PROVE  IInv'
<1>1. place' = [place EXCEPT ![c] = p] /\ place \in [Client -> Place]
  BY DEF Goto, IInv, TypeOK
<1>2. TypeOK'
  BY <1>1 DEF IInv, TypeOK
<1>3. OwnHistory'
  BY DEF IInv, OwnHistory
<1>4. CompletionTold'
  <2>1. CASE p = "completed"
    BY <1>1, <2>1 DEF CompletionTold
  <2>2. CASE p # "completed"
    <3>1. ASSUME NEW e \in Client, place[e] = "completed"
          PROVE  place' [e] = "completed"
      BY <1>1, <3>1
    <3> QED
      BY <2>2, <3>1 DEF IInv, CompletionTold
  <2> QED
    BY <2>1, <2>2
<1>5. NotAhead'
  BY BoundAssumption DEF IInv, TypeOK, NotAhead, Time, NoTime
<1> QED
  BY <1>2, <1>3, <1>4, <1>5 DEF IInv

-----------------------------------------------------------------------------
\* The four places that observe the gate alike.
LEMMA ObservedKeeps ==
    ASSUME IInv, NEW c \in Client, NEW p \in Place, p # "completed",
           place[c] # "completed",
           Observe(c, Observed(breaker, seen[c])), Goto(c, p)
    PROVE  /\ IInv'
           /\ breaker'.open /\ ~breaker.open => clock - breaker.lastCompletion >= breaker.stall
<1>1. Sound(breaker) /\ Blank(breaker) /\ clock \in Time
  BY BreakerOf
<1>2. seen[c] \in Look
  BY LookOf DEF Observe
<1> DEFINE next == Observed(breaker, seen[c])
<1>3. /\ Sound(next) /\ Blank(next)
      /\ next.enabled = breaker.enabled
      /\ next.lastCompletion = breaker.lastCompletion
      /\ next.fullSince \in {NoTime, breaker.fullSince, clock}
      /\ next.open /\ ~breaker.open => clock - breaker.lastCompletion >= breaker.stall
  BY <1>1, <1>2, ObservedSound
<1>4. next.lastCompletion >= breaker.lastCompletion
  BY <1>1, <1>3, BoundAssumption DEF Sound, Breaker, Time, NoTime
<1> HIDE DEF next
<1>5. Observe(c, next)
  BY DEF next
<1>6. IInv'
  BY <1>3, <1>4, <1>5, ObserveKeeps
<1> QED
  BY <1>3, <1>5, <1>6 DEF Observe

\* What a goroutine at one of these places is not.
LEMMA Elsewhere ==
    /\ {"idle", "first", "second", "admitted", "waiting", "acquired", "polling",
        "canceled", "completed", "releasing", "released", "status"} \subseteq Place
    /\ \A p \in {"idle", "first", "second", "admitted", "waiting", "acquired",
                 "polling", "canceled", "releasing", "released", "status"} :
          p # "completed"
BY DEF Place, Observing

\* Every step keeps the invariant and opens the breaker only a stall after the
\* last completion it was told of.
LEMMA NextKeeps ==
    ASSUME IInv, [Next]_vars
    PROVE  /\ IInv'
           /\ breaker'.open /\ ~breaker.open => clock - breaker.lastCompletion >= breaker.stall
<1> DEFINE Late == breaker'.open /\ ~breaker.open => clock - breaker.lastCompletion >= breaker.stall
<1> USE Elsewhere
<1>0. TypeOK /\ place \in [Client -> Place]
  BY DEF IInv, TypeOK
<1>1. ASSUME NEW c \in Client, Begin(c) \/ AskStatus(c) PROVE IInv' /\ Late
  <2>1. Goto(c, "first") \/ Goto(c, "status")
    BY <1>1 DEF Begin, AskStatus
  <2>2. /\ place[c] # "completed"
        /\ UNCHANGED <<gate, clock, breaker, seen, polls, lastDone, enabledAt, lastFree>>
    BY <1>1 DEF Begin, AskStatus
  <2>3. IInv'
    BY <1>0, <2>1, <2>2, MoveKeeps DEF TypeOK, gate
  <2> QED
    BY <2>2, <2>3
<1>2. ASSUME NEW c \in Client, ReadGate(c) PROVE IInv' /\ Late
  <2>1. /\ UNCHANGED <<gate, clock, breaker, place, polls, lastDone, enabledAt, lastFree>>
        /\ seen' = [seen EXCEPT ![c] = [active |-> Cardinality(inside), limit |-> limit]]
    BY <1>2 DEF ReadGate
  <2>2. Cardinality(inside) \in Nat /\ limit \in Nat
    BY <1>0, ClientAssumption, LimitAssumption, FS_Subset, FS_CardinalityType DEF TypeOK
  <2>3. TypeOK'
    BY <1>0, <2>1, <2>2 DEF TypeOK, gate
  <2> QED
    BY <2>1, <2>3 DEF IInv, OwnHistory, CompletionTold, NotAhead
<1>3. ASSUME NEW c \in Client, Reject(c) PROVE IInv' /\ Late
  <2>1. PICK p \in {"idle", "second", "admitted"} : Goto(c, p)
    BY <1>3 DEF Reject
  <2>2. Observe(c, Observed(breaker, seen[c])) /\ place[c] # "completed"
    BY <1>3 DEF Reject
  <2> QED
    BY <2>1, <2>2, ObservedKeeps
<1>4. ASSUME NEW c \in Client, ObserveAcquired(c) \/ ObserveReleased(c) \/ Status(c)
      PROVE  IInv' /\ Late
  <2>1. PICK p \in {"polling", "admitted", "idle"} : Goto(c, p)
    BY <1>4 DEF ObserveAcquired, ObserveReleased, Status
  <2>2. Observe(c, Observed(breaker, seen[c])) /\ place[c] # "completed"
    BY <1>4 DEF ObserveAcquired, ObserveReleased, Status
  <2> QED
    BY <2>1, <2>2, ObservedKeeps
<1>5. ASSUME NEW c \in Client, ObserveCompletion(c) PROVE IInv' /\ Late
  <2>1. Sound(breaker) /\ Blank(breaker) /\ clock \in Time
    BY BreakerOf
  <2>2. seen[c] \in Look
    BY <1>5, LookOf DEF ObserveCompletion, Observe
  <2> DEFINE canceled == place[c] = "canceled"
             next == Completed(breaker, seen[c], canceled)
  <2>3. canceled \in BOOLEAN /\ Observe(c, next) /\ Goto(c, "releasing")
        /\ (canceled <=> place[c] # "completed")
    BY <1>5 DEF ObserveCompletion
  <2>4. /\ Sound(next) /\ Blank(next)
        /\ next.enabled = breaker.enabled
        /\ next.lastCompletion = IF canceled THEN breaker.lastCompletion ELSE clock
        /\ next.fullSince \in {NoTime, breaker.fullSince, clock}
        /\ next.open => breaker.open
    BY <2>1, <2>2, <2>3, CompletedSound
  <2>5. IF place[c] = "completed" THEN next.lastCompletion = clock
                                  ELSE next.lastCompletion >= breaker.lastCompletion
    BY <2>1, <2>3, <2>4, BoundAssumption DEF Sound, Breaker, Time, NoTime
  <2> HIDE DEF next, canceled
  <2>6. IInv'
    BY <2>3, <2>4, <2>5, ObserveKeeps
  <2> QED
    BY <2>3, <2>4, <2>6 DEF Observe
<1>6. ASSUME NEW c \in Client, AcquirePoll(c) PROVE IInv' /\ Late
  <2>1. /\ Gate!Enter(c) \/ Gate!Join(c)
        /\ Goto(c, "acquired") \/ Goto(c, "waiting")
        /\ place[c] # "completed" /\ polls[c] < MaxPolls
        /\ polls' = [polls EXCEPT ![c] = @ + 1]
        /\ UNCHANGED <<clock, breaker, seen, lastDone, enabledAt, lastFree>>
    BY <1>6 DEF AcquirePoll
  <2>2. polls' \in [Client -> 0..MaxPolls]
    BY <1>0, <2>1, BoundAssumption DEF TypeOK
  <2>3. IInv'
    BY <1>0, <2>1, <2>2, GateTypes, MoveKeeps
  <2> QED
    BY <2>1, <2>3
<1>7. ASSUME NEW c \in Client, CancelWait(c) \/ ReleasePoll(c) PROVE IInv' /\ Late
  <2>1. /\ Gate!Leave(c) \/ Gate!GiveBack(c)
        /\ Goto(c, "admitted") \/ Goto(c, "released")
        /\ place[c] # "completed"
        /\ UNCHANGED <<clock, breaker, seen, polls, lastDone, enabledAt, lastFree>>
    BY <1>7 DEF CancelWait, ReleasePoll
  <2>2. IInv'
    BY <1>0, <2>1, GateTypes, MoveKeeps DEF TypeOK
  <2> QED
    BY <2>1, <2>2
<1>8. ASSUME NEW c \in Client, Granted(c) \/ AdmissionFails(c) PROVE IInv' /\ Late
  <2>1. /\ Goto(c, "acquired") \/ Goto(c, "idle")
        /\ place[c] # "completed"
        /\ UNCHANGED <<gate, clock, breaker, seen, polls, lastDone, enabledAt, lastFree>>
    BY <1>8 DEF Granted, AdmissionFails
  <2>2. IInv'
    BY <1>0, <2>1, MoveKeeps DEF TypeOK, gate
  <2> QED
    BY <2>1, <2>2
<1>9. ASSUME NEW c \in Client, EndAttempt(c) PROVE IInv' /\ Late
  <2>1. /\ Goto(c, "idle") /\ place[c] # "completed"
        /\ polls' = [polls EXCEPT ![c] = 0]
        /\ UNCHANGED <<gate, clock, breaker, seen, lastDone, enabledAt, lastFree>>
    BY <1>9 DEF EndAttempt
  <2>2. IInv'
    BY <1>0, <2>1, MoveKeeps, BoundAssumption DEF TypeOK, gate
  <2> QED
    BY <2>1, <2>2
<1>10. ASSUME NEW c \in Client, NEW canceled \in BOOLEAN, EndExchange(c, canceled)
       PROVE  IInv' /\ Late
  <2>1. /\ Goto(c, IF canceled THEN "canceled" ELSE "completed")
        /\ place[c] # "completed"
        /\ lastDone' = IF canceled THEN lastDone ELSE clock
        /\ UNCHANGED <<gate, clock, breaker, seen, polls, enabledAt, lastFree>>
    BY <1>10 DEF EndExchange
  <2>2. IInv'
    BY <1>0, <2>1, MoveKeeps DEF TypeOK, gate
  <2> QED
    BY <2>1, <2>2
<1>11. ASSUME NEW on \in BOOLEAN, NEW d \in StallSetting, Configure(on, d)
       PROVE  IInv' /\ Late
  <2> DEFINE next == Configured(breaker, on, d)
             stall == IF d <= 0 THEN DefaultStall ELSE d
  <2>1. /\ breaker' = next
        /\ enabledAt' = IF on /\ ~breaker.enabled THEN clock ELSE enabledAt
        /\ UNCHANGED <<gate, clock, place, seen, polls, lastDone, lastFree>>
    BY <1>11 DEF Configure
  <2>2. Sound(breaker) /\ clock \in Time /\ clock \in Int
    BY BreakerOf, BoundAssumption DEF Time
  <2>3. stall \in Nat /\ stall > 0
    BY StallAssumption
  <2>4. /\ next.enabled = on /\ next.stall = stall
        /\ next.lastCompletion = breaker.lastCompletion
        /\ next.fullSince = IF on /\ breaker.enabled THEN breaker.fullSince ELSE NoTime
        /\ next.open = (on /\ breaker.open)
        /\ next.openedAt = IF on THEN breaker.openedAt ELSE NoTime
        /\ next \in Breaker
    <3> HIDE DEF stall
    <3>1. next = IF ~on
                 THEN [CloseLocked(breaker) EXCEPT !.enabled = FALSE, !.stall = stall,
                                                   !.fullSince = NoTime]
                 ELSE [breaker EXCEPT !.enabled = TRUE, !.stall = stall,
                                      !.fullSince = IF breaker.enabled THEN @ ELSE NoTime]
      BY DEF Configured, stall
    <3> HIDE DEF next
    <3> QED
      BY <2>2, <2>3, <3>1 DEF Sound, Breaker, CloseLocked
  <2> HIDE DEF next, stall
  <2>5. TypeOK'
    BY <1>0, <2>1, <2>2, <2>3, <2>4 DEF TypeOK, Sound, Breaker, gate
  <2>6. OwnHistory'
    BY <2>1, <2>2, <2>4 DEF IInv, OwnHistory
  <2>7. CompletionTold' /\ NotAhead'
    BY <2>1, <2>2, <2>4 DEF IInv, CompletionTold, NotAhead
  <2> QED
    BY <2>1, <2>4, <2>5, <2>6, <2>7 DEF IInv
<1>12. ASSUME NEW l \in LimitSetting, ConfigureGate(l) PROVE IInv' /\ Late
  <2>1. /\ Gate!Resize(l)
        /\ UNCHANGED <<clock, breaker, place, seen, polls, lastDone, enabledAt, lastFree>>
    BY <1>12 DEF ConfigureGate
  <2>2. TypeOK'
    BY <1>0, <2>1, GateTypes DEF TypeOK
  <2> QED
    BY <2>1, <2>2 DEF IInv, OwnHistory, CompletionTold, NotAhead
<1>13. ASSUME Tick PROVE IInv' /\ Late
  <2>1. /\ clock < MaxTime /\ clock' = clock + 1
        /\ lastFree' = IF Cardinality(inside) < limit THEN clock' ELSE lastFree
        /\ UNCHANGED <<gate, breaker, place, seen, polls, lastDone, enabledAt>>
    BY <1>13 DEF Tick
  <2>2. TypeOK'
    BY <1>0, <2>1, BoundAssumption DEF TypeOK, Time, gate
  <2>3. NotAhead'
    BY <1>0, <2>1, BoundAssumption DEF IInv, NotAhead, TypeOK, Time, NoTime
  <2> QED
    BY <2>1, <2>2, <2>3 DEF IInv, OwnHistory, CompletionTold
<1>14. ASSUME UNCHANGED vars PROVE IInv' /\ Late
  BY <1>14 DEF vars, IInv, TypeOK, OwnHistory, CompletionTold, NotAhead
<1> QED
  BY <1>1, <1>2, <1>3, <1>4, <1>5, <1>6, <1>7, <1>8, <1>9, <1>10, <1>11, <1>12,
     <1>13, <1>14 DEF Next, Step

-----------------------------------------------------------------------------
\* Every reachable state is type-correct: an enabled breaker has a positive
\* duration and an open one an opening time, whatever was configured.
THEOREM TypeCorrect == Spec => []TypeOK
<1>1. Init => IInv
  BY InitIInv
<1>2. IInv /\ [Next]_vars => IInv'
  BY NextKeeps
<1>3. IInv => TypeOK
  BY DEF IInv
<1> QED
  BY <1>1, <1>2, <1>3, PTL DEF Spec

\* A disabled breaker is closed and has forgotten the saturation, and an
\* enabled one counts only from saturation seen since it was enabled.
THEOREM HistoryOwn == Spec => []OwnHistory
<1>1. Init => IInv
  BY InitIInv
<1>2. IInv /\ [Next]_vars => IInv'
  BY NextKeeps
<1>3. IInv => OwnHistory
  BY DEF IInv
<1> QED
  BY <1>1, <1>2, <1>3, PTL DEF Spec

\* The breaker opens only when no exchange has completed for the stall
\* duration, or one that has is about to say so.
THEOREM OpensOnStall == Spec => OpensWithoutCompletion
<1>1. Init => IInv
  BY InitIInv
<1>2. IInv /\ [Next]_vars => IInv'
  BY NextKeeps
<1>3. ASSUME IInv, [Next]_vars
      PROVE  [breaker'.open /\ ~breaker.open =>
                \/ clock - lastDone >= breaker.stall
                \/ \E c \in Client : place[c] = "completed"]_vars
  <2>1. /\ lastDone \in Int /\ clock \in Int
        /\ breaker.lastCompletion \in Int /\ breaker.stall \in Int
    BY <1>3, BoundAssumption DEF IInv, TypeOK, Time, NoTime
  <2>2. breaker'.open /\ ~breaker.open => clock - breaker.lastCompletion >= breaker.stall
    BY <1>3, NextKeeps
  <2> QED
    BY <1>3, <2>1, <2>2 DEF IInv, CompletionTold
<1> QED
  BY <1>1, <1>2, <1>3, PTL DEF Spec, OpensWithoutCompletion

=============================================================================
