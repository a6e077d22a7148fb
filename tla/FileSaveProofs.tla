---------------------------- MODULE FileSaveProofs ----------------------------
(***************************************************************************)
(* Proofs about FileSave for every number of calls, foreign replacements,  *)
(* faults and crashes: types and the lock, that a save never takes the     *)
(* file away, that a rolled back replacement cannot come back, that what a *)
(* committed save or a deletion replaced cannot come back either, and that *)
(* with an atomic exchange no foreign generation is destroyed unseen.      *)
(***************************************************************************)
EXTENDS FileSave, TLAPS

\* The private names of a call, and all the names it may write.
Mine(s) == {s} \X Slot
Own(s) == {Target} \cup Mine(s)

\* The generation a call stages is under its private names only, or at the
\* target too, in whatever directory is left.
Hidden(s) == \A d \in images, n \in Name : d[n] = s => n \in Mine(s)
Confined(s) == \A d \in images, n \in Name : d[n] = s => n \in Own(s)

\* The target holds g in no directory that may be left.
Missing(g) == \A d \in images : d[Target] # g

\* The steps of ExchangeStagedFile without an atomic exchange.
Fallback == {"link", "linkSync", "unlink", "unlinkSync", "install", "installed",
             "installSync", "relink", "relinkSync", "restore", "restored", "restoreSync"}

\* Where a call that is not over has no result yet.
Silent == Working \ {"putBackSync", "discard", "discardSync", "cleanup", "cleanupSync", "unlock"}

\* The names a call works with.
Named(s) ==
    LET c == call[s]
    IN  /\ c.pc \in {"stage", "validate"} => c.kind # "delete" /\ c.leg = "out" /\ c.old = None
        /\ c.pc = "move" => c.kind = "delete" /\ c.expected # None
        /\ c.pc \in {"linkNew", "renameNew", "unstage"} =>
               IF c.kind = "delete" THEN c.staged = Aside(s)
               ELSE c.staged = Temp(s) /\ c.expected = None /\ c.old = None
        /\ c.pc = "exchange" => /\ c.staged \in {Temp(s), Aside(s)}
                                /\ c.leg = "out" => c.staged = Temp(s)
        /\ c.pc \in Fallback => /\ c.staged \in Mine(s) /\ c.displaced \in Mine(s)
                                /\ c.staged # c.displaced
                                /\ c.leg = "out" => c.displaced = Aside(s)
        /\ c.pc \in {"discard", "discardSync", "discardBack", "discardBackSync"} => c.old \in Mine(s)
        /\ c.pc \in {"confirm", "commitSync"} => c.old \in Mine(s) \cup {None}

\* What the call has under its private names.
Held(s) ==
    LET c == call[s]
    IN  /\ c.pc = "validate" => dir[Temp(s)] = s
        /\ c.pc \in {"linkNew", "renameNew"} => dir[c.staged] # None
        /\ c.pc \in {"linkNew", "renameNew", "unstage"} /\ c.kind # "delete" => dir[Temp(s)] = s
        /\ c.pc = "exchange" => dir[c.staged] # None /\ (c.leg = "out" <=> dir[c.staged] = s)
        /\ c.pc \in {"link", "linkSync", "install"} =>
               dir[c.staged] = c.stagedInfo
        /\ c.pc \in {"link", "linkSync", "install", "installed"} => c.stagedInfo # None
        /\ c.pc \in {"linkSync", "install", "installed", "installSync",
                     "relink", "relinkSync", "restore"} => dir[c.displaced] = c.targetInfo
        /\ c.pc \in Fallback => /\ c.targetInfo # None
                                /\ c.leg = "back" => c.stagedInfo # s
                                /\ c.leg = "out" => c.targetInfo # s

\* What is no longer at the target, for the steps that rest on it.
Displaced(s) ==
    LET c == call[s]
    IN  /\ c.pc \in {"discardBack", "discardBackSync"} => dir[Target] # s
        /\ c.pc = "installSync" /\ c.leg = "back" => dir[Target] # s
        /\ c.pc = "restoreSync" /\ c.leg = "out" => dir[Target] # s
        /\ c.pc = "commitSync" => /\ dir[Target] = None => removed
                                  /\ c.expected # None => dir[Target] # c.expected
        /\ c.pc \in {"discard", "discardSync"} /\ c.result = "nil" =>
               c.kind = "delete" /\ c.expected # None /\ dir[Target] # c.expected

\* As long as nothing was exchanged, no restart can load what the call stages.
Unexposed(s) ==
    LET c == call[s]
    IN  /\ c.pc \in {"stage", "validate"} => Hidden(s)
        /\ c.leg = "out" /\ c.pc \in {"exchange", "link", "linkSync", "unlink", "unlinkSync", "install"}
               => Hidden(s)
        /\ c.leg = "out" /\ c.pc = "installed" /\ dir[c.staged] # None => Hidden(s)

\* The foreign generation is not under this name alone.
Doubled(name) == theirs # None /\ dir[name] = theirs => dir[Target] = theirs

\* What a step is about to write over or remove is nobody else's.
Sparing(s) ==
    LET c == call[s]
    IN  /\ atomic => c.pc \notin Fallback
        /\ c.pc = "stage" => dir[Temp(s)] = None
        /\ c.pc = "move" => dir[Aside(s)] = None
        /\ c.pc = "unstage" => Doubled(c.staged)
        /\ c.pc \in {"confirm", "commitSync"} /\ c.old # None => dir[c.old] = c.expected
        /\ c.pc = "discard" => dir[c.old] = c.expected \/ Doubled(c.old)
        /\ c.pc = "discardBack" => dir[c.old] = s
        /\ atomic /\ c.pc = "exchange" => c.staged = Temp(s)
        /\ atomic /\ c.pc \in {"discardBack", "discardBackSync"} => dir[Temp(s)] \in {s, None}
        /\ atomic /\ c.owned => dir[Temp(s)] \in {s, None}

\* The results a call may carry before its clean-up.
Reported(s) ==
    LET c == call[s]
    IN  /\ c.pc \in Silent => c.result = "nil"
        /\ c.pc = "putBackSync" => c.result \in {"nil", "uncertain"}
        /\ c.pc \in {"discard", "discardSync"} => c.result \in {"nil", "uncertain", "committed"}

\* What holds of a call inside its transaction.
Ready(s) ==
    Named(s) /\ Held(s) /\ Displaced(s) /\ Unexposed(s) /\ Sparing(s) /\ Reported(s) /\ Confined(s)

\* What the result of a call says of every directory that may be left.
Told(s) ==
    LET c == call[s]
    IN  /\ c.result \in {"rolledBack", "exists", "error"} /\ c.expected # None => Hidden(s)
        /\ c.result \in {"committed", "deleted"} /\ c.expected # None => Missing(c.expected)
        /\ c.result = "committed" => removed \/ Deleting \/ Missing(None)
        /\ c.result = "deleted" => c.kind = "delete"

\* Nor has a later call what a committed one replaced under its own names.
Apart ==
    \A s, t \in Caller :
        /\ call[s].result \in {"committed", "deleted"} /\ call[s].expected # None
        /\ t # s /\ call[t].pc \in Working
        => \A d \in images, n \in Mine(t) : d[n] # call[s].expected

\* A call that has not begun has left nothing; one that ended with its process
\* has told nothing.
Fresh ==
    \A s \in Caller :
        /\ call[s].pc \in {"idle", "dead"} => call[s].result = "nil"
        /\ call[s].pc = "idle" => /\ call[s].expected = None /\ call[s].kind # "delete"
                                  /\ \A d \in images, n \in Name : d[n] # s
                                  /\ \A d \in images, n \in Mine(s) : d[n] = None

\* A generation that was at the target is not put there a second time.
Spent ==
    /\ \A d \in images, n \in Name : d[n] \in Foreign => d[n] \in arrived
    /\ theirs \in Foreign => theirs \in arrived
    /\ \A s \in Caller :
          /\ call[s].expected \in Foreign => call[s].expected \in arrived
          /\ call[s].expected \in Caller => call[call[s].expected].pc \in {"done", "dead"}

\* Every directory that may be left has the file, or it was taken away, or it
\* was not there when everything began and no save is committed.
Kept ==
    \/ removed \/ Deleting
    \/ Missing(None)
    \/ /\ \A d \in images, n \in Name : d[n] # Original
       /\ \A s \in Caller : call[s].expected # Original /\ call[s].result # "committed"

IInv == /\ TypeOK /\ Fresh /\ Spent /\ Kept /\ Apart
        /\ \A s \in Caller : Told(s)
        /\ \A s \in Caller : call[s].pc \in Working => Ready(s)

-----------------------------------------------------------------------------
(* Names and directories *)

LEMMA Names ==
    ASSUME NEW s \in Caller
    PROVE  /\ Mine(s) \subseteq Name /\ Own(s) \subseteq Name /\ Target \in Name
           /\ Target \notin Mine(s) /\ None \notin Mine(s) /\ Mine(s) \subseteq Own(s) /\ Target \in Own(s)
           /\ Temp(s) \in Mine(s) /\ Aside(s) \in Mine(s) /\ <<s, "displacedAgain">> \in Mine(s)
           /\ Temp(s) # Aside(s) /\ Temp(s) # <<s, "displacedAgain">> /\ Aside(s) # <<s, "displacedAgain">>
           /\ None \notin Name
<1>1. Mine(s) \subseteq Caller \X Slot
  BY DEF Mine
<1> QED
  BY <1>1, FileSaveAssumption DEF Mine, Own, Name, Slot, Temp, Aside

LEMMA NamesApart ==
    ASSUME NEW s \in Caller, NEW t \in Caller, s # t
    PROVE  \A n \in Mine(t) : n \notin Own(s)
<1>1. Target \notin Mine(t)
  BY Names
<1>2. \A n \in Mine(t) : n \notin Mine(s)
  BY DEF Mine
<1> QED
  BY <1>1, <1>2 DEF Own

\* The directory a write leads to.
LEMMA WithWritten ==
    ASSUME NEW d, NEW change
    PROVE  \A n \in Name : With(d, change)[n] = IF n \in DOMAIN change THEN change[n] ELSE d[n]
  BY DEF With

\* A step of s wrote under the names N only, and nothing but its own generation
\* and what it has or finds at the target.
Touches(s, N) ==
    /\ dir' \in images' /\ images' \subseteq Directory
    /\ \A n \in Name \ N : dir'[n] = dir[n]
    /\ \A d \in images', n \in Name :
          \/ \E e \in images : d[n] = e[n]
          \/ n \in N /\ (d[n] \in {None, s} \/ \E m \in Own(s) : d[n] = dir[m])

\* The steps under the private names, and all the steps of a call.
Quiet(s) == Touches(s, Mine(s)) /\ faults' \in 0..MaxFaults
Effect(s) ==
    /\ Touches(s, Own(s)) /\ faults' \in 0..MaxFaults
    /\ Missing(None) /\ call[s].kind # "delete" => Missing(None)'

LEMMA QuietKeeps ==
    ASSUME TypeOK, NEW s \in Caller, Quiet(s)
    PROVE  /\ Effect(s) /\ dir'[Target] = dir[Target]
           /\ Hidden(s) => Hidden(s)'
           /\ \A g : Missing(g) => Missing(g)'
<1>1. /\ Target \in Name /\ Target \notin Mine(s) /\ Mine(s) \subseteq Own(s)
  BY Names
<1>2. dir'[Target] = dir[Target]
  BY <1>1 DEF Quiet, Touches
<1>3. \A d \in images' : \E e \in images : d[Target] = e[Target]
  BY <1>1 DEF Quiet, Touches
<1>4. \A g : Missing(g) => Missing(g)'
  BY <1>3 DEF Missing
<1>5. Hidden(s) => Hidden(s)'
  BY DEF Hidden, Quiet, Touches
<1>6. Touches(s, Own(s))
  BY <1>1 DEF Quiet, Touches
<1>7. Effect(s)
  BY <1>4, <1>6 DEF Effect, Quiet
<1> QED
  BY <1>2, <1>4, <1>5, <1>7

LEMMA EffectConfined ==
    ASSUME TypeOK, NEW s \in Caller, Effect(s), Confined(s)
    PROVE  Confined(s)'
  BY DEF Confined, Effect, Touches

LEMMA UnchangedQuiet ==
    ASSUME TypeOK, NEW s \in Caller, UNCHANGED files
    PROVE  Quiet(s) /\ dir' = dir /\ images' = images
  BY DEF TypeOK, files, Quiet, Touches

LEMMA SyncQuiet ==
    ASSUME TypeOK, NEW s \in Caller, NEW ok \in BOOLEAN, Sync(ok)
    PROVE  Quiet(s) /\ dir' = dir /\ (ok => images' = {dir})
<1>1. dir' = dir /\ images' \in {images, {dir}} /\ (ok => images' = {dir})
  BY DEF Sync
<1>2. faults' \in 0..MaxFaults
  BY FileSaveAssumption DEF TypeOK, Sync, Fault
<1>3. Touches(s, Mine(s))
  BY <1>1 DEF TypeOK, Touches
<1> QED
  BY <1>1, <1>2, <1>3 DEF Quiet

\* What an applied write touches.
LEMMA AppliedTouches ==
    ASSUME TypeOK, NEW s \in Caller, NEW N \in SUBSET Own(s), NEW change,
           DOMAIN change \subseteq N,
           \A n \in DOMAIN change : /\ change[n] \in Generation \cup {None}
                                    /\ change[n] \in {None, s} \/ \E m \in Own(s) : change[n] = dir[m],
           Apply(change)
    PROVE  Touches(s, N)
<1>1. /\ dir \in images /\ images \subseteq Directory
      /\ dir' = With(dir, change) /\ images' = images \cup {With(d, change) : d \in images}
  BY DEF TypeOK, Apply
<1>2. \A d \in images : With(d, change) \in Directory
  BY <1>1 DEF With, Directory
<1>3. dir' \in images' /\ images' \subseteq Directory
  BY <1>1, <1>2
<1>4. \A n \in Name \ N : dir'[n] = dir[n]
  BY <1>1, WithWritten
<1>5. ASSUME NEW d \in images', NEW n \in Name
      PROVE  \/ \E e \in images : d[n] = e[n]
             \/ n \in N /\ (d[n] \in {None, s} \/ \E m \in Own(s) : d[n] = dir[m])
  <2>1. CASE d \in images
    BY <2>1
  <2>2. CASE d \notin images
    <3>1. PICK e \in images : d = With(e, change)
      BY <1>1, <2>2
    <3>2. d[n] = IF n \in DOMAIN change THEN change[n] ELSE e[n]
      BY <3>1, WithWritten
    <3> QED
      BY <3>2
  <2> QED
    BY <2>1, <2>2
<1> QED
  BY <1>3, <1>4, <1>5 DEF Touches

\* An operation changed nothing, or was possible and is applied.
LEMMA Tried ==
    ASSUME TypeOK, NEW change, NEW possible \in BOOLEAN, NEW acked \in BOOLEAN,
           Try(change, possible, acked)
    PROVE  /\ faults' \in 0..MaxFaults
           /\ \/ dir' = dir /\ images' = images /\ ~acked
              \/ possible /\ Apply(change)
  BY FileSaveAssumption DEF Try, Fault, files, TypeOK

LEMMA UntouchedTouches ==
    ASSUME TypeOK, NEW s \in Caller, NEW N, dir' = dir, images' = images
    PROVE  Touches(s, N)
  BY DEF TypeOK, Touches

\* A write under one private name.
LEMMA WroteOne ==
    ASSUME TypeOK, NEW s \in Caller, NEW name \in Mine(s), NEW g \in Generation \cup {None},
           g \in {None, s} \/ \E m \in Own(s) : g = dir[m],
           NEW change, DOMAIN change = {name}, change[name] = g,
           NEW possible \in BOOLEAN, NEW acked \in BOOLEAN, Try(change, possible, acked)
    PROVE  /\ Quiet(s) /\ \A n \in Mine(s) \ {name} : dir'[n] = dir[n]
           /\ dir'[name] \in {dir[name], g} /\ (acked => dir'[name] = g)
<1>1. Mine(s) \subseteq Name /\ Mine(s) \subseteq Own(s)
  BY Names
<1>2. DOMAIN change = {name} /\ change[name] = g
  OBVIOUS
<1>3. /\ faults' \in 0..MaxFaults
      /\ \/ dir' = dir /\ images' = images /\ ~acked
         \/ possible /\ Apply(change)
  BY Tried
<1>4. CASE dir' = dir /\ images' = images /\ ~acked
  BY <1>3, <1>4, UntouchedTouches DEF Quiet
<1>5. CASE Apply(change)
  <2>1. Touches(s, Mine(s))
    BY <1>1, <1>2, <1>5, AppliedTouches
  <2>2. dir' = With(dir, change)
    BY <1>5 DEF Apply
  <2>3. \A n \in Mine(s) : dir'[n] = IF n = name THEN g ELSE dir[n]
    BY <1>1, <1>2, <2>2, WithWritten
  <2> QED
    BY <1>3, <2>1, <2>3 DEF Quiet
<1> QED
  BY <1>3, <1>4, <1>5

LEMMA RemovedOne ==
    ASSUME TypeOK, NEW s \in Caller, NEW name \in Mine(s),
           NEW possible \in BOOLEAN, NEW acked \in BOOLEAN, Try(Removed(name), possible, acked)
    PROVE  /\ Quiet(s) /\ \A n \in Mine(s) \ {name} : dir'[n] = dir[n]
           /\ dir'[name] \in {dir[name], None} /\ (acked => dir'[name] = None)
<1>1. DOMAIN Removed(name) = {name} /\ Removed(name)[name] = None
  BY DEF Removed
<1> QED
  BY <1>1, WroteOne

LEMMA PlacedOne ==
    ASSUME TypeOK, NEW s \in Caller, NEW acked \in BOOLEAN, Try(Placed(Temp(s), s), TRUE, acked)
    PROVE  /\ Quiet(s) /\ dir'[Temp(s)] \in {dir[Temp(s)], s} /\ (acked => dir'[Temp(s)] = s)
<1>1. DOMAIN Placed(Temp(s), s) = {Temp(s)} /\ Placed(Temp(s), s)[Temp(s)] = s /\ s \in Generation
  BY DEF Placed, Generation
<1> DEFINE always == TRUE
<1>2. always \in BOOLEAN /\ Try(Placed(Temp(s), s), always, acked) /\ Temp(s) \in Mine(s)
  BY Names
<1> HIDE DEF always
<1> QED
  BY <1>1, <1>2, WroteOne

LEMMA LinkedOut ==
    ASSUME TypeOK, NEW s \in Caller, NEW to \in Mine(s),
           NEW possible \in BOOLEAN, NEW acked \in BOOLEAN, Try(Linked(Target, to), possible, acked)
    PROVE  /\ Quiet(s) /\ \A n \in Mine(s) \ {to} : dir'[n] = dir[n]
           /\ dir'[to] \in {dir[to], dir[Target]} /\ (acked => dir'[to] = dir[Target])
<1>1. DOMAIN Linked(Target, to) = {to} /\ Linked(Target, to)[to] = dir[Target]
  BY DEF Linked
<1>2. dir[Target] \in Generation \cup {None} /\ Target \in Own(s)
  BY Names DEF TypeOK, Directory
<1> QED
  BY <1>1, <1>2, WroteOne

\* A write of what the private name from holds to the target, which keeps the
\* private name or frees it.
LEMMA WroteTarget ==
    ASSUME TypeOK, NEW s \in Caller, NEW from \in Mine(s), dir[from] # None,
           NEW change \in {Linked(from, Target), Renamed(from, Target)},
           NEW possible \in BOOLEAN, NEW acked \in BOOLEAN, Try(change, possible, acked)
    PROVE  /\ Effect(s) /\ \A n \in Mine(s) \ {from} : dir'[n] = dir[n]
           /\ \/ dir' = dir /\ images' = images /\ ~acked
              \/ /\ possible /\ dir'[Target] = dir[from]
                 /\ dir'[from] = IF change = Linked(from, Target) THEN dir[from] ELSE None
<1>1. /\ Mine(s) \subseteq Name /\ Mine(s) \subseteq Own(s) /\ Target \in Own(s)
      /\ Target \in Name /\ Target \notin Mine(s) /\ from \in Own(s) /\ from # Target
  BY Names
<1>2. dir[from] \in Generation \cup {None}
  BY <1>1 DEF TypeOK, Directory
<1>3. /\ DOMAIN change \subseteq {from, Target} /\ Target \in DOMAIN change /\ change[Target] = dir[from]
      /\ from \in DOMAIN change => change[from] = None
      /\ change = Linked(from, Target) <=> from \notin DOMAIN change
  <2>1. /\ DOMAIN Linked(from, Target) = {Target} /\ Linked(from, Target)[Target] = dir[from]
        /\ DOMAIN Renamed(from, Target) = {from, Target} /\ Renamed(from, Target)[Target] = dir[from]
        /\ Renamed(from, Target)[from] = None
    BY <1>1 DEF Linked, Renamed
  <2> QED
    BY <1>1, <2>1
<1>4. /\ faults' \in 0..MaxFaults
      /\ \/ dir' = dir /\ images' = images /\ ~acked
         \/ possible /\ Apply(change)
  BY Tried
<1>5. CASE dir' = dir /\ images' = images /\ ~acked
  <2>1. Touches(s, Own(s))
    BY <1>5, UntouchedTouches
  <2> QED
    BY <1>4, <1>5, <2>1 DEF Effect, Missing
<1>6. CASE possible /\ Apply(change)
  <2>1. \A n \in DOMAIN change : change[n] \in {None, dir[from]}
    BY <1>3
  <2>2. DOMAIN change \subseteq Own(s)
    BY <1>1, <1>3
  <2>3. Touches(s, Own(s))
    BY <1>1, <1>2, <1>6, <2>1, <2>2, AppliedTouches
  <2>4. dir' = With(dir, change) /\ images' = images \cup {With(d, change) : d \in images}
    BY <1>6 DEF Apply
  <2>5. \A d \in images : With(d, change)[Target] = dir[from]
    BY <1>1, <1>3, WithWritten
  <2>6. Missing(None) => Missing(None)'
    BY <2>4, <2>5 DEF Missing
  <2>7. /\ dir'[Target] = dir[from]
        /\ dir'[from] = IF change = Linked(from, Target) THEN dir[from] ELSE None
        /\ \A n \in Mine(s) \ {from} : dir'[n] = dir[n]
    BY <1>1, <1>3, <2>4, WithWritten
  <2> QED
    BY <1>4, <1>6, <2>3, <2>6, <2>7 DEF Effect
<1> QED
  BY <1>4, <1>5, <1>6

\* A deletion moves the target aside.
LEMMA MovedOut ==
    ASSUME TypeOK, NEW s \in Caller, call[s].kind = "delete",
           NEW possible \in BOOLEAN, NEW acked \in BOOLEAN,
           Try(Renamed(Target, Aside(s)), possible, acked)
    PROVE  /\ Effect(s) /\ dir'[Temp(s)] = dir[Temp(s)]
           /\ \/ dir' = dir /\ images' = images /\ ~acked
              \/ possible /\ dir'[Aside(s)] = dir[Target] /\ dir'[Target] = None
<1> DEFINE change == Renamed(Target, Aside(s))
<1>1. /\ Mine(s) \subseteq Name /\ Mine(s) \subseteq Own(s) /\ Target \in Own(s)
      /\ Target \in Name /\ Target \notin Mine(s) /\ Aside(s) \in Mine(s) /\ Temp(s) \in Mine(s)
      /\ Temp(s) # Aside(s)
  BY Names
<1>2. dir[Target] \in Generation \cup {None}
  BY <1>1 DEF TypeOK, Directory
<1>3. DOMAIN change = {Target, Aside(s)} /\ change[Target] = None /\ change[Aside(s)] = dir[Target]
  BY <1>1 DEF Renamed
<1> HIDE DEF change
<1>4. /\ faults' \in 0..MaxFaults
      /\ \/ dir' = dir /\ images' = images /\ ~acked
         \/ possible /\ Apply(change)
  BY Tried DEF change
<1>5. CASE dir' = dir /\ images' = images /\ ~acked
  BY <1>4, <1>5, UntouchedTouches DEF Effect
<1>6. CASE possible /\ Apply(change)
  <2>1. DOMAIN change \subseteq Own(s) /\ \A n \in DOMAIN change : change[n] \in {None, dir[Target]}
    BY <1>1, <1>3
  <2>2. Touches(s, Own(s))
    BY <1>1, <1>2, <1>6, <2>1, AppliedTouches
  <2>3. dir' = With(dir, change)
    BY <1>6 DEF Apply
  <2>4. dir'[Aside(s)] = dir[Target] /\ dir'[Target] = None /\ dir'[Temp(s)] = dir[Temp(s)]
    BY <1>1, <1>3, <2>3, WithWritten
  <2> QED
    BY <1>4, <1>6, <2>2, <2>4 DEF Effect
<1> QED
  BY <1>4, <1>5, <1>6

\* The atomic exchange.
LEMMA SwappedIn ==
    ASSUME TypeOK, NEW s \in Caller, NEW from \in Mine(s), dir[from] # None, faults' \in 0..MaxFaults,
           Apply(Swapped(from, Target))
    PROVE  /\ Effect(s) /\ \A n \in Mine(s) \ {from} : dir'[n] = dir[n]
           /\ dir'[Target] = dir[from] /\ dir'[from] = dir[Target]
<1> DEFINE change == Swapped(from, Target)
<1>1. /\ Mine(s) \subseteq Name /\ Mine(s) \subseteq Own(s) /\ Target \in Own(s)
      /\ Target \in Name /\ Target \notin Mine(s) /\ from \in Own(s) /\ from # Target
  BY Names
<1>2. dir[Target] \in Generation \cup {None} /\ dir[from] \in Generation \cup {None}
  BY <1>1 DEF TypeOK, Directory
<1>3. DOMAIN change = {from, Target} /\ change[from] = dir[Target] /\ change[Target] = dir[from]
  BY <1>1 DEF Swapped
<1>4. dir' = With(dir, change) /\ images' = images \cup {With(d, change) : d \in images} /\ Apply(change)
  BY DEF Apply
<1> HIDE DEF change
<1>5. DOMAIN change \subseteq Own(s) /\ \A n \in DOMAIN change : change[n] \in {dir[from], dir[Target]}
  BY <1>1, <1>3
<1>6. Touches(s, Own(s))
  BY <1>1, <1>2, <1>4, <1>5, AppliedTouches
<1>7. \A d \in images : With(d, change)[Target] = dir[from]
  BY <1>1, <1>3, WithWritten
<1>8. Missing(None) => Missing(None)'
  BY <1>4, <1>7 DEF Missing
<1>9. /\ dir'[Target] = dir[from] /\ dir'[from] = dir[Target]
      /\ \A n \in Mine(s) \ {from} : dir'[n] = dir[n]
  BY <1>1, <1>3, <1>4, WithWritten
<1> QED
  BY <1>6, <1>8, <1>9 DEF Effect

-----------------------------------------------------------------------------
(* The steps of a call *)

\* What a step inside the transaction leaves.
Outcome(s) ==
    /\ Effect(s)
    /\ call' \in [Caller -> CallState] /\ \A t \in Caller \ {s} : call'[t] = call[t]
    /\ call'[s].pc \in Working
    /\ call'[s].kind = call[s].kind /\ call'[s].expected = call[s].expected
    /\ Ready(s)' /\ Told(s)'

\* The call of s becomes c.
LEMMA CallBecomes ==
    ASSUME TypeOK, NEW s \in Caller, NEW c \in CallState, Becomes(s, c)
    PROVE  /\ call' \in [Caller -> CallState] /\ call'[s] = c
           /\ \A t \in Caller \ {s} : call'[t] = call[t]
  BY DEF TypeOK, Becomes

\* The fields a call changes keep it a call.
LEMMA CallChanged ==
    ASSUME NEW c \in CallState, NEW pc \in Idle \cup Working, NEW result \in Result,
           NEW kind \in Kind, NEW expected \in Generation \cup {None}
    PROVE  /\ [c EXCEPT !.pc = pc, !.result = result] \in CallState
           /\ [c EXCEPT !.pc = pc, !.kind = kind, !.expected = expected, !.result = result] \in CallState
<1>1. [c EXCEPT !.pc = pc, !.result = result] \in CallState
  BY DEF CallState
<1>2. [c EXCEPT !.pc = pc, !.kind = kind, !.expected = expected, !.result = result] \in CallState
  BY DEF CallState
<1> QED
  BY <1>1, <1>2

LEMMA CallOwns ==
    ASSUME NEW c \in CallState, NEW pc \in Idle \cup Working
    PROVE  [c EXCEPT !.pc = pc, !.owned = TRUE] \in CallState
  BY DEF CallState

LEMMA NoneGeneration == None \notin Generation /\ \A s \in Caller : s \in Generation /\ s # None
  BY FileSaveAssumption DEF Generation

\* A call goes on to its clean-up with a result.
LEMMA LeaveFields ==
    ASSUME TypeOK, NEW s \in Caller, NEW result \in Result, NEW owned \in BOOLEAN, Leave(s, result, owned)
    PROVE  /\ call' \in [Caller -> CallState] /\ \A t \in Caller \ {s} : call'[t] = call[t]
           /\ call'[s].pc = "cleanup" /\ call'[s].result = result /\ call'[s].owned = owned
           /\ call'[s].kind = call[s].kind /\ call'[s].expected = call[s].expected
<1> DEFINE c == [call[s] EXCEPT !.pc = "cleanup", !.result = result, !.owned = owned]
<1>1. call[s] \in CallState /\ "cleanup" \in Working
  BY DEF TypeOK, Working
<1>2. /\ c \in CallState /\ c.pc = "cleanup" /\ c.result = result /\ c.owned = owned
      /\ c.kind = call[s].kind /\ c.expected = call[s].expected
  <2>1. c \in CallState
    BY <1>1 DEF CallState
  <2>2. /\ c.pc = "cleanup" /\ c.result = result /\ c.owned = owned
        /\ c.kind = call[s].kind /\ c.expected = call[s].expected
    BY <1>1 DEF CallState
  <2> QED
    BY <2>1, <2>2
<1>3. Becomes(s, c)
  BY DEF Leave
<1> HIDE DEF c
<1> QED
  BY <1>2, <1>3, CallBecomes

LEMMA LeaveOutcome ==
    ASSUME TypeOK, NEW s \in Caller, Ready(s), UNCHANGED others, Effect(s),
           NEW result \in Result, NEW owned \in BOOLEAN, Leave(s, result, owned),
           atomic /\ owned => dir'[Temp(s)] \in {s, None},
           Told(s)'
    PROVE  Outcome(s)
<1>1. /\ call' \in [Caller -> CallState] /\ \A t \in Caller \ {s} : call'[t] = call[t]
      /\ call'[s].pc = "cleanup" /\ call'[s].result = result /\ call'[s].owned = owned
      /\ call'[s].kind = call[s].kind /\ call'[s].expected = call[s].expected
  BY LeaveFields
<1>2. Confined(s)'
  BY EffectConfined DEF Ready
<1>3. Named(s)' /\ Held(s)' /\ Displaced(s)' /\ Unexposed(s)' /\ Reported(s)'
  BY <1>1 DEF Named, Held, Displaced, Unexposed, Reported, Fallback, Silent, Working
<1>4. Sparing(s)'
  BY <1>1 DEF Sparing, Fallback, others
<1> QED
  BY <1>1, <1>2, <1>3, <1>4 DEF Outcome, Ready, Working

\* The result says nothing of the directory.
LEMMA LeaveUnknown ==
    ASSUME TypeOK, NEW s \in Caller, Ready(s), UNCHANGED others, Effect(s),
           NEW owned \in BOOLEAN, Leave(s, "uncertain", owned),
           atomic /\ owned => dir'[Temp(s)] \in {s, None}
    PROVE  Outcome(s)
<1>1. "uncertain" \in Result
  BY DEF Result
<1>2. Told(s)'
  BY <1>1, LeaveFields DEF Told
<1> QED
  BY <1>1, <1>2, LeaveOutcome

\* The result says that nothing can be loaded, where the call replaces a file.
LEMMA LeaveHidden ==
    ASSUME TypeOK, NEW s \in Caller, Ready(s), UNCHANGED others, Effect(s),
           NEW result \in {"error", "rolledBack"}, Leave(s, result, TRUE),
           call[s].expected # None => Hidden(s)',
           atomic => dir'[Temp(s)] \in {s, None}
    PROVE  Outcome(s)
<1> DEFINE owned == TRUE
<1>1. result \in Result /\ owned \in BOOLEAN /\ Leave(s, result, owned)
  BY DEF Result
<1> HIDE DEF owned
<1>2. Told(s)'
  BY <1>1, LeaveFields DEF Told
<1> QED
  BY <1>1, <1>2, LeaveOutcome

\* The call only goes to another step.
LEMMA GotoFields ==
    ASSUME TypeOK, NEW s \in Caller, NEW pc \in Working, Goto(s, pc)
    PROVE  /\ call' \in [Caller -> CallState] /\ \A t \in Caller \ {s} : call'[t] = call[t]
           /\ call'[s] = [call[s] EXCEPT !.pc = pc]
           /\ call'[s].pc = pc /\ call'[s].kind = call[s].kind /\ call'[s].expected = call[s].expected
           /\ call'[s].owned = call[s].owned /\ call'[s].old = call[s].old
           /\ call'[s].staged = call[s].staged /\ call'[s].stagedInfo = call[s].stagedInfo
           /\ call'[s].displaced = call[s].displaced /\ call'[s].targetInfo = call[s].targetInfo
           /\ call'[s].leg = call[s].leg /\ call'[s].acked = call[s].acked
           /\ call'[s].result = call[s].result
<1> DEFINE c == [call[s] EXCEPT !.pc = pc]
<1>1. call[s] \in CallState
  BY DEF TypeOK
<1>2. /\ c \in CallState /\ c.pc = pc /\ c.kind = call[s].kind /\ c.expected = call[s].expected
      /\ c.owned = call[s].owned /\ c.old = call[s].old
      /\ c.staged = call[s].staged /\ c.stagedInfo = call[s].stagedInfo
      /\ c.displaced = call[s].displaced /\ c.targetInfo = call[s].targetInfo
      /\ c.leg = call[s].leg /\ c.acked = call[s].acked /\ c.result = call[s].result
  <2>1. c \in CallState
    BY <1>1 DEF CallState
  <2>2. /\ c.pc = pc /\ c.kind = call[s].kind /\ c.expected = call[s].expected
        /\ c.owned = call[s].owned /\ c.old = call[s].old
        /\ c.staged = call[s].staged /\ c.stagedInfo = call[s].stagedInfo
        /\ c.displaced = call[s].displaced /\ c.targetInfo = call[s].targetInfo
        /\ c.leg = call[s].leg /\ c.acked = call[s].acked /\ c.result = call[s].result
    BY <1>1 DEF CallState
  <2> QED
    BY <2>1, <2>2
<1>3. Becomes(s, c)
  BY DEF Goto
<1> HIDE DEF c
<1>4. call'[s] = c /\ call' \in [Caller -> CallState] /\ \A t \in Caller \ {s} : call'[t] = call[t]
  BY <1>2, <1>3, CallBecomes
<1>5. c = [call[s] EXCEPT !.pc = pc]
  BY DEF c
<1> QED
  BY <1>2, <1>4, <1>5

\* A call that is silent before and after a step has told nothing.
LEMMA SilentTold ==
    ASSUME NEW s \in Caller, call'[s].result = "nil"
    PROVE  Told(s)'
  BY DEF Told


\* The call goes on without a result: what is left to show of its next step.
LEMMA SilentOutcome ==
    ASSUME TypeOK, NEW s \in Caller, Ready(s), Effect(s),
           call' \in [Caller -> CallState], \A t \in Caller \ {s} : call'[t] = call[t],
           call'[s].pc \in Working, call'[s].result = "nil",
           call'[s].kind = call[s].kind, call'[s].expected = call[s].expected,
           Named(s)', Held(s)', Displaced(s)', Unexposed(s)', Sparing(s)'
    PROVE  Outcome(s)
<1>1. Told(s)'
  BY SilentTold
<1>2. Confined(s)'
  BY EffectConfined DEF Ready
<1>3. Reported(s)'
  BY DEF Reported
<1> QED
  BY <1>1, <1>2, <1>3 DEF Outcome, Ready

\* What is known of a call at one of its steps.
LEMMA AtWork ==
    ASSUME IInv, NEW s \in Caller, NEW pc \in Working, At(s, pc)
    PROVE  /\ TypeOK /\ call[s] \in CallState /\ call[s].pc = pc /\ Told(s) /\ Spent
           /\ Named(s) /\ Held(s) /\ Displaced(s) /\ Unexposed(s) /\ Sparing(s)
           /\ Reported(s) /\ Confined(s) /\ Ready(s)
<1>1. TypeOK /\ call[s].pc = pc
  BY DEF IInv, At
<1>2. Ready(s)
  BY <1>1 DEF IInv
<1> QED
  BY <1>1, <1>2 DEF IInv, Ready, TypeOK

LEMMA StageOutcome ==
    ASSUME IInv, NEW s \in Caller, UNCHANGED others, Stage(s)
    PROVE  Outcome(s)
<1>1. "stage" \in Working /\ "validate" \in Working /\ "validate" \in Silent /\ "stage" \in Silent
  BY DEF Working, Silent
<1>2. At(s, "stage")
  BY DEF Stage
<1>3. /\ TypeOK /\ call[s] \in CallState /\ call[s].pc = "stage"
      /\ Named(s) /\ Unexposed(s) /\ Sparing(s) /\ Reported(s) /\ Ready(s)
  BY <1>1, <1>2, AtWork
<1>4. PICK acked \in BOOLEAN :
        /\ Try(Placed(Temp(s), s), TRUE, acked)
        /\ IF acked THEN Goto(s, "validate") ELSE Leave(s, "error", TRUE)
  BY DEF Stage
<1>5. Quiet(s) /\ dir'[Temp(s)] \in {dir[Temp(s)], s} /\ (acked => dir'[Temp(s)] = s)
  BY <1>3, <1>4, PlacedOne
<1>6. Effect(s) /\ Hidden(s)' /\ dir'[Temp(s)] \in {s, None}
  BY <1>3, <1>5, QuietKeeps DEF Unexposed, Sparing
<1>7. CASE acked
  <2>1. /\ call' \in [Caller -> CallState] /\ \A t \in Caller \ {s} : call'[t] = call[t]
        /\ call'[s].pc = "validate" /\ call'[s].kind = call[s].kind /\ call'[s].expected = call[s].expected
        /\ call'[s].result = "nil" /\ call'[s].leg = call[s].leg /\ call'[s].old = call[s].old
    BY <1>1, <1>3, <1>4, <1>7, GotoFields DEF Reported
  <2>2. Named(s)' /\ Held(s)' /\ Displaced(s)' /\ Unexposed(s)'
    BY <1>3, <1>5, <1>6, <1>7, <2>1 DEF Named, Held, Displaced, Unexposed, Fallback
  <2>3. Sparing(s)'
    BY <1>6, <2>1 DEF Sparing, Fallback
  <2> QED
    BY <1>1, <1>3, <1>6, <2>1, <2>2, <2>3, SilentOutcome
<1>8. CASE ~acked
  BY <1>3, <1>4, <1>6, <1>8, LeaveHidden
<1> QED
  BY <1>7, <1>8

LEMMA ValidateOutcome ==
    ASSUME IInv, NEW s \in Caller, UNCHANGED others, Validate(s)
    PROVE  Outcome(s)
<1> DEFINE c == [call[s] EXCEPT !.staged = Temp(s)]
<1>1. /\ "validate" \in Working /\ "validate" \in Silent /\ "linkNew" \in Silent /\ "exchange" \in Silent
      /\ "linkNew" \in Working /\ "exchange" \in Working
  BY DEF Working, Silent
<1>2. At(s, "validate") /\ UNCHANGED files
  BY DEF Validate
<1>3. /\ TypeOK /\ call[s] \in CallState /\ call[s].pc = "validate" /\ Named(s) /\ Held(s)
      /\ Unexposed(s) /\ Sparing(s) /\ Reported(s) /\ Ready(s)
  BY <1>1, <1>2, AtWork
<1>4. Quiet(s) /\ dir' = dir /\ images' = images /\ Effect(s) /\ Hidden(s)'
  BY <1>2, <1>3, UnchangedQuiet, QuietKeeps DEF Unexposed
<1>5. CASE dir[Target] # c.expected /\ Leave(s, "error", TRUE)
  BY <1>3, <1>4, <1>5, LeaveHidden DEF Held
<1> DEFINE Goes(pc) == Becomes(s, [c EXCEPT !.pc = pc])
<1>6. ASSUME NEW pc \in {"linkNew", "exchange"}, Goes(pc)
      PROVE  /\ call' \in [Caller -> CallState] /\ \A t \in Caller \ {s} : call'[t] = call[t]
             /\ call'[s].pc = pc /\ call'[s].kind = call[s].kind /\ call'[s].expected = call[s].expected
             /\ call'[s].result = "nil" /\ call'[s].staged = Temp(s) /\ call'[s].leg = call[s].leg
             /\ call'[s].owned = call[s].owned /\ call'[s].old = call[s].old
  <2> DEFINE e == [c EXCEPT !.pc = pc]
  <2>1. Temp(s) \in Name
    BY Names
  <2>2. /\ e \in CallState /\ e.pc = pc /\ e.kind = call[s].kind /\ e.expected = call[s].expected
        /\ e.result = call[s].result /\ e.staged = Temp(s) /\ e.leg = call[s].leg /\ e.owned = call[s].owned
        /\ e.old = call[s].old
    <3>1. e \in CallState
      BY <1>1, <1>3, <2>1 DEF CallState
    <3>2. /\ e.pc = pc /\ e.kind = call[s].kind /\ e.expected = call[s].expected
          /\ e.result = call[s].result /\ e.staged = Temp(s) /\ e.leg = call[s].leg /\ e.owned = call[s].owned
          /\ e.old = call[s].old
      BY <1>1, <1>3, <2>1 DEF CallState
    <3> QED
      BY <3>1, <3>2
  <2>3. Becomes(s, e)
    BY <1>6
  <2> HIDE DEF e
  <2> QED
    BY <1>1, <1>3, <2>2, <2>3, CallBecomes DEF Reported
<1>7. /\ dir[Temp(s)] = s /\ s # None /\ call[s].kind # "delete" /\ call[s].leg = "out"
      /\ call[s].old = None
  BY <1>3, NoneGeneration DEF Named, Held
<1>8. c.expected = call[s].expected
  BY <1>3 DEF CallState
<1> HIDE DEF c, Goes
<1>9. ASSUME NEW pc \in {"linkNew", "exchange"}, Goes(pc), pc = "linkNew" <=> call[s].expected = None
      PROVE  Outcome(s)
  <2> DEFINE to == call'[s]
  <2> HIDE DEF to
  <2>1. /\ to.pc = pc /\ to.kind # "delete" /\ to.expected = call[s].expected /\ to.old = None
        /\ to.staged = Temp(s) /\ to.leg = "out" /\ to.owned = call[s].owned
        /\ dir'[Temp(s)] = s /\ (pc = "linkNew" <=> to.expected = None)
    BY <1>4, <1>6, <1>7, <1>9 DEF to
  <2>2. Named(s)' /\ Displaced(s)'
    BY <1>9, <2>1 DEF to, Named, Displaced, Fallback
  <2>3. Held(s)'
    BY <1>7, <1>9, <2>1 DEF to, Held, Fallback
  <2>4. Unexposed(s)' /\ Sparing(s)'
    BY <1>4, <1>9, <2>1 DEF to, Unexposed, Sparing, Fallback
  <2> QED
    BY <1>1, <1>3, <1>4, <1>6, <1>9, <2>2, <2>3, <2>4, SilentOutcome
<1>10. CASE dir[Target] = c.expected /\ c.expected = None /\ Goes("linkNew")
  BY <1>8, <1>9, <1>10
<1>11. CASE dir[Target] = c.expected /\ c.expected # None /\ Goes("exchange")
  BY <1>8, <1>9, <1>11
<1> QED
  BY <1>5, <1>10, <1>11 DEF Validate, c, Goes


-----------------------------------------------------------------------------
(* A deletion, and a save of a new file *)

LEMMA MoveAsideOutcome ==
    ASSUME IInv, NEW s \in Caller, UNCHANGED others, MoveAside(s)
    PROVE  Outcome(s)
<1>1. "move" \in Working /\ "discard" \in Working /\ "linkNew" \in Working
  BY DEF Working
<1>2. At(s, "move")
  BY DEF MoveAside
<1>3. /\ TypeOK /\ call[s] \in CallState /\ call[s].pc = "move" /\ Named(s)
      /\ Sparing(s) /\ Reported(s) /\ Ready(s)
  BY <1>1, <1>2, AtWork
<1>4. call[s].kind = "delete" /\ call[s].expected # None /\ call[s].result = "nil"
  BY <1>3 DEF Named, Reported, Silent, Working
<1>5. PICK acked \in BOOLEAN :
        /\ Try(Renamed(Target, Aside(s)), dir[Target] # None, acked)
        /\ \/ ~acked /\ Leave(s, "uncertain", FALSE)
           \/ acked /\ dir[Target] = call[s].expected
              /\ Becomes(s, [call[s] EXCEPT !.pc = "discard", !.old = Aside(s)])
           \/ acked /\ dir[Target] # call[s].expected
              /\ Becomes(s, [call[s] EXCEPT !.pc = "linkNew", !.staged = Aside(s)])
  BY DEF MoveAside
<1> DEFINE possible == dir[Target] # None
<1>6. possible \in BOOLEAN /\ Try(Renamed(Target, Aside(s)), possible, acked)
  BY <1>5
<1> HIDE DEF possible
<1>7. /\ Effect(s) /\ dir'[Temp(s)] = dir[Temp(s)]
      /\ acked => possible /\ dir'[Aside(s)] = dir[Target] /\ dir'[Target] = None
  BY <1>3, <1>4, <1>6, MovedOut
<1> DEFINE owned == FALSE
<1>8. CASE ~acked /\ Leave(s, "uncertain", owned)
  <2>1. owned \in BOOLEAN /\ ~owned
    OBVIOUS
  <2> HIDE DEF owned
  <2> QED
    BY <1>3, <1>7, <1>8, <2>1, LeaveUnknown
<1>9. Aside(s) \in Mine(s) /\ Aside(s) \in Name /\ Temp(s) \in Mine(s)
  BY Names
<1>10. CASE acked /\ dir[Target] = call[s].expected
            /\ Becomes(s, [call[s] EXCEPT !.pc = "discard", !.old = Aside(s)])
  <2> DEFINE c == [call[s] EXCEPT !.pc = "discard", !.old = Aside(s)]
  <2>1. /\ c \in CallState /\ c.pc = "discard" /\ c.old = Aside(s) /\ c.kind = call[s].kind
        /\ c.expected = call[s].expected /\ c.result = call[s].result /\ c.owned = call[s].owned
    <3>1. c \in CallState
      BY <1>1, <1>3, <1>9 DEF CallState
    <3>2. /\ c.pc = "discard" /\ c.old = Aside(s) /\ c.kind = call[s].kind
          /\ c.expected = call[s].expected /\ c.result = call[s].result /\ c.owned = call[s].owned
      BY <1>1, <1>3, <1>9 DEF CallState
    <3> QED
      BY <3>1, <3>2
  <2>2. Becomes(s, c)
    BY <1>10
  <2> HIDE DEF c
  <2>3. /\ call' \in [Caller -> CallState] /\ call'[s] = c /\ \A t \in Caller \ {s} : call'[t] = call[t]
    BY <1>3, <2>1, <2>2, CallBecomes
  <2>4. Named(s)' /\ Held(s)' /\ Displaced(s)' /\ Unexposed(s)'
    BY <1>4, <1>7, <1>9, <1>10, <2>1, <2>3 DEF Named, Held, Displaced, Unexposed, Fallback
  <2>5. Sparing(s)'
    BY <1>3, <1>7, <1>10, <2>1, <2>3 DEF Sparing, Fallback, others
  <2> QED
    BY <1>1, <1>3, <1>4, <1>7, <2>1, <2>3, <2>4, <2>5, SilentOutcome
<1>11. CASE acked /\ dir[Target] # call[s].expected
            /\ Becomes(s, [call[s] EXCEPT !.pc = "linkNew", !.staged = Aside(s)])
  <2> DEFINE c == [call[s] EXCEPT !.pc = "linkNew", !.staged = Aside(s)]
  <2>1. /\ c \in CallState /\ c.pc = "linkNew" /\ c.staged = Aside(s) /\ c.kind = call[s].kind
        /\ c.expected = call[s].expected /\ c.result = call[s].result /\ c.owned = call[s].owned
    <3>1. c \in CallState
      BY <1>1, <1>3, <1>9 DEF CallState
    <3>2. /\ c.pc = "linkNew" /\ c.staged = Aside(s) /\ c.kind = call[s].kind
          /\ c.expected = call[s].expected /\ c.result = call[s].result /\ c.owned = call[s].owned
      BY <1>1, <1>3, <1>9 DEF CallState
    <3> QED
      BY <3>1, <3>2
  <2>2. Becomes(s, c)
    BY <1>11
  <2> HIDE DEF c
  <2>3. /\ call' \in [Caller -> CallState] /\ call'[s] = c /\ \A t \in Caller \ {s} : call'[t] = call[t]
    BY <1>3, <2>1, <2>2, CallBecomes
  <2>4. Named(s)' /\ Held(s)' /\ Displaced(s)' /\ Unexposed(s)'
    BY <1>4, <1>7, <1>9, <1>11, <2>1, <2>3 DEF Named, Held, Displaced, Unexposed, Fallback, possible
  <2>5. Sparing(s)'
    BY <1>3, <1>7, <1>11, <2>1, <2>3 DEF Sparing, Fallback, others
  <2> QED
    BY <1>1, <1>3, <1>4, <1>7, <2>1, <2>3, <2>4, <2>5, SilentOutcome
<1> QED
  BY <1>5, <1>8, <1>10, <1>11

\* What follows a link or a rename that was refused.
LEMMA RefusedOutcome ==
    ASSUME IInv, NEW s \in Caller, UNCHANGED others, NEW pc \in {"linkNew", "renameNew"}, At(s, pc),
           Effect(s), call[s].kind # "delete" => dir'[Temp(s)] \in {s, None},
           call[s].kind = "delete" => dir'[Temp(s)] = dir[Temp(s)],
           StaleNew(s) \/ FailedNew(s)
    PROVE  Outcome(s)
<1>1. pc \in Working /\ "putBackSync" \in Working
  BY DEF Working
<1>2. /\ TypeOK /\ call[s].pc = pc /\ Named(s) /\ Sparing(s) /\ Reported(s) /\ Ready(s)
  BY <1>1, AtWork
<1>3. call[s].result = "nil"
  BY <1>2 DEF Reported, Silent, Working
<1>4. CASE call[s].kind # "delete"
  <2>1. Leave(s, "error", TRUE) /\ call[s].expected = None
    BY <1>2, <1>4 DEF StaleNew, FailedNew, Named
  <2> QED
    BY <1>2, <1>4, <2>1, LeaveHidden
<1>5. CASE call[s].kind = "delete" /\ Goto(s, "putBackSync")
  <2>1. /\ call' \in [Caller -> CallState] /\ \A t \in Caller \ {s} : call'[t] = call[t]
        /\ call'[s].pc = "putBackSync" /\ call'[s].kind = call[s].kind
        /\ call'[s].expected = call[s].expected
        /\ call'[s].owned = call[s].owned /\ call'[s].result = "nil"
    BY <1>1, <1>2, <1>3, <1>5, GotoFields
  <2>2. Named(s)' /\ Held(s)' /\ Displaced(s)' /\ Unexposed(s)'
    BY <2>1 DEF Named, Held, Displaced, Unexposed, Fallback
  <2>3. Sparing(s)'
    BY <1>2, <1>5, <2>1 DEF Sparing, Fallback, others
  <2> QED
    BY <1>1, <1>2, <2>1, <2>2, <2>3, SilentOutcome
<1>6. CASE call[s].kind = "delete" /\ Leave(s, "uncertain", FALSE)
  <2> DEFINE owned == FALSE
  <2>1. owned \in BOOLEAN /\ ~owned /\ Leave(s, "uncertain", owned)
    BY <1>6
  <2> HIDE DEF owned
  <2> QED
    BY <1>2, <2>1, LeaveUnknown
<1> QED
  BY <1>4, <1>5, <1>6 DEF StaleNew, FailedNew

\* What follows an install: the confirmation of a save, the end of a deletion
\* that put the file back.
LEMMA InstalledNewOutcome ==
    ASSUME IInv, NEW s \in Caller, UNCHANGED others, NEW pc \in {"renameNew", "unstage"}, At(s, pc),
           Effect(s), NEW leftover \in BOOLEAN, InstalledNew(s, leftover),
           call[s].kind # "delete" => dir'[Temp(s)] \in {s, None},
           call[s].kind = "delete" => dir'[Temp(s)] = dir[Temp(s)],
           leftover /\ call[s].kind = "delete" => Doubled(Aside(s))'
    PROVE  Outcome(s)
<1>1. pc \in Working /\ "putBackSync" \in Working /\ "confirm" \in Working /\ "discard" \in Working
  BY DEF Working
<1>2. /\ TypeOK /\ call[s] \in CallState /\ call[s].pc = pc /\ Named(s) /\ Sparing(s)
      /\ Reported(s) /\ Ready(s)
  BY <1>1, AtWork
<1>3. call[s].result = "nil"
  BY <1>2 DEF Reported, Silent, Working
<1>4. Aside(s) \in Mine(s) /\ Aside(s) \in Name /\ "uncertain" \in Result
  BY Names DEF Result
<1>5. CASE call[s].kind # "delete"
  <2> DEFINE c == [call[s] EXCEPT !.pc = "confirm", !.owned = leftover]
  <2>1. /\ c \in CallState /\ c.pc = "confirm" /\ c.old = call[s].old /\ c.kind = call[s].kind
        /\ c.expected = call[s].expected /\ c.result = "nil" /\ c.owned = leftover
    <3>1. c \in CallState
      BY <1>1, <1>2, <1>3 DEF CallState
    <3>2. /\ c.pc = "confirm" /\ c.old = call[s].old /\ c.kind = call[s].kind
          /\ c.expected = call[s].expected /\ c.result = "nil" /\ c.owned = leftover
      BY <1>1, <1>2, <1>3 DEF CallState
    <3> QED
      BY <3>1, <3>2
  <2>2. Becomes(s, c)
    BY <1>5 DEF InstalledNew
  <2> HIDE DEF c
  <2>3. /\ call' \in [Caller -> CallState] /\ call'[s] = c /\ \A t \in Caller \ {s} : call'[t] = call[t]
    BY <1>2, <2>1, <2>2, CallBecomes
  <2>4. call[s].old = None
    BY <1>2, <1>5 DEF Named
  <2>5. Named(s)' /\ Held(s)' /\ Displaced(s)' /\ Unexposed(s)'
    BY <2>1, <2>3, <2>4 DEF Named, Held, Displaced, Unexposed, Fallback
  <2>6. Sparing(s)'
    BY <1>5, <2>1, <2>3, <2>4 DEF Sparing, Fallback
  <2> QED
    BY <1>1, <1>2, <1>3, <2>1, <2>3, <2>5, <2>6, SilentOutcome
<1>6. CASE call[s].kind = "delete"
  <2> DEFINE next == IF leftover THEN "discard" ELSE "putBackSync"
             c == [call[s] EXCEPT !.pc = next, !.old = Aside(s), !.result = "uncertain"]
  <2>1. next \in Working /\ next \in {"discard", "putBackSync"} /\ (next = "discard" => leftover)
    BY <1>1
  <2>2. Becomes(s, c)
    BY <1>6 DEF InstalledNew
  <2> HIDE DEF next
  <2>3. /\ c \in CallState /\ c.pc = next /\ c.old = Aside(s) /\ c.kind = call[s].kind
        /\ c.expected = call[s].expected /\ c.result = "uncertain" /\ c.owned = call[s].owned
    <3>1. c \in CallState
      BY <1>2, <1>4, <2>1 DEF CallState
    <3>2. /\ c.pc = next /\ c.old = Aside(s) /\ c.kind = call[s].kind
          /\ c.expected = call[s].expected /\ c.result = "uncertain" /\ c.owned = call[s].owned
      BY <1>2, <1>4, <2>1 DEF CallState
    <3> QED
      BY <3>1, <3>2
  <2> HIDE DEF c
  <2>4. /\ call' \in [Caller -> CallState] /\ call'[s] = c /\ \A t \in Caller \ {s} : call'[t] = call[t]
    BY <1>2, <2>2, <2>3, CallBecomes
  <2>5. Named(s)' /\ Held(s)' /\ Displaced(s)' /\ Unexposed(s)'
    BY <1>4, <2>1, <2>3, <2>4 DEF Named, Held, Displaced, Unexposed, Fallback
  <2>6. Sparing(s)'
    BY <1>2, <1>6, <2>1, <2>3, <2>4 DEF Sparing, Fallback, others
  <2>7. Reported(s)' /\ Told(s)'
    BY <2>1, <2>3, <2>4 DEF Reported, Told, Silent
  <2>8. Confined(s)'
    BY <1>2, EffectConfined DEF Ready
  <2> QED
    BY <2>1, <2>3, <2>4, <2>5, <2>6, <2>7, <2>8 DEF Outcome, Ready
<1> QED
  BY <1>5, <1>6

LEMMA LinkNewOutcome ==
    ASSUME IInv, NEW s \in Caller, UNCHANGED others, LinkNew(s)
    PROVE  Outcome(s)
<1>1. "linkNew" \in Working /\ "unstage" \in Working /\ "renameNew" \in Working
  BY DEF Working
<1>2. At(s, "linkNew")
  BY DEF LinkNew
<1>3. /\ TypeOK /\ call[s] \in CallState /\ call[s].pc = "linkNew" /\ Named(s) /\ Held(s)
      /\ Sparing(s) /\ Reported(s) /\ Ready(s)
  BY <1>1, <1>2, AtWork
<1> DEFINE from == call[s].staged
           possible == dir[Target] = None
<1>4. PICK acked \in BOOLEAN :
        /\ Try(Linked(from, Target), possible, acked)
        /\ \/ acked /\ Goto(s, "unstage")
           \/ ~acked /\ dir[Target] # None /\ StaleNew(s)
           \/ ~acked /\ dir[Target] = None /\ Goto(s, "renameNew")
  BY DEF LinkNew
<1>5. /\ from \in Mine(s) /\ dir[from] # None /\ Temp(s) \in Mine(s) /\ Temp(s) # Aside(s)
      /\ call[s].kind # "delete" => from = Temp(s) /\ dir[Temp(s)] = s
      /\ call[s].kind = "delete" => from = Aside(s)
  BY <1>3, Names DEF Named, Held
<1>6. possible \in BOOLEAN /\ Linked(from, Target) \in {Linked(from, Target), Renamed(from, Target)}
  OBVIOUS
<1> HIDE DEF possible, from
<1>7. /\ Effect(s) /\ \A n \in Mine(s) : dir'[n] = dir[n]
      /\ acked => dir'[Target] = dir[from]
  BY <1>3, <1>4, <1>5, <1>6, WroteTarget
<1>8. ASSUME NEW pc \in {"unstage", "renameNew"}, Goto(s, pc), pc = "unstage" => acked
      PROVE  Outcome(s)
  <2>1. /\ call' \in [Caller -> CallState] /\ \A t \in Caller \ {s} : call'[t] = call[t]
        /\ call'[s].pc = pc /\ call'[s].kind = call[s].kind
        /\ call'[s].expected = call[s].expected /\ call'[s].staged = call[s].staged
        /\ call'[s].old = call[s].old /\ call'[s].owned = call[s].owned /\ call'[s].result = "nil"
    <3>1. call[s].result = "nil"
      BY <1>3 DEF Reported, Silent, Working
    <3>2. pc \in Working
      BY <1>1, <1>8
    <3> QED
      BY <1>3, <1>8, <3>1, <3>2, GotoFields
  <2>2. Named(s)' /\ Held(s)' /\ Displaced(s)' /\ Unexposed(s)'
    BY <1>3, <1>5, <1>7, <1>8, <2>1 DEF Named, Held, Displaced, Unexposed, Fallback, from
  <2>3. Sparing(s)'
    <3>1. pc = "unstage" => dir'[call'[s].staged] = dir'[Target]
      BY <1>5, <1>7, <1>8, <2>1 DEF from
    <3>2. pc = "unstage" => Doubled(call[s].staged)'
      BY <3>1 DEF Doubled
    <3> QED
      BY <1>3, <1>5, <1>7, <1>8, <2>1, <3>2 DEF Sparing, Fallback, others, from
  <2>4. pc \in Working
    BY <1>1, <1>8
  <2> QED
    BY <1>3, <1>7, <2>1, <2>2, <2>3, <2>4, SilentOutcome
<1>9. CASE ~acked /\ StaleNew(s)
  BY <1>2, <1>5, <1>7, <1>9, RefusedOutcome
<1> QED
  BY <1>4, <1>8, <1>9

LEMMA RenameNewOutcome ==
    ASSUME IInv, NEW s \in Caller, UNCHANGED others, RenameNew(s)
    PROVE  Outcome(s)
<1>1. "renameNew" \in Working
  BY DEF Working
<1>2. At(s, "renameNew")
  BY DEF RenameNew
<1>3. TypeOK /\ call[s].pc = "renameNew" /\ Named(s) /\ Held(s)
  BY <1>1, <1>2, AtWork
<1> DEFINE from == call[s].staged
           possible == dir[Target] = None
           leftover == FALSE
<1>4. PICK acked \in BOOLEAN :
        /\ Try(Renamed(from, Target), possible, acked)
        /\ InstalledNew(s, leftover) \/ StaleNew(s) \/ FailedNew(s)
  BY DEF RenameNew
<1>5. /\ from \in Mine(s) /\ dir[from] # None /\ Temp(s) \in Mine(s) /\ Temp(s) # Aside(s)
      /\ call[s].kind # "delete" => from = Temp(s) /\ dir[Temp(s)] = s
      /\ call[s].kind = "delete" => from = Aside(s)
  BY <1>3, Names DEF Named, Held
<1>6. possible \in BOOLEAN /\ Renamed(from, Target) \in {Linked(from, Target), Renamed(from, Target)}
      /\ leftover \in BOOLEAN /\ ~leftover
  OBVIOUS
<1> HIDE DEF possible, from, leftover
<1>7. /\ Effect(s) /\ \A n \in Mine(s) \ {from} : dir'[n] = dir[n]
      /\ dir'[from] \in {dir[from], None}
  BY <1>3, <1>4, <1>5, <1>6, WroteTarget
<1>8. /\ call[s].kind # "delete" => dir'[Temp(s)] \in {s, None}
      /\ call[s].kind = "delete" => dir'[Temp(s)] = dir[Temp(s)]
  BY <1>5, <1>7
<1>9. CASE InstalledNew(s, leftover)
  BY <1>2, <1>6, <1>7, <1>8, <1>9, InstalledNewOutcome
<1>10. CASE StaleNew(s) \/ FailedNew(s)
  BY <1>2, <1>7, <1>8, <1>10, RefusedOutcome
<1> QED
  BY <1>4, <1>9, <1>10

LEMMA UnstageOutcome ==
    ASSUME IInv, NEW s \in Caller, UNCHANGED others, Unstage(s)
    PROVE  Outcome(s)
<1>1. "unstage" \in Working
  BY DEF Working
<1>2. At(s, "unstage")
  BY DEF Unstage
<1>3. TypeOK /\ call[s].pc = "unstage" /\ Named(s) /\ Held(s) /\ Sparing(s)
  BY <1>1, <1>2, AtWork
<1> DEFINE name == call[s].staged
           possible == TRUE
<1>4. PICK acked \in BOOLEAN : Try(Removed(name), possible, acked) /\ InstalledNew(s, ~acked)
  BY DEF Unstage
<1>5. /\ name \in Mine(s) /\ Temp(s) \in Mine(s) /\ Temp(s) # Aside(s)
      /\ call[s].kind # "delete" => name = Temp(s) /\ dir[Temp(s)] = s
      /\ call[s].kind = "delete" => name = Aside(s)
  BY <1>3, Names DEF Named, Held
<1> DEFINE leftover == ~acked
<1>6. possible \in BOOLEAN /\ leftover \in BOOLEAN
  OBVIOUS
<1>7. Doubled(name)
  BY <1>3 DEF Sparing
<1> HIDE DEF possible, name, leftover
<1>8. /\ Quiet(s) /\ \A n \in Mine(s) \ {name} : dir'[n] = dir[n]
      /\ dir'[name] \in {dir[name], None}
  BY <1>3, <1>4, <1>5, <1>6, RemovedOne
<1>9. Effect(s) /\ dir'[Target] = dir[Target]
  BY <1>3, <1>8, QuietKeeps
<1>10. call[s].kind = "delete" => Doubled(Aside(s))'
  BY <1>5, <1>7, <1>8, <1>9 DEF Doubled, others
<1>11. InstalledNew(s, leftover)
  BY <1>4 DEF leftover
<1> QED
  BY <1>2, <1>5, <1>6, <1>8, <1>9, <1>10, <1>11, InstalledNewOutcome

LEMMA SyncPutBackOutcome ==
    ASSUME IInv, NEW s \in Caller, UNCHANGED others, SyncPutBack(s)
    PROVE  Outcome(s)
<1>1. "putBackSync" \in Working
  BY DEF Working
<1>2. TypeOK /\ Ready(s)
  BY <1>1, AtWork DEF SyncPutBack
<1> DEFINE owned == FALSE
<1>3. owned \in BOOLEAN /\ ~owned /\ Leave(s, "uncertain", owned)
  BY DEF SyncPutBack
<1> HIDE DEF owned
<1>4. PICK ok \in BOOLEAN : Sync(ok)
  BY DEF SyncPutBack
<1>5. Effect(s)
  BY <1>2, <1>4, SyncQuiet, QuietKeeps
<1> QED
  BY <1>2, <1>3, <1>5, LeaveUnknown

-----------------------------------------------------------------------------
(* The exchange of a save that replaces a file *)

\* A rename of what the private name from holds to the target.
LEMMA RenamedIn ==
    ASSUME TypeOK, NEW s \in Caller, NEW from \in Mine(s), dir[from] # None,
           NEW possible \in BOOLEAN, NEW acked \in BOOLEAN, Try(Renamed(from, Target), possible, acked)
    PROVE  /\ Effect(s) /\ \A n \in Mine(s) \ {from} : dir'[n] = dir[n]
           /\ \/ dir' = dir /\ images' = images
              \/ dir'[Target] = dir[from] /\ dir'[from] = None
<1> DEFINE change == Renamed(from, Target)
<1>1. change \in {Linked(from, Target), change} /\ change \in {Linked(from, Target), Renamed(from, Target)}
  OBVIOUS
<1>2. from # Target
  BY Names
<1>3. DOMAIN change = {from, Target} /\ DOMAIN Linked(from, Target) = {Target}
  BY DEF Renamed, Linked
<1>4. change # Linked(from, Target)
  BY <1>2, <1>3
<1> HIDE DEF change
<1>5. Try(change, possible, acked)
  BY DEF change
<1> QED
  BY <1>1, <1>4, <1>5, WroteTarget

\* The exchange failed: what its two answers that claim something require.
LEMMA FailedOutcome ==
    ASSUME TypeOK, NEW s \in Caller, Ready(s), UNCHANGED others, Effect(s),
           NEW displaced, NEW error, ExchangeFailed(s, displaced, error),
           call[s].leg = "out" /\ (error = "cleanup" \/ (displaced = None /\ error # "uncertain"))
               => Hidden(s)',
           atomic /\ call[s].leg = "out" /\ displaced = None => dir'[Temp(s)] \in {s, None},
           atomic => error # "cleanup"
    PROVE  Outcome(s)
<1> DEFINE owned == FALSE
           unnamed == displaced = None
<1>1. owned \in BOOLEAN /\ ~owned /\ unnamed \in BOOLEAN
  OBVIOUS
<1>2. CASE call[s].leg = "back" /\ Leave(s, "uncertain", owned)
  <2> HIDE DEF owned
  <2> QED
    BY <1>1, <1>2, LeaveUnknown
<1>3. CASE call[s].leg # "back" /\ error = "cleanup" /\ Leave(s, "rolledBack", TRUE)
  <2>1. call[s].leg = "out"
    BY <1>3 DEF TypeOK, CallState
  <2> QED
    BY <1>3, <2>1, LeaveHidden
<1>4. CASE call[s].leg # "back" /\ Leave(s, "uncertain", unnamed)
  <2>1. call[s].leg = "out"
    BY <1>4 DEF TypeOK, CallState
  <2>2. atomic /\ unnamed => dir'[Temp(s)] \in {s, None}
    BY <2>1
  <2> HIDE DEF unnamed
  <2> QED
    BY <1>1, <1>4, <2>2, LeaveUnknown
<1>5. CASE /\ call[s].leg # "back" /\ error # "cleanup" /\ displaced = None /\ error # "uncertain"
           /\ Leave(s, "error", TRUE)
  <2>1. call[s].leg = "out"
    BY <1>5 DEF TypeOK, CallState
  <2> QED
    BY <1>5, <2>1, LeaveHidden
<1> QED
  BY <1>2, <1>3, <1>4, <1>5 DEF ExchangeFailed

\* The exchange succeeded.
LEMMA DoneOutcome ==
    ASSUME TypeOK, NEW s \in Caller, Ready(s), UNCHANGED others, Effect(s),
           call[s].result = "nil",
           NEW displaced \in Mine(s), dir'[displaced] # None,
           NEW d, d[displaced] = dir'[displaced], ExchangeDone(s, displaced, d),
           call[s].leg = "out" => displaced \in {Temp(s), Aside(s)} /\ dir'[displaced] # s,
           call[s].leg = "back" => dir'[Target] # s,
           atomic => displaced = Temp(s)
    PROVE  Outcome(s)
<1> DEFINE c == [call[s] EXCEPT !.old = displaced, !.owned = FALSE]
<1>1. /\ "confirm" \in Working /\ "exchange" \in Working /\ "discardBack" \in Working
      /\ displaced \in Name /\ call[s] \in CallState /\ displaced # None
  <2>1. "confirm" \in Working /\ "exchange" \in Working /\ "discardBack" \in Working
    BY DEF Working
  <2>2. displaced \in Name /\ displaced # None
    BY Names
  <2>3. call[s] \in CallState
    BY DEF TypeOK
  <2> QED
    BY <2>1, <2>2, <2>3
<1>2. CASE call[s].leg = "out" /\ d[displaced] = call[s].expected /\ Becomes(s, [c EXCEPT !.pc = "confirm"])
  <2> DEFINE e == [c EXCEPT !.pc = "confirm"]
  <2>1. /\ e \in CallState /\ e.pc = "confirm" /\ e.old = displaced /\ e.owned = FALSE
        /\ e.kind = call[s].kind /\ e.expected = call[s].expected /\ e.result = call[s].result
    <3>1. e \in CallState
      BY <1>1 DEF CallState
    <3>2. /\ e.pc = "confirm" /\ e.old = displaced /\ e.owned = FALSE
          /\ e.kind = call[s].kind /\ e.expected = call[s].expected /\ e.result = call[s].result
      BY <1>1 DEF CallState
    <3> QED
      BY <3>1, <3>2
  <2>2. Becomes(s, e)
    BY <1>2
  <2> HIDE DEF e
  <2>3. /\ call' \in [Caller -> CallState] /\ call'[s] = e /\ \A t \in Caller \ {s} : call'[t] = call[t]
    BY <2>1, <2>2, CallBecomes
  <2>4. Named(s)' /\ Held(s)' /\ Displaced(s)' /\ Unexposed(s)'
    BY <2>1, <2>3 DEF Named, Held, Displaced, Unexposed, Fallback
  <2>5. Sparing(s)'
    BY <1>2, <2>1, <2>3 DEF Sparing, Fallback
  <2> QED
    BY <1>1, <2>1, <2>3, <2>4, <2>5, SilentOutcome
<1>3. CASE call[s].leg = "out" /\ Becomes(s, [c EXCEPT !.pc = "exchange", !.staged = displaced, !.leg = "back"])
  <2> DEFINE e == [c EXCEPT !.pc = "exchange", !.staged = displaced, !.leg = "back"]
  <2>1. /\ e \in CallState /\ e.pc = "exchange" /\ e.staged = displaced /\ e.leg = "back" /\ e.owned = FALSE
        /\ e.kind = call[s].kind /\ e.expected = call[s].expected /\ e.result = call[s].result
    <3>1. e \in CallState
      BY <1>1 DEF CallState
    <3>2. /\ e.pc = "exchange" /\ e.staged = displaced /\ e.leg = "back" /\ e.owned = FALSE
          /\ e.kind = call[s].kind /\ e.expected = call[s].expected /\ e.result = call[s].result
      BY <1>1 DEF CallState
    <3> QED
      BY <3>1, <3>2
  <2>2. Becomes(s, e)
    BY <1>3
  <2> HIDE DEF e
  <2>3. /\ call' \in [Caller -> CallState] /\ call'[s] = e /\ \A t \in Caller \ {s} : call'[t] = call[t]
    BY <2>1, <2>2, CallBecomes
  <2>4. Named(s)' /\ Held(s)' /\ Displaced(s)' /\ Unexposed(s)'
    BY <1>3, <2>1, <2>3 DEF Named, Held, Displaced, Unexposed, Fallback
  <2>5. Sparing(s)'
    BY <2>1, <2>3 DEF Sparing, Fallback, others
  <2> QED
    BY <1>1, <2>1, <2>3, <2>4, <2>5, SilentOutcome
<1>4. CASE call[s].leg = "back" /\ d[displaced] = s /\ Becomes(s, [c EXCEPT !.pc = "discardBack"])
  <2> DEFINE e == [c EXCEPT !.pc = "discardBack"]
  <2>1. /\ e \in CallState /\ e.pc = "discardBack" /\ e.old = displaced /\ e.owned = FALSE
        /\ e.kind = call[s].kind /\ e.expected = call[s].expected /\ e.result = call[s].result
    <3>1. e \in CallState
      BY <1>1 DEF CallState
    <3>2. /\ e.pc = "discardBack" /\ e.old = displaced /\ e.owned = FALSE
          /\ e.kind = call[s].kind /\ e.expected = call[s].expected /\ e.result = call[s].result
      BY <1>1 DEF CallState
    <3> QED
      BY <3>1, <3>2
  <2>2. Becomes(s, e)
    BY <1>4
  <2> HIDE DEF e
  <2>3. /\ call' \in [Caller -> CallState] /\ call'[s] = e /\ \A t \in Caller \ {s} : call'[t] = call[t]
    BY <2>1, <2>2, CallBecomes
  <2>4. Named(s)' /\ Held(s)' /\ Displaced(s)' /\ Unexposed(s)'
    BY <1>4, <2>1, <2>3 DEF Named, Held, Displaced, Unexposed, Fallback
  <2>5. Sparing(s)'
    BY <1>4, <2>1, <2>3 DEF Sparing, Fallback, others
  <2> QED
    BY <1>1, <2>1, <2>3, <2>4, <2>5, SilentOutcome
<1> DEFINE owned == FALSE
<1>5. CASE Leave(s, "uncertain", owned)
  <2>1. owned \in BOOLEAN /\ ~owned
    OBVIOUS
  <2> HIDE DEF owned
  <2> QED
    BY <1>5, <2>1, LeaveUnknown
<1>6. call[s].leg \in {"out", "back"}
  BY <1>1 DEF CallState
<1> HIDE DEF c
<1> QED
  BY <1>2, <1>3, <1>4, <1>5, <1>6 DEF ExchangeDone, c

LEMMA ExchangeAtomicallyOutcome ==
    ASSUME IInv, NEW s \in Caller, UNCHANGED others, ExchangeAtomically(s)
    PROVE  Outcome(s)
<1> DEFINE staged == call[s].staged
           change == Swapped(staged, Target)
<1>1. "exchange" \in Working
  BY DEF Working
<1>2. At(s, "exchange") /\ atomic
  BY DEF ExchangeAtomically
<1>3. /\ TypeOK /\ call[s] \in CallState /\ call[s].pc = "exchange" /\ Named(s) /\ Held(s)
      /\ Unexposed(s) /\ Sparing(s) /\ Reported(s) /\ Ready(s)
  BY <1>1, <1>2, AtWork
<1>4. call[s].result = "nil" /\ call[s].leg \in {"out", "back"} /\ staged = Temp(s)
  BY <1>2, <1>3 DEF Reported, Sparing, Silent, Working, CallState
<1>5. /\ staged \in Mine(s) /\ dir[staged] # None /\ staged # None
      /\ call[s].leg = "out" => staged = Temp(s) /\ dir[staged] = s /\ Hidden(s)
      /\ call[s].leg = "back" => dir[staged] # s
  BY <1>3, <1>4, Names DEF Named, Held, Unexposed
<1>6. call[s].leg = "out" => dir[Target] # s
  BY <1>3, <1>5, Names DEF Hidden, TypeOK
<1>7. /\ \A n \in {staged} : With(dir, change)[n] = dir[Target]
      /\ faults' \in 0..MaxFaults
  <2>1. staged \in Name /\ staged # Target
    BY <1>5, Names
  <2>2. staged \in DOMAIN change /\ change[staged] = dir[Target]
    BY <2>1 DEF Swapped
  <2>3. With(dir, change)[staged] = dir[Target]
    BY <2>1, <2>2, WithWritten
  <2>4. faults' \in 0..MaxFaults
    BY <1>3, FileSaveAssumption DEF ExchangeAtomically, Fault, TypeOK
  <2> QED
    BY <2>3, <2>4
<1>8. ASSUME Apply(change)
      PROVE  /\ Effect(s) /\ dir'[Target] = dir[staged] /\ dir'[staged] = dir[Target]
  <2> HIDE DEF staged
  <2> QED
    BY <1>3, <1>5, <1>7, <1>8, SwappedIn
<1>9. CASE dir[Target] # None /\ Apply(change) /\ ExchangeDone(s, staged, With(dir, change))
  <2> DEFINE d == With(dir, change)
  <2>1. d[staged] = dir'[staged]
    BY <1>7, <1>8, <1>9
  <2>2. ExchangeDone(s, staged, d)
    BY <1>9
  <2>3. /\ call[s].leg = "out" => staged \in {Temp(s), Aside(s)} /\ dir'[staged] # s
        /\ call[s].leg = "back" => dir'[Target] # s
        /\ dir'[staged] # None
    BY <1>5, <1>6, <1>8, <1>9
  <2> HIDE DEF d, staged
  <2> QED
    BY <1>3, <1>4, <1>5, <1>8, <1>9, <2>1, <2>2, <2>3, DoneOutcome
<1>10. CASE Apply(change) /\ ExchangeFailed(s, staged, "error")
  <2> HIDE DEF staged
  <2> QED
    BY <1>3, <1>5, <1>8, <1>10, FailedOutcome
<1>11. CASE UNCHANGED <<dir, images>> /\ ExchangeFailed(s, None, "error")
  <2>1. Quiet(s) /\ Touches(s, Mine(s))
    BY <1>3, <1>7, <1>11, UntouchedTouches DEF Quiet
  <2>2. Effect(s) /\ (Hidden(s) => Hidden(s)')
    BY <1>3, <2>1, QuietKeeps
  <2>3. call[s].leg = "out" => dir'[Temp(s)] = s
    BY <1>5, <1>11
  <2> QED
    BY <1>3, <1>5, <1>11, <2>2, <2>3, FailedOutcome
<1> QED
  BY <1>9, <1>10, <1>11 DEF ExchangeAtomically

-----------------------------------------------------------------------------
(* The exchange by links and renames *)

\* The call goes on to another step with the same files.
Stays(s, pc) ==
    /\ call' \in [Caller -> CallState] /\ \A t \in Caller \ {s} : call'[t] = call[t]
    /\ call'[s].pc = pc /\ call'[s].kind = call[s].kind /\ call'[s].expected = call[s].expected
    /\ call'[s].owned = call[s].owned /\ call'[s].result = call[s].result
    /\ call'[s].staged = call[s].staged /\ call'[s].stagedInfo = call[s].stagedInfo
    /\ call'[s].displaced = call[s].displaced /\ call'[s].targetInfo = call[s].targetInfo
    /\ call'[s].leg = call[s].leg

LEMMA GotoStays ==
    ASSUME TypeOK, NEW s \in Caller, NEW pc \in Working, Goto(s, pc)
    PROVE  Stays(s, pc)
  BY GotoFields DEF Stays

\* What is known of a call at a step of the exchange.
LEMMA AtFallback ==
    ASSUME IInv, NEW s \in Caller, NEW pc \in Fallback, At(s, pc)
    PROVE  /\ TypeOK /\ call[s] \in CallState /\ call[s].pc = pc /\ Named(s) /\ Held(s) /\ Displaced(s)
           /\ Unexposed(s) /\ Confined(s) /\ Ready(s)
           /\ call[s].result = "nil" /\ ~atomic /\ call[s].leg \in {"out", "back"}
           /\ call[s].staged \in Mine(s) /\ call[s].displaced \in Mine(s)
           /\ call[s].staged # call[s].displaced /\ call[s].displaced # None
           /\ call[s].leg = "out" => call[s].displaced = Aside(s) /\ call[s].targetInfo # s
           /\ call[s].leg = "back" => call[s].stagedInfo # s
           /\ call[s].targetInfo # None
<1>1. pc \in Working /\ pc \in Silent
  BY DEF Fallback, Working, Silent
<1>2. /\ TypeOK /\ call[s] \in CallState /\ call[s].pc = pc /\ Named(s) /\ Held(s) /\ Displaced(s)
      /\ Unexposed(s) /\ Confined(s) /\ Ready(s) /\ Sparing(s) /\ Reported(s)
  BY <1>1, AtWork
<1>3. call[s].result = "nil" /\ ~atomic /\ call[s].leg \in {"out", "back"}
  BY <1>1, <1>2 DEF Reported, Sparing, CallState
<1>4. /\ call[s].staged \in Mine(s) /\ call[s].displaced \in Mine(s)
      /\ call[s].staged # call[s].displaced
      /\ call[s].leg = "out" => call[s].displaced = Aside(s)
  BY <1>2 DEF Named
<1>5. /\ call[s].leg = "out" => call[s].targetInfo # s
      /\ call[s].leg = "back" => call[s].stagedInfo # s
      /\ call[s].targetInfo # None
  BY <1>2 DEF Held
<1> QED
  BY <1>2, <1>3, <1>4, <1>5, Names

\* What is left to show of a step of the exchange that goes on.
LEMMA StaysOutcome ==
    ASSUME IInv, NEW s \in Caller, UNCHANGED others, NEW pc \in Fallback, At(s, pc),
           NEW next \in Fallback, Stays(s, next), Effect(s),
           next \in {"link", "linkSync", "install"} => dir'[call[s].staged] = call[s].stagedInfo,
           next \in {"link", "linkSync", "install", "installed"} => call[s].stagedInfo # None,
           next \in {"linkSync", "install", "installed", "installSync", "relink", "relinkSync", "restore"}
               => dir'[call[s].displaced] = call[s].targetInfo,
           next = "installSync" /\ call[s].leg = "back" => dir'[Target] # s,
           next = "restoreSync" /\ call[s].leg = "out" => dir'[Target] # s,
           call[s].leg = "out" /\ next \in {"link", "linkSync", "unlink", "unlinkSync", "install"}
               => Hidden(s)',
           call[s].leg = "out" /\ next = "installed" /\ dir'[call[s].staged] # None => Hidden(s)'
    PROVE  Outcome(s)
<1>1. next \in Working /\ next \notin {"stage", "validate", "move", "linkNew", "renameNew", "unstage",
          "exchange", "discard", "discardSync", "discardBack", "discardBackSync", "confirm", "commitSync"}
  BY DEF Fallback, Working
<1>2. /\ TypeOK /\ ~atomic /\ Ready(s) /\ call[s].result = "nil"
      /\ call[s].staged \in Mine(s) /\ call[s].displaced \in Mine(s) /\ call[s].staged # call[s].displaced
      /\ call[s].leg = "out" => call[s].displaced = Aside(s) /\ call[s].targetInfo # s
      /\ call[s].leg = "back" => call[s].stagedInfo # s
      /\ call[s].targetInfo # None
  BY AtFallback
<1>3. /\ call' \in [Caller -> CallState] /\ \A t \in Caller \ {s} : call'[t] = call[t]
      /\ call'[s].pc = next /\ call'[s].kind = call[s].kind /\ call'[s].expected = call[s].expected
      /\ call'[s].owned = call[s].owned /\ call'[s].result = "nil"
      /\ call'[s].staged = call[s].staged /\ call'[s].stagedInfo = call[s].stagedInfo
      /\ call'[s].displaced = call[s].displaced /\ call'[s].targetInfo = call[s].targetInfo
      /\ call'[s].leg = call[s].leg
  BY <1>2 DEF Stays
<1>4. Named(s)'
  BY <1>1, <1>2, <1>3 DEF Named
<1>5. Held(s)'
  BY <1>1, <1>2, <1>3 DEF Held
<1>6. Displaced(s)' /\ Unexposed(s)'
  BY <1>1, <1>3 DEF Displaced, Unexposed
<1>7. Sparing(s)'
  BY <1>1, <1>2, <1>3 DEF Sparing, others
<1> QED
  BY <1>1, <1>2, <1>3, <1>4, <1>5, <1>6, <1>7, SilentOutcome

LEMMA InspectOutcome ==
    ASSUME IInv, NEW s \in Caller, UNCHANGED others, Inspect(s)
    PROVE  Outcome(s)
<1> DEFINE displaced == <<s, IF call[s].leg = "out" THEN "displaced" ELSE "displacedAgain">>
<1>1. "exchange" \in Working /\ "link" \in Working
  BY DEF Working
<1>2. At(s, "exchange") /\ ~atomic /\ UNCHANGED files
  BY DEF Inspect
<1>3. /\ TypeOK /\ call[s] \in CallState /\ call[s].pc = "exchange" /\ Named(s) /\ Held(s)
      /\ Unexposed(s) /\ Reported(s) /\ Ready(s)
  BY <1>1, <1>2, AtWork
<1>4. call[s].result = "nil" /\ call[s].leg \in {"out", "back"}
  BY <1>3 DEF Reported, Silent, Working, CallState
<1>5. Effect(s) /\ dir' = dir /\ (Hidden(s) => Hidden(s)')
  BY <1>2, <1>3, UnchangedQuiet, QuietKeeps
<1>6. call[s].leg = "out" => Hidden(s)'
  BY <1>3, <1>5 DEF Unexposed
<1>7. CASE dir[Target] = None /\ ExchangeFailed(s, None, "error")
  BY <1>2, <1>3, <1>5, <1>6, <1>7, FailedOutcome
<1>8. CASE /\ dir[Target] # None
           /\ Becomes(s, [call[s] EXCEPT
                !.pc = "link", !.displaced = displaced,
                !.stagedInfo = dir[call[s].staged], !.targetInfo = dir[Target]])
  <2> DEFINE c == [call[s] EXCEPT
                !.pc = "link", !.displaced = displaced,
                !.stagedInfo = dir[call[s].staged], !.targetInfo = dir[Target]]
  <2>1. /\ displaced \in Mine(s) /\ displaced \in Name /\ call[s].staged \in Mine(s)
        /\ call[s].staged # displaced /\ call[s].staged \in Name
        /\ call[s].leg = "out" => displaced = Aside(s)
    BY <1>3, <1>4, Names DEF Named, Aside
  <2>2. dir[call[s].staged] \in Generation \cup {None} /\ dir[Target] \in Generation \cup {None}
    BY <1>3, <2>1, Names DEF TypeOK, Directory
  <2> HIDE DEF displaced
  <2>3. /\ c \in CallState /\ c.pc = "link" /\ c.displaced = displaced /\ c.staged = call[s].staged
        /\ c.stagedInfo = dir[call[s].staged] /\ c.targetInfo = dir[Target] /\ c.leg = call[s].leg
        /\ c.kind = call[s].kind /\ c.expected = call[s].expected /\ c.result = "nil"
        /\ c.owned = call[s].owned
    <3>1. c \in CallState
      BY <1>1, <1>3, <1>4, <2>1, <2>2 DEF CallState
    <3>2. /\ c.pc = "link" /\ c.displaced = displaced /\ c.staged = call[s].staged
          /\ c.stagedInfo = dir[call[s].staged] /\ c.targetInfo = dir[Target] /\ c.leg = call[s].leg
          /\ c.kind = call[s].kind /\ c.expected = call[s].expected /\ c.result = "nil"
          /\ c.owned = call[s].owned
      BY <1>1, <1>3, <1>4, <2>1, <2>2 DEF CallState
    <3> QED
      BY <3>1, <3>2
  <2>4. Becomes(s, c)
    BY <1>8
  <2> HIDE DEF c
  <2>5. /\ call' \in [Caller -> CallState] /\ call'[s] = c /\ \A t \in Caller \ {s} : call'[t] = call[t]
    BY <1>3, <2>3, <2>4, CallBecomes
  <2>6. Named(s)'
    BY <2>1, <2>3, <2>5 DEF Named
  <2>7. call[s].leg = "out" => dir[Target] # s
    BY <1>3, <1>6, Names DEF Unexposed, Hidden, TypeOK
  <2>8. dir[call[s].staged] # None /\ (call[s].leg = "back" => dir[call[s].staged] # s)
    BY <1>3, <1>4 DEF Held
  <2>9. Held(s)'
    BY <1>5, <1>8, <2>3, <2>5, <2>7, <2>8 DEF Held
  <2>10. Displaced(s)' /\ Unexposed(s)'
    BY <1>6, <2>3, <2>5 DEF Displaced, Unexposed
  <2>11. Sparing(s)'
    BY <1>2, <2>3, <2>5 DEF Sparing, others
  <2> QED
    BY <1>1, <1>3, <1>5, <2>3, <2>5, <2>6, <2>9, <2>10, <2>11, SilentOutcome
<1> QED
  BY <1>7, <1>8 DEF Inspect

LEMMA LinkDisplacedOutcome ==
    ASSUME IInv, NEW s \in Caller, UNCHANGED others, LinkDisplaced(s)
    PROVE  Outcome(s)
<1>1. "link" \in Fallback /\ "linkSync" \in Fallback /\ "linkSync" \in Working
  BY DEF Fallback, Working
<1>2. At(s, "link")
  BY DEF LinkDisplaced
<1>3. /\ TypeOK /\ call[s].pc = "link" /\ Held(s) /\ Unexposed(s) /\ Ready(s)
      /\ ~atomic /\ call[s].staged \in Mine(s) /\ call[s].displaced \in Mine(s)
      /\ call[s].staged # call[s].displaced
  BY <1>1, <1>2, AtFallback
<1> DEFINE possible == dir[Target] # None
           to == call[s].displaced
<1>4. PICK acked \in BOOLEAN : Try(Linked(Target, to), possible, acked)
  BY DEF LinkDisplaced
<1>5. possible \in BOOLEAN /\ to \in Mine(s)
  BY <1>3
<1> HIDE DEF possible, to
<1>6. Quiet(s) /\ \A n \in Mine(s) \ {to} : dir'[n] = dir[n]
  BY <1>3, <1>4, <1>5, LinkedOut
<1>7. Effect(s) /\ (Hidden(s) => Hidden(s)')
  BY <1>3, <1>6, QuietKeeps
<1>8. call[s].leg = "out" => Hidden(s)'
  BY <1>3, <1>7 DEF Unexposed
<1>9. /\ dir'[call[s].staged] = call[s].stagedInfo /\ call[s].stagedInfo # None
  BY <1>3, <1>6 DEF Held, to
<1>10. CASE dir'[to] = call[s].targetInfo /\ Goto(s, "linkSync")
  <2>1. Stays(s, "linkSync")
    BY <1>1, <1>3, <1>10, GotoStays
  <2>2. dir'[call[s].displaced] = call[s].targetInfo
    BY <1>10 DEF to
  <2> QED
    BY <1>1, <1>2, <1>7, <1>8, <1>9, <2>1, <2>2, StaysOutcome
<1>11. CASE ExchangeFailed(s, None, "error")
  BY <1>3, <1>7, <1>8, <1>11, FailedOutcome
<1>12. CASE ExchangeFailed(s, to, "cleanup")
  BY <1>3, <1>7, <1>8, <1>12, FailedOutcome
<1> QED
  BY <1>10, <1>11, <1>12 DEF LinkDisplaced, to

LEMMA SyncLinkedOutcome ==
    ASSUME IInv, NEW s \in Caller, UNCHANGED others, SyncLinked(s)
    PROVE  Outcome(s)
<1>1. /\ "linkSync" \in Fallback /\ "install" \in Fallback /\ "unlink" \in Fallback
      /\ "install" \in Working /\ "unlink" \in Working
  BY DEF Fallback, Working
<1>2. At(s, "linkSync")
  BY DEF SyncLinked
<1>3. TypeOK /\ call[s].pc = "linkSync" /\ Held(s) /\ Unexposed(s)
  BY <1>1, <1>2, AtFallback
<1>4. PICK ok \in BOOLEAN : Sync(ok) /\ Goto(s, IF ok THEN "install" ELSE "unlink")
  BY DEF SyncLinked
<1>5. Quiet(s) /\ dir' = dir
  BY <1>3, <1>4, SyncQuiet
<1>6. Effect(s) /\ (call[s].leg = "out" => Hidden(s)')
  BY <1>3, <1>5, QuietKeeps DEF Unexposed
<1>7. /\ dir'[call[s].staged] = call[s].stagedInfo /\ call[s].stagedInfo # None
      /\ dir'[call[s].displaced] = call[s].targetInfo
  BY <1>3, <1>5 DEF Held
<1>8. Stays(s, "install") \/ Stays(s, "unlink")
  BY <1>1, <1>3, <1>4, GotoStays
<1> QED
  BY <1>1, <1>2, <1>6, <1>7, <1>8, StaysOutcome

LEMMA UnlinkOutcome ==
    ASSUME IInv, NEW s \in Caller, UNCHANGED others, Unlink(s)
    PROVE  Outcome(s)
<1>1. "unlink" \in Fallback /\ "unlinkSync" \in Fallback /\ "unlinkSync" \in Working
  BY DEF Fallback, Working
<1>2. At(s, "unlink")
  BY DEF Unlink
<1>3. TypeOK /\ call[s].pc = "unlink" /\ Unexposed(s) /\ call[s].displaced \in Mine(s)
  BY <1>1, <1>2, AtFallback
<1> DEFINE possible == TRUE
           name == call[s].displaced
<1>4. PICK acked \in BOOLEAN : Try(Removed(name), possible, acked)
  BY DEF Unlink
<1>5. possible \in BOOLEAN /\ name \in Mine(s)
  BY <1>3
<1> HIDE DEF possible, name
<1>6. Quiet(s)
  BY <1>3, <1>4, <1>5, RemovedOne
<1>7. Effect(s) /\ (call[s].leg = "out" => Hidden(s)')
  BY <1>3, <1>6, QuietKeeps DEF Unexposed
<1>8. Stays(s, "unlinkSync")
  BY <1>1, <1>3, GotoStays DEF Unlink
<1> QED
  BY <1>1, <1>2, <1>7, <1>8, StaysOutcome

LEMMA SyncUnlinkedOutcome ==
    ASSUME IInv, NEW s \in Caller, UNCHANGED others, SyncUnlinked(s)
    PROVE  Outcome(s)
<1>1. "unlinkSync" \in Fallback
  BY DEF Fallback
<1>2. At(s, "unlinkSync")
  BY DEF SyncUnlinked
<1>3. TypeOK /\ call[s].pc = "unlinkSync" /\ Unexposed(s) /\ ~atomic /\ Ready(s)
  BY <1>1, <1>2, AtFallback
<1>4. PICK ok \in BOOLEAN : Sync(ok)
  BY DEF SyncUnlinked
<1>5. Quiet(s)
  BY <1>3, <1>4, SyncQuiet
<1>6. Effect(s) /\ (call[s].leg = "out" => Hidden(s)')
  BY <1>3, <1>5, QuietKeeps DEF Unexposed
<1>7. CASE ExchangeFailed(s, None, "error")
  BY <1>3, <1>6, <1>7, FailedOutcome
<1> DEFINE displaced == call[s].displaced
<1>8. CASE ExchangeFailed(s, displaced, "cleanup")
  BY <1>3, <1>6, <1>8, FailedOutcome
<1> QED
  BY <1>7, <1>8 DEF SyncUnlinked

LEMMA InstallOutcome ==
    ASSUME IInv, NEW s \in Caller, UNCHANGED others, Install(s)
    PROVE  Outcome(s)
<1>1. "install" \in Fallback /\ "installed" \in Fallback /\ "installed" \in Working
  BY DEF Fallback, Working
<1>2. At(s, "install")
  BY DEF Install
<1>3. /\ TypeOK /\ call[s] \in CallState /\ call[s].pc = "install" /\ Held(s) /\ Unexposed(s)
      /\ call[s].staged \in Mine(s) /\ call[s].displaced \in Mine(s)
      /\ call[s].staged # call[s].displaced
  BY <1>1, <1>2, AtFallback
<1> DEFINE possible == TRUE
           from == call[s].staged
<1>4. PICK acked \in BOOLEAN :
        /\ Try(Renamed(from, Target), possible, acked)
        /\ Becomes(s, [call[s] EXCEPT !.pc = "installed", !.acked = acked])
  BY DEF Install
<1>5. /\ possible \in BOOLEAN /\ from \in Mine(s) /\ dir[from] # None
      /\ dir[call[s].displaced] = call[s].targetInfo /\ call[s].stagedInfo # None
  BY <1>3 DEF Held
<1> HIDE DEF possible, from
<1>6. /\ Effect(s) /\ \A n \in Mine(s) \ {from} : dir'[n] = dir[n]
      /\ \/ dir' = dir /\ images' = images
         \/ dir'[from] = None
  BY <1>3, <1>4, <1>5, RenamedIn
<1>7. /\ dir'[call[s].displaced] = call[s].targetInfo
      /\ call[s].leg = "out" /\ dir'[call[s].staged] # None => Hidden(s)'
  BY <1>3, <1>5, <1>6 DEF from, Unexposed, Hidden
<1> DEFINE c == [call[s] EXCEPT !.pc = "installed", !.acked = acked]
<1>8. /\ c \in CallState /\ c.pc = "installed" /\ c.displaced = call[s].displaced
      /\ c.staged = call[s].staged /\ c.owned = call[s].owned
      /\ c.stagedInfo = call[s].stagedInfo /\ c.targetInfo = call[s].targetInfo /\ c.leg = call[s].leg
      /\ c.kind = call[s].kind /\ c.expected = call[s].expected /\ c.result = call[s].result
  <2>1. c \in CallState
    BY <1>1, <1>3 DEF CallState
  <2>2. /\ c.pc = "installed" /\ c.displaced = call[s].displaced
        /\ c.staged = call[s].staged /\ c.owned = call[s].owned
        /\ c.stagedInfo = call[s].stagedInfo /\ c.targetInfo = call[s].targetInfo /\ c.leg = call[s].leg
        /\ c.kind = call[s].kind /\ c.expected = call[s].expected /\ c.result = call[s].result
    BY <1>1, <1>3 DEF CallState
  <2> QED
    BY <2>1, <2>2
<1>9. Becomes(s, c)
  BY <1>4
<1> HIDE DEF c
<1>10. Stays(s, "installed")
  BY <1>3, <1>8, <1>9, CallBecomes DEF Stays
<1> QED
  BY <1>1, <1>2, <1>5, <1>6, <1>7, <1>10, StaysOutcome

LEMMA ConfirmInstalledOutcome ==
    ASSUME IInv, NEW s \in Caller, UNCHANGED others, ConfirmInstalled(s)
    PROVE  Outcome(s)
<1>1. /\ "installed" \in Fallback /\ "installSync" \in Fallback /\ "relink" \in Fallback
      /\ "unlink" \in Fallback /\ "installSync" \in Working /\ "relink" \in Working
      /\ "unlink" \in Working
  BY DEF Fallback, Working
<1>2. At(s, "installed") /\ UNCHANGED files
  BY DEF ConfirmInstalled
<1>3. /\ TypeOK /\ call[s].pc = "installed" /\ Held(s) /\ Unexposed(s) /\ Ready(s) /\ ~atomic
      /\ call[s].leg = "back" => call[s].stagedInfo # s
      /\ call[s].displaced # None
  BY <1>1, <1>2, AtFallback
<1>4. Quiet(s) /\ dir' = dir
  BY <1>2, <1>3, UnchangedQuiet
<1>5. Effect(s) /\ (Hidden(s) => Hidden(s)')
  BY <1>3, <1>4, QuietKeeps
<1>6. dir'[call[s].displaced] = call[s].targetInfo /\ call[s].stagedInfo # None
  BY <1>3, <1>4 DEF Held
<1> DEFINE next == IF call[s].acked THEN "installSync" ELSE "relink"
<1>7. CASE dir[Target] = call[s].stagedInfo /\ Goto(s, next)
  <2>1. Stays(s, "installSync") \/ Stays(s, "relink")
    BY <1>1, <1>3, <1>7, GotoStays
  <2>2. call[s].leg = "back" => dir'[Target] # s
    BY <1>3, <1>4, <1>7
  <2> QED
    BY <1>1, <1>2, <1>5, <1>6, <2>1, <2>2, StaysOutcome
<1>8. CASE dir[call[s].staged] = call[s].stagedInfo /\ Goto(s, "unlink")
  <2>1. Stays(s, "unlink")
    BY <1>1, <1>3, <1>8, GotoStays
  <2>2. call[s].leg = "out" => Hidden(s)'
    BY <1>3, <1>5, <1>6, <1>8 DEF Unexposed
  <2> QED
    BY <1>1, <1>2, <1>5, <2>1, <2>2, StaysOutcome
<1> DEFINE displaced == call[s].displaced
<1>9. CASE ExchangeFailed(s, displaced, "uncertain")
  BY <1>3, <1>5, <1>9, FailedOutcome
<1> QED
  BY <1>7, <1>8, <1>9 DEF ConfirmInstalled

LEMMA SyncInstalledOutcome ==
    ASSUME IInv, NEW s \in Caller, UNCHANGED others, SyncInstalled(s)
    PROVE  Outcome(s)
<1>1. "installSync" \in Fallback /\ "relink" \in Fallback /\ "relink" \in Working
  BY DEF Fallback, Working
<1>2. At(s, "installSync")
  BY DEF SyncInstalled
<1>3. /\ TypeOK /\ call[s].pc = "installSync" /\ Held(s) /\ Displaced(s) /\ Ready(s)
      /\ call[s].result = "nil" /\ call[s].displaced \in Mine(s) /\ ~atomic
      /\ call[s].leg = "out" => call[s].displaced = Aside(s) /\ call[s].targetInfo # s
      /\ call[s].targetInfo # None
  BY <1>1, <1>2, AtFallback
<1> DEFINE ok == TRUE
           failed == FALSE
<1>4. dir[call[s].displaced] = call[s].targetInfo
  BY <1>3 DEF Held
<1>5. ok \in BOOLEAN /\ failed \in BOOLEAN
  OBVIOUS
<1>6. CASE Sync(ok) /\ ExchangeDone(s, call[s].displaced, dir)
  <2> HIDE DEF ok
  <2>1. Quiet(s) /\ dir' = dir
    BY <1>3, <1>5, <1>6, SyncQuiet
  <2>2. Effect(s)
    BY <1>3, <2>1, QuietKeeps
  <2>3. call[s].leg = "back" => dir'[Target] # s
    BY <1>3, <2>1 DEF Displaced
  <2> DEFINE displaced == call[s].displaced
  <2>4. /\ displaced \in Mine(s) /\ dir'[displaced] # None /\ dir[displaced] = dir'[displaced]
        /\ ExchangeDone(s, displaced, dir)
        /\ call[s].leg = "out" => displaced \in {Temp(s), Aside(s)} /\ dir'[displaced] # s
    BY <1>3, <1>4, <1>6, <2>1
  <2> HIDE DEF displaced
  <2> QED
    BY <1>3, <2>2, <2>3, <2>4, DoneOutcome
<1>7. CASE Sync(failed) /\ Goto(s, "relink")
  <2> HIDE DEF failed
  <2>1. Quiet(s) /\ dir' = dir
    BY <1>3, <1>5, <1>7, SyncQuiet
  <2>2. Effect(s)
    BY <1>3, <2>1, QuietKeeps
  <2>3. Stays(s, "relink")
    BY <1>1, <1>3, <1>7, GotoStays
  <2> QED
    BY <1>1, <1>2, <1>4, <2>1, <2>2, <2>3, StaysOutcome
<1> QED
  BY <1>6, <1>7 DEF SyncInstalled


LEMMA RelinkOutcome ==
    ASSUME IInv, NEW s \in Caller, UNCHANGED others, Relink(s)
    PROVE  Outcome(s)
<1>1. "relink" \in Fallback /\ "relinkSync" \in Fallback /\ "relinkSync" \in Working
  BY DEF Fallback, Working
<1>2. At(s, "relink")
  BY DEF Relink
<1>3. /\ TypeOK /\ call[s].pc = "relink" /\ Held(s) /\ Ready(s)
      /\ ~atomic /\ call[s].staged \in Mine(s) /\ call[s].displaced \in Mine(s)
      /\ call[s].staged # call[s].displaced /\ call[s].displaced # None
  BY <1>1, <1>2, AtFallback
<1> DEFINE possible == dir[Target] # None /\ dir[call[s].staged] = None
           to == call[s].staged
           displaced == call[s].displaced
<1>4. PICK acked \in BOOLEAN : Try(Linked(Target, to), possible, acked)
  BY DEF Relink
<1>5. possible \in BOOLEAN /\ to \in Mine(s) /\ displaced \in Mine(s) \ {to} /\ displaced # None
  BY <1>3
<1>6. dir[displaced] = call[s].targetInfo
  BY <1>3 DEF Held
<1>7. \/ Goto(s, "relinkSync")
      \/ ExchangeFailed(s, displaced, "uncertain")
  BY DEF Relink
<1> HIDE DEF possible, to
<1>8. Quiet(s) /\ dir'[displaced] = call[s].targetInfo
  BY <1>3, <1>4, <1>5, <1>6, LinkedOut
<1>9. Effect(s)
  BY <1>3, <1>8, QuietKeeps
<1>10. CASE Goto(s, "relinkSync")
  <2>1. Stays(s, "relinkSync")
    BY <1>1, <1>3, <1>10, GotoStays
  <2> QED
    BY <1>1, <1>2, <1>8, <1>9, <2>1, StaysOutcome
<1>11. CASE ExchangeFailed(s, displaced, "uncertain")
  BY <1>3, <1>9, <1>11, FailedOutcome
<1> QED
  BY <1>7, <1>10, <1>11

LEMMA SyncRelinkedOutcome ==
    ASSUME IInv, NEW s \in Caller, UNCHANGED others, SyncRelinked(s)
    PROVE  Outcome(s)
<1>1. "relinkSync" \in Fallback /\ "restore" \in Fallback /\ "restore" \in Working
  BY DEF Fallback, Working
<1>2. At(s, "relinkSync")
  BY DEF SyncRelinked
<1>3. /\ TypeOK /\ call[s].pc = "relinkSync" /\ Held(s) /\ Ready(s) /\ ~atomic
      /\ call[s].displaced # None
  BY <1>1, <1>2, AtFallback
<1> DEFINE displaced == call[s].displaced
<1>4. PICK ok \in BOOLEAN : Sync(ok)
  BY DEF SyncRelinked
<1>5. Quiet(s) /\ dir' = dir
  BY <1>3, <1>4, SyncQuiet
<1>6. Effect(s) /\ dir'[call[s].displaced] = call[s].targetInfo
  BY <1>3, <1>5, QuietKeeps DEF Held
<1>7. CASE Goto(s, "restore")
  <2>1. Stays(s, "restore")
    BY <1>1, <1>3, <1>7, GotoStays
  <2> QED
    BY <1>1, <1>2, <1>6, <2>1, StaysOutcome
<1>8. CASE ExchangeFailed(s, displaced, "uncertain")
  BY <1>3, <1>6, <1>8, FailedOutcome
<1> QED
  BY <1>7, <1>8 DEF SyncRelinked

LEMMA RestoreOutcome ==
    ASSUME IInv, NEW s \in Caller, UNCHANGED others, Restore(s)
    PROVE  Outcome(s)
<1>1. "restore" \in Fallback /\ "restored" \in Fallback /\ "restored" \in Working
  BY DEF Fallback, Working
<1>2. At(s, "restore")
  BY DEF Restore
<1>3. /\ TypeOK /\ call[s].pc = "restore" /\ Held(s) /\ call[s].displaced \in Mine(s)
      /\ call[s].targetInfo # None
  BY <1>1, <1>2, AtFallback
<1> DEFINE possible == TRUE
           from == call[s].displaced
<1>4. PICK acked \in BOOLEAN : Try(Renamed(from, Target), possible, acked)
  BY DEF Restore
<1>5. possible \in BOOLEAN /\ from \in Mine(s) /\ dir[from] # None
  BY <1>3 DEF Held
<1> HIDE DEF possible, from
<1>6. Effect(s)
  BY <1>3, <1>4, <1>5, RenamedIn
<1>7. Stays(s, "restored")
  BY <1>1, <1>3, GotoStays DEF Restore
<1> QED
  BY <1>1, <1>2, <1>6, <1>7, StaysOutcome

LEMMA ConfirmRestoredOutcome ==
    ASSUME IInv, NEW s \in Caller, UNCHANGED others, ConfirmRestored(s)
    PROVE  Outcome(s)
<1>1. "restored" \in Fallback /\ "restoreSync" \in Fallback /\ "restoreSync" \in Working
  BY DEF Fallback, Working
<1>2. At(s, "restored") /\ UNCHANGED files
  BY DEF ConfirmRestored
<1>3. /\ TypeOK /\ call[s].pc = "restored" /\ Ready(s) /\ ~atomic
      /\ call[s].leg = "out" => call[s].targetInfo # s
      /\ call[s].displaced # None
  BY <1>1, <1>2, AtFallback
<1> DEFINE displaced == call[s].displaced
<1>4. Effect(s) /\ dir' = dir
  BY <1>2, <1>3, UnchangedQuiet, QuietKeeps
<1>5. CASE dir[Target] = call[s].targetInfo /\ Goto(s, "restoreSync")
  <2>1. Stays(s, "restoreSync")
    BY <1>1, <1>3, <1>5, GotoStays
  <2>2. call[s].leg = "out" => dir'[Target] # s
    BY <1>3, <1>4, <1>5
  <2> QED
    BY <1>1, <1>2, <1>4, <2>1, <2>2, StaysOutcome
<1>6. CASE ExchangeFailed(s, displaced, "uncertain")
  BY <1>3, <1>4, <1>6, FailedOutcome
<1> QED
  BY <1>5, <1>6 DEF ConfirmRestored

\* After a sync every directory is the one that is seen.
LEMMA HiddenSynced ==
    ASSUME TypeOK, NEW s \in Caller, Confined(s), dir[Target] # s, dir' = dir, images' = {dir}
    PROVE  Hidden(s)'
  BY DEF TypeOK, Confined, Hidden, Own

LEMMA SyncRestoredOutcome ==
    ASSUME IInv, NEW s \in Caller, UNCHANGED others, SyncRestored(s)
    PROVE  Outcome(s)
<1>1. "restoreSync" \in Fallback
  BY DEF Fallback
<1>2. At(s, "restoreSync")
  BY DEF SyncRestored
<1>3. /\ TypeOK /\ call[s].pc = "restoreSync" /\ Displaced(s) /\ Confined(s) /\ Ready(s) /\ ~atomic
  BY <1>1, <1>2, AtFallback
<1>4. PICK ok \in BOOLEAN :
        Sync(ok) /\ ExchangeFailed(s, None, IF ok THEN "error" ELSE "uncertain")
  BY DEF SyncRestored
<1>5. Quiet(s) /\ dir' = dir /\ (ok => images' = {dir})
  BY <1>3, <1>4, SyncQuiet
<1>6. Effect(s)
  BY <1>3, <1>5, QuietKeeps
<1> DEFINE error == IF ok THEN "error" ELSE "uncertain"
<1>7. error # "uncertain" => ok
  OBVIOUS
<1>8. ok /\ call[s].leg = "out" => Hidden(s)'
  BY <1>3, <1>5, HiddenSynced DEF Displaced
<1>9. ExchangeFailed(s, None, error) /\ error # "cleanup"
  BY <1>4
<1> HIDE DEF error
<1> QED
  BY <1>3, <1>6, <1>7, <1>8, <1>9, FailedOutcome
-----------------------------------------------------------------------------
(* The end of the transaction *)

\* What a result says stays true under the private names of its call.
LEMMA ToldStays ==
    ASSUME TypeOK, NEW s \in Caller, UNCHANGED others, Told(s), Quiet(s),
           \A t \in Caller \ {s} : call'[t] = call[t],
           call'[s].kind = call[s].kind, call'[s].expected = call[s].expected,
           call'[s].result \in {call[s].result, Joined(call[s].result)}
    PROVE  Told(s)'
<1>1. (Hidden(s) => Hidden(s)') /\ \A g : Missing(g) => Missing(g)'
  BY QuietKeeps
<1>2. Deleting => Deleting'
  BY DEF Deleting
<1>3. removed' = removed
  BY DEF others
<1>4. /\ call'[s].result \in {"rolledBack", "exists", "error"} =>
             call[s].result \in {"rolledBack", "exists", "error"}
      /\ call'[s].result \in {"committed", "deleted"} => call'[s].result = call[s].result
  BY DEF Joined
<1>5. call[s].expected # None /\ call'[s].result \in {"committed", "deleted"} => Missing(call[s].expected)'
  <2> DEFINE g == call[s].expected
  <2>1. g # None /\ call'[s].result \in {"committed", "deleted"} => Missing(g)
    BY <1>4 DEF Told
  <2>2. \A d \in images' : Missing(g) => d[Target] # g
    BY <1>1 DEF Missing
  <2> QED
    BY <2>1, <2>2 DEF Missing
<1> QED
  BY <1>1, <1>2, <1>3, <1>4, <1>5 DEF Told, Missing

LEMMA DiscardBackOutcome ==
    ASSUME IInv, NEW s \in Caller, UNCHANGED others, DiscardBack(s)
    PROVE  Outcome(s)
<1>1. "discardBack" \in Working /\ "discardBackSync" \in Working
  BY DEF Working
<1>2. At(s, "discardBack")
  BY DEF DiscardBack
<1>3. /\ TypeOK /\ call[s] \in CallState /\ call[s].pc = "discardBack" /\ Named(s) /\ Displaced(s)
      /\ Sparing(s) /\ Reported(s) /\ Ready(s)
  BY <1>1, <1>2, AtWork
<1> DEFINE possible == TRUE
           name == call[s].old
<1>4. PICK acked \in BOOLEAN :
        /\ Try(Removed(name), possible, acked)
        /\ Becomes(s, [call[s] EXCEPT !.pc = "discardBackSync", !.acked = acked])
  BY DEF DiscardBack
<1>5. possible \in BOOLEAN /\ name \in Mine(s) /\ call[s].result = "nil" /\ dir[Target] # s
  BY <1>3 DEF Named, Reported, Silent, Working, Displaced
<1> HIDE DEF possible, name
<1>6. /\ Quiet(s) /\ \A n \in Mine(s) : dir'[n] \in {dir[n], None}
  BY <1>3, <1>4, <1>5, RemovedOne
<1>7. Effect(s) /\ dir'[Target] # s
  BY <1>3, <1>5, <1>6, QuietKeeps
<1> DEFINE c == [call[s] EXCEPT !.pc = "discardBackSync", !.acked = acked]
<1>8. /\ c \in CallState /\ c.pc = "discardBackSync" /\ c.old = name /\ c.owned = call[s].owned
      /\ c.kind = call[s].kind /\ c.expected = call[s].expected /\ c.result = "nil"
  <2>1. c \in CallState
    BY <1>1, <1>3, <1>5 DEF CallState, name
  <2>2. /\ c.pc = "discardBackSync" /\ c.old = name /\ c.owned = call[s].owned
        /\ c.kind = call[s].kind /\ c.expected = call[s].expected /\ c.result = "nil"
    BY <1>1, <1>3, <1>5 DEF CallState, name
  <2> QED
    BY <2>1, <2>2
<1>9. Becomes(s, c)
  BY <1>4
<1> HIDE DEF c
<1>10. /\ call' \in [Caller -> CallState] /\ call'[s] = c /\ \A t \in Caller \ {s} : call'[t] = call[t]
  BY <1>3, <1>8, <1>9, CallBecomes
<1>11. Named(s)' /\ Held(s)' /\ Displaced(s)' /\ Unexposed(s)'
  BY <1>5, <1>7, <1>8, <1>10 DEF Named, Held, Displaced, Unexposed, Fallback
<1>12. dir'[Temp(s)] \in {dir[Temp(s)], None}
  BY <1>6, Names
<1>13. Sparing(s)'
  BY <1>3, <1>8, <1>10, <1>12 DEF Sparing, Fallback, others
<1> QED
  BY <1>1, <1>3, <1>7, <1>8, <1>10, <1>11, <1>13, SilentOutcome

LEMMA SyncDiscardedBackOutcome ==
    ASSUME IInv, NEW s \in Caller, UNCHANGED others, SyncDiscardedBack(s)
    PROVE  Outcome(s)
<1>1. "discardBackSync" \in Working
  BY DEF Working
<1>2. At(s, "discardBackSync")
  BY DEF SyncDiscardedBack
<1>3. /\ TypeOK /\ call[s].pc = "discardBackSync" /\ Displaced(s)
      /\ Sparing(s) /\ Confined(s) /\ Ready(s)
  BY <1>1, <1>2, AtWork
<1>4. PICK ok \in BOOLEAN :
        /\ Sync(ok)
        /\ IF ok /\ call[s].acked THEN Leave(s, "error", TRUE) ELSE Leave(s, "uncertain", FALSE)
  BY DEF SyncDiscardedBack
<1>5. Quiet(s) /\ dir' = dir /\ (ok => images' = {dir})
  BY <1>3, <1>4, SyncQuiet
<1>6. Effect(s)
  BY <1>3, <1>5, QuietKeeps
<1>7. CASE ok /\ Leave(s, "error", TRUE)
  <2>1. Hidden(s)'
    BY <1>3, <1>5, <1>7, HiddenSynced DEF Displaced
  <2>2. atomic => dir'[Temp(s)] \in {s, None}
    BY <1>3, <1>5 DEF Sparing
  <2> QED
    BY <1>3, <1>6, <1>7, <2>1, <2>2, LeaveHidden
<1> DEFINE owned == FALSE
<1>8. CASE Leave(s, "uncertain", owned)
  <2>1. owned \in BOOLEAN /\ ~owned
    OBVIOUS
  <2> HIDE DEF owned
  <2> QED
    BY <1>3, <1>6, <1>8, <2>1, LeaveUnknown
<1> QED
  BY <1>4, <1>7, <1>8

LEMMA ConfirmOutcome ==
    ASSUME IInv, NEW s \in Caller, UNCHANGED others, Confirm(s)
    PROVE  Outcome(s)
<1>1. "confirm" \in Working /\ "commitSync" \in Working
  BY DEF Working
<1>2. At(s, "confirm") /\ UNCHANGED files
  BY DEF Confirm
<1>3. /\ TypeOK /\ call[s] \in CallState /\ call[s].pc = "confirm" /\ Named(s) /\ Sparing(s)
      /\ Reported(s) /\ Ready(s) /\ Spent
  BY <1>1, <1>2, AtWork
<1>4. Effect(s) /\ dir' = dir
  BY <1>2, <1>3, UnchangedQuiet, QuietKeeps
<1>5. CASE dir[Target] = s /\ Goto(s, "commitSync")
  <2>1. /\ call' \in [Caller -> CallState] /\ \A t \in Caller \ {s} : call'[t] = call[t]
        /\ call'[s].pc = "commitSync" /\ call'[s].kind = call[s].kind
        /\ call'[s].expected = call[s].expected /\ call'[s].old = call[s].old
        /\ call'[s].owned = call[s].owned /\ call'[s].result = "nil"
    BY <1>1, <1>3, <1>5, GotoFields DEF Reported, Silent, Working
  <2>2. s # None /\ call[s].expected # s
    BY <1>3, NoneGeneration DEF Spent
  <2>3. Named(s)' /\ Held(s)' /\ Displaced(s)' /\ Unexposed(s)'
    BY <1>3, <1>4, <1>5, <2>1, <2>2 DEF Named, Held, Displaced, Unexposed, Fallback
  <2>4. Sparing(s)'
    BY <1>3, <1>4, <2>1 DEF Sparing, Fallback, others
  <2> QED
    BY <1>1, <1>3, <1>4, <2>1, <2>3, <2>4, SilentOutcome
<1> DEFINE owned == call[s].owned
<1>6. CASE Leave(s, "uncertain", owned)
  <2>1. owned \in BOOLEAN /\ (atomic /\ owned => dir'[Temp(s)] \in {s, None})
    BY <1>3, <1>4 DEF CallState, Sparing
  <2> HIDE DEF owned
  <2> QED
    BY <1>3, <1>4, <1>6, <2>1, LeaveUnknown
<1> QED
  BY <1>5, <1>6 DEF Confirm

LEMMA SyncCommitOutcome ==
    ASSUME IInv, NEW s \in Caller, UNCHANGED others, SyncCommit(s)
    PROVE  Outcome(s)
<1>1. "commitSync" \in Working
  BY DEF Working
<1>2. At(s, "commitSync")
  BY DEF SyncCommit
<1>3. /\ TypeOK /\ call[s] \in CallState /\ call[s].pc = "commitSync" /\ Named(s) /\ Displaced(s)
      /\ Sparing(s) /\ Ready(s)
  BY <1>1, <1>2, AtWork
<1>4. PICK ok \in BOOLEAN :
        /\ Sync(ok)
        /\ Becomes(s, [call[s] EXCEPT
              !.pc = IF call[s].old = None THEN "cleanup" ELSE "discard",
              !.result = IF ok THEN "committed" ELSE "uncertain"])
  BY DEF SyncCommit
<1>5. Quiet(s) /\ dir' = dir /\ (ok => images' = {dir})
  BY <1>3, <1>4, SyncQuiet
<1>6. Effect(s) /\ Confined(s)'
  BY <1>3, <1>5, QuietKeeps, EffectConfined DEF Ready
<1> DEFINE next == IF call[s].old = None THEN "cleanup" ELSE "discard"
           result == IF ok THEN "committed" ELSE "uncertain"
           c == [call[s] EXCEPT !.pc = next, !.result = result]
<1>7. /\ next \in Working /\ next \in {"cleanup", "discard"} /\ result \in Result
      /\ result \in {"committed", "uncertain"} /\ (result = "committed" => ok)
      /\ next = "discard" <=> call[s].old # None
  BY DEF Working, Result
<1>8. Becomes(s, c)
  BY <1>4
<1> HIDE DEF next, result
<1>9. /\ c \in CallState /\ c.pc = next /\ c.old = call[s].old /\ c.kind = call[s].kind
      /\ c.expected = call[s].expected /\ c.result = result /\ c.owned = call[s].owned
  <2>1. c \in CallState
    BY <1>3, <1>7 DEF CallState
  <2>2. /\ c.pc = next /\ c.old = call[s].old /\ c.kind = call[s].kind
        /\ c.expected = call[s].expected /\ c.result = result /\ c.owned = call[s].owned
    BY <1>3, <1>7 DEF CallState
  <2> QED
    BY <2>1, <2>2
<1> HIDE DEF c
<1>10. /\ call' \in [Caller -> CallState] /\ call'[s] = c /\ \A t \in Caller \ {s} : call'[t] = call[t]
  BY <1>3, <1>8, <1>9, CallBecomes
<1>11. Named(s)' /\ Held(s)' /\ Displaced(s)' /\ Unexposed(s)'
  BY <1>3, <1>7, <1>9, <1>10 DEF Named, Held, Displaced, Unexposed, Fallback
<1>12. Sparing(s)'
  BY <1>3, <1>5, <1>7, <1>9, <1>10 DEF Sparing, Fallback, others
<1>13. Reported(s)'
  BY <1>7, <1>9, <1>10 DEF Reported, Silent
<1>14. Told(s)'
  <2>1. ok => \A d \in images' : d[Target] = None => removed
    BY <1>3, <1>5 DEF Displaced
  <2>2. ok /\ call[s].expected # None => \A d \in images' : d[Target] # call[s].expected
    BY <1>3, <1>5 DEF Displaced
  <2>3. removed' = removed
    BY DEF others
  <2> QED
    BY <1>7, <1>9, <1>10, <2>1, <2>2, <2>3 DEF Told, Missing
<1> QED
  BY <1>6, <1>7, <1>9, <1>10, <1>11, <1>12, <1>13, <1>14 DEF Outcome, Ready

LEMMA DiscardOutcome ==
    ASSUME IInv, NEW s \in Caller, UNCHANGED others, Discard(s)
    PROVE  Outcome(s)
<1>1. "discard" \in Working /\ "discardSync" \in Working
  BY DEF Working
<1>2. At(s, "discard")
  BY DEF Discard
<1>3. /\ TypeOK /\ call[s] \in CallState /\ call[s].pc = "discard" /\ Named(s) /\ Displaced(s)
      /\ Sparing(s) /\ Reported(s) /\ Ready(s) /\ Told(s)
  BY <1>1, <1>2, AtWork
<1> DEFINE possible == TRUE
           name == call[s].old
<1>4. PICK acked \in BOOLEAN :
        /\ Try(Removed(name), possible, acked)
        /\ Becomes(s, [call[s] EXCEPT !.pc = "discardSync", !.acked = acked])
  BY DEF Discard
<1>5. possible \in BOOLEAN /\ name \in Mine(s)
  BY <1>3 DEF Named
<1> HIDE DEF possible, name
<1>6. /\ Quiet(s) /\ \A n \in Mine(s) : dir'[n] \in {dir[n], None}
  BY <1>3, <1>4, <1>5, RemovedOne
<1>7. Effect(s) /\ dir'[Target] = dir[Target] /\ Confined(s)'
  BY <1>3, <1>6, QuietKeeps, EffectConfined DEF Ready
<1> DEFINE c == [call[s] EXCEPT !.pc = "discardSync", !.acked = acked]
<1>8. /\ c \in CallState /\ c.pc = "discardSync" /\ c.old = name /\ c.owned = call[s].owned
      /\ c.kind = call[s].kind /\ c.expected = call[s].expected /\ c.result = call[s].result
  <2>1. c \in CallState
    BY <1>1, <1>3 DEF CallState, name
  <2>2. /\ c.pc = "discardSync" /\ c.old = name /\ c.owned = call[s].owned
        /\ c.kind = call[s].kind /\ c.expected = call[s].expected /\ c.result = call[s].result
    BY <1>1, <1>3 DEF CallState, name
  <2> QED
    BY <2>1, <2>2
<1>9. Becomes(s, c)
  BY <1>4
<1> HIDE DEF c
<1>10. /\ call' \in [Caller -> CallState] /\ call'[s] = c /\ \A t \in Caller \ {s} : call'[t] = call[t]
  BY <1>3, <1>8, <1>9, CallBecomes
<1>11. Named(s)' /\ Held(s)' /\ Displaced(s)' /\ Unexposed(s)'
  BY <1>3, <1>5, <1>7, <1>8, <1>10 DEF Named, Held, Displaced, Unexposed, Fallback
<1>12. dir'[Temp(s)] \in {dir[Temp(s)], None}
  BY <1>6, Names
<1>13. Sparing(s)'
  BY <1>3, <1>8, <1>10, <1>12 DEF Sparing, Fallback, others
<1>14. Reported(s)'
  BY <1>3, <1>8, <1>10 DEF Reported, Silent
<1>15. Told(s)'
  BY <1>3, <1>6, <1>8, <1>10, ToldStays
<1> QED
  BY <1>1, <1>7, <1>8, <1>10, <1>11, <1>13, <1>14, <1>15 DEF Outcome, Ready

LEMMA SyncDiscardedOutcome ==
    ASSUME IInv, NEW s \in Caller, UNCHANGED others, SyncDiscarded(s)
    PROVE  Outcome(s)
<1>1. "discardSync" \in Working
  BY DEF Working
<1>2. At(s, "discardSync")
  BY DEF SyncDiscarded
<1>3. /\ TypeOK /\ call[s] \in CallState /\ call[s].pc = "discardSync" /\ Displaced(s)
      /\ Reported(s) /\ Ready(s) /\ Told(s)
  BY <1>1, <1>2, AtWork
<1>4. PICK ok \in BOOLEAN :
        /\ Sync(ok)
        /\ Leave(s, IF call[s].result # "nil" THEN call[s].result
                    ELSE IF ok /\ call[s].acked THEN "deleted" ELSE "uncertain", FALSE)
  BY DEF SyncDiscarded
<1>5. Quiet(s) /\ dir' = dir /\ (ok => images' = {dir})
  BY <1>3, <1>4, SyncQuiet
<1>6. Effect(s)
  BY <1>3, <1>5, QuietKeeps
<1> DEFINE result == IF call[s].result # "nil" THEN call[s].result
                     ELSE IF ok /\ call[s].acked THEN "deleted" ELSE "uncertain"
           owned == FALSE
<1>7. /\ result \in Result /\ owned \in BOOLEAN /\ ~owned /\ Leave(s, result, owned)
      /\ result = call[s].result \/ result \in {"deleted", "uncertain"}
      /\ result = "deleted" => ok /\ call[s].result = "nil"
  BY <1>3, <1>4 DEF CallState, Result, Reported
<1> HIDE DEF result, owned
<1>8. /\ \A t \in Caller \ {s} : call'[t] = call[t]
      /\ call'[s].result = result /\ call'[s].kind = call[s].kind
      /\ call'[s].expected = call[s].expected
  BY <1>3, <1>7, LeaveFields
<1>9. Told(s)'
  <2>1. CASE result = call[s].result
    BY <1>3, <1>5, <1>8, <2>1, ToldStays
  <2>2. CASE result = "deleted"
    <3>1. /\ call[s].kind = "delete" /\ call[s].expected # None
          /\ \A d \in images' : d[Target] # call[s].expected
      BY <1>3, <1>5, <1>7, <2>2 DEF Displaced
    <3> QED
      BY <1>8, <2>2, <3>1 DEF Told, Missing
  <2>3. CASE result = "uncertain"
    BY <1>8, <2>3 DEF Told
  <2> QED
    BY <1>7, <2>1, <2>2, <2>3
<1> QED
  BY <1>3, <1>6, <1>7, <1>9, LeaveOutcome

\* The last steps keep the result, or say of an error that it was rolled back.
LEMMA ClosingOutcome ==
    ASSUME IInv, NEW s \in Caller, UNCHANGED others, NEW pc \in {"cleanup", "cleanupSync"}, At(s, pc),
           Quiet(s), NEW next \in {"cleanupSync", "unlock"},
           NEW result \in {call[s].result, Joined(call[s].result)},
           Becomes(s, [call[s] EXCEPT !.pc = next, !.result = result]),
           dir'[Temp(s)] \in {dir[Temp(s)], None}
    PROVE  Outcome(s)
<1>1. pc \in Working /\ next \in Working
  BY DEF Working
<1>2. TypeOK /\ call[s] \in CallState /\ Sparing(s) /\ Ready(s) /\ Told(s)
  BY <1>1, AtWork
<1>3. result \in Result
  BY <1>2 DEF CallState, Joined, Result
<1> DEFINE c == [call[s] EXCEPT !.pc = next, !.result = result]
<1>4. /\ c \in CallState /\ c.pc = next /\ c.owned = call[s].owned
      /\ c.kind = call[s].kind /\ c.expected = call[s].expected /\ c.result = result
  <2>1. c \in CallState
    BY <1>1, <1>2, <1>3 DEF CallState
  <2>2. /\ c.pc = next /\ c.owned = call[s].owned
        /\ c.kind = call[s].kind /\ c.expected = call[s].expected /\ c.result = result
    BY <1>1, <1>2, <1>3 DEF CallState
  <2> QED
    BY <2>1, <2>2
<1>5. Becomes(s, c)
  OBVIOUS
<1> HIDE DEF c
<1>6. /\ call' \in [Caller -> CallState] /\ call'[s] = c /\ \A t \in Caller \ {s} : call'[t] = call[t]
  BY <1>2, <1>4, <1>5, CallBecomes
<1>7. Named(s)' /\ Held(s)' /\ Displaced(s)' /\ Unexposed(s)' /\ Reported(s)'
  BY <1>4, <1>6 DEF Named, Held, Displaced, Unexposed, Reported, Fallback, Silent
<1>8. Sparing(s)'
  BY <1>2, <1>4, <1>6 DEF Sparing, Fallback, others
<1>9. Effect(s) /\ Confined(s)'
  BY <1>2, QuietKeeps, EffectConfined DEF Ready
<1>10. Told(s)'
  BY <1>2, <1>4, <1>6, ToldStays
<1> QED
  BY <1>1, <1>4, <1>6, <1>7, <1>8, <1>9, <1>10 DEF Outcome, Ready

\* To go on is to keep the result.
LEMMA GotoResult ==
    ASSUME TypeOK, NEW s \in Caller, NEW next, Goto(s, next)
    PROVE  Becomes(s, [call[s] EXCEPT !.pc = next, !.result = call[s].result])
<1>1. call[s] \in CallState
  BY DEF TypeOK
<1>2. [call[s] EXCEPT !.pc = next] = [call[s] EXCEPT !.pc = next, !.result = call[s].result]
  BY <1>1 DEF CallState
<1> QED
  BY <1>2 DEF Goto

LEMMA CleanUpOutcome ==
    ASSUME IInv, NEW s \in Caller, UNCHANGED others, CleanUp(s)
    PROVE  Outcome(s)
<1>1. "cleanup" \in Working
  BY DEF Working
<1>2. At(s, "cleanup")
  BY DEF CleanUp
<1>3. TypeOK /\ call[s] \in CallState
  BY <1>1, <1>2, AtWork
<1> DEFINE kept == call[s].result
           joined == Joined(call[s].result)
           present == dir[Temp(s)] # None
           name == Temp(s)
<1>4. \/ UNCHANGED files /\ Goto(s, "unlock")
      \/ \E acked \in BOOLEAN :
            /\ Try(Removed(name), present, acked)
            /\ \/ Goto(s, "cleanupSync")
               \/ Goto(s, "unlock")
               \/ Becomes(s, [call[s] EXCEPT !.pc = "unlock", !.result = joined])
  BY DEF CleanUp
<1>5. \/ Becomes(s, [call[s] EXCEPT !.pc = "cleanupSync", !.result = kept])
      \/ Becomes(s, [call[s] EXCEPT !.pc = "unlock", !.result = kept])
      \/ Becomes(s, [call[s] EXCEPT !.pc = "unlock", !.result = joined])
  BY <1>3, <1>4, GotoResult
<1>6. present \in BOOLEAN /\ name \in Mine(s)
  BY Names
<1> HIDE DEF present
<1>7. Quiet(s) /\ dir'[Temp(s)] \in {dir[Temp(s)], None}
  <2>1. CASE UNCHANGED files
    BY <1>3, <2>1, UnchangedQuiet
  <2>2. ASSUME NEW acked \in BOOLEAN, Try(Removed(name), present, acked)
        PROVE  Quiet(s) /\ dir'[Temp(s)] \in {dir[Temp(s)], None}
    BY <1>3, <1>6, <2>2, RemovedOne
  <2> QED
    BY <1>4, <2>1, <2>2
<1>8. kept \in {call[s].result, Joined(call[s].result)} /\ joined \in {call[s].result, Joined(call[s].result)}
  OBVIOUS
<1> HIDE DEF kept, joined
<1> QED
  BY <1>2, <1>5, <1>7, <1>8, ClosingOutcome

LEMMA SyncCleanUpOutcome ==
    ASSUME IInv, NEW s \in Caller, UNCHANGED others, SyncCleanUp(s)
    PROVE  Outcome(s)
<1>1. "cleanupSync" \in Working
  BY DEF Working
<1>2. At(s, "cleanupSync")
  BY DEF SyncCleanUp
<1>3. TypeOK /\ call[s] \in CallState
  BY <1>1, <1>2, AtWork
<1>4. PICK ok \in BOOLEAN :
        /\ Sync(ok)
        /\ Becomes(s, [call[s] EXCEPT !.pc = "unlock", !.result = IF ok THEN @ ELSE Joined(@)])
  BY DEF SyncCleanUp
<1> DEFINE result == IF ok THEN call[s].result ELSE Joined(call[s].result)
<1>5. Quiet(s) /\ dir' = dir
  BY <1>3, <1>4, SyncQuiet
<1>6. result \in {call[s].result, Joined(call[s].result)}
  OBVIOUS
<1>7. Becomes(s, [call[s] EXCEPT !.pc = "unlock", !.result = result])
  BY <1>3, <1>4 DEF CallState
<1> HIDE DEF result
<1> QED
  BY <1>2, <1>5, <1>6, <1>7, ClosingOutcome

-----------------------------------------------------------------------------
(* The invariant: the steps of the calls *)

LEMMA InsideOutcome ==
    ASSUME IInv, NEW s \in Caller, UNCHANGED others, Inside(s)
    PROVE  Outcome(s) /\ call[s].pc \in Working
<1>1. call[s].pc \in Working
  BY DEF Inside, At, Working, Stage, Validate, MoveAside, LinkNew, RenameNew, Unstage, SyncPutBack,
     ExchangeAtomically, Inspect, LinkDisplaced, SyncLinked, Unlink, SyncUnlinked, Install,
     ConfirmInstalled, SyncInstalled, Relink, SyncRelinked, Restore, ConfirmRestored, SyncRestored,
     DiscardBack, SyncDiscardedBack, Confirm, SyncCommit, Discard, SyncDiscarded, CleanUp, SyncCleanUp
<1> QED
  BY <1>1, StageOutcome, ValidateOutcome, MoveAsideOutcome, LinkNewOutcome, RenameNewOutcome,
     UnstageOutcome, SyncPutBackOutcome, ExchangeAtomicallyOutcome, InspectOutcome,
     LinkDisplacedOutcome, SyncLinkedOutcome, UnlinkOutcome, SyncUnlinkedOutcome, InstallOutcome,
     ConfirmInstalledOutcome, SyncInstalledOutcome, RelinkOutcome, SyncRelinkedOutcome,
     RestoreOutcome, ConfirmRestoredOutcome, SyncRestoredOutcome, DiscardBackOutcome,
     SyncDiscardedBackOutcome, ConfirmOutcome, SyncCommitOutcome, DiscardOutcome,
     SyncDiscardedOutcome, CleanUpOutcome, SyncCleanUpOutcome DEF Inside

\* What a call replaced is not what another stages.
LEMMA ExpectedOver ==
    ASSUME IInv, NEW t \in Caller, NEW s \in Caller, call[s].pc \in Working
    PROVE  call[t].expected # s
<1>1. call[s].pc \notin {"done", "dead"}
  BY DEF Working
<1> QED
  BY <1>1 DEF IInv, Spent

LEMMA OutcomeTold ==
    ASSUME IInv, NEW s \in Caller, UNCHANGED others, call[s].pc \in Working, Outcome(s),
           NEW t \in Caller, t # s
    PROVE  Told(t)'
<1>1. /\ TypeOK /\ Told(t) /\ Apart
      /\ Touches(s, Own(s)) /\ (Missing(None) /\ call[s].kind # "delete" => Missing(None)')
      /\ call'[t] = call[t] /\ call'[s].kind = call[s].kind /\ removed' = removed
      /\ \A u \in Caller \ {s} : call'[u] = call[u]
  BY DEF IInv, Outcome, Effect, others
<1>2. \A n \in Mine(t) : n \notin Own(s)
  BY NamesApart
<1>3. Own(s) \subseteq Name /\ Target \in Name /\ dir \in images
  BY <1>1, Names DEF TypeOK
<1>4. Hidden(t) => Hidden(t)'
  <2>1. ASSUME Hidden(t), NEW d \in images', NEW n \in Name, d[n] = t
        PROVE  n \in Mine(t)
    <3>1. CASE \E e \in images : d[n] = e[n]
      BY <2>1, <3>1 DEF Hidden
    <3>2. CASE d[n] \in {None, s}
      BY <2>1, <3>2, NoneGeneration
    <3>3. CASE \E m \in Own(s) : d[n] = dir[m]
      BY <1>2, <1>3, <2>1, <3>3 DEF Hidden
    <3> QED
      BY <1>1, <2>1, <3>1, <3>2, <3>3 DEF Touches
  <2> QED
    BY <2>1 DEF Hidden
<1> DEFINE g == call[t].expected
<1>5. call[t].result \in {"committed", "deleted"} /\ g # None => \A d \in images' : d[Target] # g
  <2>1. SUFFICES ASSUME call[t].result \in {"committed", "deleted"}, g # None, NEW d \in images'
                 PROVE  d[Target] # g
    OBVIOUS
  <2>2. Missing(g)
    BY <1>1, <2>1 DEF Told
  <2>3. g # s
    BY ExpectedOver
  <2>4. \A m \in Mine(s) : dir[m] # g
    BY <1>1, <1>3, <2>1 DEF Apart
  <2>5. \A m \in Own(s) : dir[m] # g
    BY <1>3, <2>2, <2>4 DEF Own, Missing
  <2> QED
    BY <1>1, <1>3, <2>1, <2>2, <2>3, <2>5 DEF Touches, Missing
<1>6. Deleting => Deleting'
  BY <1>1 DEF Deleting
<1>7. Missing(None) => Missing(None)' \/ Deleting'
  BY <1>1 DEF Deleting
<1>8. call'[t].expected = g
  BY <1>1
<1> QED
  BY <1>1, <1>4, <1>5, <1>6, <1>7, <1>8 DEF Told, Missing

LEMMA OutcomeKeeps ==
    ASSUME IInv, NEW s \in Caller, UNCHANGED others, UNCHANGED lock, call[s].pc \in Working, Outcome(s)
    PROVE  IInv'
<1>1. /\ TypeOK /\ Fresh /\ Spent /\ Kept /\ Apart
      /\ Touches(s, Own(s)) /\ faults' \in 0..MaxFaults
      /\ (Missing(None) /\ call[s].kind # "delete" => Missing(None)')
      /\ call' \in [Caller -> CallState] /\ \A t \in Caller \ {s} : call'[t] = call[t]
      /\ call'[s].pc \in Working /\ Ready(s)' /\ Told(s)'
      /\ call'[s].kind = call[s].kind /\ call'[s].expected = call[s].expected
  BY DEF IInv, Outcome, Effect
<1>2. /\ atomic' = atomic /\ data' = data /\ arrived' = arrived /\ removed' = removed
      /\ theirs' = theirs /\ crashes' = crashes /\ lock' = lock
  BY DEF others
<1>3. /\ call'[s].pc \notin {"idle", "done", "dead"} /\ call[s].pc \notin {"idle", "done", "dead"}
      /\ lock = s
  BY <1>1 DEF Working, TypeOK
<1>4. TypeOK'
  <2>1. dir' \in Directory /\ images' \subseteq Directory /\ dir' \in images'
    BY <1>1 DEF Touches
  <2>2. \A t \in Caller : call'[t].pc \in Working <=> lock' = t
    BY <1>1, <1>2, <1>3 DEF TypeOK
  <2> QED
    BY <1>1, <1>2, <2>1, <2>2 DEF TypeOK
<1>5. Own(s) \subseteq Name /\ Target \in Name /\ Target \in Own(s) /\ dir \in images
  BY <1>1, Names DEF TypeOK
<1>6. Fresh'
  <2>1. ASSUME NEW t \in Caller \ {s}, call[t].pc = "idle", NEW d \in images', NEW n \in Name
        PROVE  d[n] # t /\ (n \in Mine(t) => d[n] = None)
    <3>1. \A e \in images, m \in Name : e[m] # t /\ (m \in Mine(t) => e[m] = None)
      BY <1>1, <2>1, Names DEF Fresh
    <3>2. n \in Mine(t) => n \notin Own(s)
      BY NamesApart
    <3>3. \A m \in Own(s) : dir[m] # t
      BY <1>5, <3>1
    <3> QED
      BY <1>1, <3>1, <3>2, <3>3, NoneGeneration DEF Touches
  <2>2. \A t \in Caller : Mine(t) \subseteq Name
    BY Names
  <2> QED
    BY <1>1, <1>3, <2>1, <2>2 DEF Fresh
<1>7. Spent'
  <2>1. ASSUME NEW d \in images', NEW n \in Name, d[n] \in Foreign
        PROVE  d[n] \in arrived
    <3>1. d[n] \notin {None, s}
      BY <2>1, FileSaveAssumption
    <3> QED
      BY <1>1, <1>5, <2>1, <3>1 DEF Touches, Spent
  <2>2. ASSUME NEW t \in Caller, call'[t].expected \in Caller
        PROVE  call'[call'[t].expected].pc \in {"done", "dead"}
    <3>1. call'[t].expected = call[t].expected
      BY <1>1
    <3>2. call[call[t].expected].pc \in {"done", "dead"}
      BY <1>1, <2>2, <3>1 DEF Spent
    <3>3. call[t].expected # s
      BY <1>3, <3>2
    <3> QED
      BY <1>1, <2>2, <3>1, <3>2, <3>3
  <2>3. \A t \in Caller : call'[t].expected = call[t].expected
    BY <1>1
  <2> QED
    BY <1>1, <1>2, <2>1, <2>2, <2>3 DEF Spent
<1>8. Kept'
  <2>1. Deleting => Deleting'
    BY <1>1 DEF Deleting
  <2>2. call[s].kind = "delete" => Deleting'
    BY <1>1 DEF Deleting
  <2>3. CASE removed \/ Deleting \/ Missing(None)
    BY <1>1, <1>2, <2>1, <2>2, <2>3 DEF Kept
  <2>4. CASE call'[s].result = "committed"
    BY <1>1, <1>2, <2>4 DEF Told, Kept
  <2>5. CASE /\ \A d \in images, n \in Name : d[n] # Original
             /\ \A t \in Caller : call[t].expected # Original /\ call[t].result # "committed"
             /\ call'[s].result # "committed"
    <3>1. Original \notin {None, s}
      BY FileSaveAssumption
    <3>2. \A d \in images', n \in Name : d[n] # Original
      BY <1>1, <1>5, <2>5, <3>1 DEF Touches
    <3> QED
      BY <1>1, <2>5, <3>2 DEF Kept
  <2> QED
    BY <1>1, <2>3, <2>4, <2>5 DEF Kept
<1>9. Apart'
  <2>1. SUFFICES ASSUME NEW a \in Caller, NEW t \in Caller, t # a, call'[a].result \in {"committed", "deleted"},
                        call'[a].expected # None, call'[t].pc \in Working,
                        NEW d \in images', NEW n \in Mine(t)
                 PROVE  d[n] # call'[a].expected
    BY DEF Apart
  <2>2. t = s /\ call'[a] = call[a]
    BY <1>1, <1>3, <2>1 DEF TypeOK
  <2> DEFINE g == call[a].expected
  <2>3. \A e \in images, m \in Mine(s) : e[m] # g
    BY <1>1, <1>3, <2>1, <2>2 DEF Apart
  <2>4. Missing(g)
    BY <2>1, <2>2 DEF IInv, Told
  <2>5. g # s
    BY ExpectedOver
  <2>6. \A m \in Own(s) : dir[m] # g
    BY <1>5, <2>3, <2>4 DEF Own, Missing
  <2>7. n \in Mine(s) /\ n \in Name
    BY <2>1, <2>2, Names
  <2>8. g # None /\ call'[a].expected = g
    BY <2>1, <2>2
  <2> HIDE DEF g
  <2> QED
    BY <1>1, <2>3, <2>5, <2>6, <2>7, <2>8 DEF Touches
<1>10. \A t \in Caller : Told(t)'
  BY <1>1, OutcomeTold
<1>11. \A t \in Caller : call'[t].pc \in Working => Ready(t)'
  BY <1>1, <1>3 DEF TypeOK
<1> QED
  BY <1>4, <1>6, <1>7, <1>8, <1>9, <1>10, <1>11 DEF IInv


LEMMA ReadKeeps ==
    ASSUME IInv, NEW s \in Caller, UNCHANGED others, UNCHANGED lock, Read(s)
    PROVE  IInv'
<1> DEFINE want == DataOf(dir[Target])
           c == [call[s] EXCEPT !.want = want]
<1>1. TypeOK /\ Fresh /\ Spent /\ Kept /\ Apart /\ \A t \in Caller : Told(t)
  BY DEF IInv
<1>2. dir' = dir /\ images' = images /\ faults' = faults /\ call[s].pc = "idle" /\ Becomes(s, c)
  BY DEF Read, files, At
<1>3. want \in Generation \cup {None} /\ call[s] \in CallState
  BY <1>1, Names DEF TypeOK, Directory, DataOf, Generation
<1> HIDE DEF want
<1>4. /\ c \in CallState /\ c.pc = "idle" /\ c.kind = call[s].kind /\ c.expected = call[s].expected
      /\ c.result = call[s].result
  <2>1. c \in CallState
    BY <1>2, <1>3 DEF CallState
  <2>2. /\ c.pc = "idle" /\ c.kind = call[s].kind /\ c.expected = call[s].expected
        /\ c.result = call[s].result
    BY <1>2, <1>3 DEF CallState
  <2> QED
    BY <2>1, <2>2
<1> HIDE DEF c
<1>5. call' \in [Caller -> CallState] /\ call'[s] = c /\ \A t \in Caller \ {s} : call'[t] = call[t]
  BY <1>1, <1>2, <1>4, CallBecomes
<1>6. /\ \A t \in Caller : /\ call'[t].pc = call[t].pc /\ call'[t].kind = call[t].kind
                           /\ call'[t].expected = call[t].expected /\ call'[t].result = call[t].result
      /\ "idle" \notin Working
  BY <1>2, <1>4, <1>5 DEF Working
<1>7. TypeOK'
  BY <1>1, <1>2, <1>5, <1>6 DEF TypeOK, others
<1>8. Fresh' /\ Spent' /\ Apart'
  BY <1>1, <1>2, <1>6 DEF Fresh, Spent, Apart, others
<1>9. Deleting' <=> Deleting
  BY <1>6 DEF Deleting
<1>10. Kept' /\ \A t \in Caller : Told(t)'
  BY <1>1, <1>2, <1>6, <1>9 DEF Kept, Told, Missing, Hidden, others
<1>11. \A t \in Caller : call'[t].pc \in Working => Ready(t)'
  <2>1. SUFFICES ASSUME NEW t \in Caller, call'[t].pc \in Working
                 PROVE  Ready(t)'
    OBVIOUS
  <2>2. call'[t] = call[t] /\ Ready(t)
    BY <1>2, <1>5, <1>6, <2>1 DEF IInv
  <2>3. Named(t)' /\ Held(t)' /\ Displaced(t)' /\ Unexposed(t)' /\ Reported(t)'
    BY <1>2, <2>2 DEF Ready, Named, Held, Displaced, Unexposed, Reported, Hidden, others
  <2>4. Sparing(t)' /\ Confined(t)'
    BY <1>2, <2>2 DEF Ready, Sparing, Doubled, Confined, others
  <2> QED
    BY <2>3, <2>4 DEF Ready
<1> QED
  BY <1>7, <1>8, <1>10, <1>11 DEF IInv

\* What a call is when it has its lock.
LEMMA CaptureFields ==
    ASSUME IInv, NEW s \in Caller, NEW kind \in Kind, Capture(s, kind)
    PROVE  /\ call' \in [Caller -> CallState] /\ \A t \in Caller \ {s} : call'[t] = call[t]
           /\ call'[s].kind = kind /\ call'[s].expected = dir[Target]
           /\ call'[s].leg = "out" /\ call'[s].old = None
           /\ \/ call'[s].pc = "unlock" /\ call'[s].result \in {"exists", "rolledBack", "unchanged", "absent"}
                 /\ call'[s].owned = FALSE
              \/ call'[s].pc = "stage" /\ call'[s].result = "nil" /\ kind # "delete"
              \/ call'[s].pc = "move" /\ call'[s].result = "nil" /\ kind = "delete" /\ dir[Target] # None
                 /\ call'[s].owned = FALSE
<1> DEFINE c == [NoCall EXCEPT !.kind = kind, !.expected = dir[Target]]
           Ends(result) == Becomes(s, [c EXCEPT !.pc = "unlock", !.result = result])
<1>1. TypeOK
  BY DEF IInv
<1>2. /\ c \in CallState /\ c.kind = kind /\ c.expected = dir[Target] /\ c.leg = "out" /\ c.old = None
      /\ c.owned = FALSE /\ c.result = "nil"
  <2>1. dir[Target] \in Generation \cup {None}
    BY <1>1, Names DEF TypeOK, Directory
  <2>2. "idle" \in Idle /\ "nil" \in Result /\ "save" \in Kind
    BY DEF Idle, Result, Kind
  <2> QED
    BY <2>1, <2>2 DEF CallState, NoCall
<1>3. "unlock" \in Working /\ "stage" \in Working /\ "move" \in Working
  BY DEF Working
<1>4. \/ \E result \in {"exists", "rolledBack", "unchanged", "absent"} : Ends(result)
      \/ kind # "delete" /\ Becomes(s, [c EXCEPT !.pc = "stage", !.owned = TRUE])
      \/ kind = "delete" /\ dir[Target] # None /\ Becomes(s, [c EXCEPT !.pc = "move"])
  BY DEF Capture
<1> HIDE DEF c
<1>5. ASSUME NEW result \in {"exists", "rolledBack", "unchanged", "absent"}, Ends(result)
      PROVE  /\ call' \in [Caller -> CallState] /\ \A t \in Caller \ {s} : call'[t] = call[t]
             /\ call'[s].kind = kind /\ call'[s].expected = dir[Target]
             /\ call'[s].leg = "out" /\ call'[s].old = None
             /\ call'[s].pc = "unlock" /\ call'[s].result = result /\ call'[s].owned = FALSE
  <2> DEFINE e == [c EXCEPT !.pc = "unlock", !.result = result]
  <2>1. /\ e \in CallState /\ e.kind = kind /\ e.expected = dir[Target] /\ e.leg = "out" /\ e.old = None
        /\ e.pc = "unlock" /\ e.result = result /\ e.owned = FALSE
    <3>1. e \in CallState
      <4>1. result \in Result /\ "unlock" \in Working
        BY <1>3 DEF Result
      <4> QED
        BY <1>2, <4>1, CallChanged
    <3>2. /\ e.kind = kind /\ e.expected = dir[Target] /\ e.leg = "out" /\ e.old = None
          /\ e.pc = "unlock" /\ e.result = result /\ e.owned = FALSE
      BY <1>2, <1>3 DEF CallState, Result
    <3> QED
      BY <3>1, <3>2
  <2>2. Becomes(s, e)
    BY <1>5
  <2> HIDE DEF e
  <2> QED
    BY <1>1, <2>1, <2>2, CallBecomes
<1>6. ASSUME Becomes(s, [c EXCEPT !.pc = "stage", !.owned = TRUE])
      PROVE  /\ call' \in [Caller -> CallState] /\ \A t \in Caller \ {s} : call'[t] = call[t]
             /\ call'[s].kind = kind /\ call'[s].expected = dir[Target]
             /\ call'[s].leg = "out" /\ call'[s].old = None
             /\ call'[s].pc = "stage" /\ call'[s].result = "nil"
  <2> DEFINE e == [c EXCEPT !.pc = "stage", !.owned = TRUE]
  <2>1. /\ e \in CallState /\ e.kind = kind /\ e.expected = dir[Target] /\ e.leg = "out" /\ e.old = None
        /\ e.pc = "stage" /\ e.result = "nil"
    <3>1. e \in CallState
      BY <1>2, <1>3, CallOwns
    <3>2. /\ e.kind = kind /\ e.expected = dir[Target] /\ e.leg = "out" /\ e.old = None
          /\ e.pc = "stage" /\ e.result = "nil"
      BY <1>2, <1>3 DEF CallState
    <3> QED
      BY <3>1, <3>2
  <2>2. Becomes(s, e)
    BY <1>6
  <2> HIDE DEF e
  <2> QED
    BY <1>1, <2>1, <2>2, CallBecomes
<1>7. ASSUME Becomes(s, [c EXCEPT !.pc = "move"])
      PROVE  /\ call' \in [Caller -> CallState] /\ \A t \in Caller \ {s} : call'[t] = call[t]
             /\ call'[s].kind = kind /\ call'[s].expected = dir[Target]
             /\ call'[s].leg = "out" /\ call'[s].old = None
             /\ call'[s].pc = "move" /\ call'[s].result = "nil" /\ call'[s].owned = FALSE
  <2> DEFINE e == [c EXCEPT !.pc = "move"]
  <2>1. /\ e \in CallState /\ e.kind = kind /\ e.expected = dir[Target] /\ e.leg = "out" /\ e.old = None
        /\ e.pc = "move" /\ e.result = "nil" /\ e.owned = FALSE
    <3>1. e \in CallState
      BY <1>2, <1>3 DEF CallState
    <3>2. /\ e.kind = kind /\ e.expected = dir[Target] /\ e.leg = "out" /\ e.old = None
          /\ e.pc = "move" /\ e.result = "nil" /\ e.owned = FALSE
      BY <1>2, <1>3 DEF CallState
    <3> QED
      BY <3>1, <3>2
  <2>2. Becomes(s, e)
    BY <1>7
  <2> HIDE DEF e
  <2> QED
    BY <1>1, <2>1, <2>2, CallBecomes
<1> HIDE DEF Ends
<1>8. CASE \E result \in {"exists", "rolledBack", "unchanged", "absent"} : Ends(result)
  BY <1>5, <1>8
<1>9. CASE kind # "delete" /\ Becomes(s, [c EXCEPT !.pc = "stage", !.owned = TRUE])
  BY <1>6, <1>9
<1>10. CASE kind = "delete" /\ dir[Target] # None /\ Becomes(s, [c EXCEPT !.pc = "move"])
  BY <1>7, <1>10
<1> QED
  BY <1>4, <1>8, <1>9, <1>10

LEMMA CaptureKeeps ==
    ASSUME IInv, NEW s \in Caller, UNCHANGED others, NEW kind \in Kind, Capture(s, kind)
    PROVE  IInv'
<1>1. TypeOK /\ Fresh /\ Spent /\ Kept /\ Apart /\ \A t \in Caller : Told(t)
  BY DEF IInv
<1>2. /\ dir' = dir /\ images' = images /\ faults' = faults /\ call[s].pc = "idle"
      /\ lock = None /\ lock' = s
  BY DEF Capture, files, At
<1>3. /\ call' \in [Caller -> CallState] /\ \A t \in Caller \ {s} : call'[t] = call[t]
      /\ call'[s].kind = kind /\ call'[s].expected = dir[Target]
      /\ call'[s].leg = "out" /\ call'[s].old = None
      /\ \/ call'[s].pc = "unlock" /\ call'[s].result \in {"exists", "rolledBack", "unchanged", "absent"}
            /\ call'[s].owned = FALSE
         \/ call'[s].pc = "stage" /\ call'[s].result = "nil" /\ kind # "delete"
         \/ call'[s].pc = "move" /\ call'[s].result = "nil" /\ kind = "delete" /\ dir[Target] # None
            /\ call'[s].owned = FALSE
  BY CaptureFields
<1>4. /\ call[s].expected = None /\ call[s].kind # "delete"
      /\ \A d \in images, n \in Name : d[n] # s
      /\ \A d \in images, n \in Mine(s) : d[n] = None
      /\ dir \in images /\ Target \in Name /\ call[s].result = "nil"
  BY <1>1, <1>2, Names DEF Fresh, TypeOK
<1>5. \A t \in Caller : call[t].pc \notin Working
  BY <1>1, <1>2, NoneGeneration DEF TypeOK
<1>6. call'[s].pc \in Working
  BY <1>3 DEF Working
<1>7. TypeOK'
  BY <1>1, <1>2, <1>3, <1>5, <1>6 DEF TypeOK, others
<1>8. Fresh'
  BY <1>1, <1>2, <1>3 DEF Fresh
<1>9. Spent'
  <2>1. dir[Target] \in Foreign => dir[Target] \in arrived
    BY <1>1, <1>4 DEF Spent
  <2>2. ASSUME dir[Target] \in Caller
        PROVE  dir[Target] # s /\ call'[dir[Target]].pc \in {"done", "dead"}
    <3>1. dir[Target] # s /\ call[dir[Target]].pc # "idle"
      BY <1>1, <1>4, <2>2 DEF Fresh
    <3>2. call[dir[Target]].pc \in Idle
      BY <1>1, <1>5, <2>2 DEF TypeOK, CallState
    <3> QED
      BY <1>3, <2>2, <3>1, <3>2 DEF Idle
  <2>3. ASSUME NEW t \in Caller \ {s}, call[t].expected \in Caller
        PROVE  call'[call[t].expected].pc \in {"done", "dead"}
    <3>1. call[call[t].expected].pc \in {"done", "dead"}
      BY <1>1, <2>3 DEF Spent
    <3> QED
      BY <1>2, <1>3, <2>3, <3>1
  <2>4. \A t \in Caller \ {s} : call[t].expected \in Foreign => call[t].expected \in arrived
    BY <1>1 DEF Spent
  <2>5. /\ \A d \in images, n \in Name : d[n] \in Foreign => d[n] \in arrived
        /\ theirs \in Foreign => theirs \in arrived
    BY <1>1 DEF Spent
  <2>6. \A t \in Caller : \/ call'[t].expected = dir[Target]
                          \/ t # s /\ call'[t].expected = call[t].expected
    BY <1>3
  <2>7. arrived' = arrived /\ theirs' = theirs
    BY DEF others
  <2> QED
    BY <1>2, <2>1, <2>2, <2>3, <2>4, <2>5, <2>6, <2>7 DEF Spent
<1>10. Deleting => Deleting'
  BY <1>3, <1>4 DEF Deleting
<1>11. Kept'
  <2>1. removed' = removed
    BY DEF others
  <2>2. CASE removed \/ Deleting \/ Missing(None)
    BY <1>2, <1>10, <2>1, <2>2 DEF Kept, Missing
  <2>3. CASE /\ \A d \in images, n \in Name : d[n] # Original
             /\ \A t \in Caller : call[t].expected # Original /\ call[t].result # "committed"
    BY <1>2, <1>3, <1>4, <2>3 DEF Kept
  <2> QED
    BY <1>1, <2>2, <2>3 DEF Kept
<1>12. Apart'
  BY <1>1, <1>2, <1>3, <1>4, <1>5 DEF Apart
<1>13. \A t \in Caller : Told(t)'
  <2>1. Told(s)'
    BY <1>2, <1>3, <1>4 DEF Told, Hidden
  <2>2. ASSUME NEW t \in Caller \ {s}
        PROVE  Told(t)'
    BY <1>1, <1>2, <1>3, <1>10, <2>2 DEF Told, Hidden, Missing, others
  <2> QED
    BY <2>1, <2>2
<1>14. Ready(s)'
  <2>1. Temp(s) \in Mine(s) /\ Aside(s) \in Mine(s)
    BY Names
  <2>2. Named(s)' /\ Held(s)' /\ Displaced(s)'
    BY <1>3 DEF Named, Held, Displaced, Fallback
  <2>3. Hidden(s)' /\ Confined(s)'
    BY <1>2, <1>4 DEF Hidden, Confined
  <2>4. Unexposed(s)' /\ Reported(s)'
    BY <1>3, <2>3 DEF Unexposed, Reported, Silent
  <2>5. Sparing(s)'
    BY <1>2, <1>3, <1>4, <2>1 DEF Sparing, Fallback
  <2> QED
    BY <2>2, <2>3, <2>4, <2>5 DEF Ready
<1>15. \A t \in Caller : call'[t].pc \in Working => Ready(t)'
  BY <1>3, <1>5, <1>14
<1> QED
  BY <1>7, <1>8, <1>9, <1>11, <1>12, <1>13, <1>15 DEF IInv

LEMMA UnlockKeeps ==
    ASSUME IInv, NEW s \in Caller, UNCHANGED others, Unlock(s)
    PROVE  IInv'
<1>1. TypeOK /\ Fresh /\ Spent /\ Kept /\ Apart /\ \A t \in Caller : Told(t)
  BY DEF IInv
<1>2. dir' = dir /\ images' = images /\ call[s].pc = "unlock" /\ lock' = None
  BY DEF Unlock, At
<1>3. faults' \in 0..MaxFaults
  BY <1>1, FileSaveAssumption DEF Unlock, Fault, TypeOK
<1>4. PICK result \in {call[s].result, Joined(call[s].result)} :
        Becomes(s, [NoCall EXCEPT
            !.pc = "done", !.kind = call[s].kind, !.expected = call[s].expected,
            !.result = result])
  BY DEF Unlock
<1> DEFINE c == [NoCall EXCEPT
            !.pc = "done", !.kind = call[s].kind, !.expected = call[s].expected,
            !.result = result]
<1>5. /\ c \in CallState /\ c.pc = "done" /\ c.kind = call[s].kind /\ c.expected = call[s].expected
      /\ c.result = result
  <2>1. call[s] \in CallState
    BY <1>1 DEF TypeOK
  <2>2. result \in Result
    BY <1>4, <2>1 DEF CallState, Joined, Result
  <2>3. "done" \in Idle
    BY DEF Idle
  <2>4. NoCall \in CallState
    BY DEF NoCall, CallState, Idle, Result, Kind
  <2>5. c \in CallState
    <3>1. call[s].kind \in Kind /\ call[s].expected \in Generation \cup {None}
      BY <2>1 DEF CallState
    <3> QED
      BY <2>2, <2>3, <2>4, <3>1, CallChanged
  <2>6. /\ c.pc = "done" /\ c.kind = call[s].kind /\ c.expected = call[s].expected
        /\ c.result = result
    BY DEF NoCall
  <2> QED
    BY <2>5, <2>6
<1>6. Becomes(s, c)
  BY <1>4
<1> HIDE DEF c
<1>7. call' \in [Caller -> CallState] /\ call'[s] = c /\ \A t \in Caller \ {s} : call'[t] = call[t]
  BY <1>1, <1>5, <1>6, CallBecomes
<1>8. "done" \notin Working /\ "unlock" \in Working
  BY DEF Working
<1>9. \A t \in Caller : call'[t].pc \notin Working
  BY <1>1, <1>2, <1>5, <1>7, <1>8 DEF TypeOK
<1>10. TypeOK'
  BY <1>1, <1>2, <1>3, <1>7, <1>9, NoneGeneration DEF TypeOK, others
<1>11. Fresh'
  BY <1>1, <1>2, <1>5, <1>7 DEF Fresh
<1>12. \A t \in Caller : call'[t].expected = call[t].expected /\ call'[t].kind = call[t].kind
  BY <1>5, <1>7
<1>13. Spent'
  <2>1. ASSUME NEW t \in Caller, call[t].expected \in Caller
        PROVE  call'[call[t].expected].pc \in {"done", "dead"}
    <3>1. call[call[t].expected].pc \in {"done", "dead"}
      BY <1>1, <2>1 DEF Spent
    <3> QED
      BY <1>5, <1>7, <2>1, <3>1
  <2> QED
    BY <1>1, <1>2, <1>12, <2>1 DEF Spent, others
<1>14. Deleting => Deleting'
  BY <1>12 DEF Deleting
<1>15. call'[s].result = "committed" => call[s].result = "committed"
  BY <1>4, <1>5, <1>7 DEF Joined
<1>16. Kept'
  BY <1>1, <1>2, <1>7, <1>12, <1>14, <1>15 DEF Kept, Missing, others
<1>17. Apart'
  BY <1>9 DEF Apart
<1>18. Told(s)'
  <2>1. Touches(s, Mine(s))
    BY <1>1, <1>2, UntouchedTouches
  <2>2. Quiet(s)
    BY <1>3, <2>1 DEF Quiet
  <2> QED
    BY <1>1, <1>4, <1>5, <1>7, <2>2, ToldStays
<1>19. \A t \in Caller \ {s} : Told(t)'
  BY <1>1, <1>2, <1>7, <1>14 DEF Told, Hidden, Missing, others
<1> QED
  BY <1>9, <1>10, <1>11, <1>13, <1>16, <1>17, <1>18, <1>19 DEF IInv

-----------------------------------------------------------------------------
(* The invariant: the other program, and crashes *)

\* What a write at the target by the other program leaves.
LEMMA WrittenOutside ==
    ASSUME TypeOK, NEW x \in Generation \cup {None},
           NEW change, DOMAIN change = {Target}, change[Target] = x, Apply(change)
    PROVE  /\ dir' \in Directory /\ images' \subseteq Directory /\ dir' \in images'
           /\ dir'[Target] = x /\ \A n \in Name \ {Target} : dir'[n] = dir[n]
           /\ \A d \in images' : \E e \in images :
                 /\ \A n \in Name \ {Target} : d[n] = e[n]
                 /\ d[Target] \in {e[Target], x}
           /\ Missing(None) /\ x # None => Missing(None)'
<1>1. /\ dir \in images /\ images \subseteq Directory /\ Target \in Name
      /\ dir' = With(dir, change) /\ images' = images \cup {With(d, change) : d \in images}
  BY DEF TypeOK, Apply, Name
<1>2. \A d \in images : With(d, change) \in Directory
  BY <1>1 DEF With, Directory
<1>3. \A d : With(d, change)[Target] = x /\ \A n \in Name \ {Target} : With(d, change)[n] = d[n]
  BY <1>1, WithWritten
<1>4. \A d \in images' : \E e \in images :
         /\ \A n \in Name \ {Target} : d[n] = e[n]
         /\ d[Target] \in {e[Target], x}
  BY <1>1, <1>3
<1>5. Missing(None) /\ x # None => Missing(None)'
  BY <1>4 DEF Missing
<1>6. dir' \in images' /\ images' \subseteq Directory
  BY <1>1, <1>2
<1> QED
  BY <1>1, <1>3, <1>4, <1>5, <1>6

\* The other program leaves x at the target: nothing, or a generation that was
\* never there.
LEMMA OutsideKeeps ==
    ASSUME IInv, NEW x \in Foreign \cup {None}, x \notin arrived,
           NEW change, DOMAIN change = {Target}, change[Target] = x, Apply(change),
           arrived' = arrived \cup ({x} \ {None}), theirs' = x,
           removed' \in BOOLEAN, removed => removed', x = None => removed',
           UNCHANGED <<atomic, data, lock, call, faults, crashes>>
    PROVE  IInv'
<1>1. TypeOK /\ Fresh /\ Spent /\ Kept /\ Apart /\ \A t \in Caller : Told(t)
  BY DEF IInv
<1>2. x \in Generation \cup {None} /\ x \notin Caller /\ x # Original
  BY FileSaveAssumption DEF Generation
<1>3. /\ dir' \in Directory /\ images' \subseteq Directory /\ dir' \in images'
      /\ dir'[Target] = x /\ \A n \in Name \ {Target} : dir'[n] = dir[n]
      /\ \A d \in images' : \E e \in images :
            /\ \A n \in Name \ {Target} : d[n] = e[n]
            /\ d[Target] \in {e[Target], x}
      /\ Missing(None) /\ x # None => Missing(None)'
  BY <1>1, <1>2, WrittenOutside
<1>4. Target \in Name /\ \A t \in Caller : Mine(t) \subseteq Name /\ Target \notin Mine(t)
  BY Names DEF Name
<1>5. TypeOK'
  BY <1>1, <1>3, FileSaveAssumption DEF TypeOK
<1>6. \A d \in images', n \in Name : \/ \E e \in images : d[n] = e[n]
                                     \/ n = Target /\ d[n] = x
  BY <1>3
<1>7. \A t \in Caller : \A d \in images', n \in Mine(t) : \E e \in images : d[n] = e[n]
  BY <1>3, <1>4
<1>8. Fresh'
  BY <1>1, <1>2, <1>4, <1>6, <1>7 DEF Fresh
<1>9. Spent'
  <2>1. /\ \A d \in images, n \in Name : d[n] \in Foreign => d[n] \in arrived
        /\ \A t \in Caller : /\ call[t].expected \in Foreign => call[t].expected \in arrived
                             /\ call[t].expected \in Caller => call[call[t].expected].pc \in {"done", "dead"}
    BY <1>1 DEF Spent
  <2>2. x \in Foreign => x \in arrived'
    BY FileSaveAssumption
  <2>3. \A d \in images', n \in Name : d[n] \in Foreign => d[n] \in arrived'
    BY <1>6, <2>1, <2>2
  <2> QED
    BY <2>1, <2>2, <2>3 DEF Spent
<1>10. Deleting' <=> Deleting
  BY DEF Deleting
<1>11. Kept'
  <2>1. CASE x = None \/ removed \/ Deleting \/ Missing(None)
    BY <1>3, <1>10, <2>1 DEF Kept
  <2>2. CASE /\ \A d \in images, n \in Name : d[n] # Original
             /\ \A t \in Caller : call[t].expected # Original /\ call[t].result # "committed"
    BY <1>2, <1>6, <2>2 DEF Kept
  <2> QED
    BY <1>1, <2>1, <2>2 DEF Kept
<1>12. Apart'
  BY <1>1, <1>7 DEF Apart
<1>13. \A t \in Caller : Hidden(t) => Hidden(t)'
  BY <1>2, <1>6 DEF Hidden
<1>14. \A t \in Caller : call[t].expected # None => x # call[t].expected
  BY <1>1 DEF Spent
<1>15. ASSUME NEW t \in Caller
       PROVE  Told(t)'
  <2>1. Told(t)
    BY <1>1
  <2>2. call[t].result \in {"committed", "deleted"} /\ call[t].expected # None =>
            \A d \in images' : d[Target] # call[t].expected
    BY <1>4, <1>6, <1>14, <2>1 DEF Told, Missing
  <2>3. call[t].result = "committed" => removed' \/ Deleting' \/ Missing(None)'
    BY <1>3, <1>10, <2>1 DEF Told
  <2> QED
    BY <1>13, <2>1, <2>2, <2>3 DEF Told, Missing
<1>16. ASSUME NEW t \in Caller, call[t].pc \in Working
       PROVE  Ready(t)'
  <2>1. Ready(t) /\ call' = call /\ atomic' = atomic
    BY <1>16 DEF IInv
  <2>2. \A n \in Mine(t) : dir'[n] = dir[n]
    BY <1>3, <1>4
  <2>3. Temp(t) \in Mine(t) /\ Aside(t) \in Mine(t) /\ t # None
    BY Names, NoneGeneration
  <2>4. Named(t)' /\ Reported(t)'
    BY <2>1 DEF Ready, Named, Reported
  <2>5. Held(t)'
    BY <2>1, <2>2, <2>3 DEF Ready, Named, Held, Fallback
  <2>6. Displaced(t)'
    BY <1>2, <1>3, <1>14, <2>1 DEF Ready, Displaced
  <2>7. Unexposed(t)'
    BY <1>13, <2>1, <2>2 DEF Ready, Named, Unexposed, Fallback
  <2>8. Confined(t)'
    BY <1>2, <1>6, <2>1 DEF Ready, Confined
  <2>9. Sparing(t)'
    <3>1. call[t].pc = "unstage" => Doubled(call[t].staged)'
      BY <1>3 DEF Doubled
    <3>2. call[t].pc = "discard" => dir'[call[t].old] = call[t].expected \/ Doubled(call[t].old)'
      BY <1>3 DEF Doubled
    <3>3. call[t].pc \in {"confirm", "commitSync"} /\ call[t].old # None => call[t].old \in Mine(t)
      BY <2>1 DEF Ready, Named
    <3>4. call[t].pc = "discardBack" => call[t].old \in Mine(t)
      BY <2>1 DEF Ready, Named
    <3> QED
      BY <2>1, <2>2, <2>3, <3>1, <3>2, <3>3, <3>4 DEF Ready, Sparing
  <2> QED
    BY <2>4, <2>5, <2>6, <2>7, <2>8, <2>9 DEF Ready
<1> QED
  BY <1>5, <1>8, <1>9, <1>11, <1>12, <1>15, <1>16 DEF IInv

LEMMA ReplaceKeeps ==
    ASSUME IInv, NEW g \in Foreign, Replace(g)
    PROVE  IInv'
<1>1. /\ DOMAIN Placed(Target, g) = {Target} /\ Placed(Target, g)[Target] = g
      /\ Apply(Placed(Target, g)) /\ g \in Foreign \cup {None} /\ g # None
  BY FileSaveAssumption DEF Placed, Replace
<1>2. /\ g \notin arrived /\ arrived' = arrived \cup ({g} \ {None}) /\ theirs' = g
      /\ removed' = removed /\ UNCHANGED <<atomic, data, lock, call, faults, crashes>>
  BY <1>1 DEF Replace
<1>3. removed \in BOOLEAN
  BY DEF IInv, TypeOK
<1> QED
  BY <1>1, <1>2, <1>3, OutsideKeeps

LEMMA RemoveKeeps ==
    ASSUME IInv, Remove
    PROVE  IInv'
<1> DEFINE x == None
<1>1. /\ DOMAIN Removed(Target) = {Target} /\ Removed(Target)[Target] = x
      /\ Apply(Removed(Target)) /\ x \in Foreign \cup {None} /\ x \notin arrived
  BY FileSaveAssumption DEF Removed, Remove, IInv, TypeOK
<1>2. /\ arrived' = arrived \cup ({x} \ {None}) /\ theirs' = x
      /\ removed' = TRUE /\ UNCHANGED <<atomic, data, lock, call, faults, crashes>>
  BY DEF Remove
<1> HIDE DEF x
<1> QED
  BY <1>1, <1>2, OutsideKeeps

LEMMA CrashKeeps ==
    ASSUME IInv, Crash
    PROVE  IInv'
<1>1. TypeOK /\ Fresh /\ Spent /\ Kept /\ Apart /\ \A t \in Caller : Told(t)
  BY DEF IInv
<1>2. /\ dir' \in images' /\ images' \subseteq images
      /\ lock' = None /\ atomic' = atomic /\ data' = data /\ arrived' = arrived
      /\ removed' = removed /\ theirs' = theirs /\ faults' = faults
      /\ crashes' \in 0..MaxCrashes
  <2>1. dir \in images /\ crashes \in 0..MaxCrashes
    BY <1>1 DEF TypeOK
  <2>2. dir' \in images' /\ images' \subseteq images
    BY <2>1 DEF Crash
  <2>3. crashes < MaxCrashes /\ crashes' = crashes + 1
    BY DEF Crash
  <2>4. crashes' \in 0..MaxCrashes
    BY <2>1, <2>3, FileSaveAssumption
  <2> QED
    BY <2>2, <2>4 DEF Crash
<1> DEFINE lost(t) == [NoCall EXCEPT !.pc = "dead", !.kind = call[t].kind, !.expected = call[t].expected]
<1>3. ASSUME NEW t \in Caller
      PROVE  /\ call'[t] \in CallState /\ call'[t].kind = call[t].kind
             /\ call'[t].expected = call[t].expected
             /\ \/ call'[t] = call[t] /\ call[t].pc \in Idle
                \/ /\ call'[t].pc = "dead" /\ call'[t].result = "nil"
                   /\ call[t].pc \notin {"idle", "done", "dead"}
  <2>1. call[t] \in CallState
    BY <1>1 DEF TypeOK
  <2>2. "dead" \in Idle /\ "nil" \in Result
    BY DEF Idle, Result
  <2>3. /\ lost(t) \in CallState /\ lost(t).pc = "dead" /\ lost(t).kind = call[t].kind
        /\ lost(t).expected = call[t].expected /\ lost(t).result = "nil"
    BY <2>1, <2>2 DEF CallState, NoCall
  <2>4. call'[t] = IF call[t].pc \in {"idle", "done", "dead"} THEN call[t] ELSE lost(t)
    BY DEF Crash
  <2> HIDE DEF lost
  <2> QED
    BY <2>1, <2>3, <2>4 DEF Idle
<1>4. call' \in [Caller -> CallState]
  <2>1. call' = [t \in Caller |-> call'[t]]
    BY DEF Crash
  <2> QED
    BY <1>3, <2>1
<1>5. \A t \in Caller : call'[t].pc \notin Working
  BY <1>3 DEF Idle, Working
<1>6. TypeOK'
  <2>1. dir' \in Directory /\ images' \subseteq Directory
    BY <1>1, <1>2 DEF TypeOK
  <2> QED
    BY <1>1, <1>2, <1>4, <1>5, <2>1, NoneGeneration DEF TypeOK
<1>7. Fresh'
  BY <1>1, <1>2, <1>3 DEF Fresh, Idle
<1>8. Spent'
  <2>1. ASSUME NEW t \in Caller, call[t].expected \in Caller
        PROVE  call'[call[t].expected].pc \in {"done", "dead"}
    BY <1>1, <1>3, <2>1 DEF Spent
  <2>2. /\ \A d \in images, n \in Name : d[n] \in Foreign => d[n] \in arrived
        /\ theirs \in Foreign => theirs \in arrived
        /\ \A t \in Caller : call[t].expected \in Foreign => call[t].expected \in arrived
    BY <1>1 DEF Spent
  <2>3. \A t \in Caller : call'[t].expected = call[t].expected
    BY <1>3
  <2> QED
    BY <1>2, <2>1, <2>2, <2>3 DEF Spent
<1>9. Deleting => Deleting'
  BY <1>3 DEF Deleting
<1>10. \A t \in Caller : call'[t].result \in {call[t].result, "nil"}
  BY <1>3
<1>11. Kept'
  <2>1. CASE removed \/ Deleting \/ Missing(None)
    BY <1>2, <1>9, <2>1 DEF Kept, Missing
  <2>2. CASE /\ \A d \in images, n \in Name : d[n] # Original
             /\ \A t \in Caller : call[t].expected # Original /\ call[t].result # "committed"
    BY <1>2, <1>3, <1>10, <2>2 DEF Kept
  <2> QED
    BY <1>1, <2>1, <2>2 DEF Kept
<1>12. Apart'
  BY <1>5 DEF Apart
<1>13. \A t \in Caller : Told(t)'
  BY <1>1, <1>2, <1>3, <1>9, <1>10 DEF Told, Hidden, Missing
<1> QED
  BY <1>5, <1>6, <1>7, <1>8, <1>11, <1>12, <1>13 DEF IInv
-----------------------------------------------------------------------------
(* The theorems *)

LEMMA InitIInv == Init => IInv
<1> SUFFICES ASSUME Init
             PROVE  IInv
  OBVIOUS
<1>1. PICK g \in {Original, None} : dir = [n \in Name |-> IF n = Target THEN g ELSE None]
  BY DEF Init
<1>2. images = {dir} /\ call = [s \in Caller |-> NoCall] /\ lock = None
  BY DEF Init
<1>3. /\ g \in Generation \cup {None} /\ g \notin Caller \cup Foreign /\ None \notin Caller \cup Foreign
      /\ Target \in Name
  BY <1>1, FileSaveAssumption DEF Generation, Name
<1>4. /\ NoCall \in CallState /\ NoCall.pc = "idle" /\ NoCall.result = "nil" /\ NoCall.expected = None
      /\ NoCall.kind = "save" /\ "idle" \notin Working
  BY DEF NoCall, CallState, Idle, Kind, Result, Working
<1> HIDE DEF NoCall
<1>5. TypeOK
  <2>1. dir \in Directory
    BY <1>1, <1>3 DEF Directory
  <2>2. data \in [Caller -> Caller] /\ atomic \in BOOLEAN
    BY DEF Init
  <2>3. call \in [Caller -> CallState] /\ \A s \in Caller : call[s].pc \in Working <=> lock = s
    BY <1>2, <1>3, <1>4
  <2>4. 0 \in 0..MaxFaults /\ 0 \in 0..MaxCrashes
    BY FileSaveAssumption
  <2> QED
    BY <1>2, <2>1, <2>2, <2>3, <2>4 DEF Init, TypeOK
<1>6. \A s \in Caller : call[s] = NoCall
  BY <1>2
<1>7. \A n \in Name : dir[n] \in {g, None} /\ (n # Target => dir[n] = None)
  BY <1>1
<1>8. Fresh
  <2>1. \A s \in Caller : Mine(s) \subseteq Name /\ Target \notin Mine(s)
    BY Names
  <2> QED
    BY <1>2, <1>3, <1>4, <1>6, <1>7, <2>1 DEF Fresh
<1>9. Spent
  <2>1. theirs = None
    BY DEF Init
  <2> QED
    BY <1>2, <1>3, <1>4, <1>6, <1>7, <2>1 DEF Spent
<1>10. Kept
  <2>1. CASE g = None
    BY <1>2, <1>4, <1>6, <1>7, <2>1, FileSaveAssumption DEF Kept
  <2>2. CASE g # None
    <3>1. dir[Target] # None
      BY <1>1, <1>3, <2>2
    <3> QED
      BY <1>2, <3>1 DEF Kept, Missing
  <2> QED
    BY <2>1, <2>2
<1>11. Apart /\ \A s \in Caller : Told(s)
  BY <1>4, <1>6 DEF Apart, Told
<1> QED
  BY <1>4, <1>5, <1>6, <1>8, <1>9, <1>10, <1>11 DEF IInv

LEMMA StutterKeeps ==
    ASSUME IInv, UNCHANGED vars
    PROVE  IInv'
<1>1. /\ dir' = dir /\ images' = images /\ atomic' = atomic /\ data' = data /\ lock' = lock
      /\ call' = call /\ arrived' = arrived /\ removed' = removed /\ theirs' = theirs
      /\ faults' = faults /\ crashes' = crashes
  BY DEF vars
<1>2. TypeOK' /\ Fresh' /\ Spent' /\ Apart'
  BY <1>1 DEF IInv, TypeOK, Fresh, Spent, Apart
<1>3. Kept' /\ \A s \in Caller : Told(s)'
  BY <1>1 DEF IInv, Kept, Told, Missing, Hidden, Deleting
<1>4. ASSUME NEW s \in Caller, call'[s].pc \in Working
      PROVE  Ready(s)'
  <2>1. Ready(s)
    BY <1>1, <1>4 DEF IInv
  <2>2. Named(s)' /\ Held(s)' /\ Displaced(s)' /\ Unexposed(s)' /\ Reported(s)'
    BY <1>1, <2>1 DEF Ready, Named, Held, Displaced, Unexposed, Reported, Hidden
  <2>3. Sparing(s)' /\ Confined(s)'
    BY <1>1, <2>1 DEF Ready, Sparing, Doubled, Confined
  <2> QED
    BY <2>2, <2>3 DEF Ready
<1> QED
  BY <1>2, <1>3, <1>4 DEF IInv

LEMMA NextIInv == IInv /\ [Next]_vars => IInv'
<1> SUFFICES ASSUME IInv, [Next]_vars
             PROVE  IInv'
  OBVIOUS
<1>1. ASSUME NEW s \in Caller, Step(s)
      PROVE  IInv'
  <2>1. UNCHANGED others
    BY <1>1 DEF Step
  <2>2. ASSUME NEW kind \in Kind, Capture(s, kind)
        PROVE  IInv'
    BY <2>1, <2>2, CaptureKeeps
  <2>3. CASE Unlock(s)
    BY <2>1, <2>3, UnlockKeeps
  <2>4. CASE Read(s) /\ UNCHANGED lock
    BY <2>1, <2>4, ReadKeeps
  <2>5. CASE Inside(s) /\ UNCHANGED lock
    BY <2>1, <2>5, InsideOutcome, OutcomeKeeps
  <2> QED
    BY <1>1, <2>2, <2>3, <2>4, <2>5 DEF Step
<1>2. ASSUME NEW g \in Foreign, Replace(g)
      PROVE  IInv'
  BY <1>2, ReplaceKeeps
<1>3. CASE Remove
  BY <1>3, RemoveKeeps
<1>4. CASE Crash
  BY <1>4, CrashKeeps
<1>5. CASE UNCHANGED vars
  BY <1>5, StutterKeeps
<1> QED
  BY <1>1, <1>2, <1>3, <1>4, <1>5 DEF Next

LEMMA SpecIInv == Spec => []IInv
  BY InitIInv, NextIInv, PTL DEF Spec

\* The types, and that the lock of the target is held by the call that works on
\* it and by no call that has ended (Save and Delete of FileTokenStore).
THEOREM FileTypes == Spec => []TypeOK
<1>1. IInv => TypeOK
  BY DEF IInv
<1> QED
  BY <1>1, SpecIInv, PTL

\* Saving never takes the file away, whatever fails and whenever the process or
\* the power ends (saveLocked, exchangeExpectedFileTokenSnapshot).
THEOREM FileNeverMissing == Spec => []NeverMissing
<1>1. IInv => NeverMissing
  BY DEF IInv, Kept, Missing, NeverMissing, Ended
<1> QED
  BY <1>1, SpecIInv, PTL

\* A replacing save that reports a roll-back, or an error without an outcome,
\* has left nothing a restart could load: FileTokenStore promises its callers
\* that such a save may be repeated or forgotten.
THEOREM FileRolledBack == Spec => []RolledBackIsGone
<1>1. IInv => RolledBackIsGone
  <2>1. SUFFICES ASSUME IInv, NEW s \in Caller, Ended(s, {"rolledBack", "exists", "error"}),
                        call[s].expected # None, NEW d \in images
                 PROVE  d[Target] # s
    BY DEF RolledBackIsGone
  <2>2. Hidden(s)
    BY <2>1 DEF IInv, Told, Ended
  <2> QED
    BY <2>1, <2>2, Names DEF Hidden
<1> QED
  BY <1>1, SpecIInv, PTL

\* What a committed save replaced or a confirmed deletion removed comes back
\* with no power failure (the directory syncs before either is reported).
THEOREM FileCommitted == Spec => []CommittedIsDurable
<1>1. IInv => CommittedIsDurable
  <2>1. SUFFICES ASSUME IInv, NEW s \in Caller, Ended(s, {"committed", "deleted"}), NEW d \in images,
                        d[Target] = call[s].expected
                 PROVE  d[Target] = None /\ (removed \/ Deleting)
    BY DEF CommittedIsDurable
  <2>2. Told(s) /\ call[s].result \in {"committed", "deleted"}
    BY <2>1 DEF IInv, Ended
  <2>3. d[Target] = None
    BY <2>1, <2>2 DEF Told, Missing
  <2>4. removed \/ Deleting
    BY <2>1, <2>2, <2>3 DEF Told, Missing, Deleting
  <2> QED
    BY <2>3, <2>4
<1> QED
  BY <1>1, SpecIInv, PTL

-----------------------------------------------------------------------------
(* What the other program left *)

\* A step keeps what the other program left, or is the step of a call that saw it.
Spared(s) ==
    \/ \E n \in Name : dir'[n] = theirs
    \/ call'[s] # call[s] /\ call[s].expected = theirs

LEMMA DirSpares ==
    ASSUME NEW s \in Caller, NEW m \in Name, dir[m] = theirs, dir'[m] = dir[m]
    PROVE  Spared(s)
  BY DEF Spared

LEMMA QuietSpares ==
    ASSUME TypeOK, NEW s \in Caller, NEW name \in Mine(s), Quiet(s),
           \A n \in Mine(s) \ {name} : dir'[n] = dir[n],
           NEW m \in Name \ {name}, dir[m] = theirs
    PROVE  Spared(s)
<1>1. dir'[m] = dir[m]
  BY DEF Quiet, Touches
<1> QED
  BY <1>1, DirSpares

\* A write of what a private name holds to an empty target.
LEMMA InstallSpares ==
    ASSUME TypeOK, NEW s \in Caller, NEW from \in Mine(s), dir[from] # None,
           NEW change \in {Linked(from, Target), Renamed(from, Target)},
           NEW acked \in BOOLEAN, Try(change, dir[Target] = None, acked),
           theirs # None, NEW m \in Name, dir[m] = theirs
    PROVE  Spared(s)
<1> DEFINE possible == dir[Target] = None
<1>1. possible \in BOOLEAN /\ Try(change, possible, acked)
  OBVIOUS
<1>2. possible => m # Target
  OBVIOUS
<1> HIDE DEF possible
<1>3. /\ Touches(s, Own(s)) /\ \A n \in Mine(s) \ {from} : dir'[n] = dir[n]
      /\ \/ dir' = dir
         \/ possible /\ dir'[Target] = dir[from]
  BY <1>1, WroteTarget DEF Effect
<1>4. m \notin Own(s) => dir'[m] = dir[m]
  BY <1>3 DEF Touches
<1>5. CASE dir' = dir
  BY <1>5, DirSpares
<1>6. CASE possible /\ dir'[Target] = dir[from]
  <2>1. CASE m = from
    BY <1>6, <2>1, Names DEF Spared
  <2>2. CASE m # from
    BY <1>2, <1>3, <1>4, <1>6, <2>2, DirSpares DEF Own
  <2> QED
    BY <2>1, <2>2
<1> QED
  BY <1>3, <1>5, <1>6

LEMMA StageSpares ==
    ASSUME IInv, NEW s \in Caller, Stage(s), theirs # None, NEW m \in Name, dir[m] = theirs
    PROVE  Spared(s)
<1>1. "stage" \in Working /\ At(s, "stage")
  BY DEF Working, Stage
<1>2. TypeOK /\ dir[Temp(s)] = None
  BY <1>1, AtWork DEF Sparing
<1>3. PICK acked \in BOOLEAN : Try(Placed(Temp(s), s), TRUE, acked)
  BY DEF Stage
<1>4. DOMAIN Placed(Temp(s), s) = {Temp(s)} /\ Placed(Temp(s), s)[Temp(s)] = s /\ s \in Generation
  BY DEF Placed, Generation
<1> DEFINE always == TRUE
           name == Temp(s)
           change == Placed(name, s)
<1>5. always \in BOOLEAN /\ Try(change, always, acked) /\ name \in Mine(s) /\ m # name
  BY <1>2, <1>3, Names
<1>6. DOMAIN change = {name} /\ change[name] = s
  BY <1>4
<1> HIDE DEF always, name, change
<1>7. Quiet(s) /\ \A n \in Mine(s) \ {name} : dir'[n] = dir[n]
  BY <1>2, <1>4, <1>5, <1>6, WroteOne
<1> QED
  BY <1>2, <1>5, <1>7, QuietSpares

LEMMA MoveAsideSpares ==
    ASSUME IInv, NEW s \in Caller, MoveAside(s), theirs # None, NEW m \in Name, dir[m] = theirs
    PROVE  Spared(s)
<1>1. "move" \in Working /\ At(s, "move")
  BY DEF Working, MoveAside
<1>2. TypeOK /\ dir[Aside(s)] = None /\ call[s].kind = "delete"
  BY <1>1, AtWork DEF Sparing, Named
<1> DEFINE possible == dir[Target] # None
<1>3. PICK acked \in BOOLEAN : Try(Renamed(Target, Aside(s)), possible, acked)
  BY DEF MoveAside
<1>4. possible \in BOOLEAN
  OBVIOUS
<1> HIDE DEF possible
<1>5. \/ dir' = dir
      \/ dir'[Aside(s)] = dir[Target] /\ Apply(Renamed(Target, Aside(s)))
  BY <1>2, <1>3, <1>4, MovedOut, Tried
<1>6. m # Aside(s) /\ Aside(s) \in Name
  BY <1>2, Names
<1>7. CASE dir' = dir
  BY <1>7, DirSpares
<1>8. CASE dir'[Aside(s)] = dir[Target] /\ Apply(Renamed(Target, Aside(s)))
  <2>1. m = Target => Spared(s)
    BY <1>6, <1>8 DEF Spared
  <2>2. m # Target => dir'[m] = dir[m]
    BY <1>6, <1>8, WithWritten DEF Apply, Renamed
  <2> QED
    BY <2>1, <2>2, DirSpares
<1> QED
  BY <1>5, <1>7, <1>8

LEMMA LinkNewSpares ==
    ASSUME IInv, NEW s \in Caller, LinkNew(s), theirs # None, NEW m \in Name, dir[m] = theirs
    PROVE  Spared(s)
<1>1. "linkNew" \in Working /\ At(s, "linkNew")
  BY DEF Working, LinkNew
<1> DEFINE from == call[s].staged
           change == Linked(from, Target)
<1>2. TypeOK /\ from \in Mine(s) /\ dir[from] # None
  <2>1. TypeOK /\ Named(s) /\ Held(s)
    BY <1>1, AtWork
  <2> QED
    BY <1>1, <2>1, Names DEF Named, Held, At
<1>3. PICK acked \in BOOLEAN : Try(change, dir[Target] = None, acked)
  BY DEF LinkNew
<1>4. change \in {Linked(from, Target), Renamed(from, Target)}
  OBVIOUS
<1> HIDE DEF from, change
<1> QED
  BY <1>2, <1>3, <1>4, InstallSpares

LEMMA RenameNewSpares ==
    ASSUME IInv, NEW s \in Caller, RenameNew(s), theirs # None, NEW m \in Name, dir[m] = theirs
    PROVE  Spared(s)
<1>1. "renameNew" \in Working /\ At(s, "renameNew")
  BY DEF Working, RenameNew
<1> DEFINE from == call[s].staged
           change == Renamed(from, Target)
<1>2. TypeOK /\ from \in Mine(s) /\ dir[from] # None
  <2>1. TypeOK /\ Named(s) /\ Held(s)
    BY <1>1, AtWork
  <2> QED
    BY <1>1, <2>1, Names DEF Named, Held, At
<1>3. PICK acked \in BOOLEAN : Try(change, dir[Target] = None, acked)
  BY DEF RenameNew
<1>4. change \in {Linked(from, Target), Renamed(from, Target)}
  OBVIOUS
<1> HIDE DEF from, change
<1> QED
  BY <1>2, <1>3, <1>4, InstallSpares

\* A removal under a private name.
LEMMA RemovalSpares ==
    ASSUME TypeOK, NEW s \in Caller, NEW name \in Mine(s),
           NEW possible \in BOOLEAN, NEW acked \in BOOLEAN, Try(Removed(name), possible, acked),
           NEW m \in Name, dir[m] = theirs,
           dir[name] = theirs => Spared(s) \/ dir[Target] = theirs
    PROVE  Spared(s)
<1>1. Quiet(s) /\ \A n \in Mine(s) \ {name} : dir'[n] = dir[n]
  BY RemovedOne
<1>2. CASE m # name
  BY <1>1, <1>2, QuietSpares
<1>3. CASE m = name /\ dir[Target] = theirs
  <2>1. Target \in Name \ {name}
    BY Names
  <2> QED
    BY <1>1, <1>3, <2>1, QuietSpares
<1> QED
  BY <1>2, <1>3

LEMMA UnstageSpares ==
    ASSUME IInv, NEW s \in Caller, Unstage(s), theirs # None, NEW m \in Name, dir[m] = theirs
    PROVE  Spared(s)
<1>1. "unstage" \in Working /\ At(s, "unstage")
  BY DEF Working, Unstage
<1> DEFINE name == call[s].staged
           possible == TRUE
<1>2. TypeOK /\ name \in Mine(s) /\ (dir[name] = theirs => dir[Target] = theirs)
  <2>1. TypeOK /\ Named(s) /\ Sparing(s) /\ call[s].pc = "unstage"
    BY <1>1, AtWork
  <2>2. name \in Mine(s)
    BY <2>1, Names DEF Named
  <2>3. Doubled(name)
    BY <2>1 DEF Sparing
  <2> QED
    BY <2>1, <2>2, <2>3 DEF Doubled
<1>3. PICK acked \in BOOLEAN : Try(Removed(name), possible, acked)
  BY DEF Unstage
<1>4. possible \in BOOLEAN
  OBVIOUS
<1> HIDE DEF name, possible
<1> QED
  BY <1>2, <1>3, <1>4, RemovalSpares

LEMMA ExchangeSpares ==
    ASSUME IInv, NEW s \in Caller, ExchangeAtomically(s), theirs # None, NEW m \in Name, dir[m] = theirs
    PROVE  Spared(s)
<1>1. "exchange" \in Working /\ At(s, "exchange")
  BY DEF Working, ExchangeAtomically
<1> DEFINE from == call[s].staged
<1>2. TypeOK /\ from \in Mine(s) /\ dir[from] # None
  <2>1. TypeOK /\ Named(s) /\ Held(s)
    BY <1>1, AtWork
  <2> QED
    BY <1>1, <2>1, Names DEF Named, Held, At
<1>3. faults' \in 0..MaxFaults
  BY <1>2, FileSaveAssumption DEF ExchangeAtomically, Fault, TypeOK
<1>4. Apply(Swapped(from, Target)) \/ dir' = dir
  BY DEF ExchangeAtomically
<1> HIDE DEF from
<1>5. CASE dir' = dir
  BY <1>5, DirSpares
<1>6. CASE Apply(Swapped(from, Target))
  <2>1. /\ Touches(s, Own(s)) /\ \A n \in Mine(s) \ {from} : dir'[n] = dir[n]
        /\ dir'[Target] = dir[from] /\ dir'[from] = dir[Target]
    BY <1>2, <1>3, <1>6, SwappedIn DEF Effect
  <2>2. CASE m \in {Target, from}
    BY <1>2, <2>1, <2>2, Names DEF Spared
  <2>3. CASE m \notin {Target, from}
    BY <2>1, <2>3, DirSpares DEF Touches, Own
  <2> QED
    BY <2>2, <2>3
<1> QED
  BY <1>4, <1>5, <1>6

LEMMA DiscardBackSpares ==
    ASSUME IInv, NEW s \in Caller, DiscardBack(s), theirs # None, NEW m \in Name, dir[m] = theirs
    PROVE  Spared(s)
<1>1. "discardBack" \in Working /\ At(s, "discardBack")
  BY DEF Working, DiscardBack
<1> DEFINE name == call[s].old
           possible == TRUE
<1>2. TypeOK /\ name \in Mine(s) /\ dir[name] # theirs
  BY <1>1, AtWork, FileSaveAssumption DEF Named, Sparing, TypeOK
<1>3. PICK acked \in BOOLEAN : Try(Removed(name), possible, acked)
  BY DEF DiscardBack
<1>4. possible \in BOOLEAN
  OBVIOUS
<1> HIDE DEF name, possible
<1> QED
  BY <1>2, <1>3, <1>4, RemovalSpares

LEMMA DiscardSpares ==
    ASSUME IInv, NEW s \in Caller, Discard(s), theirs # None, NEW m \in Name, dir[m] = theirs
    PROVE  Spared(s)
<1>1. "discard" \in Working /\ "discardSync" \in Working /\ At(s, "discard")
  BY DEF Working, Discard
<1> DEFINE name == call[s].old
           possible == TRUE
<1>2. /\ TypeOK /\ name \in Mine(s) /\ call[s] \in CallState /\ call[s].pc = "discard"
      /\ dir[name] = theirs => call[s].expected = theirs \/ dir[Target] = theirs
  BY <1>1, AtWork DEF Named, Sparing, Doubled
<1>3. PICK acked \in BOOLEAN :
        /\ Try(Removed(name), possible, acked)
        /\ Becomes(s, [call[s] EXCEPT !.pc = "discardSync", !.acked = acked])
  BY DEF Discard
<1>4. possible \in BOOLEAN
  OBVIOUS
<1> DEFINE c == [call[s] EXCEPT !.pc = "discardSync", !.acked = acked]
<1>5. c \in CallState /\ c.pc = "discardSync"
  <2>1. c \in CallState
    BY <1>1, <1>2 DEF CallState
  <2>2. c.pc = "discardSync"
    BY <1>1, <1>2 DEF CallState
  <2> QED
    BY <2>1, <2>2
<1>6. Becomes(s, c)
  BY <1>3
<1> HIDE DEF c, name, possible
<1>7. call'[s] # call[s]
  BY <1>2, <1>5, <1>6, CallBecomes
<1>8. dir[name] = theirs => Spared(s) \/ dir[Target] = theirs
  BY <1>2, <1>7 DEF Spared
<1> QED
  BY <1>2, <1>3, <1>4, <1>8, RemovalSpares

LEMMA CleanUpSpares ==
    ASSUME IInv, NEW s \in Caller, atomic, CleanUp(s), theirs # None, NEW m \in Name, dir[m] = theirs
    PROVE  Spared(s)
<1>1. "cleanup" \in Working /\ At(s, "cleanup")
  BY DEF Working, CleanUp
<1> DEFINE name == Temp(s)
           possible == dir[Temp(s)] # None
<1>2. /\ TypeOK /\ name \in Mine(s)
      /\ call[s].owned => dir[name] # theirs
  <2>1. TypeOK /\ Sparing(s) /\ name \in Mine(s)
    BY <1>1, AtWork, Names
  <2>2. s # theirs
    BY <2>1, FileSaveAssumption DEF TypeOK
  <2> QED
    BY <2>1, <2>2 DEF Sparing
<1>3. \/ dir' = dir
      \/ call[s].owned /\ \E acked \in BOOLEAN : Try(Removed(name), possible, acked)
  BY DEF CleanUp, files
<1>4. possible \in BOOLEAN
  OBVIOUS
<1> HIDE DEF name, possible
<1>5. CASE dir' = dir
  BY <1>5, DirSpares
<1>6. ASSUME call[s].owned, NEW acked \in BOOLEAN, Try(Removed(name), possible, acked)
      PROVE  Spared(s)
  BY <1>2, <1>4, <1>6, RemovalSpares
<1> QED
  BY <1>3, <1>5, <1>6

\* The steps that write nothing, and those that need no atomic exchange.
LEMMA SameSpares ==
    ASSUME IInv, NEW s \in Caller, atomic, NEW m \in Name, dir[m] = theirs,
           \/ Validate(s) \/ SyncPutBack(s) \/ SyncDiscardedBack(s) \/ Confirm(s) \/ SyncCommit(s)
           \/ SyncDiscarded(s) \/ SyncCleanUp(s)
    PROVE  Spared(s)
<1>1. dir' = dir
  BY DEF Validate, SyncPutBack, SyncDiscardedBack, Confirm, SyncCommit, SyncDiscarded, SyncCleanUp,
     Sync, files
<1> QED
  BY <1>1, DirSpares

LEMMA NotFallback ==
    ASSUME IInv, NEW s \in Caller, atomic
    PROVE  ~ \/ Inspect(s) \/ LinkDisplaced(s) \/ SyncLinked(s) \/ Unlink(s) \/ SyncUnlinked(s)
             \/ Install(s) \/ ConfirmInstalled(s) \/ SyncInstalled(s) \/ Relink(s) \/ SyncRelinked(s)
             \/ Restore(s) \/ ConfirmRestored(s) \/ SyncRestored(s)
<1>1. \A pc \in Fallback : ~At(s, pc)
  BY AtFallback
<1> QED
  BY <1>1 DEF Fallback, Inspect, LinkDisplaced, SyncLinked, Unlink, SyncUnlinked, Install,
     ConfirmInstalled, SyncInstalled, Relink, SyncRelinked, Restore, ConfirmRestored, SyncRestored

\* Where names are exchanged atomically, no call destroys a generation that the
\* other program left and that the call never saw (the private names and the
\* comparisons of exchangeExpectedFileTokenSnapshot are there for this).
THEOREM FileForeignKept == Spec => ForeignKept
<1>1. ASSUME IInv, [Next]_vars
      PROVE  [atomic /\ theirs' = theirs /\ theirs # None /\ Stored(theirs) /\ ~Stored(theirs)' =>
                 \/ \E s \in Caller : call'[s] # call[s] /\ call[s].expected = theirs
                 \/ crashes' # crashes]_vars
  <2>1. SUFFICES ASSUME Next, atomic, theirs' = theirs, theirs # None, NEW m \in Name, dir[m] = theirs,
                        crashes' = crashes
                 PROVE  \/ \E n \in Name : dir'[n] = theirs
                        \/ \E s \in Caller : call'[s] # call[s] /\ call[s].expected = theirs
    BY <1>1 DEF Stored
  <2>2. ASSUME NEW s \in Caller, Step(s)
        PROVE  Spared(s)
    <3>1. CASE Inside(s)
      BY <1>1, <2>1, <3>1, NotFallback, SameSpares, StageSpares, MoveAsideSpares, LinkNewSpares,
         RenameNewSpares, UnstageSpares, ExchangeSpares, DiscardBackSpares, DiscardSpares,
         CleanUpSpares DEF Inside
    <3>2. CASE dir' = dir
      BY <2>1, <3>2, DirSpares
    <3> QED
      BY <2>2, <3>1, <3>2 DEF Step, Capture, Unlock, Read, files
  <2>3. ASSUME NEW g \in Foreign, Replace(g)
        PROVE  \E n \in Name : dir'[n] = theirs
    <3>1. theirs' = g /\ g \notin arrived
      BY <2>3 DEF Replace
    <3>2. theirs \in Foreign => theirs \in arrived
      BY <1>1 DEF IInv, Spent
    <3> QED
      BY <2>1, <2>3, <3>1, <3>2
  <2>4. ~Remove /\ ~Crash
    <3>1. crashes \in Nat
      BY <1>1, FileSaveAssumption DEF IInv, TypeOK
    <3>2. Crash => crashes' = crashes + 1
      BY DEF Crash
    <3>3. ~Crash
      BY <2>1, <3>1, <3>2
    <3>4. ~Remove
      BY <2>1 DEF Remove
    <3> QED
      BY <3>3, <3>4
  <2> QED
    BY <2>1, <2>2, <2>3, <2>4 DEF Next, Spared
<1> QED
  BY <1>1, SpecIInv, PTL DEF Spec, ForeignKept
=============================================================================
