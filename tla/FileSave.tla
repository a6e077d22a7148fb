------------------------------ MODULE FileSave ------------------------------
(***************************************************************************)
(* One credential file of FileTokenStore (src/sdk/auth/filestore.go) and   *)
(* the calls of Save and Delete on it.  A save stages its own generation   *)
(* under a private name and exchanges it with the target, through the      *)
(* atomic exchange of the system or, without one, through the              *)
(* link-and-rename sequence of src/internal/authfileguard/                 *)
(* exchange_rename.go; a deletion moves the target aside and discards it.  *)
(*                                                                         *)
(* The file system is external.  A directory maps names to generations     *)
(* (inodes); an operation changes it at once, but only a sync makes the    *)
(* change durable.  Covered: an operation that fails, an operation that    *)
(* takes effect and still reports an error, a failed sync, a program that  *)
(* takes no part in the locks and replaces or removes the target at any    *)
(* moment, the end of the process, and a power failure that keeps any of   *)
(* the changes since the last sync.  Not covered: a write in place into an *)
(* existing generation, and the replacement of a parent directory.         *)
(***************************************************************************)
EXTENDS Naturals, FiniteSets

CONSTANTS
    Caller,       \* the calls; each also names the generation it stages
    Foreign,      \* generations a program outside the locks puts at the target
    Original,     \* the generation stored before the first call
    Target,       \* the name of the credential file
    None,         \* no generation, no name, no holder, no precondition
    MaxFaults,    \* bound: failing operations
    MaxCrashes    \* bound: ends of the process and power failures

Generation == {Original} \cup Caller \cup Foreign

\* ".auth-save-<uuid>", and the ".auth-displaced-<random>" (a deletion:
\* ".auth-delete-<uuid>") names one call can use: each is fresh, so no two
\* calls share one.
Slot == {"temp", "displaced", "displacedAgain"}

Name == {Target} \cup (Caller \X Slot)

ASSUME FileSaveAssumption ==
    /\ Original \notin Caller \cup Foreign
    /\ Caller \cap Foreign = {}
    /\ None \notin {Original, Target} \cup Caller \cup Foreign
    /\ Target \notin Caller \X Slot /\ None \notin Caller \X Slot
    /\ MaxFaults \in Nat
    /\ MaxCrashes \in Nat

Directory == [Name -> Generation \cup {None}]

VARIABLES
    dir,       \* the directory the running programs see
    images,    \* the directories a power failure may leave
    atomic,    \* does the file system exchange two names atomically?
    data,      \* whose bytes a call writes (a repeated call writes the same)
    lock,      \* the holder of the lock of the target
    call,      \* the state of each call
    arrived,   \* the foreign generations that were put at the target so far
    removed,   \* has the other program removed the target?
    theirs,    \* the generation it left at the target last, or None (history)
    faults,    \* failures so far
    crashes    \* crashes so far

vars == <<dir, images, atomic, data, lock, call, arrived, removed,
          theirs, faults, crashes>>

files == <<dir, images, faults>>
others == <<atomic, data, arrived, removed, theirs, crashes>>

-----------------------------------------------------------------------------
(* The file system *)

\* The directory d after the entries of change were written.
With(d, change) ==
    [n \in Name |-> IF n \in DOMAIN change THEN change[n] ELSE d[n]]

\* The entries an operation writes, from the directory it finds.
Linked(from, to) == [n \in {to} |-> dir[from]]
Renamed(from, to) == [n \in {from, to} |-> IF n = to THEN dir[from] ELSE None]
Swapped(a, b) == [n \in {a, b} |-> IF n = a THEN dir[b] ELSE dir[a]]
Removed(name) == [n \in {name} |-> None]
Placed(name, g) == [n \in {name} |-> g]

\* An operation is atomic; a power failure may keep it and lose an earlier
\* one that was not synced either.
Apply(change) ==
    /\ dir' = With(dir, change)
    /\ images' = images \cup {With(d, change) : d \in images}

Fault ==
    /\ faults < MaxFaults
    /\ faults' = faults + 1

\* An operation that is possible succeeds, fails, or takes effect and loses
\* its acknowledgement; one that is not possible fails.
Try(change, possible, acked) ==
    \/ acked /\ possible /\ Apply(change) /\ UNCHANGED faults
    \/ ~acked /\ ~possible /\ UNCHANGED files
    \/ ~acked /\ possible /\ Fault /\ (Apply(change) \/ UNCHANGED <<dir, images>>)

\* After a failed sync nothing is known of what became durable.
Sync(ok) ==
    /\ dir' = dir
    /\ \/ ok /\ images' = {dir} /\ UNCHANGED faults
       \/ ~ok /\ Fault /\ UNCHANGED images

-----------------------------------------------------------------------------
(* The calls *)

Temp(s) == <<s, "temp">>
Aside(s) == <<s, "displaced">>

Kind == {"save", "create", "delete"}

\* The bytes of a generation.
DataOf(g) == IF g \in Caller THEN data[g] ELSE g

NoCall ==
    [pc |-> "idle", kind |-> "save", want |-> None, expected |-> None,
     owned |-> FALSE, old |-> None, staged |-> None, stagedInfo |-> None,
     displaced |-> None, targetInfo |-> None, leg |-> "out", acked |-> TRUE,
     result |-> "nil"]

Init ==
    /\ dir \in {[n \in Name |-> IF n = Target THEN g ELSE None] : g \in {Original, None}}
    /\ images = {dir}
    /\ atomic \in BOOLEAN
    /\ data \in {f \in [Caller -> Caller] : \A s \in Caller : f[f[s]] = f[s]}
    /\ lock = None
    /\ call = [s \in Caller |-> NoCall]
    /\ arrived = {}
    /\ removed = FALSE
    /\ theirs = None
    /\ faults = 0
    /\ crashes = 0

Idle == {"idle", "done", "dead"}

\* The steps of a call that holds the lock of the target.
Working ==
    {"stage", "validate", "linkNew", "renameNew", "unstage", "move", "putBackSync",
     "exchange", "link", "linkSync", "unlink", "unlinkSync", "install", "installed",
     "installSync", "relink", "relinkSync", "restore", "restored", "restoreSync",
     "discardBack", "discardBackSync", "confirm", "commitSync", "discard",
     "discardSync", "cleanup", "cleanupSync", "unlock"}

Result ==
    {"nil", "unchanged", "exists", "absent", "error", "rolledBack", "uncertain",
     "committed", "deleted"}

At(s, pc) == call[s].pc = pc

\* The call of s becomes c: the only call that changes.
Becomes(s, c) == call' = [call EXCEPT ![s] = c]

Goto(s, pc) == Becomes(s, [call[s] EXCEPT !.pc = pc])

\* s leaves the transaction with this result for its deferred clean-up.
Leave(s, result, owned) ==
    Becomes(s, [call[s] EXCEPT !.pc = "cleanup", !.result = result, !.owned = owned])

\* A caller remembers the bytes it has read, to name them in its call.
Read(s) ==
    /\ At(s, "idle")
    /\ call[s].want = None /\ dir[Target] # None
    /\ Becomes(s, [call[s] EXCEPT !.want = DataOf(dir[Target])])
    /\ UNCHANGED files

\* A save, a save that must create the file, or a deletion takes the lock of
\* the target, and its snapshot; then the tests made on the snapshot.
Capture(s, kind) ==
    LET current == dir[Target]
        want == call[s].want
        c == [NoCall EXCEPT !.kind = kind, !.expected = current]
        stale == want # None /\ (current = None \/ DataOf(current) # want)
        same == kind = "save" /\ current # None /\ DataOf(current) = data[s]
        Ends(result) == Becomes(s, [c EXCEPT !.pc = "unlock", !.result = result])
    IN
    /\ At(s, "idle")
    /\ kind = "create" => want = None
    /\ lock = None
    /\ lock' = s
    /\ \/ kind = "create" /\ current # None /\ Ends("exists")
       \/ stale /\ Ends("rolledBack")
       \/ ~stale /\ same /\ Ends("unchanged")
       \/ ~stale /\ kind = "delete" /\ current = None /\ Ends("absent")
       \/ /\ \/ kind = "save" /\ ~stale /\ ~same
             \/ kind = "create" /\ current = None
          /\ Becomes(s, [c EXCEPT !.pc = "stage", !.owned = TRUE])
       \/ /\ kind = "delete" /\ ~stale /\ current # None
          /\ Becomes(s, [c EXCEPT !.pc = "move"])
    /\ UNCHANGED files

Stage(s) ==
    /\ At(s, "stage")
    /\ \E acked \in BOOLEAN :
          /\ Try(Placed(Temp(s), s), TRUE, acked)
          /\ IF acked THEN Goto(s, "validate") ELSE Leave(s, "error", TRUE)

\* The target must still be what Capture saw: nothing, or the same generation.
Validate(s) ==
    LET c == [call[s] EXCEPT !.staged = Temp(s)] IN
    /\ At(s, "validate")
    /\ \/ dir[Target] # c.expected /\ Leave(s, "error", TRUE)
       \/ dir[Target] = c.expected /\ c.expected = None /\ Becomes(s, [c EXCEPT !.pc = "linkNew"])
       \/ dir[Target] = c.expected /\ c.expected # None /\ Becomes(s, [c EXCEPT !.pc = "exchange"])
    /\ UNCHANGED files

-----------------------------------------------------------------------------
(* A deletion: removePreparedFileAuthSnapshot *)

MoveAside(s) ==
    /\ At(s, "move")
    /\ \E acked \in BOOLEAN :
          /\ Try(Renamed(Target, Aside(s)), dir[Target] # None, acked)
          /\ \/ ~acked /\ Leave(s, "uncertain", FALSE)
             \/ acked /\ dir[Target] = call[s].expected
                /\ Becomes(s, [call[s] EXCEPT !.pc = "discard", !.old = Aside(s)])
             \/ acked /\ dir[Target] # call[s].expected
                /\ Becomes(s, [call[s] EXCEPT !.pc = "linkNew", !.staged = Aside(s)])

-----------------------------------------------------------------------------
(* InstallStagedFileNoReplace: a save that found no file installs its      *)
(* staged generation, a deletion puts back one it should not have moved.   *)

\* Installed, with or without the staged name left over: a save confirms it;
\* restoreDisplacedFileTokenSnapshot removes a leftover and syncs.
InstalledNew(s, leftover) ==
    IF call[s].kind # "delete"
    THEN Becomes(s, [call[s] EXCEPT !.pc = "confirm", !.owned = leftover])
    ELSE Becomes(s, [call[s] EXCEPT
            !.pc = IF leftover THEN "discard" ELSE "putBackSync",
            !.old = Aside(s), !.result = "uncertain"])

\* EEXIST: the target appeared meanwhile.
StaleNew(s) ==
    IF call[s].kind # "delete" THEN Leave(s, "error", TRUE) ELSE Goto(s, "putBackSync")

FailedNew(s) ==
    IF call[s].kind # "delete" THEN Leave(s, "error", TRUE) ELSE Leave(s, "uncertain", FALSE)

LinkNew(s) ==
    /\ At(s, "linkNew")
    /\ \E acked \in BOOLEAN :
          /\ Try(Linked(call[s].staged, Target), dir[Target] = None, acked)
          /\ \/ acked /\ Goto(s, "unstage")
             \/ ~acked /\ dir[Target] # None /\ StaleNew(s)
             \/ ~acked /\ dir[Target] = None /\ Goto(s, "renameNew")

\* After any other error than EEXIST: a rename that replaces nothing.
RenameNew(s) ==
    /\ At(s, "renameNew")
    /\ \E acked \in BOOLEAN :
          /\ Try(Renamed(call[s].staged, Target), dir[Target] = None, acked)
          /\ \/ acked /\ InstalledNew(s, FALSE)
             \/ ~acked /\ dir[Target] # None /\ StaleNew(s)
             \/ ~acked /\ dir[Target] = None /\ FailedNew(s)

Unstage(s) ==
    /\ At(s, "unstage")
    /\ \E acked \in BOOLEAN :
          Try(Removed(call[s].staged), TRUE, acked) /\ InstalledNew(s, ~acked)

SyncPutBack(s) ==
    /\ At(s, "putBackSync")
    /\ \E ok \in BOOLEAN : Sync(ok)
    /\ Leave(s, "uncertain", FALSE)

-----------------------------------------------------------------------------
(* ExchangeStagedFile, and what exchangeExpectedFileTokenSnapshot makes of *)
(* its result.  The exchange goes out with the staged generation, and back *)
(* with the displaced one when that is not the expected generation.        *)

\* The exchange ended with an error, and names the displaced file or none.
ExchangeFailed(s, displaced, error) ==
    IF call[s].leg = "back" THEN Leave(s, "uncertain", FALSE)
    ELSE IF error = "cleanup" THEN Leave(s, "rolledBack", TRUE)
    ELSE IF displaced # None \/ error = "uncertain" THEN Leave(s, "uncertain", displaced = None)
    ELSE Leave(s, "error", TRUE)

\* Variant for mutation: whatever was displaced is taken for the expected one.
ExchangeDoneUnchecked(s, displaced, d) ==
    LET c == [call[s] EXCEPT !.old = displaced, !.owned = FALSE] IN
    IF call[s].leg = "out" THEN Becomes(s, [c EXCEPT !.pc = "confirm"])
    ELSE IF d[displaced] = s
         THEN Becomes(s, [c EXCEPT !.pc = "discardBack"])
         ELSE Leave(s, "uncertain", FALSE)

\* The exchange succeeded: the previous target is at the displaced name.
ExchangeDone(s, displaced, d) ==
    LET c == [call[s] EXCEPT !.old = displaced, !.owned = FALSE] IN
    IF call[s].leg = "out"
    THEN IF d[displaced] = call[s].expected
         THEN Becomes(s, [c EXCEPT !.pc = "confirm"])
         ELSE Becomes(s, [c EXCEPT !.pc = "exchange", !.staged = displaced, !.leg = "back"])
    ELSE IF d[displaced] = s
         THEN Becomes(s, [c EXCEPT !.pc = "discardBack"])
         ELSE Leave(s, "uncertain", FALSE)

\* renameat2 with RENAME_EXCHANGE; closing the directory may fail after it.
ExchangeAtomically(s) ==
    LET staged == call[s].staged
        change == Swapped(staged, Target)
    IN
    /\ At(s, "exchange")
    /\ atomic
    /\ \/ /\ dir[Target] # None
          /\ Apply(change)
          /\ UNCHANGED faults
          /\ ExchangeDone(s, staged, With(dir, change))
       \/ /\ dir[Target] # None
          /\ Fault
          /\ Apply(change)
          /\ ExchangeFailed(s, staged, "error")
       \/ /\ \/ dir[Target] = None /\ UNCHANGED faults
             \/ Fault
          /\ UNCHANGED <<dir, images>>
          /\ ExchangeFailed(s, None, "error")

\* The fallback looks at both files and picks a name for the displaced one.
Inspect(s) ==
    LET displaced == <<s, IF call[s].leg = "out" THEN "displaced" ELSE "displacedAgain">> IN
    /\ At(s, "exchange")
    /\ ~atomic
    /\ \/ /\ dir[Target] = None
          /\ ExchangeFailed(s, None, "error")
       \/ /\ dir[Target] # None
          /\ Becomes(s, [call[s] EXCEPT
                !.pc = "link", !.displaced = displaced,
                !.stagedInfo = dir[call[s].staged], !.targetInfo = dir[Target]])
    /\ UNCHANGED files

\* Variant for mutation: the target is moved aside instead of linked.
LinkDisplacedMoves(s) ==
    LET c == call[s]
        found == dir'[c.displaced]
    IN
    /\ At(s, "link")
    /\ \E acked \in BOOLEAN :
          Try(Renamed(Target, c.displaced), dir[Target] # None, acked)
    /\ \/ found = c.targetInfo /\ Goto(s, "linkSync")
       \/ found # c.targetInfo /\ found = None /\ ExchangeFailed(s, None, "error")
       \/ found # c.targetInfo /\ found # None /\ ExchangeFailed(s, c.displaced, "cleanup")

\* The link is judged by what the displaced name holds, not by its error.
LinkDisplaced(s) ==
    LET c == call[s]
        found == dir'[c.displaced]
    IN
    /\ At(s, "link")
    /\ \E acked \in BOOLEAN :
          Try(Linked(Target, c.displaced), dir[Target] # None, acked)
    /\ \/ found = c.targetInfo /\ Goto(s, "linkSync")
       \/ found # c.targetInfo /\ found = None /\ ExchangeFailed(s, None, "error")
       \/ found # c.targetInfo /\ found # None /\ ExchangeFailed(s, c.displaced, "cleanup")

SyncLinked(s) ==
    /\ At(s, "linkSync")
    /\ \E ok \in BOOLEAN :
          Sync(ok) /\ Goto(s, IF ok THEN "install" ELSE "unlink")

\* cleanupLinkedExchangeBackup: remove the link, then sync whatever happened.
Unlink(s) ==
    /\ At(s, "unlink")
    /\ \E acked \in BOOLEAN : Try(Removed(call[s].displaced), TRUE, acked)
    /\ Goto(s, "unlinkSync")

SyncUnlinked(s) ==
    LET displaced == call[s].displaced IN
    /\ At(s, "unlinkSync")
    /\ \E ok \in BOOLEAN : Sync(ok)
    /\ \/ dir[displaced] = None /\ ExchangeFailed(s, None, "error")
       \/ dir[displaced] # None /\ ExchangeFailed(s, displaced, "cleanup")

Install(s) ==
    /\ At(s, "install")
    /\ \E acked \in BOOLEAN :
          /\ Try(Renamed(call[s].staged, Target), TRUE, acked)
          /\ Becomes(s, [call[s] EXCEPT !.pc = "installed", !.acked = acked])

\* linkedExchangeInstalled and linkedExchangeOriginal.
ConfirmInstalled(s) ==
    LET c == call[s]
        installed == /\ dir[Target] = c.stagedInfo
                     /\ dir[c.displaced] = c.targetInfo
                     /\ dir[c.staged] = None
        original == /\ dir[Target] = c.targetInfo
                    /\ dir[c.staged] = c.stagedInfo
                    /\ dir[c.displaced] = c.targetInfo
    IN
    /\ At(s, "installed")
    /\ \/ installed /\ Goto(s, IF c.acked THEN "installSync" ELSE "relink")
       \/ ~installed /\ ~c.acked /\ original /\ Goto(s, "unlink")
       \/ ~installed /\ (c.acked \/ ~original) /\ ExchangeFailed(s, c.displaced, "uncertain")
    /\ UNCHANGED files

SyncInstalled(s) ==
    /\ At(s, "installSync")
    /\ \/ Sync(TRUE) /\ ExchangeDone(s, call[s].displaced, dir)
       \/ Sync(FALSE) /\ Goto(s, "relink")

\* restoreLinkedExchange: keep the staged generation at its own name first.
Relink(s) ==
    LET c == call[s] IN
    /\ At(s, "relink")
    /\ \E acked \in BOOLEAN :
          Try(Linked(Target, c.staged), dir[Target] # None /\ dir[c.staged] = None, acked)
    /\ \/ dir'[c.staged] = c.stagedInfo /\ Goto(s, "relinkSync")
       \/ dir'[c.staged] # c.stagedInfo /\ ExchangeFailed(s, c.displaced, "uncertain")

SyncRelinked(s) ==
    /\ At(s, "relinkSync")
    /\ \/ Sync(TRUE) /\ Goto(s, "restore")
       \/ Sync(FALSE) /\ ExchangeFailed(s, call[s].displaced, "uncertain")

Restore(s) ==
    /\ At(s, "restore")
    /\ \E acked \in BOOLEAN : Try(Renamed(call[s].displaced, Target), TRUE, acked)
    /\ Goto(s, "restored")

\* Variant for mutation: the restore is taken for done.
ConfirmRestoredBlindly(s) ==
    /\ At(s, "restored")
    /\ Goto(s, "restoreSync")
    /\ UNCHANGED files

ConfirmRestored(s) ==
    LET c == call[s]
        restored == /\ dir[Target] = c.targetInfo
                    /\ dir[c.staged] = c.stagedInfo
                    /\ dir[c.displaced] = None
    IN
    /\ At(s, "restored")
    /\ \/ restored /\ Goto(s, "restoreSync")
       \/ ~restored /\ ExchangeFailed(s, c.displaced, "uncertain")
    /\ UNCHANGED files

SyncRestored(s) ==
    /\ At(s, "restoreSync")
    /\ \E ok \in BOOLEAN :
          Sync(ok) /\ ExchangeFailed(s, None, IF ok THEN "error" ELSE "uncertain")

-----------------------------------------------------------------------------
(* The end of the transaction *)

\* discardFileTokenSnapshot of the staged generation that came back: only a
\* clean removal is a plain stale save.
DiscardBack(s) ==
    /\ At(s, "discardBack")
    /\ \E acked \in BOOLEAN :
          /\ Try(Removed(call[s].old), TRUE, acked)
          /\ Becomes(s, [call[s] EXCEPT !.pc = "discardBackSync", !.acked = acked])

SyncDiscardedBack(s) ==
    /\ At(s, "discardBackSync")
    /\ \E ok \in BOOLEAN :
          /\ Sync(ok)
          /\ IF ok /\ call[s].acked THEN Leave(s, "error", TRUE)
             ELSE Leave(s, "uncertain", FALSE)

\* Is the staged generation still the one at the target?
Confirm(s) ==
    /\ At(s, "confirm")
    /\ \/ dir[Target] = s /\ Goto(s, "commitSync")
       \/ dir[Target] # s /\ Leave(s, "uncertain", call[s].owned)
    /\ UNCHANGED files

\* Variant for mutation: the save is committed before its directory is synced.
SyncCommitEarly(s) ==
    /\ At(s, "commitSync")
    /\ \E ok \in BOOLEAN : Sync(ok)
    /\ Becomes(s, [call[s] EXCEPT
          !.pc = IF call[s].old = None THEN "cleanup" ELSE "discard",
          !.result = "committed"])

SyncCommit(s) ==
    /\ At(s, "commitSync")
    /\ \E ok \in BOOLEAN :
          /\ Sync(ok)
          /\ Becomes(s, [call[s] EXCEPT
                !.pc = IF call[s].old = None THEN "cleanup" ELSE "discard",
                !.result = IF ok THEN "committed" ELSE "uncertain"])

\* The previous generation is discarded.  After a save a failure only adds a
\* warning; a deletion is confirmed by nothing less.
Discard(s) ==
    /\ At(s, "discard")
    /\ \E acked \in BOOLEAN :
          /\ Try(Removed(call[s].old), TRUE, acked)
          /\ Becomes(s, [call[s] EXCEPT !.pc = "discardSync", !.acked = acked])

SyncDiscarded(s) ==
    LET c == call[s] IN
    /\ At(s, "discardSync")
    /\ \E ok \in BOOLEAN :
          /\ Sync(ok)
          /\ Leave(s, IF c.result # "nil" THEN c.result
                      ELSE IF ok /\ c.acked THEN "deleted" ELSE "uncertain", FALSE)

\* joinFileTokenSaveCleanupError: a clean-up that fails keeps a known outcome
\* and makes any other error a rolled-back save.
Joined(result) ==
    IF result \in {"error", "exists"} THEN "rolledBack" ELSE result

\* The deferred removal of the staged file.
CleanUp(s) ==
    LET c == call[s]
        present == dir[Temp(s)] # None
    IN
    /\ At(s, "cleanup")
    /\ \/ /\ ~c.owned
          /\ UNCHANGED files
          /\ Goto(s, "unlock")
       \/ /\ c.owned
          /\ \E acked \in BOOLEAN :
                /\ Try(Removed(Temp(s)), present, acked)
                /\ \/ acked /\ Goto(s, "cleanupSync")
                   \/ ~acked /\ ~present /\ Goto(s, "unlock")
                   \/ ~acked /\ present
                      /\ Becomes(s, [c EXCEPT !.pc = "unlock", !.result = Joined(@)])

SyncCleanUp(s) ==
    /\ At(s, "cleanupSync")
    /\ \E ok \in BOOLEAN :
          /\ Sync(ok)
          /\ Becomes(s, [call[s] EXCEPT
                !.pc = "unlock", !.result = IF ok THEN @ ELSE Joined(@)])

\* Variant for mutation: an end with a failing unlock keeps the lock.
UnlockOnlyClean(s) ==
    LET Ends(result) == Becomes(s, [NoCall EXCEPT
            !.pc = "done", !.kind = call[s].kind, !.expected = call[s].expected,
            !.result = result])
    IN
    /\ At(s, "unlock")
    /\ \/ UNCHANGED faults /\ lock' = None /\ Ends(call[s].result)
       \/ Fault /\ UNCHANGED lock /\ Ends(Joined(call[s].result))
    /\ UNCHANGED <<dir, images>>

\* The lock is given up even when that reports an error.
Unlock(s) ==
    LET Ends(result) == Becomes(s, [NoCall EXCEPT
            !.pc = "done", !.kind = call[s].kind, !.expected = call[s].expected,
            !.result = result])
    IN
    /\ At(s, "unlock")
    /\ lock' = None
    /\ \/ UNCHANGED faults /\ Ends(call[s].result)
       \/ Fault /\ Ends(Joined(call[s].result))
    /\ UNCHANGED <<dir, images>>

-----------------------------------------------------------------------------
(* The other program, and crashes *)

Replace(g) ==
    /\ g \notin arrived
    /\ arrived' = arrived \cup {g}
    /\ theirs' = g
    /\ Apply(Placed(Target, g))
    /\ UNCHANGED <<atomic, data, lock, call, removed, faults, crashes>>

Remove ==
    /\ ~removed
    /\ dir[Target] # None
    /\ removed' = TRUE
    /\ theirs' = None
    /\ Apply(Removed(Target))
    /\ UNCHANGED <<atomic, data, lock, call, arrived, faults, crashes>>

\* The process ends, or the power fails; the lock goes with its holder.
Crash ==
    /\ crashes < MaxCrashes
    /\ crashes' = crashes + 1
    /\ \/ UNCHANGED <<dir, images>>
       \/ \E d \in images : dir' = d /\ images' = {d}
    /\ lock' = None
    /\ call' = [s \in Caller |->
                  IF call[s].pc \in {"idle", "done", "dead"} THEN call[s]
                  ELSE [NoCall EXCEPT !.pc = "dead", !.kind = call[s].kind,
                                      !.expected = call[s].expected]]
    /\ UNCHANGED <<atomic, data, arrived, removed, theirs, faults>>

\* The steps of a call inside the transaction.
Inside(s) ==
    \/ Stage(s) \/ Validate(s)
    \/ MoveAside(s) \/ LinkNew(s) \/ RenameNew(s) \/ Unstage(s) \/ SyncPutBack(s)
    \/ ExchangeAtomically(s) \/ Inspect(s) \/ LinkDisplaced(s) \/ SyncLinked(s)
    \/ Unlink(s) \/ SyncUnlinked(s) \/ Install(s) \/ ConfirmInstalled(s)
    \/ SyncInstalled(s) \/ Relink(s) \/ SyncRelinked(s) \/ Restore(s)
    \/ ConfirmRestored(s) \/ SyncRestored(s)
    \/ DiscardBack(s) \/ SyncDiscardedBack(s) \/ Confirm(s) \/ SyncCommit(s)
    \/ Discard(s) \/ SyncDiscarded(s) \/ CleanUp(s) \/ SyncCleanUp(s)

Step(s) ==
    /\ \/ \E kind \in Kind : Capture(s, kind)
       \/ Unlock(s)
       \/ (Read(s) \/ Inside(s)) /\ UNCHANGED lock
    /\ UNCHANGED others

Next ==
    \/ \E s \in Caller : Step(s)
    \/ \E g \in Foreign : Replace(g)
    \/ Remove
    \/ Crash

Spec == Init /\ [][Next]_vars

-----------------------------------------------------------------------------
(* Properties *)

\* The locals of a call.
CallState ==
    [pc : Idle \cup Working, kind : Kind, want : Generation \cup {None},
     expected : Generation \cup {None}, owned : BOOLEAN, old : Name \cup {None},
     staged : Name \cup {None}, stagedInfo : Generation \cup {None},
     displaced : Name \cup {None}, targetInfo : Generation \cup {None},
     leg : {"out", "back"}, acked : BOOLEAN, result : Result]

\* Types; and the lock of the target is held by the call that works on it, and
\* by no call that has ended.
TypeOK ==
    /\ dir \in Directory
    /\ images \subseteq Directory
    /\ dir \in images
    /\ atomic \in BOOLEAN
    /\ data \in [Caller -> Caller]
    /\ lock \in Caller \cup {None}
    /\ arrived \subseteq Foreign
    /\ removed \in BOOLEAN
    /\ theirs \in Foreign \cup {None}
    /\ faults \in 0..MaxFaults
    /\ crashes \in 0..MaxCrashes
    /\ call \in [Caller -> CallState]
    /\ \A s \in Caller : call[s].pc \in Working <=> lock = s

Stored(g) == \E n \in Name : dir[n] = g

Ended(s, results) == call[s].pc = "done" /\ call[s].result \in results

Deleting == \E s \in Caller : call[s].kind = "delete"

\* Saving never takes the file away: whatever fails and whenever the process or
\* the power ends, a restart finds a generation under the name of the file,
\* once one was stored durably and unless somebody deletes it.
NeverMissing ==
    \A d \in images :
        d[Target] = None =>
            \/ removed \/ Deleting
            \/ \A s \in Caller : call[s].expected # Original /\ ~Ended(s, {"committed"})

\* A save that replaces a file and reports that it was rolled back, or an error
\* that claims no outcome, has left nothing that a restart could load.
RolledBackIsGone ==
    \A s \in Caller :
        Ended(s, {"rolledBack", "exists", "error"}) /\ call[s].expected # None =>
            \A d \in images : d[Target] # s

\* No power failure brings back the generation that a committed save replaced
\* or a confirmed deletion removed.
CommittedIsDurable ==
    \A s \in Caller :
        Ended(s, {"committed", "deleted"}) =>
            \A d \in images :
                d[Target] = call[s].expected => d[Target] = None /\ (removed \/ Deleting)

\* Where the file system exchanges names atomically, a generation that a
\* program outside the locks left at the target is not destroyed by a call
\* that never saw it: it stays, at the target or under a private name.
ForeignKept ==
    [][atomic /\ theirs' = theirs /\ theirs # None /\ Stored(theirs) /\ ~Stored(theirs)' =>
          \/ \E s \in Caller : call'[s] # call[s] /\ call[s].expected = theirs
          \/ crashes' # crashes]_vars
=============================================================================
