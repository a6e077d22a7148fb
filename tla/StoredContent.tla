---------------------------- MODULE StoredContent ----------------------------
(***************************************************************************)
(* What writing credentials back to their files promises, without saying   *)
(* who writes, when, or how the work is queued: the runtime keeps a        *)
(* content of each item and the base it came from; a save replaces the     *)
(* base in the file, and nothing else, by a content the runtime has or     *)
(* had; once the save is confirmed, what it stored is the new base, and    *)
(* nothing is loaded in between.  The file may be written by others too.   *)
(* The background writer of results (ResultPersistence) implements it.     *)
(*                                                                         *)
(* A content is a number, and a newer content has a greater one.           *)
(***************************************************************************)
EXTENDS Integers

CONSTANTS Item,      \* what is stored
          Content,   \* the contents
          None       \* no content

VARIABLES memory,       \* the content of each item at runtime
          base,         \* the content of the file it came from, None if unknown
          file,         \* the content of its file
          unconfirmed   \* what a save stored that is not the base yet, or None

storedVars == <<memory, base, file, unconfirmed>>

StoredInit ==
    /\ file \in [Item -> Content]
    /\ memory = file
    /\ base = file
    /\ unconfirmed = [i \in Item |-> None]

\* The runtime content changes; v is newer than all there is of i.
Change(i, v) ==
    /\ v > memory[i] /\ v > file[i]
    /\ memory' = [memory EXCEPT ![i] = v]
    /\ UNCHANGED <<base, file, unconfirmed>>

\* Somebody else writes the file.
Overwrite(i, v) ==
    /\ v > memory[i] /\ v > file[i]
    /\ file' = [file EXCEPT ![i] = v]
    /\ UNCHANGED <<memory, base, unconfirmed>>

\* The file is loaded, and its content is the base if the loader knows it.
Load(i, b) ==
    /\ unconfirmed[i] = None
    /\ b \in {file[i], None}
    /\ memory' = [memory EXCEPT ![i] = file[i]]
    /\ base' = [base EXCEPT ![i] = b]
    /\ UNCHANGED <<file, unconfirmed>>

\* A save; told says whether its writer learns that it succeeded.
Save(i, v, told) ==
    /\ unconfirmed[i] = None
    /\ base[i] # None /\ file[i] = base[i]
    /\ base[i] < v /\ v <= memory[i]
    /\ file' = [file EXCEPT ![i] = v]
    /\ unconfirmed' = [unconfirmed EXCEPT ![i] = IF told THEN v ELSE None]
    /\ UNCHANGED <<memory, base>>

\* What was saved is the base from now on.
Confirm(i) ==
    /\ unconfirmed[i] # None
    /\ base' = [base EXCEPT ![i] = unconfirmed[i]]
    /\ unconfirmed' = [unconfirmed EXCEPT ![i] = None]
    /\ UNCHANGED <<memory, file>>

StoredNext ==
    \E i \in Item :
        \/ \E v \in Content : \/ Change(i, v) \/ Overwrite(i, v)
                              \/ \E told \in BOOLEAN : Save(i, v, told)
        \/ \E b \in {file[i], None} : Load(i, b)
        \/ Confirm(i)

StoredSpec == StoredInit /\ [][StoredNext]_storedVars

=============================================================================
