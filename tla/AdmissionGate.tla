---------------------------- MODULE AdmissionGate ----------------------------
(***************************************************************************)
(* What an admission gate of the proxy promises to the goroutines that      *)
(* pass through it, without saying how it keeps its queue: at most limit    *)
(* clients are let in, nobody waits while there is room, a client that gives *)
(* up leaves nothing behind, and a closed gate lets nobody in.  Two gates of *)
(* the code implement it: the refresh-write coordinator                     *)
(* (RefreshPersistence) and the image execution gates (ImageAdmission),     *)
(* whose limit can be changed while clients are inside.                     *)
(***************************************************************************)
EXTENDS Integers, FiniteSets

CONSTANTS Client,   \* the goroutines that pass the gate
          Limit     \* the limits the gate can be given

VARIABLES inside,   \* the clients that own a slot
          waiting,  \* the clients in the queue
          limit,    \* the current limit
          open      \* FALSE once the gate has been closed

gateVars == <<inside, waiting, limit, open>>

\* Clients W move from the queue into the room that rest leaves below the
\* limit lim: as many as fit, and no more.
Fill(rest, W, lim) ==
    /\ W \subseteq waiting
    /\ W = {} \/ Cardinality(rest \union W) <= lim
    /\ W = waiting \/ Cardinality(rest \union W) >= lim
    /\ inside' = rest \union W
    /\ waiting' = waiting \ W

GateInit ==
    /\ inside = {}
    /\ waiting = {}
    /\ limit \in Limit
    /\ open = TRUE

\* A client finds room and nobody ahead of it.
Enter(c) ==
    /\ open
    /\ c \notin inside \union waiting
    /\ waiting = {}
    /\ Cardinality(inside) < limit
    /\ inside' = inside \union {c}
    /\ UNCHANGED <<waiting, limit, open>>

\* A client queues, because the gate is full or others are ahead of it.
Join(c) ==
    /\ open
    /\ c \notin inside \union waiting
    /\ waiting # {} \/ Cardinality(inside) >= limit
    /\ waiting' = waiting \union {c}
    /\ UNCHANGED <<inside, limit, open>>

\* A waiting client gives up.
Leave(c) ==
    /\ c \in waiting
    /\ waiting' = waiting \ {c}
    /\ UNCHANGED <<inside, limit, open>>

\* A client returns its slot; the room goes to waiting clients at once.
GiveBack(c) ==
    /\ c \in inside
    /\ \E W \in SUBSET waiting : Fill(inside \ {c}, W, limit)
    /\ UNCHANGED <<limit, open>>

\* The limit changes; clients already inside stay, new room is filled.
Resize(l) ==
    /\ limit' = l
    /\ \E W \in SUBSET waiting : Fill(inside, W, l)
    /\ UNCHANGED open

\* The gate is closed and turns every waiting client away.
Shut ==
    /\ open
    /\ open' = FALSE
    /\ waiting' = {}
    /\ UNCHANGED <<inside, limit>>

GateNext ==
    \/ \E c \in Client : Enter(c) \/ Join(c) \/ Leave(c) \/ GiveBack(c)
    \/ \E l \in Limit : Resize(l)
    \/ Shut

GateSpec == GateInit /\ [][GateNext]_gateVars

=============================================================================
