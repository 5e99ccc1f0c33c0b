--------------------------- MODULE AtomicCheckpoint ---------------------------
(***************************************************************************)
(* What a checkpoint coordinator promises, without its threads, ids, locks *)
(* and tables.  A checkpoint attempt is begun once and decided once: it is *)
(* committed only when the store holds the state that every task took for  *)
(* that very attempt, and what has been stored or decided stays so.        *)
(***************************************************************************)
CONSTANTS
    Tasks,          \* the tasks that take part in every checkpoint
    Attempts        \* the checkpoint attempts, one per barrier injected

VARIABLES
    phase,          \* "unused", "collecting", "committed" or "aborted"
    saved           \* the tasks whose state for the attempt is in the store

vars == <<phase, saved>>

TypeOK ==
    /\ phase \in [Attempts -> {"unused", "collecting", "committed", "aborted"}]
    /\ saved \in [Attempts -> SUBSET Tasks]

Init ==
    /\ phase = [c \in Attempts |-> "unused"]
    /\ saved = [c \in Attempts |-> {}]

Begin(c) ==
    /\ phase[c] = "unused"
    /\ phase' = [phase EXCEPT ![c] = "collecting"]
    /\ UNCHANGED saved

\* A task's state may reach the store after the attempt was given up.
Save(c, t) ==
    /\ phase[c] # "unused"
    /\ saved' = [saved EXCEPT ![c] = @ \cup {t}]
    /\ UNCHANGED phase

Commit(c) ==
    /\ phase[c] = "collecting"
    /\ saved[c] = Tasks
    /\ phase' = [phase EXCEPT ![c] = "committed"]
    /\ UNCHANGED saved

\* Several attempts may be given up at once.
Abort(C) ==
    /\ \A c \in C : phase[c] = "collecting"
    /\ phase' = [c \in Attempts |-> IF c \in C THEN "aborted" ELSE phase[c]]
    /\ UNCHANGED saved

Next ==
    \/ \E c \in Attempts : Begin(c) \/ Commit(c)
    \/ \E c \in Attempts, t \in Tasks : Save(c, t)
    \/ \E C \in SUBSET Attempts : Abort(C)

Spec == Init /\ [][Next]_vars
=============================================================================
