----------------------------- MODULE SourceTask ------------------------------
(***************************************************************************)
(* One task of a TaskManager whose chain begins with a source              *)
(* (taskmanager/task_executor.py, operators/base.py, operators/sources.py).*)
(* The run thread reads a batch and takes each record of it through the    *)
(* stateful operators of the chain; a snapshot is taken operator by        *)
(* operator by another thread, which does not stop the run thread.         *)
(*                                                                         *)
(* The source is one partition of records 1, 2, ...; an operator's state   *)
(* is how often it has counted each record.                                *)
(***************************************************************************)
EXTENDS Naturals, Sequences, FiniteSets

CONSTANTS
    Records,        \* the length of the partition
    Operators,      \* the number of operators behind the source
    max_records,    \* of read_records
    Seekable,       \* TRUE: CollectionSource; FALSE: Kafka, see Deploy
    MaxDeployments, \* bound
    None

ASSUME SourceTaskAssumption ==
    /\ {Records, MaxDeployments} \subseteq Nat
    /\ Operators \in Nat \ {0}
    /\ max_records \in Nat \ {0}
    /\ Seekable \in BOOLEAN
    /\ None \notin [saved : Nat, first : Nat]

Chain == 1 .. Operators

VARIABLES
    deployments,
    running,        \* Task.running
    offset,         \* the number of records the source has read
    polled,         \* the records of the poll that read_records is still to take
    batch,          \* the records that it has taken, not begun
    hand,           \* the record in the chain and the operator it is at
    state,          \* operator -> its state
    snapshot,       \* the snapshot being taken: offset, the states so far
    checkpoint,     \* the last snapshot that was stored
    resumed         \* the offset of the checkpoint restored, and the first read

task == <<deployments, running>>
sourceVars == <<task, offset, polled, batch, hand, state, snapshot, checkpoint, resumed>>

Idle == [record |-> 0, at |-> 0]

NoState == [r \in 1 .. Records |-> 0]

SourceInit ==
    /\ deployments = 0
    /\ running = FALSE
    /\ offset = 0
    /\ polled = 0
    /\ batch = << >>
    /\ hand = Idle
    /\ state = [k \in Chain |-> NoState]
    /\ snapshot = None
    /\ checkpoint = None
    /\ resumed = None
-----------------------------------------------------------------------------
(* The run thread.                                                         *)

Poll ==
    /\ running
    /\ polled = 0 /\ batch = << >> /\ hand = Idle
    /\ \E n \in 1 .. max_records :
          /\ offset + n <= Records
          /\ polled' = n
    /\ UNCHANGED <<task, offset, batch, hand, state, snapshot, checkpoint, resumed>>

(* The offset moves with each record that is taken, and is behind all of   *)
(* the batch before its first record enters the chain.  (That an exception *)
(* cuts a poll of Kafka short, and the rest of it is skipped, is left out.)*)
ReadRecord ==
    /\ polled > 0
    /\ polled' = polled - 1
    /\ offset' = offset + 1
    /\ batch' = Append(batch, offset')
    /\ UNCHANGED <<task, hand, state, snapshot, checkpoint, resumed>>

NextRecord ==
    /\ polled = 0 /\ hand = Idle
    /\ batch # << >>
    /\ hand' = [record |-> Head(batch), at |-> 1]
    /\ batch' = Tail(batch)
    /\ UNCHANGED <<task, offset, polled, state, snapshot, checkpoint, resumed>>

\* Mutant of After: a record leaves the chain too early.
AfterFirst(k) == Idle
After(k) == IF k = Operators THEN Idle ELSE [hand EXCEPT !.at = k + 1]

ProcessElement ==
    /\ hand # Idle
    /\ state' = [state EXCEPT ![hand.at][hand.record] = @ + 1]
    /\ hand' = After(hand.at)
    /\ UNCHANGED <<task, offset, polled, batch, snapshot, checkpoint,
                   resumed>>

(* An operator raises (a sink that cannot write, or that is handed one of  *)
(* the watermarks in the batch): the thread ends.                          *)
OperatorRaises ==
    /\ hand # Idle
    /\ running' = FALSE
    /\ batch' = << >>
    /\ hand' = Idle
    /\ UNCHANGED <<deployments, offset, polled, state, snapshot, checkpoint, resumed>>

(* Another thread stops the task; the run thread works off its batch first. *)
Stop ==
    /\ running
    /\ running' = FALSE
    /\ UNCHANGED <<deployments, offset, polled, batch, hand, state, snapshot,
                   checkpoint, resumed>>
-----------------------------------------------------------------------------
(* The thread that snapshots (process_barrier of a task without upstreams, *)
(* trigger_checkpoint of the executor): the source first.                  *)

SnapshotSource ==
    /\ deployments > 0
    /\ snapshot = None
    /\ snapshot' = [offset |-> offset, states |-> << >>]
    /\ UNCHANGED <<task, offset, polled, batch, hand, state, checkpoint,
                   resumed>>

\* Mutant of SourceOffset: the source is snapshotted behind the operators.
OffsetAtTheEnd == offset
SourceOffset == snapshot.offset

\* The last operator's state completes the snapshot, which is stored.
SnapshotOperator ==
    /\ snapshot # None
    /\ LET k == Len(snapshot.states) + 1
           states == Append(snapshot.states, state[k])
       IN  IF k < Operators
           THEN /\ snapshot' = [snapshot EXCEPT !.states = states]
                /\ UNCHANGED checkpoint
           ELSE /\ snapshot' = None
                /\ checkpoint' = [offset |-> SourceOffset, states |-> states]
    /\ UNCHANGED <<task, offset, polled, batch, hand, state, resumed>>

\* Pickling a dictionary that the run thread grows raises: no snapshot.
SnapshotFails ==
    /\ snapshot # None
    /\ snapshot' = None
    /\ UNCHANGED <<task, offset, polled, batch, hand, state, checkpoint,
                   resumed>>
-----------------------------------------------------------------------------
\* What restore_state makes of the source's part.  A Kafka source has no
\* consumer before open(): it returns at once, and the group, in which nothing
\* was ever committed, starts at the earliest record.
Restored(loaded) == IF Seekable THEN loaded.offset ELSE 0

(* The last checkpoint if there is one and a storage backend has it; else  *)
(* nothing, and every failure of a backend looks like nothing.             *)
LoadCheckpoint == {checkpoint, None}

\* restore_state of the chain gives each operator its own part.
RestoreState(loaded) ==
    /\ offset' = Restored(loaded)
    /\ state' = loaded.states
    /\ resumed' = [saved |-> loaded.offset, first |-> Restored(loaded)]

(* deploy_task, first or again after a crash, a failure or a cancellation: *)
(* a new chain, restored from the checkpoint that was loaded or, without a *)
(* word, left as it is, then opened and started.                           *)
Deploy ==
    /\ deployments < MaxDeployments
    /\ deployments' = deployments + 1
    /\ running' = TRUE
    /\ polled' = 0
    /\ batch' = << >>
    /\ hand' = Idle
    /\ snapshot' = None
    /\ \E loaded \in LoadCheckpoint :
          \/ loaded # None /\ RestoreState(loaded)
          \/ /\ loaded = None
             /\ offset' = 0
             /\ state' = [k \in Chain |-> NoState]
             /\ resumed' = None
    /\ UNCHANGED checkpoint

RunThread == Poll \/ ReadRecord \/ NextRecord \/ ProcessElement

SourceNext ==
    \/ RunThread \/ OperatorRaises \/ Stop
    \/ SnapshotSource \/ SnapshotOperator \/ SnapshotFails
    \/ Deploy

SourceSpec == SourceInit /\ [][SourceNext]_sourceVars
-----------------------------------------------------------------------------
Missed(counts, n) == {r \in 1 .. n : counts[r] = 0}

Behind(r, k) ==
    /\ r <= offset
    /\ \A i \in DOMAIN batch : batch[i] # r
    /\ r = hand.record => k < hand.at

(* Before anything was restored, each record that was read is with the run *)
(* thread or counted, exactly once, by every operator, whatever snapshots  *)
(* are taken meanwhile.                                                    *)
ReadIsProcessed ==
    running /\ resumed = None =>
        \A k \in Chain, r \in 1 .. Records :
            state[k][r] = IF Behind(r, k) THEN 1 ELSE 0

(* The docs promise exactly-once and the exact position.  What the code    *)
(* keeps is less: its snapshot is taken while the run thread goes on, and  *)
(* the source's offset counts the whole batch in hand.  But the source is  *)
(* snapshotted first and operators only count more, so that an operator's  *)
(* state lacks at most one batch of what it is to go on from, and one more *)
(* for each recovery.                                                      *)
LossIsBounded ==
    checkpoint # None =>
        \A k \in Chain :
            Cardinality(Missed(checkpoint.states[k], checkpoint.offset))
                <= max_records * deployments

(* A task that goes on running comes to have counted the whole partition   *)
(* in every operator, unless it was restored from a snapshot that lacks    *)
(* some of it.                                                             *)
InputIsCounted ==
    []<>(running /\ resumed = None =>
            \A k \in Chain : Missed(state[k], Records) = {})

(* docs/architecture.md: "Kafka sources resume from checkpointed offsets". *)
ResumesFromCheckpoint == resumed # None => resumed.first = resumed.saved
=============================================================================
