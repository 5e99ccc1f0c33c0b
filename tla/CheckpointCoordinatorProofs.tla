--------------------- MODULE CheckpointCoordinatorProofs ---------------------
(***************************************************************************)
(* Proofs about the checkpoint coordinator, for every number of tasks,     *)
(* acknowledging threads, triggers, recoveries and restarts.               *)
(***************************************************************************)
EXTENDS CheckpointCoordinator, SequenceLemmas

LEMMA InitTypeOK == Init => TypeOK
<1> SUFFICES ASSUME Init PROVE TypeOK
  OBVIOUS
<1> USE CoordinatorAssumption DEF CoordinatorAssumption, Init
<1>1. current_checkpoint_id \in 0 .. MaxTriggers /\ now \in 0 .. MaxTriggers
      /\ expired \in 0 .. now
  OBVIOUS
<1>2. recoveries \in 0 .. MaxRecoveries /\ restarts \in 0 .. MaxRestarts
  OBVIOUS
<1>3. storage \in [Ids -> [Tasks -> Contents \cup {None}]]
  OBVIOUS
<1>4. acker \in [Ackers -> Calls \cup {NoCall}]
  OBVIOUS
<1> QED
  BY <1>1, <1>2, <1>3, <1>4 DEF TypeOK

LEMMA TriggerTypeOK == TypeOK /\ TriggerCheckpoint => TypeOK'
<1> SUFFICES ASSUME TypeOK, TriggerCheckpoint PROVE TypeOK'
  OBVIOUS
<1> USE CoordinatorAssumption DEF CoordinatorAssumption, TypeOK, TriggerCheckpoint, control, bounds
<1>1. NextId \in Ids /\ now + 1 \in Stamps /\ now + 1 \in 0 .. MaxTriggers
  BY DEF Ids, Stamps
<1>2. [timestamp |-> now + 1, task_states |-> {}] \in Metadata
  BY <1>1 DEF Metadata
<1>3. NextId \in 0 .. MaxTriggers
  BY <1>1 DEF Ids
<1>4. expired' \in 0 .. now'
  BY <1>1 DEF Stamps
<1>5. pending_checkpoints' \in [Ids -> Metadata \cup {None}]
  BY <1>1, <1>2
<1>6. pending_acks' \in [Ids -> (SUBSET Tasks) \cup {None}]
  BY <1>1
<1>7. barriers' \in [Stamps -> Ids \cup {None}]
  BY <1>1
<1> QED
  BY <1>1, <1>3, <1>4, <1>5, <1>6, <1>7

LEMMA CallFacts ==
    ASSUME TypeOK, NEW a \in Ackers, acker[a].pc # "idle"
    PROVE  /\ acker[a] \in Calls
           /\ acker[a].id \in Ids
           /\ acker[a].task \in Tasks
           /\ acker[a].state \in Stamps
<1>1. acker[a] \in Calls
  BY DEF TypeOK, NoCall
<1> QED
  BY <1>1 DEF Calls

LEMMA StateFileType ==
    ASSUME TypeOK, NEW a \in Ackers, acker[a].pc # "idle",
           NEW content \in Contents, StateFile(a, content)
    PROVE  storage' \in [Ids -> [Tasks -> Contents \cup {None}]]
<1>1. acker[a].id \in Ids /\ acker[a].task \in Tasks
  BY CallFacts
<1> DEFINE files == [storage[acker[a].id] EXCEPT ![acker[a].task] = content]
<1>2. files \in [Tasks -> Contents \cup {None}]
  BY <1>1 DEF TypeOK
<1>3. storage' = [storage EXCEPT ![acker[a].id] = files]
  BY DEF StateFile
<1> HIDE DEF files
<1> QED
  BY <1>1, <1>2, <1>3 DEF TypeOK

LEMMA GotoType ==
    ASSUME TypeOK, NEW a \in Ackers, acker[a].pc # "idle",
           NEW pc \in {"upload", "write", "record"}, Goto(a, pc)
    PROVE  acker' \in [Ackers -> Calls \cup {NoCall}]
<1>1. [acker[a] EXCEPT !.pc = pc] \in Calls
  BY CallFacts DEF Calls
<1> QED
  BY <1>1 DEF Goto, TypeOK

LEMMA RecordedType ==
    ASSUME TypeOK, NEW a \in Ackers, acker[a].pc # "idle",
           pending_checkpoints[acker[a].id] # None
    PROVE  /\ pending_checkpoints[acker[a].id] \in Metadata
           /\ Recorded(a) \in Metadata
           /\ Recorded(a).timestamp = pending_checkpoints[acker[a].id].timestamp
           /\ Recorded(a).task_states =
                 pending_checkpoints[acker[a].id].task_states \cup {acker[a].task}
<1>1. acker[a].id \in Ids /\ acker[a].task \in Tasks
  BY CallFacts
<1>2. pending_checkpoints[acker[a].id] \in Metadata
  BY <1>1 DEF TypeOK
<1> QED
  BY <1>1, <1>2 DEF Recorded, Metadata

LEMMA UpsertType ==
    ASSUME TypeOK, NEW id \in Ids, NEW metadata \in Metadata,
           Upsert(id, metadata)
    PROVE  /\ db' \in [Ids -> Rows \cup {None}]
           /\ \A i \in Ids \ {id} : db'[i] = db[i]
           /\ db'[id] # None
           /\ db'[id].task_states = metadata.task_states
           /\ db'[id].job_id = IF db[id] = None THEN Job ELSE db[id].job_id
<1>1. CASE db[id] = None
  <2> DEFINE row == [job_id |-> Job, timestamp |-> metadata.timestamp,
                     task_states |-> metadata.task_states]
  <2>1. row \in Rows /\ row # None
    BY CoordinatorAssumption DEF CoordinatorAssumption, Rows, Metadata
  <2>2. db' = [db EXCEPT ![id] = row]
    BY <1>1 DEF Upsert
  <2> QED
    BY <1>1, <2>1, <2>2 DEF TypeOK
<1>2. CASE db[id] # None
  <2> DEFINE row == [db[id] EXCEPT !.task_states = metadata.task_states]
  <2>1. db[id] \in Rows
    BY <1>2 DEF TypeOK
  <2>2. /\ row \in Rows
        /\ row # None
        /\ row.task_states = metadata.task_states
        /\ row.job_id = db[id].job_id
    BY <2>1, CoordinatorAssumption DEF CoordinatorAssumption, Rows, Metadata
  <2>3. db' = [db EXCEPT ![id] = row]
    BY <1>2 DEF Upsert
  <2> HIDE DEF row
  <2> QED
    BY <1>2, <2>2, <2>3 DEF TypeOK
<1> QED
  BY <1>1, <1>2

(* A task acknowledges only what was triggered.                            *)
BarriersSent == \A s \in 1 .. now : barriers[s] # None

(* The facts that hold of the coordinator without any further assumption:  *)
(* TypeOK alone is not inductive, for recording an acknowledgement reads   *)
(* pending_acks after a look at pending_checkpoints only.                  *)
Bookkeeping == TypeOK /\ AcksAccounted /\ BarriersSent

LEMMA AckTypeOK ==
    ASSUME Bookkeeping, NEW a \in Ackers, AckStep(a)
    PROVE  TypeOK'
<1> USE DEF control, bounds, time, collection, Bookkeeping
<1>1. CASE Acknowledge(a)
  <2>1. acker' \in [Ackers -> Calls \cup {NoCall}]
    <3>1. PICK s \in 1 .. now, t \in Tasks :
             /\ Awaited(barriers[s], t)
             /\ acker' = [acker EXCEPT ![a] = [pc |-> "upload",
                               id |-> barriers[s], task |-> t, state |-> s]]
      BY <1>1 DEF Acknowledge
    <3>2. s \in Stamps
      BY CoordinatorAssumption DEF TypeOK, Stamps, CoordinatorAssumption
    <3>3. barriers[s] \in Ids
      BY <3>1, <3>2 DEF BarriersSent, TypeOK
    <3>4. [pc |-> "upload", id |-> barriers[s], task |-> t, state |-> s]
             \in Calls
      BY <3>2, <3>3 DEF Calls
    <3> QED
      BY <3>1, <3>4 DEF TypeOK
  <2> QED
    BY <1>1, <2>1 DEF Acknowledge, TypeOK
<1>2. CASE UploadObject(a)
  <2>1. acker' \in [Ackers -> Calls \cup {NoCall}]
    BY <1>2, GotoType DEF UploadObject
  <2>2. storage' \in [Ids -> [Tasks -> Contents \cup {None}]]
    BY <1>2, CallFacts, StateFileType DEF UploadObject, Contents
  <2> QED
    BY <1>2, <2>1, <2>2 DEF UploadObject, TypeOK
<1>3. CASE OpenFile(a)
  <2>1. acker' \in [Ackers -> Calls \cup {NoCall}]
    BY <1>3, GotoType DEF OpenFile
  <2>2. storage' \in [Ids -> [Tasks -> Contents \cup {None}]]
    BY <1>3, StateFileType DEF OpenFile, Contents
  <2> QED
    BY <1>3, <2>1, <2>2 DEF OpenFile, TypeOK
<1>4. CASE WriteFile(a)
  <2>1. acker' \in [Ackers -> Calls \cup {NoCall}]
    BY <1>4, GotoType DEF WriteFile
  <2>2. storage' \in [Ids -> [Tasks -> Contents \cup {None}]]
    BY <1>4, CallFacts, StateFileType DEF WriteFile, Contents
  <2> QED
    BY <1>4, <2>1, <2>2 DEF WriteFile, TypeOK
<1>5. CASE UploadFails(a)
  <2>1. acker[a].pc # "idle"
    BY <1>5 DEF UploadFails
  <2>2. storage' \in [Ids -> [Tasks -> Contents \cup {None}]]
    <3>1. CASE UNCHANGED storage
      BY <3>1 DEF TypeOK
    <3>2. CASE StateFile(a, acker[a].state)
      BY <2>1, <3>2, CallFacts, StateFileType DEF Contents
    <3> QED
      BY <1>5, <3>1, <3>2 DEF UploadFails
  <2> QED
    BY <1>5, <2>2 DEF UploadFails, Return, TypeOK
<1>6. CASE RecordDropped(a)
  BY <1>6 DEF RecordDropped, Return, TypeOK
<1>7. CASE RecordPending(a)
  <2>1. acker[a].pc # "idle" /\ pending_checkpoints[acker[a].id] # None
    BY <1>7 DEF RecordPending
  <2>2. acker[a].id \in Ids /\ Recorded(a) \in Metadata
    BY <2>1, CallFacts, RecordedType
  <2>3. pending_acks[acker[a].id] \in SUBSET Tasks
    BY <2>1, <2>2 DEF AcksAccounted
  <2>4. StillAwaited(a) \in SUBSET Tasks
    BY <2>3 DEF StillAwaited
  <2>5. pending_checkpoints' \in [Ids -> Metadata \cup {None}]
    BY <1>7, <2>2 DEF RecordPending, TypeOK
  <2>6. pending_acks' \in [Ids -> (SUBSET Tasks) \cup {None}]
    BY <1>7, <2>2, <2>4 DEF RecordPending, TypeOK
  <2> QED
    BY <1>7, <2>5, <2>6 DEF RecordPending, Return, TypeOK
<1>8. CASE RecordLast(a)
  <2>1. acker[a].pc # "idle" /\ pending_checkpoints[acker[a].id] # None
    BY <1>8 DEF RecordLast
  <2>2. acker[a].id \in Ids /\ Recorded(a) \in Metadata
    BY <2>1, CallFacts, RecordedType
  <2>3. db' \in [Ids -> Rows \cup {None}]
    <3>1. CASE Upsert(acker[a].id, Recorded(a))
      BY <3>1, <2>2, UpsertType
    <3>2. CASE UNCHANGED db
      BY <3>2 DEF TypeOK
    <3> QED
      BY <1>8, <3>1, <3>2 DEF RecordLast, Commit, CommitFails
  <2>4. completed_checkpoints' \in [Ids -> Metadata \cup {None}]
    BY <1>8, <2>2 DEF RecordLast, Commit, CommitFails, TypeOK
  <2>5. /\ pending_checkpoints' \in [Ids -> Metadata \cup {None}]
        /\ pending_acks' \in [Ids -> (SUBSET Tasks) \cup {None}]
    BY <1>8, <2>2 DEF RecordLast, TypeOK
  <2> QED
    BY <1>8, <2>3, <2>4, <2>5 DEF RecordLast, Return, TypeOK
<1>9. CASE CommitRaises(a)
  <2>1. acker[a].pc # "idle" /\ pending_checkpoints[acker[a].id] # None
    BY <1>9 DEF CommitRaises
  <2>2. acker[a].id \in Ids /\ Recorded(a) \in Metadata
    BY <2>1, CallFacts, RecordedType
  <2>3. db' \in [Ids -> Rows \cup {None}]
    <3>1. CASE Upsert(acker[a].id, Recorded(a))
      BY <3>1, <2>2, UpsertType
    <3>2. CASE UNCHANGED db
      BY <3>2 DEF TypeOK
    <3> QED
      BY <1>9, <3>1, <3>2 DEF CommitRaises
  <2>4. /\ pending_checkpoints' \in [Ids -> Metadata \cup {None}]
        /\ pending_acks' \in [Ids -> (SUBSET Tasks) \cup {None}]
    BY <1>9, <2>2 DEF CommitRaises, TypeOK
  <2> QED
    BY <1>9, <2>3, <2>4 DEF CommitRaises, Return, TypeOK
<1> QED
  BY <1>1, <1>2, <1>3, <1>4, <1>5, <1>6, <1>7, <1>8, <1>9 DEF AckStep

LEMMA OtherTypeOK ==
    ASSUME TypeOK,
           \/ Elapse \/ LoopTest \/ CheckTimeouts \/ CancelJob
           \/ RecoverRead \/ RecoverReset \/ Restart
    PROVE  TypeOK'
<1> USE CoordinatorAssumption DEF CoordinatorAssumption, TypeOK, volatile,
      bounds, time, collection
<1>1. CASE Elapse
  BY <1>1 DEF Elapse
<1>2. CASE LoopTest
  BY <1>2 DEF LoopTest
<1>3. CASE CheckTimeouts
  BY <1>3 DEF CheckTimeouts
<1>4. CASE CancelJob
  BY <1>4 DEF CancelJob
<1>5. CASE RecoverRead
  BY <1>5 DEF RecoverRead
<1>6. CASE RecoverReset
  BY <1>6 DEF RecoverReset, Ids
<1>7. CASE Restart
  <2>2. restarts' \in 0 .. MaxRestarts /\ 0 \in 0 .. MaxTriggers
    BY <1>7 DEF Restart
  <2>1. acker' \in [Ackers -> Calls \cup {NoCall}]
    BY <1>7 DEF Restart
  <2> QED
    BY <1>7, <2>1, <2>2 DEF Restart
<1> QED
  BY <1>1, <1>2, <1>3, <1>4, <1>5, <1>6, <1>7

LEMMA InitBookkeeping == Init => Bookkeeping
BY InitTypeOK, CoordinatorAssumption
   DEF Init, Bookkeeping, AcksAccounted, BarriersSent, CoordinatorAssumption

LEMMA StepTypeOK == Bookkeeping /\ [Next]_vars => TypeOK'
<1>1. Bookkeeping /\ UNCHANGED vars => TypeOK'
  BY DEF Bookkeeping, TypeOK, vars, volatile, bounds, time
<1> QED
  BY <1>1, TriggerTypeOK, AckTypeOK, OtherTypeOK DEF Next, Bookkeeping

LEMMA StepBarriersSent == Bookkeeping /\ [Next]_vars => BarriersSent'
<1> SUFFICES ASSUME Bookkeeping, [Next]_vars PROVE BarriersSent'
  OBVIOUS
<1> USE DEF Bookkeeping, BarriersSent
<1>1. CASE TriggerCheckpoint
  BY <1>1, CoordinatorAssumption
     DEF TriggerCheckpoint, TypeOK, Stamps, Ids, CoordinatorAssumption
<1>2. CASE UNCHANGED time
  BY <1>2 DEF time
<1>3. CASE Elapse
  BY <1>3 DEF Elapse
<1>4. TriggerCheckpoint \/ UNCHANGED time \/ Elapse
  BY DEF Next, vars, time, AckStep, Acknowledge, UploadObject, OpenFile,
         WriteFile, UploadFails, RecordDropped, RecordPending, RecordLast,
         CommitRaises, LoopTest, CheckTimeouts, CancelJob, RecoverRead, RecoverReset, Restart
<1> QED
  BY <1>1, <1>2, <1>3, <1>4

(* The call that makes the set of awaited tasks empty has a path for each. *)
LEMMA LastRecordsAll ==
    ASSUME Bookkeeping, NEW a \in Ackers, RecordLast(a) \/ CommitRaises(a)
    PROVE  /\ acker[a].id \in Ids
           /\ Recorded(a) \in Metadata
           /\ Recorded(a).task_states = Tasks
           /\ Recorded(a).timestamp = pending_checkpoints[acker[a].id].timestamp
<1>1. acker[a].pc # "idle" /\ pending_checkpoints[acker[a].id] # None
  BY DEF RecordLast, CommitRaises
<1>2. acker[a].id \in Ids /\ acker[a].task \in Tasks
  BY <1>1, CallFacts DEF Bookkeeping
<1>3. /\ pending_checkpoints[acker[a].id] \in Metadata
      /\ Recorded(a) \in Metadata
      /\ Recorded(a).timestamp = pending_checkpoints[acker[a].id].timestamp
      /\ Recorded(a).task_states
            = pending_checkpoints[acker[a].id].task_states \cup {acker[a].task}
  BY <1>1, RecordedType DEF Bookkeeping
<1>4. Tasks \ pending_checkpoints[acker[a].id].task_states \subseteq {acker[a].task}
  BY <1>1, <1>2 DEF RecordLast, CommitRaises, StillAwaited, Bookkeeping, AcksAccounted
<1> QED
  BY <1>2, <1>3, <1>4 DEF Metadata

LEMMA StepAcksAccounted == Bookkeeping /\ [Next]_vars => AcksAccounted'
<1> SUFFICES ASSUME Bookkeeping, [Next]_vars PROVE AcksAccounted'
  OBVIOUS
<1> USE DEF Bookkeeping, AcksAccounted
<1>1. CASE TriggerCheckpoint
  <2>1. NextId \in Ids
    BY <1>1 DEF TriggerCheckpoint
  <2> DEFINE metadata == [timestamp |-> now + 1, task_states |-> {}]
  <2>2. metadata # None
    BY <1>1, CoordinatorAssumption
       DEF CoordinatorAssumption, Metadata, TriggerCheckpoint, Stamps, TypeOK
  <2> QED
    BY <1>1, <2>1, <2>2, CoordinatorAssumption
       DEF TriggerCheckpoint, TypeOK, CoordinatorAssumption
<1>2. CASE \E a \in Ackers : RecordPending(a)
  <2>1. PICK a \in Ackers : RecordPending(a)
    BY <1>2
  <2>2. acker[a].pc # "idle" /\ pending_checkpoints[acker[a].id] # None
    BY <2>1 DEF RecordPending
  <2>3. acker[a].id \in Ids /\ acker[a].task \in Tasks
    BY <2>2, CallFacts
  <2>4. Recorded(a) # None
    BY <2>2, RecordedType, CoordinatorAssumption DEF CoordinatorAssumption
  <2>5. Recorded(a).task_states
            = pending_checkpoints[acker[a].id].task_states \cup {acker[a].task}
    BY <2>2, RecordedType
  <2>6. StillAwaited(a) = Tasks \ Recorded(a).task_states
    BY <2>2, <2>3, <2>5 DEF StillAwaited
  <2> QED
    BY <2>1, <2>3, <2>4, <2>6 DEF RecordPending, TypeOK
<1>3. CASE \E a \in Ackers : RecordLast(a)
  <2>1. PICK a \in Ackers : RecordLast(a)
    BY <1>3
  <2>2. acker[a].id \in Ids
    BY <2>1, CallFacts DEF RecordLast
  <2> QED
    BY <2>1, <2>2 DEF RecordLast, TypeOK
<1>8. CASE \E a \in Ackers : CommitRaises(a)
  <2>1. PICK a \in Ackers : CommitRaises(a)
    BY <1>8
  <2>2. /\ acker[a].id \in Ids
        /\ Recorded(a) \in Metadata
        /\ Recorded(a).task_states = Tasks
    BY <2>1, LastRecordsAll
  <2>3. Recorded(a) # None
    BY <2>2, CoordinatorAssumption DEF CoordinatorAssumption
  <2> QED
    BY <2>1, <2>2, <2>3 DEF CommitRaises, TypeOK
<1>4. CASE CheckTimeouts
  BY <1>4 DEF CheckTimeouts
<1>5. CASE Restart
  BY <1>5 DEF Restart
<1>6. CASE UNCHANGED <<pending_checkpoints, pending_acks>>
  BY <1>6
<1>7. \/ TriggerCheckpoint \/ CheckTimeouts \/ Restart
      \/ \E a \in Ackers : RecordPending(a) \/ RecordLast(a) \/ CommitRaises(a)
      \/ UNCHANGED <<pending_checkpoints, pending_acks>>
  BY DEF Next, vars, volatile, collection, AckStep, Acknowledge, UploadObject,
         OpenFile, WriteFile, UploadFails, RecordDropped, Elapse, LoopTest,
         CancelJob, RecoverRead, RecoverReset
<1> QED
  BY <1>1, <1>2, <1>3, <1>4, <1>5, <1>6, <1>7, <1>8

LEMMA BookkeepingHolds == Spec => []Bookkeeping
<1>1. Bookkeeping /\ [Next]_vars => Bookkeeping'
  BY StepTypeOK, StepBarriersSent, StepAcksAccounted DEF Bookkeeping
<1> QED
  BY <1>1, InitBookkeeping, PTL DEF Spec

-----------------------------------------------------------------------------
(* Every variable of the coordinator, the store and the table keeps its    *)
(* type through all interleavings, failures, recoveries and restarts.      *)
THEOREM TypeCorrect == Spec => []TypeOK
<1>1. Bookkeeping => TypeOK
  BY DEF Bookkeeping
<1> QED
  BY <1>1, BookkeepingHolds, PTL

(* pending_acks and the recorded task states of a pending checkpoint       *)
(* always split the job's tasks between them.                              *)
THEOREM AcksAreAccounted == Spec => []AcksAccounted
<1>1. Bookkeeping => AcksAccounted
  BY DEF Bookkeeping
<1> QED
  BY <1>1, BookkeepingHolds, PTL

-----------------------------------------------------------------------------
(* What a completed checkpoint and a row of the table stand for.  With a   *)
(* table of its own, every row was inserted by this job's coordinator.     *)

RowsOwn == \A id \in Ids : db[id] # None => db[id].job_id = Job

Durability == OnlyWholeCheckpoints /\ CompletedIsDurable /\ RowsOwn

LEMMA StepDurability == Bookkeeping /\ Durability /\ [Next]_vars => Durability'
<1> SUFFICES ASSUME Bookkeeping, Durability, [Next]_vars PROVE Durability'
  OBVIOUS
<1> USE DEF Durability, OnlyWholeCheckpoints, CompletedIsDurable, RowsOwn
<1>1. CASE \E a \in Ackers : RecordLast(a) \/ CommitRaises(a)
  <2>1. PICK a \in Ackers : RecordLast(a) \/ CommitRaises(a)
    BY <1>1
  <2> DEFINE id == acker[a].id
             whole == Recorded(a)
  <2>2. /\ id \in Ids
        /\ whole \in Metadata
        /\ whole.task_states = Tasks
    BY <2>1, LastRecordsAll
  <2> HIDE DEF id, whole
  <2>3. CASE Upsert(id, whole)
    <3>1. /\ \A i \in Ids \ {id} : db'[i] = db[i]
          /\ db'[id] # None
          /\ db'[id].task_states = Tasks
          /\ db'[id].job_id = Job
      BY <2>2, <2>3, UpsertType DEF Bookkeeping
    <3>2. \/ completed_checkpoints' = [completed_checkpoints EXCEPT ![id] = whole]
          \/ UNCHANGED completed_checkpoints
      BY <2>1 DEF RecordLast, CommitRaises, Commit, CommitFails, id, whole
    <3>3. \A i \in Ids : \/ completed_checkpoints'[i] = completed_checkpoints[i]
                         \/ i = id /\ completed_checkpoints'[i] = whole
      BY <3>2, <2>2 DEF Bookkeeping, TypeOK
    <3>4. \A i \in Ids : db'[i] = db[i] \/ i = id
      BY <3>1
    <3> QED
      BY <3>1, <3>3, <3>4, <2>2
  <2>4. CASE UNCHANGED <<db, completed_checkpoints>>
    BY <2>4
  <2> QED
    BY <2>1, <2>3, <2>4
       DEF RecordLast, CommitRaises, Commit, CommitFails, id, whole
<1>2. CASE Restart
  BY <1>2 DEF Restart
<1>3. CASE UNCHANGED <<db, completed_checkpoints>>
  BY <1>3
<1>4. \/ \E a \in Ackers : RecordLast(a) \/ CommitRaises(a)
      \/ Restart
      \/ UNCHANGED <<db, completed_checkpoints>>
  BY DEF Next, vars, volatile, collection, AckStep, Acknowledge, UploadObject,
         OpenFile, WriteFile, UploadFails, RecordDropped, RecordPending, Elapse,
         LoopTest, CheckTimeouts, CancelJob, RecoverRead, RecoverReset,
         TriggerCheckpoint
<1> QED
  BY <1>1, <1>2, <1>3, <1>4

LEMMA DurabilityHolds == Spec => []Durability
<1>1. Init => Durability
  BY DEF Init, Durability, OnlyWholeCheckpoints, CompletedIsDurable, RowsOwn
<1> QED
  BY <1>1, StepDurability, BookkeepingHolds, PTL DEF Spec

(* Neither the memory nor the table ever holds a completed checkpoint that *)
(* lacks the state of a task, even when two acknowledgements of the same   *)
(* task are in flight, a timeout comes between, or ids are used again.     *)
THEOREM CheckpointsAreWhole == Spec => []OnlyWholeCheckpoints
<1>1. Durability => OnlyWholeCheckpoints
  BY DEF Durability
<1> QED
  BY <1>1, DurabilityHolds, PTL

(* A coordinator with the table to itself offers for recovery only what    *)
(* has a row of its job.                                                   *)
THEOREM CompletedAreDurable == Spec => []CompletedIsDurable
<1>1. Durability => CompletedIsDurable
  BY DEF Durability
<1> QED
  BY <1>1, DurabilityHolds, PTL
-----------------------------------------------------------------------------
(***************************************************************************)
(* As long as no recovery and no restart makes the coordinator hand out an *)
(* id again, and the store keeps whole objects, a completed checkpoint can *)
(* be restored and the coordinator implements AtomicCheckpoint.            *)
(***************************************************************************)

IdsUsedOnce == AtomicPut /\ MaxRecoveries = 0 /\ MaxRestarts = 0

(* An id then names one attempt, its own timestamp in this model: whatever *)
(* the coordinator or a thread holds under an id is about that attempt.    *)
FreshIds ==
    /\ current_checkpoint_id = now
    /\ recovering = None
    /\ \A s \in Stamps : barriers[s] = IF s <= now THEN s ELSE None
    /\ \A i \in Ids :
          /\ pending_checkpoints[i] # None =>
                pending_checkpoints[i].timestamp = i /\ i <= now
          /\ completed_checkpoints[i] # None =>
                /\ completed_checkpoints[i].timestamp = i
                /\ i <= now
                /\ pending_checkpoints[i] = None
    /\ \A a \in Ackers : acker[a].pc # "idle" =>
          /\ acker[a].pc # "write"
          /\ acker[a].state = acker[a].id
          /\ acker[a].id <= now

Stored(i, t) == storage[i][t] = i

(* The store holds what was acknowledged, under the id it belongs to.      *)
FilesInPlace ==
    /\ \A i \in Ids, t \in Tasks : Stored(i, t) \/ storage[i][t] = None
    /\ \A i \in Ids, t \in Tasks : i > now => storage[i][t] = None
    /\ \A a \in Ackers : acker[a].pc = "record" =>
          Stored(acker[a].id, acker[a].task)
    /\ \A i \in Ids : pending_checkpoints[i] # None =>
          \A t \in pending_checkpoints[i].task_states : Stored(i, t)
    /\ \A i \in Ids : completed_checkpoints[i] # None =>
          \A t \in Tasks : Stored(i, t)

LEMMA InitFresh == Init => FreshIds /\ FilesInPlace
BY CoordinatorAssumption
   DEF Init, FreshIds, FilesInPlace, Stored, CoordinatorAssumption, NoCall,
       Stamps, Ids

LEMMA StepFreshIds ==
    ASSUME IdsUsedOnce, Bookkeeping, FreshIds, [Next]_vars
    PROVE  FreshIds'
<1> USE DEF FreshIds, Bookkeeping
<1> USE CoordinatorAssumption DEF CoordinatorAssumption, control, bounds, time,
      collection
<1>1. CASE TriggerCheckpoint
  <2> DEFINE metadata == [timestamp |-> now + 1, task_states |-> {}]
  <2>1. NextId = now + 1 /\ NextId \in Ids /\ now \in Nat /\ now' = now + 1
    BY <1>1 DEF TriggerCheckpoint, NextId, TypeOK
  <2>2. \A i \in Ids : pending_checkpoints'[i] =
           IF i = now + 1 THEN metadata ELSE pending_checkpoints[i]
    BY <1>1, <2>1 DEF TriggerCheckpoint, TypeOK
  <2>3. \A s \in Stamps : barriers'[s] = IF s <= now' THEN s ELSE None
    BY <1>1, <2>1 DEF TriggerCheckpoint, TypeOK, Stamps, Ids
  <2>4. metadata.timestamp = now + 1
    OBVIOUS
  <2>5. \A i \in Ids : i <= now => i <= now' /\ i # now + 1
    BY <2>1 DEF Ids
  <2>6. \A a \in Ackers : acker[a].pc # "idle" => acker[a].id \in Ids
    BY CallFacts
  <2> HIDE DEF metadata
  <2>7. UNCHANGED <<completed_checkpoints, acker, recovering>>
        /\ current_checkpoint_id' = now'
    BY <1>1, <2>1 DEF TriggerCheckpoint
  <2>8. \A i \in Ids :
          /\ pending_checkpoints'[i] # None =>
                pending_checkpoints'[i].timestamp = i /\ i <= now'
          /\ completed_checkpoints'[i] # None =>
                /\ completed_checkpoints'[i].timestamp = i
                /\ i <= now'
                /\ pending_checkpoints'[i] = None
    <3> SUFFICES ASSUME NEW i \in Ids
                 PROVE  /\ pending_checkpoints'[i] # None =>
                              pending_checkpoints'[i].timestamp = i /\ i <= now'
                        /\ completed_checkpoints'[i] # None =>
                              /\ completed_checkpoints'[i].timestamp = i
                              /\ i <= now'
                              /\ pending_checkpoints'[i] = None
      OBVIOUS
    <3>1. CASE i = now + 1
      <4>1. completed_checkpoints'[i] = None
        BY <2>5, <2>7, <3>1
      <4>2. i <= now'
        BY <2>1, <3>1
      <4> QED
        BY <2>2, <2>4, <3>1, <4>1, <4>2
    <3>2. CASE i # now + 1
      BY <2>2, <2>5, <2>7, <3>2
    <3> QED
      BY <3>1, <3>2
  <2>9. \A a \in Ackers : acker'[a].pc # "idle" =>
          /\ acker'[a].pc # "write"
          /\ acker'[a].state = acker'[a].id
          /\ acker'[a].id <= now'
    BY <2>5, <2>6, <2>7
  <2> QED
    BY <2>3, <2>7, <2>8, <2>9
<1>2. ASSUME NEW a \in Ackers, AckStep(a) PROVE FreshIds'
  <2>1. CASE Acknowledge(a)
    <3>1. PICK s \in 1 .. now, t \in Tasks :
             acker' = [acker EXCEPT ![a] = [pc |-> "upload",
                               id |-> barriers[s], task |-> t, state |-> s]]
      BY <2>1 DEF Acknowledge
    <3>2. barriers[s] = s /\ s <= now
      BY DEF TypeOK, Stamps
    <3> QED
      BY <2>1, <3>1, <3>2 DEF Acknowledge, TypeOK
  <2>2. CASE UploadObject(a)
    <3>1. acker' = [acker EXCEPT ![a] = [acker[a] EXCEPT !.pc = "record"]]
      BY <2>2 DEF UploadObject, Goto
    <3>2. acker[a] \in Calls /\ acker[a].pc # "idle"
      BY <2>2, CallFacts DEF UploadObject
    <3>3. /\ [acker[a] EXCEPT !.pc = "record"].state = acker[a].state
          /\ [acker[a] EXCEPT !.pc = "record"].id = acker[a].id
          /\ [acker[a] EXCEPT !.pc = "record"].pc = "record"
      BY <3>2 DEF Calls
    <3> QED
      BY <2>2, <3>1, <3>2, <3>3 DEF UploadObject, TypeOK
  <2>3. CASE OpenFile(a) \/ WriteFile(a)
    BY <2>3 DEF OpenFile, WriteFile, IdsUsedOnce
  <2>4. CASE UploadFails(a) \/ RecordDropped(a)
    BY <2>4 DEF UploadFails, RecordDropped, Return, NoCall, TypeOK
  <2>5. CASE RecordPending(a)
    <3>1. acker[a].pc # "idle" /\ pending_checkpoints[acker[a].id] # None
      BY <2>5 DEF RecordPending
    <3>2. /\ acker[a].id \in Ids
          /\ Recorded(a).timestamp = pending_checkpoints[acker[a].id].timestamp
      BY <3>1, CallFacts, RecordedType
    <3>3. \A i \in Ids : pending_checkpoints'[i] =
             IF i = acker[a].id THEN Recorded(a) ELSE pending_checkpoints[i]
      BY <2>5, <3>2 DEF RecordPending, TypeOK
    <3> QED
      BY <2>5, <3>1, <3>2, <3>3 DEF RecordPending, Return, NoCall, TypeOK
  <2>6. CASE RecordLast(a)
    <3>1. pending_checkpoints[acker[a].id] # None
      BY <2>6 DEF RecordLast
    <3>2. /\ acker[a].id \in Ids
          /\ Recorded(a).timestamp = acker[a].id
      BY <2>6, <3>1, LastRecordsAll
    <3>3. \A i \in Ids : pending_checkpoints'[i] =
             IF i = acker[a].id THEN None ELSE pending_checkpoints[i]
      BY <2>6, <3>2 DEF RecordLast, TypeOK
    <3>4. \A i \in Ids :
             \/ completed_checkpoints'[i] = completed_checkpoints[i]
             \/ i = acker[a].id /\ completed_checkpoints'[i] = Recorded(a)
      BY <2>6, <3>2 DEF RecordLast, Commit, CommitFails, TypeOK
    <3> QED
      BY <2>6, <3>1, <3>2, <3>3, <3>4 DEF RecordLast, Return, NoCall, TypeOK
  <2>7. CASE CommitRaises(a)
    <3>1. acker[a].pc # "idle" /\ pending_checkpoints[acker[a].id] # None
      BY <2>7 DEF CommitRaises
    <3>2. /\ acker[a].id \in Ids
          /\ Recorded(a).timestamp = pending_checkpoints[acker[a].id].timestamp
      BY <3>1, CallFacts, RecordedType
    <3>3. \A i \in Ids : pending_checkpoints'[i] =
             IF i = acker[a].id THEN Recorded(a) ELSE pending_checkpoints[i]
      BY <2>7, <3>2 DEF CommitRaises, TypeOK
    <3> QED
      BY <2>7, <3>1, <3>2, <3>3 DEF CommitRaises, Return, NoCall, TypeOK
  <2> QED
    BY <1>2, <2>1, <2>2, <2>3, <2>4, <2>5, <2>6, <2>7 DEF AckStep
<1>3. CASE CheckTimeouts
  BY <1>3 DEF CheckTimeouts
<1>4. CASE RecoverRead \/ RecoverReset \/ Restart
  BY <1>4 DEF RecoverRead, RecoverReset, Restart, IdsUsedOnce, TypeOK
<1>5. CASE Elapse \/ LoopTest \/ CancelJob \/ UNCHANGED vars
  BY <1>5 DEF Elapse, LoopTest, CancelJob, vars, volatile
<1> QED
  BY <1>1, <1>2, <1>3, <1>4, <1>5 DEF Next

LEMMA StepFilesInPlace ==
    ASSUME IdsUsedOnce, Bookkeeping, FreshIds, FilesInPlace, [Next]_vars
    PROVE  FilesInPlace'
<1> USE DEF FilesInPlace, Stored
<1> USE CoordinatorAssumption DEF CoordinatorAssumption, control, bounds, time,
      collection
<1>0. TypeOK
  BY DEF Bookkeeping
<1>1. CASE TriggerCheckpoint
  <2> DEFINE metadata == [timestamp |-> now + 1, task_states |-> {}]
  <2>1. NextId = now + 1 /\ NextId \in Ids /\ now \in Nat /\ now' = now + 1
    BY <1>0, <1>1 DEF TriggerCheckpoint, NextId, TypeOK, FreshIds
  <2>2. \A i \in Ids : pending_checkpoints'[i] =
           IF i = now + 1 THEN metadata ELSE pending_checkpoints[i]
    BY <1>0, <1>1, <2>1 DEF TriggerCheckpoint, TypeOK
  <2>3. metadata.task_states = {}
    OBVIOUS
  <2>4. \A i \in Ids : i > now' => i > now
    BY <2>1 DEF Ids
  <2>5. UNCHANGED <<completed_checkpoints, acker, storage>>
    BY <1>1 DEF TriggerCheckpoint
  <2> HIDE DEF metadata
  <2> QED
    BY <2>2, <2>3, <2>4, <2>5
<1>2. ASSUME NEW a \in Ackers, AckStep(a) PROVE FilesInPlace'
  <2> DEFINE id == acker[a].id
             task == acker[a].task
  <2>0. acker[a].pc # "idle" =>
          /\ id \in Ids
          /\ task \in Tasks
          /\ acker[a].state = id
          /\ id <= now
    BY <1>0, CallFacts DEF FreshIds
  <2>1. CASE Acknowledge(a)
    <3>1. \A b \in Ackers : acker'[b].pc = "record" => acker'[b] = acker[b]
      BY <1>0, <2>1 DEF Acknowledge, TypeOK
    <3> QED
      BY <2>1, <3>1 DEF Acknowledge
  <2>2. ASSUME StateFile(a, id), acker[a].pc # "idle"
        PROVE  \A i \in Ids, t \in Tasks : storage'[i][t] =
                  IF i = id /\ t = task THEN id ELSE storage[i][t]
    BY <1>0, <2>0, <2>2 DEF StateFile, TypeOK
  <2>3. CASE UploadObject(a)
    <3>1. \A i \in Ids, t \in Tasks : storage'[i][t] =
              IF i = id /\ t = task THEN id ELSE storage[i][t]
      BY <2>0, <2>2, <2>3 DEF UploadObject
    <3>2. acker' = [acker EXCEPT ![a] = [acker[a] EXCEPT !.pc = "record"]]
      BY <2>3 DEF UploadObject, Goto
    <3>3. /\ [acker[a] EXCEPT !.pc = "record"].task = task
          /\ [acker[a] EXCEPT !.pc = "record"].id = id
      BY <1>0, <2>3, CallFacts DEF UploadObject, Calls
    <3>4. \A b \in Ackers : /\ b # a => acker'[b] = acker[b]
                            /\ b = a => acker'[b].id = id /\ acker'[b].task = task
      BY <1>0, <3>2, <3>3 DEF TypeOK
    <3>5. UNCHANGED <<pending_checkpoints, completed_checkpoints, now>>
      BY <2>3 DEF UploadObject
    <3>6. \A i \in Ids, t \in Tasks : storage[i][t] = i => storage'[i][t] = i
      BY <3>1
    <3>7. \A b \in Ackers : acker'[b].pc = "record" =>
             storage'[acker'[b].id][acker'[b].task] = acker'[b].id
      <4> SUFFICES ASSUME NEW b \in Ackers, acker'[b].pc = "record"
                   PROVE  storage'[acker'[b].id][acker'[b].task] = acker'[b].id
        OBVIOUS
      <4>1. CASE b = a
        BY <2>0, <2>3, <3>1, <3>4, <4>1 DEF UploadObject
      <4>2. CASE b # a
        BY <1>0, <3>4, <3>6, <4>2, CallFacts
      <4> QED
        BY <4>1, <4>2
    <3>8. \A i \in Ids : pending_checkpoints[i] # None =>
             pending_checkpoints[i].task_states \subseteq Tasks
      BY <1>0 DEF TypeOK, Metadata
    <3>9. id \in Nat /\ now \in Nat /\ Ids \subseteq Nat /\ id <= now
      BY <1>0, <2>0, <2>3 DEF UploadObject, TypeOK, Ids
    <3> QED
      BY <3>1, <3>5, <3>6, <3>7, <3>8, <3>9
  <2>4. CASE OpenFile(a) \/ WriteFile(a)
    BY <2>4 DEF OpenFile, WriteFile, IdsUsedOnce, FreshIds
  <2>5. CASE UploadFails(a)
    <3>1. \A i \in Ids, t \in Tasks :
             \/ storage'[i][t] = storage[i][t]
             \/ i = id /\ storage'[i][t] = id
      BY <2>0, <2>2, <2>5 DEF UploadFails
    <3>2. \A b \in Ackers : acker'[b].pc = "record" => acker'[b] = acker[b]
      BY <1>0, <2>5 DEF UploadFails, Return, NoCall, TypeOK
    <3>3. UNCHANGED <<pending_checkpoints, completed_checkpoints, now>>
      BY <2>5 DEF UploadFails
    <3>4. \A i \in Ids, t \in Tasks : storage[i][t] = i => storage'[i][t] = i
      BY <3>1
    <3>5. \A i \in Ids : pending_checkpoints[i] # None =>
             pending_checkpoints[i].task_states \subseteq Tasks
      BY <1>0 DEF TypeOK, Metadata
    <3>6. id \in Nat /\ now \in Nat /\ Ids \subseteq Nat /\ id <= now
      BY <1>0, <2>0, <2>5 DEF UploadFails, TypeOK, Ids
    <3>7. \A b \in Ackers : acker'[b].pc = "record" =>
             storage'[acker'[b].id][acker'[b].task] = acker'[b].id
      BY <1>0, <3>2, <3>4, CallFacts
    <3> QED
      BY <3>1, <3>3, <3>4, <3>5, <3>6, <3>7
  <2>6. CASE RecordDropped(a)
    BY <1>0, <2>6 DEF RecordDropped, Return, NoCall, TypeOK
  <2>7. CASE RecordPending(a)
    <3>1. acker[a].pc # "idle" /\ pending_checkpoints[id] # None
          /\ storage[id][task] = id
      BY <2>7 DEF RecordPending
    <3>2. Recorded(a).task_states = pending_checkpoints[id].task_states \cup {task}
      BY <1>0, <3>1, RecordedType
    <3>3. \A i \in Ids : pending_checkpoints'[i] =
             IF i = id THEN Recorded(a) ELSE pending_checkpoints[i]
      BY <1>0, <2>7 DEF RecordPending, TypeOK
    <3>4. \A b \in Ackers : acker'[b].pc = "record" => acker'[b] = acker[b]
      BY <1>0, <2>7 DEF RecordPending, Return, NoCall, TypeOK
    <3> QED
      BY <2>0, <2>7, <3>1, <3>2, <3>3, <3>4 DEF RecordPending
  <2>9. CASE CommitRaises(a)
    <3>1. acker[a].pc # "idle" /\ pending_checkpoints[id] # None
          /\ storage[id][task] = id
      BY <2>9 DEF CommitRaises
    <3>2. Recorded(a).task_states = pending_checkpoints[id].task_states \cup {task}
      BY <1>0, <3>1, RecordedType
    <3>3. \A i \in Ids : pending_checkpoints'[i] =
             IF i = id THEN Recorded(a) ELSE pending_checkpoints[i]
      BY <1>0, <2>9 DEF CommitRaises, TypeOK
    <3>4. \A b \in Ackers : acker'[b].pc = "record" => acker'[b] = acker[b]
      BY <1>0, <2>9 DEF CommitRaises, Return, NoCall, TypeOK
    <3> QED
      BY <2>0, <2>9, <3>1, <3>2, <3>3, <3>4 DEF CommitRaises
  <2>8. CASE RecordLast(a)
    <3>1. acker[a].pc # "idle" /\ pending_checkpoints[id] # None
          /\ storage[id][task] = id
      BY <2>8 DEF RecordLast
    <3>2. Recorded(a).task_states = pending_checkpoints[id].task_states \cup {task}
      BY <1>0, <3>1, RecordedType
    <3>3. \A t \in Tasks : storage[id][t] = id
      BY <2>0, <2>8, <3>1, <3>2, LastRecordsAll
    <3>4. \A i \in Ids : \/ completed_checkpoints'[i] = completed_checkpoints[i]
                         \/ i = id
      BY <1>0, <2>8 DEF RecordLast, Commit, CommitFails, TypeOK
    <3>5. \A i \in Ids : pending_checkpoints'[i] =
             IF i = id THEN None ELSE pending_checkpoints[i]
      BY <1>0, <2>8 DEF RecordLast, TypeOK
    <3>6. \A b \in Ackers : acker'[b].pc = "record" => acker'[b] = acker[b]
      BY <1>0, <2>8 DEF RecordLast, Return, NoCall, TypeOK
    <3> QED
      BY <2>8, <3>3, <3>4, <3>5, <3>6 DEF RecordLast
  <2> QED
    BY <1>2, <2>1, <2>3, <2>4, <2>5, <2>6, <2>7, <2>8, <2>9 DEF AckStep
<1>3. CASE CheckTimeouts
  BY <1>3 DEF CheckTimeouts
<1>4. CASE RecoverRead \/ RecoverReset \/ Restart
  BY <1>0, <1>4 DEF RecoverRead, RecoverReset, Restart, IdsUsedOnce, TypeOK, FreshIds
<1>5. CASE Elapse \/ LoopTest \/ CancelJob \/ UNCHANGED vars
  BY <1>5 DEF Elapse, LoopTest, CancelJob, vars, volatile
<1> QED
  BY <1>1, <1>2, <1>3, <1>4, <1>5 DEF Next

LEMMA FreshHolds ==
    ASSUME IdsUsedOnce PROVE Spec => [](Bookkeeping /\ FreshIds /\ FilesInPlace)
<1>1. /\ Bookkeeping /\ FreshIds /\ FilesInPlace
      /\ Bookkeeping' /\ [Next]_vars
      => FreshIds' /\ FilesInPlace'
  BY StepFreshIds, StepFilesInPlace
<1> QED
  BY <1>1, InitFresh, BookkeepingHolds, PTL DEF Spec

(* What a completed checkpoint points at is, for every task, the state the *)
(* task took for it, whatever uploads are late, repeated or failed.        *)
THEOREM CompletedAreRestorable ==
    ASSUME IdsUsedOnce PROVE Spec => []CompletedIsRestorable
<1>1. FreshIds /\ FilesInPlace => CompletedIsRestorable
  BY DEF FreshIds, FilesInPlace, Stored, CompletedIsRestorable
<1> QED
  BY <1>1, FreshHolds, PTL

(* An acknowledgement is counted for the attempt its state was taken for.  *)
THEOREM AcksMatchAttempts ==
    ASSUME IdsUsedOnce PROVE Spec => []AckMatchesAttempt
<1>1. Bookkeeping /\ FreshIds => AckMatchesAttempt
  BY CallFacts DEF Bookkeeping, FreshIds, AckMatchesAttempt
<1> QED
  BY <1>1, FreshHolds, PTL

(* max() of a set of ids is there, and it is the largest.                  *)
LEMMA LatestIsLargest ==
    ASSUME NEW ids, ids \subseteq Ids, ids # {}
    PROVE  Latest(ids) \in ids /\ \A i \in ids : i <= Latest(ids)
<1>1. MaxTriggers \in Nat /\ ids \subseteq 1 .. MaxTriggers
  BY CoordinatorAssumption DEF CoordinatorAssumption, Ids
<1>2. {MaxTriggers - i : i \in ids} \subseteq Nat
  BY <1>1
<1>3. {MaxTriggers - i : i \in ids} # {}
  <2>1. PICK j \in ids : TRUE
    OBVIOUS
  <2>2. MaxTriggers - j \in {MaxTriggers - i : i \in ids}
    BY <2>1
  <2> QED
    BY <2>2
<1>4. PICK least \in {MaxTriggers - i : i \in ids} :
         \A n \in {MaxTriggers - i : i \in ids} : least <= n
  BY <1>2, <1>3, SmallestExists
<1>5. PICK i \in ids : least = MaxTriggers - i
  OBVIOUS
<1>6. \A j \in ids : j <= i
  <2> SUFFICES ASSUME NEW j \in ids PROVE j <= i
    OBVIOUS
  <2>1. MaxTriggers - i <= MaxTriggers - j
    BY <1>4, <1>5
  <2> QED
    BY <1>1, <2>1
<1>7. \E m \in ids : \A j \in ids : j <= m
  BY <1>6
<1> QED
  BY <1>7 DEF Latest

(* No completed checkpoint is of a later attempt than the one that is      *)
(* offered for recovery, although attempts are completed in any order.     *)
THEOREM LatestIsTheNewest ==
    ASSUME IdsUsedOnce PROVE Spec => []LatestIsNewest
<1>1. FreshIds => LatestIsNewest
  <2> SUFFICES ASSUME FreshIds, NEW id \in Ids, completed_checkpoints[id] # None
               PROVE  completed_checkpoints[id].timestamp
                         <= completed_checkpoints[GetLatestCheckpoint].timestamp
    BY DEF LatestIsNewest
  <2> DEFINE completed == {i \in Ids : completed_checkpoints[i] # None}
  <2>1. completed \subseteq Ids /\ completed # {}
    OBVIOUS
  <2>2. GetLatestCheckpoint = Latest(completed)
    BY <2>1 DEF GetLatestCheckpoint
  <2> HIDE DEF completed
  <2>3. Latest(completed) \in completed /\ \A i \in completed : i <= Latest(completed)
    BY <2>1, LatestIsLargest
  <2>4. \A i \in completed : completed_checkpoints[i].timestamp = i
    BY DEF completed, FreshIds
  <2>5. id \in completed
    BY DEF completed
  <2> QED
    BY <2>2, <2>3, <2>4, <2>5
<1> QED
  BY <1>1, FreshHolds, PTL

-----------------------------------------------------------------------------
(* The refinement.  Under FreshIds the mapping reads one entry per attempt.*)

PhaseView ==
    \A s \in Stamps :
        phase[s] = IF s > now THEN "unused"
                   ELSE IF pending_checkpoints[s] # None THEN "collecting"
                   ELSE IF completed_checkpoints[s] # None THEN "committed"
                   ELSE "aborted"

SavedView ==
    \A s \in Stamps :
        saved[s] = IF s > now THEN {} ELSE {t \in Tasks : Stored(s, t)}

View == PhaseView /\ SavedView

LEMMA ViewHolds == Bookkeeping /\ FreshIds => View
<1> SUFFICES ASSUME Bookkeeping, FreshIds, NEW s \in Stamps
             PROVE  /\ phase[s] =
                          IF s > now THEN "unused"
                          ELSE IF pending_checkpoints[s] # None THEN "collecting"
                          ELSE IF completed_checkpoints[s] # None THEN "committed"
                          ELSE "aborted"
                    /\ saved[s] = IF s > now THEN {}
                                  ELSE {t \in Tasks : Stored(s, t)}
  BY DEF View, PhaseView, SavedView
<1> USE CoordinatorAssumption DEF CoordinatorAssumption, FreshIds
<1>1. s \in Ids /\ s \in Nat /\ now \in Nat /\ None \notin Ids
  BY DEF Ids, Stamps, Bookkeeping, TypeOK
<1>2. Collecting(s) <=> pending_checkpoints[s] # None
  BY <1>1 DEF Collecting
<1>3. Committed(s) <=> completed_checkpoints[s] # None
  BY <1>1 DEF Committed
<1>4. phase[s] = Phase(s) /\ saved[s] = Saved(s)
  BY DEF phase, saved
<1>5. barriers[s] = IF s <= now THEN s ELSE None
  OBVIOUS
<1>6. Saved(s) = IF s > now THEN {} ELSE {t \in Tasks : Stored(s, t)}
  BY <1>1, <1>5 DEF Saved, Stored
<1> QED
  BY <1>2, <1>3, <1>4, <1>6 DEF Phase

LEMMA SameView ==
    ASSUME View, View',
           UNCHANGED now,
           \A s \in Stamps :
              /\ pending_checkpoints'[s] = None <=> pending_checkpoints[s] = None
              /\ completed_checkpoints'[s] = None <=> completed_checkpoints[s] = None
    PROVE  UNCHANGED phase
<1>1. \A s \in Stamps : phase'[s] = phase[s]
  BY DEF View, PhaseView
<1> QED
  BY <1>1 DEF phase

LEMMA SameFiles ==
    ASSUME View, View', UNCHANGED <<now, storage>> PROVE UNCHANGED saved
<1>1. \A s \in Stamps : saved'[s] = saved[s]
  BY DEF View, SavedView, Stored
<1> QED
  BY <1>1 DEF saved

LEMMA StepRefines ==
    ASSUME IdsUsedOnce, Bookkeeping, FreshIds, FilesInPlace, View, View',
           [Next]_vars
    PROVE  [Atomic!Next]_(Atomic!vars)
<1> USE CoordinatorAssumption DEF CoordinatorAssumption, control, bounds, time,
      collection, Atomic!vars
<1>0. TypeOK /\ Ids = Stamps /\ Stamps \subseteq Nat /\ now \in Nat
  BY DEF Bookkeeping, TypeOK, Ids, Stamps
<1> PhaseView /\ PhaseView' /\ SavedView /\ SavedView'
  BY DEF View
<1>1. CASE TriggerCheckpoint
  <2>1. NextId = now + 1 /\ now + 1 \in Stamps /\ now' = now + 1
    BY <1>0, <1>1 DEF TriggerCheckpoint, NextId, FreshIds
  <2>2. \A s \in Stamps \ {now + 1} :
           /\ pending_checkpoints'[s] = pending_checkpoints[s]
           /\ completed_checkpoints'[s] = completed_checkpoints[s]
           /\ s > now' <=> s > now
           /\ phase'[s] = phase[s]
    <3>1. \A s \in Stamps \ {now + 1} :
             /\ pending_checkpoints'[s] = pending_checkpoints[s]
             /\ completed_checkpoints'[s] = completed_checkpoints[s]
      BY <1>0, <1>1, <2>1 DEF TriggerCheckpoint, TypeOK
    <3>2. ASSUME NEW s \in Stamps \ {now + 1} PROVE s > now' <=> s > now
      <4>1. s \in Nat /\ s # now + 1 /\ now \in Nat /\ now' = now + 1
        BY <1>0, <2>1
      <4> HIDE CoordinatorAssumption DEF CoordinatorAssumption
      <4> QED
        BY <4>1
    <3>3. ASSUME NEW s \in Stamps \ {now + 1} PROVE phase'[s] = phase[s]
      <4>1. phase'[s] = IF s > now' THEN "unused"
                        ELSE IF pending_checkpoints'[s] # None THEN "collecting"
                        ELSE IF completed_checkpoints'[s] # None THEN "committed"
                        ELSE "aborted"
        BY DEF PhaseView
      <4>2. phase[s] = IF s > now THEN "unused"
                       ELSE IF pending_checkpoints[s] # None THEN "collecting"
                       ELSE IF completed_checkpoints[s] # None THEN "committed"
                       ELSE "aborted"
        BY DEF PhaseView
      <4> QED
        BY <3>1, <3>2, <4>1, <4>2, Zenon
    <3> QED
      BY <3>1, <3>2, <3>3
  <2>3. pending_checkpoints'[now + 1] # None
    <3>1. [timestamp |-> now + 1, task_states |-> {}] \in Metadata
      BY <2>1 DEF Metadata
    <3> QED
      BY <1>0, <1>1, <2>1, <3>1 DEF TriggerCheckpoint, TypeOK
  <2>4. phase[now + 1] = "unused" /\ phase'[now + 1] = "collecting"
    BY <1>0, <2>1, <2>3 DEF PhaseView
  <2>5. \A s \in Stamps : saved'[s] = saved[s]
    <3>1. \A t \in Tasks : storage[now + 1][t] = None
      BY <1>0, <2>1 DEF FilesInPlace
    <3>2. \A t \in Tasks : ~Stored(now + 1, t)
      BY <1>0, <3>1 DEF Stored
    <3>3. \A s \in Stamps, t \in Tasks : Stored(s, t)' <=> Stored(s, t)
      BY <1>1 DEF Stored, TriggerCheckpoint
    <3>4. PICK c \in Stamps : c = now + 1
      BY <2>1
    <3>5. saved'[now + 1] = {} /\ saved[now + 1] = {}
      <4>1. c > now /\ ~(c > now')
        BY <1>0, <2>1, <3>4
      <4>2. {t \in Tasks : Stored(c, t)'} = {}
        BY <3>2, <3>3, <3>4
      <4>3. saved'[c] = {t \in Tasks : Stored(c, t)'}
        BY <4>1 DEF SavedView
      <4>4. saved[c] = {}
        BY <4>1 DEF SavedView
      <4> QED
        BY <3>4, <4>2, <4>3, <4>4
    <3>6. \A s \in Stamps \ {now + 1} : saved'[s] = saved[s]
      BY <2>2, <3>3 DEF SavedView
    <3> QED
      BY <3>5, <3>6
  <2>6. Atomic!Begin(now + 1)
    BY <2>1, <2>2, <2>4, <2>5 DEF Atomic!Begin, phase, saved
  <2> QED
    BY <2>1, <2>6 DEF Atomic!Next
<1>2. ASSUME NEW a \in Ackers, AckStep(a) PROVE [Atomic!Next]_(Atomic!vars)
  <2> DEFINE id == acker[a].id
             task == acker[a].task
  <2>0. acker[a].pc # "idle" =>
          /\ id \in Stamps
          /\ task \in Tasks
          /\ acker[a].state = id
          /\ ~(id > now)
    <3> SUFFICES ASSUME acker[a].pc # "idle"
                 PROVE  /\ id \in Stamps
                        /\ task \in Tasks
                        /\ acker[a].state = id
                        /\ ~(id > now)
      OBVIOUS
    <3>1. id \in Stamps /\ task \in Tasks
      BY <1>0, CallFacts
    <3>2. acker[a].state = id /\ id <= now
      BY DEF FreshIds
    <3>3. id \in Nat
      BY <1>0, <3>1
    <3> QED
      BY <1>0, <3>1, <3>2, <3>3
  <2>1. CASE Acknowledge(a) \/ RecordDropped(a)
    BY <2>1, SameView, SameFiles DEF Acknowledge, RecordDropped
  <2>2. ASSUME acker[a].pc # "idle", StateFile(a, acker[a].state),
               UNCHANGED <<pending_checkpoints, completed_checkpoints, now>>
        PROVE  Atomic!Save(id, task)
    <3>1. UNCHANGED phase
      BY <2>2, SameView
    <3>2. \A s \in Stamps, t \in Tasks :
             Stored(s, t)' <=> Stored(s, t) \/ (s = id /\ t = task)
      BY <1>0, <2>0, <2>2 DEF StateFile, Stored, TypeOK
    <3>3. \A s \in Stamps :
             saved'[s] = IF s = id THEN saved[s] \cup {task} ELSE saved[s]
      <4> SUFFICES ASSUME NEW s \in Stamps
                   PROVE  saved'[s] = IF s = id THEN saved[s] \cup {task}
                                      ELSE saved[s]
        OBVIOUS
      <4>1. CASE s > now
        BY <2>0, <2>2, <4>1 DEF SavedView
      <4>2. CASE ~(s > now)
        <5>1. saved'[s] = {t \in Tasks : Stored(s, t)'}
          BY <2>2, <4>2 DEF SavedView
        <5>2. saved[s] = {t \in Tasks : Stored(s, t)}
          BY <4>2 DEF SavedView
        <5>3. CASE s = id
          <6>1. {t \in Tasks : Stored(s, t)'}
                   = {t \in Tasks : Stored(s, t)} \cup {task}
            BY <2>0, <2>2, <3>2, <5>3
          <6> QED
            BY <5>1, <5>2, <5>3, <6>1
        <5>4. CASE s # id
          <6>1. {t \in Tasks : Stored(s, t)'} = {t \in Tasks : Stored(s, t)}
            BY <3>2, <5>4
          <6> QED
            BY <5>1, <5>2, <5>4, <6>1
        <5> QED
          BY <5>3, <5>4
      <4> QED
        BY <4>1, <4>2
    <3>4. phase[id] # "unused"
      BY <2>0, <2>2 DEF PhaseView
    <3> QED
      BY <2>0, <2>2, <3>1, <3>3, <3>4 DEF Atomic!Save, saved
  <2>3. CASE UploadObject(a)
    BY <2>0, <2>2, <2>3 DEF UploadObject, Atomic!Next
  <2>4. CASE OpenFile(a) \/ WriteFile(a)
    BY <2>4 DEF OpenFile, WriteFile, IdsUsedOnce, FreshIds
  <2>5. CASE UploadFails(a)
    <3>1. UNCHANGED <<pending_checkpoints, completed_checkpoints, now>>
          /\ acker[a].pc # "idle"
      BY <2>5 DEF UploadFails
    <3>2. CASE UNCHANGED storage
      BY <3>1, <3>2, SameView, SameFiles
    <3>3. CASE StateFile(a, acker[a].state)
      BY <2>0, <2>2, <3>1, <3>3 DEF Atomic!Next
    <3> QED
      BY <2>5, <3>2, <3>3 DEF UploadFails
  <2>6. CASE RecordPending(a)
    <3>1. acker[a].pc # "idle" /\ pending_checkpoints[id] # None
      BY <2>6 DEF RecordPending
    <3>2. Recorded(a) # None
      BY <1>0, <3>1, RecordedType
    <3>3. \A s \in Stamps :
             pending_checkpoints'[s] = None <=> pending_checkpoints[s] = None
      BY <1>0, <2>6, <3>1, <3>2 DEF RecordPending, TypeOK
    <3> QED
      BY <2>6, <3>3, SameView, SameFiles DEF RecordPending
  <2>8. CASE CommitRaises(a)
    <3>1. acker[a].pc # "idle" /\ pending_checkpoints[id] # None
      BY <2>8 DEF CommitRaises
    <3>2. Recorded(a) # None
      BY <1>0, <3>1, RecordedType
    <3>3. \A s \in Stamps :
             pending_checkpoints'[s] = None <=> pending_checkpoints[s] = None
      BY <1>0, <2>8, <3>1, <3>2 DEF CommitRaises, TypeOK
    <3> QED
      BY <2>8, <3>3, SameView, SameFiles DEF CommitRaises
  <2>7. CASE RecordLast(a)
    <3>1. pending_checkpoints[id] # None /\ acker[a].pc = "record"
      BY <2>7 DEF RecordLast
    <3>2. Recorded(a) \in Metadata /\ Recorded(a).task_states = Tasks
      BY <2>7, LastRecordsAll
    <3>3. \A t \in Tasks : Stored(id, t)
      <4>1. Tasks = pending_checkpoints[id].task_states \cup {task}
        BY <1>0, <3>1, <3>2, RecordedType
      <4>2. Stored(id, task) /\ id \in Ids
        BY <1>0, <2>0, <3>1 DEF FilesInPlace
      <4>3. \A t \in pending_checkpoints[id].task_states : Stored(id, t)
        BY <3>1, <4>2 DEF FilesInPlace
      <4> QED
        BY <4>1, <4>2, <4>3
    <3>4. phase[id] = "collecting" /\ saved[id] = Tasks
      <4>1. acker[a].pc # "idle"
        BY <3>1
      <4>2. phase[id] = "collecting"
        BY <2>0, <3>1, <4>1 DEF PhaseView
      <4>3. {t \in Tasks : Stored(id, t)} = Tasks
        BY <3>3
      <4>4. saved[id] = {t \in Tasks : Stored(id, t)}
        BY <2>0, <4>1 DEF SavedView
      <4> QED
        BY <4>2, <4>3, <4>4
    <3>5. UNCHANGED saved
      BY <2>7, SameFiles DEF RecordLast
    <3>6. \A s \in Stamps : pending_checkpoints'[s] =
             IF s = id THEN None ELSE pending_checkpoints[s]
      BY <1>0, <2>0, <2>7 DEF RecordLast, TypeOK
    <3>7. now' = now
      BY <2>7 DEF RecordLast
    <3>8. CASE Commit(id, Recorded(a))
      <4>1. \A s \in Stamps : completed_checkpoints'[s] =
               IF s = id THEN Recorded(a) ELSE completed_checkpoints[s]
        BY <1>0, <3>8 DEF Commit, TypeOK
      <4>2. \A s \in Stamps :
               phase'[s] = IF s = id THEN "committed" ELSE phase[s]
        <5>1. Recorded(a) # None
          BY <3>2
        <5> QED
          BY <2>0, <3>1, <3>6, <3>7, <4>1, <5>1 DEF PhaseView
      <4>3. Atomic!Commit(id)
        BY <2>0, <3>1, <3>4, <3>5, <4>2 DEF Atomic!Commit, phase
      <4> QED
        BY <2>0, <3>1, <4>3 DEF Atomic!Next
    <3>9. CASE CommitFails(id, Recorded(a))
      <4>1. completed_checkpoints[id] = None
        BY <1>0, <2>0, <3>1 DEF FreshIds
      <4>2. \A s \in Stamps :
               phase'[s] = IF s \in {id} THEN "aborted" ELSE phase[s]
        BY <2>0, <3>1, <3>6, <3>7, <3>9, <4>1 DEF PhaseView, CommitFails
      <4>3. Atomic!Abort({id})
        BY <2>0, <3>1, <3>4, <3>5, <4>2 DEF Atomic!Abort, phase
      <4> QED
        BY <2>0, <3>1, <4>3 DEF Atomic!Next
    <3> QED
      BY <2>7, <3>8, <3>9 DEF RecordLast
  <2> QED
    BY <1>2, <2>1, <2>3, <2>4, <2>5, <2>6, <2>7, <2>8 DEF AckStep
<1>3. CASE CheckTimeouts
  <2> DEFINE late == {s \in Stamps : TimedOut(s)}
  <2>2. \A s \in late : /\ pending_checkpoints[s] # None
                        /\ completed_checkpoints[s] = None
                        /\ ~(s > now)
    <3> SUFFICES ASSUME NEW s \in late
                 PROVE  /\ pending_checkpoints[s] # None
                        /\ completed_checkpoints[s] = None
                        /\ ~(s > now)
      OBVIOUS
    <3>1. s \in Ids /\ s \in Nat /\ pending_checkpoints[s] # None
      BY <1>0 DEF TimedOut
    <3>2. s <= now /\ completed_checkpoints[s] = None
      BY <3>1 DEF FreshIds
    <3> QED
      BY <1>0, <3>1, <3>2
  <2>1. \A s \in late : phase[s] = "collecting"
    BY <2>2 DEF PhaseView
  <2>3. \A s \in Stamps : phase'[s] = IF s \in late THEN "aborted" ELSE phase[s]
    <3>1. \A s \in Stamps : pending_checkpoints'[s] =
             IF s \in late THEN None ELSE pending_checkpoints[s]
      BY <1>0, <1>3 DEF CheckTimeouts
    <3>2. UNCHANGED <<completed_checkpoints, now>>
      BY <1>3 DEF CheckTimeouts
    <3> HIDE DEF late
    <3> QED
      BY <2>2, <3>1, <3>2 DEF PhaseView
  <2>4. UNCHANGED saved
    BY <1>3, SameFiles DEF CheckTimeouts
  <2>5. Atomic!Abort(late)
    BY <2>1, <2>3, <2>4 DEF Atomic!Abort, phase
  <2> QED
    BY <2>5 DEF Atomic!Next
<1>4. CASE RecoverRead \/ RecoverReset \/ Restart
  BY <1>0, <1>4 DEF RecoverRead, RecoverReset, Restart, IdsUsedOnce, TypeOK,
     FreshIds
<1>5. CASE Elapse \/ LoopTest \/ CancelJob \/ UNCHANGED vars
  BY <1>5, SameView, SameFiles DEF Elapse, LoopTest, CancelJob, vars, volatile
<1> QED
  BY <1>1, <1>2, <1>3, <1>4, <1>5 DEF Next

(* The coordinator, its threads, the store and the table implement the     *)
(* abstract checkpoint: an attempt is begun once and decided once, and it  *)
(* is committed only with every task's own state in the store, for good.   *)
THEOREM CoordinatorRefinesAtomicCheckpoint ==
    ASSUME IdsUsedOnce PROVE Spec => ImplementsAtomicCheckpoint
<1>1. Init => Atomic!Init
  <2> SUFFICES ASSUME Init PROVE Atomic!Init
    OBVIOUS
  <2>1. \A s \in Stamps : Phase(s) = "unused" /\ Saved(s) = {}
    BY CoordinatorAssumption
       DEF Init, Phase, Saved, Stamps, Ids, CoordinatorAssumption
  <2> QED
    BY <2>1 DEF Atomic!Init, phase, saved
<1>2. /\ Bookkeeping /\ FreshIds /\ FilesInPlace /\ View /\ View' /\ [Next]_vars
      => [Atomic!Next]_(Atomic!vars)
  BY StepRefines
<1> QED
  BY <1>1, <1>2, FreshHolds, ViewHolds, PTL
     DEF Spec, ImplementsAtomicCheckpoint, Atomic!Spec
=============================================================================
