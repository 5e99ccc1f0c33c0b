------------------------ MODULE CheckpointCoordinator ------------------------
(***************************************************************************)
(* jobmanager/checkpoint_coordinator.py: the CheckpointCoordinator of one  *)
(* job, with the threads that call it (the API's event loop, the callers   *)
(* of acknowledge_checkpoint, its own timeout loop), the store the states  *)
(* are uploaded to and the PostgreSQL table the metadata is committed to.  *)
(*                                                                         *)
(* The state a task took at the barrier of an attempt is abstracted to the *)
(* attempt's timestamp, and timestamps to 1, 2, ...: attempts are          *)
(* triggered one at a time, under the lock.  A state path is fixed by the  *)
(* checkpoint id and the task (a task stays on its TaskManager), so the    *)
(* dictionary task_states is its set of keys.                              *)
(***************************************************************************)
EXTENDS Naturals, FiniteSets

CONSTANTS
    Jobs,           \* the job ids in the table checkpoints
    Job,            \* the job_id of this coordinator
    Tasks,          \* the task ids given to trigger_checkpoint
    Ackers,         \* the threads that may be inside acknowledge_checkpoint
    AtomicPut,      \* TRUE: S3 or GCS, an object appears whole; FALSE: open/write
    MaxTriggers,    \* bound: checkpoints triggered in a behaviour
    MaxRecoveries,  \* bound: successful calls of recover_job
    MaxRestarts,    \* bound: crashes of the JobManager process
    None            \* Python's None: no entry, no row, no file

\* Mutant of Latest: the smallest id, as max() without its meaning would give.
Earliest(S) == CHOOSE i \in S : \A j \in S : i <= j
Latest(S) == CHOOSE i \in S : \A j \in S : j <= i

Ids == 1 .. MaxTriggers
Stamps == 1 .. MaxTriggers

\* What open(path, 'wb') leaves until write returns.
Torn == 0

\* CheckpointMetadata.  Nothing reads its status but the table's query, which
\* only ever sees COMPLETED: what counts is the place that holds the record.
Metadata == [timestamp : Stamps, task_states : SUBSET Tasks]
Rows == [job_id : Jobs, timestamp : Stamps, task_states : SUBSET Tasks]

ASSUME CoordinatorAssumption ==
    /\ Job \in Jobs
    /\ Tasks # {}
    /\ AtomicPut \in BOOLEAN
    /\ MaxTriggers \in Nat
    /\ MaxRecoveries \in Nat
    /\ MaxRestarts \in Nat
    /\ None \notin Metadata
    /\ None \notin Rows
    /\ \A S \in SUBSET Tasks : S # None
    /\ None \notin Nat

VARIABLES
    current_checkpoint_id,
    pending_checkpoints,    \* id -> metadata
    pending_acks,           \* id -> the tasks that have not acknowledged
    completed_checkpoints,  \* id -> metadata
    status,                 \* the job's status in the API
    running,                \* the flag stop() clears
    loop,                   \* where _checkpoint_loop's thread is
    acker,                  \* the calls of acknowledge_checkpoint under way
    recovering,             \* recover_job's local variable checkpoint (its id)
    recoveries,
    restarts,
    storage,                \* id -> task -> the content of the state file
    db,                     \* the table checkpoints, by primary key
    barriers,               \* timestamp -> the id its barriers carry
    now,                    \* the timestamp of the latest attempt
    expired                 \* attempts up to this one are past the timeout

volatile == <<current_checkpoint_id, pending_checkpoints, pending_acks,
              completed_checkpoints, status, running, loop, acker,
              recovering>>
vars == <<volatile, recoveries, restarts, storage, db, barriers, now, expired>>
collection == <<current_checkpoint_id, pending_checkpoints, pending_acks,
                completed_checkpoints>>
bounds == <<recoveries, restarts>>
time == <<barriers, now, expired>>
control == <<status, running, loop, recovering>>

NoCall == [pc |-> "idle"]
Calls == [pc : {"upload", "write", "record"},
          id : Ids, task : Tasks, state : Stamps]
Contents == Stamps \cup {Torn}

TypeOK ==
    /\ current_checkpoint_id \in 0 .. MaxTriggers
    /\ pending_checkpoints \in [Ids -> Metadata \cup {None}]
    /\ pending_acks \in [Ids -> (SUBSET Tasks) \cup {None}]
    /\ completed_checkpoints \in [Ids -> Metadata \cup {None}]
    /\ status \in {"RUNNING", "CANCELED"}
    /\ running \in BOOLEAN
    /\ loop \in {"test", "check", "done"}
    /\ acker \in [Ackers -> Calls \cup {NoCall}]
    /\ recovering \in Ids \cup {None}
    /\ recoveries \in 0 .. MaxRecoveries
    /\ restarts \in 0 .. MaxRestarts
    /\ storage \in [Ids -> [Tasks -> Contents \cup {None}]]
    /\ db \in [Ids -> Rows \cup {None}]
    /\ barriers \in [Stamps -> Ids \cup {None}]
    /\ now \in 0 .. MaxTriggers
    /\ expired \in 0 .. now

Init ==
    /\ current_checkpoint_id = 0
    /\ pending_checkpoints = [i \in Ids |-> None]
    /\ pending_acks = [i \in Ids |-> None]
    /\ completed_checkpoints = [i \in Ids |-> None]
    /\ status = "RUNNING"
    /\ running = TRUE
    /\ loop = "test"
    /\ acker = [a \in Ackers |-> NoCall]
    /\ recovering = None
    /\ recoveries = 0
    /\ restarts = 0
    /\ storage = [i \in Ids |-> [t \in Tasks |-> None]]
    /\ db = [i \in Ids |-> None]
    /\ barriers = [s \in Stamps |-> None]
    /\ now = 0
    /\ expired = 0

-----------------------------------------------------------------------------
(* trigger_checkpoint: one critical section, called from the event loop,   *)
(* which is not inside recover_job.  The barriers that it should send are  *)
(* remembered, for the tasks acknowledge what they received.               *)

\* Mutant of NextId: ids of attempts that failed are handed out again.
NextFreeId == 1 + Cardinality({i \in Ids : completed_checkpoints[i] # None})
NextId == current_checkpoint_id + 1

TriggerCheckpoint ==
    LET id == NextId
        metadata == [timestamp |-> now + 1, task_states |-> {}]
    IN  /\ recovering = None
        /\ now < MaxTriggers
        /\ id \in Ids
        /\ current_checkpoint_id' = id
        /\ pending_checkpoints' = [pending_checkpoints EXCEPT ![id] = metadata]
        /\ pending_acks' = [pending_acks EXCEPT ![id] = Tasks]
        /\ barriers' = [barriers EXCEPT ![now + 1] = id]
        /\ now' = now + 1
        /\ UNCHANGED <<completed_checkpoints, acker, control, bounds, storage,
                       db, expired>>

-----------------------------------------------------------------------------
(* acknowledge_checkpoint: validate under the lock, upload without it,     *)
(* take it again to record.  Any state taken at a barrier may arrive, late *)
(* or more than once.                                                      *)

Awaited(id, task) ==
    /\ pending_checkpoints[id] # None
    /\ pending_acks[id] # None
    /\ task \in pending_acks[id]

\* A call that fails the validation returns False and changes nothing.
Acknowledge(a) ==
    /\ acker[a] = NoCall
    /\ \E s \in 1 .. now, t \in Tasks :
          /\ Awaited(barriers[s], t)
          /\ acker' = [acker EXCEPT ![a] = [pc |-> "upload", id |-> barriers[s],
                                            task |-> t, state |-> s]]
    /\ UNCHANGED <<collection, control, bounds, storage, db, time>>

Return(a) == acker' = [acker EXCEPT ![a] = NoCall]
Goto(a, pc) == acker' = [acker EXCEPT ![a].pc = pc]
StateFile(a, content) ==
    storage' = [storage EXCEPT ![acker[a].id][acker[a].task] = content]

UploadObject(a) ==
    /\ AtomicPut
    /\ acker[a].pc = "upload"
    /\ StateFile(a, acker[a].state)
    /\ Goto(a, "record")
    /\ UNCHANGED <<collection, control, bounds, db, time>>

OpenFile(a) ==
    /\ ~AtomicPut
    /\ acker[a].pc = "upload"
    /\ StateFile(a, Torn)
    /\ Goto(a, "write")
    /\ UNCHANGED <<collection, control, bounds, db, time>>

WriteFile(a) ==
    /\ acker[a].pc = "write"
    /\ StateFile(a, acker[a].state)
    /\ Goto(a, "record")
    /\ UNCHANGED <<collection, control, bounds, db, time>>

\* Mutant of UploadFails: the result of _upload_state is not looked at.
UploadErrorIgnored(a) ==
    /\ acker[a].pc \in {"upload", "write"}
    /\ UNCHANGED storage
    /\ Goto(a, "record")
    /\ UNCHANGED <<collection, control, bounds, db, time>>

\* _upload_state returns None (S3; GCS after its last retry) or raises (local).
\* A put that failed for its caller may have been stored all the same.
UploadFails(a) ==
    /\ acker[a].pc \in {"upload", "write"}
    /\ \/ UNCHANGED storage
       \/ AtomicPut /\ StateFile(a, acker[a].state)
    /\ Return(a)
    /\ UNCHANGED <<collection, control, bounds, db, time>>

\* "Double-check checkpoint still exists"
RecordDropped(a) ==
    /\ acker[a].pc = "record"
    /\ pending_checkpoints[acker[a].id] = None
    /\ Return(a)
    /\ UNCHANGED <<collection, control, bounds, storage, db, time>>

\* Mutant of Recorded: the path is not kept.
RecordedNowhere(a) == pending_checkpoints[acker[a].id]
Recorded(a) ==
    [pending_checkpoints[acker[a].id] EXCEPT !.task_states = @ \cup {acker[a].task}]
\* Mutant of StillAwaited: the first acknowledgement completes the checkpoint.
NobodyAwaited(a) == pending_acks[acker[a].id] \ Tasks
StillAwaited(a) == pending_acks[acker[a].id] \ {acker[a].task}

RecordPending(a) ==
    /\ acker[a].pc = "record"
    /\ pending_checkpoints[acker[a].id] # None
    /\ StillAwaited(a) # {}
    /\ pending_checkpoints' =
          [pending_checkpoints EXCEPT ![acker[a].id] = Recorded(a)]
    /\ pending_acks' = [pending_acks EXCEPT ![acker[a].id] = StillAwaited(a)]
    /\ Return(a)
    /\ UNCHANGED <<current_checkpoint_id, completed_checkpoints, control,
                   bounds, storage, db, time>>

(* _complete_checkpoint and _commit_checkpoint_metadata, still under the   *)
(* lock.  ON CONFLICT updates only status and task_states.  The commit may *)
(* succeed, fail, or fail for the caller after the server made it durable. *)

Upsert(id, metadata) ==
    db' = [db EXCEPT ![id] =
             IF @ = None THEN [job_id |-> Job, timestamp |-> metadata.timestamp,
                               task_states |-> metadata.task_states]
             ELSE [@ EXCEPT !.task_states = metadata.task_states]]

\* Mutant of Commit: visible in memory, never written to the table.
CommitInMemory(id, metadata) ==
    /\ completed_checkpoints' = [completed_checkpoints EXCEPT ![id] = metadata]
    /\ UNCHANGED db

Commit(id, metadata) ==
    /\ Upsert(id, metadata)
    /\ completed_checkpoints' = [completed_checkpoints EXCEPT ![id] = metadata]

CommitFails(id, metadata) ==
    /\ Upsert(id, metadata) \/ UNCHANGED db
    /\ UNCHANGED completed_checkpoints

RecordLast(a) ==
    LET id == acker[a].id IN
    /\ acker[a].pc = "record"
    /\ pending_checkpoints[id] # None
    /\ StillAwaited(a) = {}
    /\ Commit(id, Recorded(a)) \/ CommitFails(id, Recorded(a))
    /\ pending_checkpoints' = [pending_checkpoints EXCEPT ![id] = None]
    /\ pending_acks' = [pending_acks EXCEPT ![id] = None]
    /\ Return(a)
    /\ UNCHANGED <<current_checkpoint_id, control, bounds, storage, time>>

\* A connection that is closed or lost during the commit makes rollback(), in
\* the handler of the first exception, raise again: acknowledge_checkpoint ends
\* before the pending entries are deleted.  Another call of the same task that
\* is under way then commits once more; otherwise the timeout gives it up.
CommitRaises(a) ==
    LET id == acker[a].id IN
    /\ acker[a].pc = "record"
    /\ pending_checkpoints[id] # None
    /\ StillAwaited(a) = {}
    /\ Upsert(id, Recorded(a)) \/ UNCHANGED db
    /\ pending_checkpoints' = [pending_checkpoints EXCEPT ![id] = Recorded(a)]
    /\ pending_acks' = [pending_acks EXCEPT ![id] = {}]
    /\ Return(a)
    /\ UNCHANGED <<current_checkpoint_id, completed_checkpoints, control,
                   bounds, storage, time>>

-----------------------------------------------------------------------------
(* _checkpoint_loop, started once by start(): it only looks for timeouts.  *)

\* Time passes: the oldest attempt within the timeout leaves it.
Elapse ==
    /\ expired < now
    /\ expired' = expired + 1
    /\ UNCHANGED <<volatile, bounds, storage, db, barriers, now>>

LoopTest ==
    /\ loop = "test"
    /\ loop' = IF running THEN "check" ELSE "done"
    /\ UNCHANGED <<collection, status, running, acker, recovering, bounds,
                   storage, db, time>>

\* Mutant of TimedOut: the attempt that just left the timeout is kept.
TimedOutLate(id) ==
    /\ pending_checkpoints[id] # None
    /\ pending_checkpoints[id].timestamp < expired

TimedOut(id) ==
    /\ pending_checkpoints[id] # None
    /\ pending_checkpoints[id].timestamp <= expired

CheckTimeouts ==
    /\ loop = "check"
    /\ loop' = "test"
    /\ pending_checkpoints' =
          [i \in Ids |-> IF TimedOut(i) THEN None ELSE pending_checkpoints[i]]
    /\ pending_acks' =
          [i \in Ids |-> IF TimedOut(i) THEN None ELSE pending_acks[i]]
    /\ UNCHANGED <<current_checkpoint_id, completed_checkpoints, status, running,
                   acker, recovering, bounds, storage, db, time>>

-----------------------------------------------------------------------------
(* The API's use of the coordinator (jobmanager/api.py).                   *)

\* cancel_job, which calls stop(); the thread notices at its next test.
CancelJob ==
    /\ recovering = None
    /\ status = "RUNNING"
    /\ status' = "CANCELED"
    /\ running' = FALSE
    /\ UNCHANGED <<collection, loop, acker, recovering, bounds, storage, db, time>>

\* The driver has already decoded a JSONB column into a dict when json.loads
\* is applied to it: TypeError, caught, None.
DecodeRow(row) == None

LoadLatestFromDb ==
    LET mine == {i \in Ids : db[i] # None /\ db[i].job_id = Job}
    IN  IF mine = {} THEN None ELSE DecodeRow(Latest(mine))

GetLatestCheckpoint ==
    LET completed == {i \in Ids : completed_checkpoints[i] # None}
    IN  IF completed = {} THEN LoadLatestFromDb ELSE Latest(completed)

\* recover_job picks a completed checkpoint, the one asked for or the latest...
RecoverRead ==
    /\ recovering = None
    /\ recoveries < MaxRecoveries
    /\ \/ \E id \in Ids : /\ completed_checkpoints[id] # None
                          /\ recovering' = id
       \/ /\ GetLatestCheckpoint \in Ids
          /\ recovering' = GetLatestCheckpoint
    /\ recoveries' = recoveries + 1
    /\ UNCHANGED <<collection, status, running, loop, acker, restarts, storage,
                   db, time>>

\* ... and then makes the job RUNNING and resets the counter, without the lock.
\* It clears no pending entry and does not start the coordinator again.
RecoverReset ==
    /\ recovering # None
    /\ current_checkpoint_id' = recovering
    /\ recovering' = None
    /\ status' = "RUNNING"
    /\ UNCHANGED <<pending_checkpoints, pending_acks, completed_checkpoints,
                   running, loop, acker, bounds, storage, db, time>>

\* The process dies and is started again with the same job id (gui/app.py).
Restart ==
    /\ restarts < MaxRestarts
    /\ restarts' = restarts + 1
    /\ current_checkpoint_id' = 0
    /\ pending_checkpoints' = [i \in Ids |-> None]
    /\ pending_acks' = [i \in Ids |-> None]
    /\ completed_checkpoints' = [i \in Ids |-> None]
    /\ status' = "RUNNING"
    /\ running' = TRUE
    /\ loop' = "test"
    /\ acker' = [a \in Ackers |-> NoCall]
    /\ recovering' = None
    /\ UNCHANGED <<recoveries, storage, db, time>>

-----------------------------------------------------------------------------

AckStep(a) ==
    \/ Acknowledge(a)
    \/ UploadObject(a)
    \/ OpenFile(a)
    \/ WriteFile(a)
    \/ UploadFails(a)
    \/ RecordDropped(a)
    \/ RecordPending(a)
    \/ RecordLast(a)
    \/ CommitRaises(a)

Next ==
    \/ TriggerCheckpoint
    \/ \E a \in Ackers : AckStep(a)
    \/ Elapse
    \/ LoopTest
    \/ CheckTimeouts
    \/ CancelJob
    \/ RecoverRead
    \/ RecoverReset
    \/ Restart

Spec == Init /\ [][Next]_vars

\* Time passes and the operating system runs the loop's thread; nothing obliges
\* tasks to acknowledge or clients to call.
FairSpec ==
    /\ Spec
    /\ WF_vars(Elapse)
    /\ WF_vars(LoopTest)
    /\ WF_vars(CheckTimeouts)
-----------------------------------------------------------------------------
(* Properties.                                                             *)

(* A pending checkpoint has the states of exactly the tasks that no longer *)
(* owe an acknowledgement: the two dictionaries of the coordinator never   *)
(* drift apart, whatever acknowledgements, commits that raise, timeouts,   *)
(* recoveries and crashes interleave.                                      *)
AcksAccounted ==
    \A id \in Ids :
        IF pending_checkpoints[id] = None THEN pending_acks[id] = None
        ELSE pending_acks[id] = Tasks \ pending_checkpoints[id].task_states

(* A checkpoint is completed, in memory or in the table, only with a state *)
(* path for every task: no partial checkpoint can be recovered from.       *)
OnlyWholeCheckpoints ==
    \A id \in Ids :
        /\ completed_checkpoints[id] # None =>
              completed_checkpoints[id].task_states = Tasks
        /\ db[id] # None => db[id].task_states = Tasks

(* A checkpoint offered for recovery was made durable first.               *)
CompletedIsDurable ==
    \A id \in Ids :
        completed_checkpoints[id] # None => db[id] # None /\ db[id].job_id = Job

(* The files of a completed checkpoint hold, for every task, the state it  *)
(* took for that very attempt: late, repeated and failed uploads of other  *)
(* calls, made without the lock, never spoil it.                           *)
CompletedIsRestorable ==
    \A id \in Ids : completed_checkpoints[id] # None =>
        \A t \in Tasks : storage[id][t] = completed_checkpoints[id].timestamp

(* An acknowledgement whose upload took a while is counted for the attempt *)
(* that its state was taken for, not for another one under the same id.    *)
AckMatchesAttempt ==
    \A a \in Ackers :
        /\ acker[a].pc = "record"
        /\ pending_checkpoints[acker[a].id] # None
        => acker[a].state = pending_checkpoints[acker[a].id].timestamp

(* get_latest_checkpoint: "Get the latest completed checkpoint" - no other *)
(* completed checkpoint was triggered after the one it returns.            *)
LatestIsNewest ==
    \A id \in Ids :
        LET latest == GetLatestCheckpoint IN
        completed_checkpoints[id] # None =>
            completed_checkpoints[id].timestamp
                <= completed_checkpoints[latest].timestamp

Collecting(s) ==
    \E id \in Ids : /\ pending_checkpoints[id] # None
                    /\ pending_checkpoints[id].timestamp = s

(* "checkpoint_timeout_ms: Timeout for checkpoint completion" - as long as *)
(* the job is not canceled, every attempt is completed or given up.        *)
RunningTimesOut ==
    \A s \in Stamps : Collecting(s) ~> (~Collecting(s) \/ status = "CANCELED")

Committed(s) ==
    \E id \in Ids : /\ completed_checkpoints[id] # None
                    /\ completed_checkpoints[id].timestamp = s

Phase(s) ==
    IF s > now THEN "unused"
    ELSE IF Collecting(s) THEN "collecting"
    ELSE IF Committed(s) THEN "committed" ELSE "aborted"

Saved(s) == {t \in Tasks : \E id \in Ids : barriers[s] = id /\ storage[id][t] = s}

phase == [s \in Stamps |-> Phase(s)]
saved == [s \in Stamps |-> Saved(s)]
Atomic == INSTANCE AtomicCheckpoint WITH Attempts <- Stamps

(* The coordinator implements AtomicCheckpoint: an attempt is decided once *)
(* and committed only with every task's own state in the store, for good.  *)
ImplementsAtomicCheckpoint == Atomic!Spec
=============================================================================
