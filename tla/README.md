# A TLA+ model of the stream processing platform

This directory specifies the control logic of the platform in TLA+: the job
and checkpoint management of the JobManager, the task execution, operator
chains, keyed state, event time and network buffers of the TaskManagers, and
the dashboard and web sockets that watch them. Every definition is translated
from the Python code; TLC checks the modules on small instances, and the TLA+
proof system (tlapm 1.4.5) proves every safety property of the passing runs for
every value of the constants.

    tlc -config Checkpoints.cfg MCCheckpoint      # one run (table below)
    tlapm CheckpointCoordinatorProofs.tla         # one proof module

`PROJECT.json` maps each definition to the source lines it models, lists the
runs, one mutant of the model for each property, the hazards of the code with
the properties that watch them, and the theorems. Mutants (`X` with a comment
"Mutant of Y") are not part of the specification: they are what a plausible
bug would make of `Y`, kept to show that a property can fail.

## 1. The system

A client submits a job graph to the JobManager over REST. The JobManager
chains its operators, makes physical tasks, places them on TaskManagers and
deploys them by gRPC. TaskManagers run one thread per task, send heartbeats,
and take snapshots whose states the JobManager's checkpoint coordinator
collects.

    client --REST--> JobManager: api.py (one event loop)
                       |-- job_graph.py, scheduler.py      (pure, called inline)
                       |-- resource_manager.py             (lock + monitor thread)
                       |-- checkpoint_coordinator.py       (per job: lock + loop thread)
                       |        |-- state store: local files, S3 or GCS
                       |        '-- PostgreSQL table checkpoints (shared by jobs)
                       '-- grpc_client.py --DeployTask--> TaskManager
    TaskManager: grpc_service.py (thread pool) -> task_executor.py
                       |-- one thread per Task: operators (source, chain, sink)
                       |-- state/: one backend per stateful task
                       |-- heartbeat thread --REST--> api.py
                       '-- network/: BufferPool, FlowControlGate per channel
    dashboard: app_gcp.py (a thread per request, per demo, to poll, to consume)
                       '--REST--> api.py        browser --web socket--> api.py

| component (source) | state it keeps | operations | modelled in |
|---|---|---|---|
| Checkpoint coordinator (`jobmanager/checkpoint_coordinator.py`) | id counter, pending and completed checkpoints, outstanding acks, running flag; state files; table rows | trigger, acknowledge (validate, upload, record), complete/commit, timeout loop, stop, get latest | CheckpointCoordinator, AtomicCheckpoint |
| The table shared by coordinators (same file) | rows keyed by checkpoint id only | upsert, query per job | SharedCheckpointTable |
| REST API (`jobmanager/api.py`) | jobs and their status, coordinators | submit, cancel, trigger/recover, heartbeat; list, status and metrics only read | CheckpointCoordinator, JobCluster |
| Resource manager (`jobmanager/resource_manager.py`) | registry: free slots, status, last heartbeat | register, heartbeat, available, allocate, health check | ResourceManager |
| Scheduler (`jobmanager/scheduler.py`) | none of its own | chain, physical tasks, bin packing | Scheduler, JobScheduling |
| Job graph (`jobmanager/job_graph.py`) | vertices, edges | the fluent API, topological sort, chaining | JobGraph |
| gRPC client (`jobmanager/grpc_client.py`) | one connection per TaskManager | DeployTask with a deadline | JobCluster |
| Task executor (`taskmanager/task_executor.py`) | tasks by id, slots; per task: running flag, barriers seen | deploy, run loop, stop, cancel, process_record, process_barrier, heartbeat | TaskManagers, SourceTask, BarrierAlignment, Tasks |
| gRPC service (`taskmanager/grpc_service.py`) | none | DeployTask, CancelTask | TaskManagers |
| Operator chain and sources (`operators/base.py`, `operators/sources.py`) | offset, consumer, operator states | read_records, process_element, process_watermark, snapshot, restore | SourceTask, StatelessOperators, OperatorChain |
| Stateless operators and sinks (`operators/stateless.py`, `operators/sinks.py`) | none; what was collected | process_element | StatelessOperators, OperatorChain |
| Windows, joins, aggregates, watermarks (`operators/stateful.py`, `common/watermarks.py`) | window contents, join buffers, aggregates, maximal timestamp | process_element, process_watermark, emit | EventTime, OperatorChain |
| Buffer pool (`network/buffer_pool.py`) | free buffers, a condition | acquire (with timeout), release | BufferPool |
| Flow control (`network/flow_control.py`) | credits, a condition | acquire, grant, reset | FlowControl |
| State backends and types (`taskmanager/state/`) | a key-value store, a directory that outlives it | get, put, the updates of each type, snapshot, restore, clear, close | KeyedState, Tasks |
| Dashboard (`gui/app_gcp.py`) | lists of events, the demo's flag and numbers, what it last knew of the JobManager | upload, send, consume, start and stop the demo, submit, cancel, poll | DashboardFeeds, DashboardPoll, Monitoring |
| WebSocket server (`jobmanager/websocket_server.py`) | connections per job | connect, push once a second, disconnect | WebSocketServer, Monitoring |
| Metrics, configuration, serialization, the other GUI, examples, deployment | counters | | not modelled (section 8) |

### What is hard here

* **Checkpoints.** An acknowledgement validates under the lock, uploads
  without it, and takes it again. Between the two the checkpoint may time
  out, be completed by another call, or have its id used again by
  `recover_job`. A commit may fail for its caller and be durable all the
  same, or raise out of the handler with the entries still in place. Local
  state files are written in place. A restart forgets everything but the
  table and starts ids from 1 under the same paths.
* **The cluster.** The count of free slots is kept by scheduling (which
  counts each task twice and never gives back what a rejected job took) and
  by heartbeats that may be late, lost or from before a deployment. The
  deployment call can time out while the TaskManager still serves it.
  Nothing is rolled back.
* **Tasks.** The run thread moves the source's offset before the records are
  processed, another thread snapshots the chain operator by operator without
  stopping it, and operators may raise in the middle of a batch.
* **Barriers and event time.** Barriers of several checkpoints and upstreams
  overlap; exceptions and stops lose records between them without a word;
  records come out of order and after their watermark; the user's functions
  may raise in the middle of an operator that has already changed its state.
* **Chains.** A watermark follows the results it lets go through the rest of
  the chain; a sink may raise in the middle of them; a recovery takes the
  operators back and not what the sink has written.
* **Keyed state.** Every state type reads a cell, changes a copy and writes it
  back; a snapshot reads key after key while they are written; a directory
  outlives its task and is laid under the next one's.
* **Waiting.** Waits on a condition time out at the moment they are notified.
* **The dashboard.** Threads and request handlers write one dictionary without
  a lock; a demo is started again before the last one's thread has seen that it
  was stopped; one poll is several calls to a JobManager that comes and goes.

### What makes each component correct

* Coordinator: a checkpoint offered for recovery is whole, durable, and its
  files hold the states taken for that very attempt; the two dictionaries
  agree; a running job decides every attempt; ids do not mix up attempts.
* Cluster: no TaskManager exceeds its slots; a job that was accepted runs
  completely; the counts come to be right.
* Scheduling: the sort respects every edge and refuses exactly the cycles; the
  chains partition the graph, fuse exactly what may be fused, upstream first.
* Source task: records are neither lost nor repeated while a task runs; what
  a snapshot lacks is bounded (the docs promise that it lacks nothing).
* Alignment: a snapshot covers everything sent before one of its barriers that
  was brought through the operators, once per checkpoint, in order, leaving no
  marks.
* Event time: windows fire complete; what is dropped, or not joined, is just
  what a raising user function took along; each pair joins once.
* Chain: a window over windows has all results it is for; every result is
  counted, and every count written, but for what each failed send costs;
  between two recoveries the sink gets them once and in order.
* Keyed state: a cell is what its updates made of it one after the other;
  each cell of a snapshot was the key's while the snapshot was taken.
* Dashboard and sockets: lists keep the newest events, a demo has its own
  numbers and ends, the page catches up, clients that left are forgotten.
* Network: no buffer or credit is lost; nobody sleeps over what it waits for.

## 2. The modules

Each module starts with a comment that names its source; variables and actions
have the source's names where they exist. A critical section (a block under a
lock, or a handler of the event loop, which never awaits once it has begun) is
one action; what happens outside of locks is split into one action per
externally visible step.

**CheckpointCoordinator** - one job's coordinator. The variables
`current_checkpoint_id`, `pending_checkpoints`, `pending_acks`,
`completed_checkpoints` are the attributes of the class; `acker` holds the
calls of `acknowledge_checkpoint` under way and where they are; `loop` is the
timeout thread, `recovering` the event loop inside of `recover_job`; `storage`
the state files and `db` the table. `TriggerCheckpoint` is
`trigger_checkpoint`; `Acknowledge`, `UploadObject` / `OpenFile` `WriteFile` /
`UploadFails`, then `RecordDropped` / `RecordPending` / `RecordLast` /
`CommitRaises` are `acknowledge_checkpoint` with `_upload_state`,
`_complete_checkpoint` and `_commit_checkpoint_metadata`; `LoopTest` and
`CheckTimeouts` the loop; `CancelJob`, `RecoverRead` and `RecoverReset` the
handlers of the API; `Restart` a crash of the process. The state a task took
at the barrier of an attempt is abstracted to the attempt's number (its
timestamp), so that a file tells which attempt it is from. `AtomicPut` chooses
between object stores and local files.

**AtomicCheckpoint** - what a coordinator promises, without ids, locks, threads
and tables: an attempt is begun once, decided once, and committed only when
the store holds every task's own state for it. `CheckpointCoordinator` implements
it through `phase` and `saved` (bottom of that module).

**SharedCheckpointTable** - two instances of the coordinator with one `db`.

**ResourceManager**, **TaskManagers**, **Scheduler** - the parts
**JobCluster** composes: the registry, the processes with the network between,
and the arithmetic of `_allocate_tasks`. JobCluster has the event loop
(`handler`: `submit_job` in its stages, every other handler only while it is
idle), the jobs, and the failures: crash and return of a TaskManager, lost
heartbeats, connections that fail (`NoConnection`), deadlines
(`DeploymentTimesOut`), cancellation by gRPC clients.

**JobGraph**, **JobScheduling** - the graphs: any vertices and edges (built
by hand) or those the fluent API makes (`fluent`: sources, then one operator
or sink at a time behind any stream there is). `Incoming` and `Outgoing` are the
edges of which `get_upstream_vertices` and `get_downstream_vertices` list the
other ends; `topological_sort` is one vertex taken from the queue at a time
(`Decremented` and `Freeing` are its inner loop, in the order of the edges) and
`identify_chainable_operators` one vertex of a chain, then come the physical
tasks and the allocation (with Scheduler, as in JobCluster).

**SourceTask** - one task whose chain starts with a source: the run thread
(`Poll`, `ReadRecord`, `NextRecord`, `ProcessElement`), the snapshotting thread
(`SnapshotSource`, `SnapshotOperator`, `SnapshotFails`), failures, stop and
redeployment from the last checkpoint, or from nothing when no storage backend
has it (`LoadCheckpoint`: every failure of a backend looks the same, and the task
starts empty). `Seekable` is the difference between the in-memory source and
Kafka's.

**BarrierAlignment** - `process_record` and `process_barrier` of a task with
several upstreams, called in the order of each channel. `process_record` brings
a record through the operators (`Process`), loses it to one that raises
(`Swallow`: the state may have it or not) or does nothing since the task was
stopped (`Ignore`, `StopTask`); its answer is the same. `process_barrier` looks
at none of this. The ghost `lost` has the records of the last two kinds.

**KeyedState** - the backend of a stateful task with the state types on it. A
cell is a set of values or absent; `GetCell` and `PutCell` are the two halves of
every update that reads, `Assign` those that do not. `BeginSnapshot`,
`SnapshotKey`, `EndSnapshot` are the iteration over RocksDB, a dictionary being
copied at once; `Restore` merges or replaces accordingly. `OpenBackend`,
`CancelTask`, `CloseBackend`, `ProcessDies` are its life over deployments: RocksDB
keeps its directory. The ghost `expected` is what the updates would have made of
a cell one after the other, `raced` the keys on which two overlapped.

**Tasks** - the task as `Task.run` finds it: SourceTask, or a task that is fed,
followed for its barriers (BarrierAlignment) or its cells (KeyedState). The parts
share no variable, so that a behaviour is about one of them.

**StatelessOperators** - the lists of records that map, filter, flat map and
key-by may make of one record, each user function being free to return
anything or to raise.

**EventTime** - the watermark generator and emitter, and the window and join
operators behind one source whose records pass a chain of stateless operators.
`process_watermark` of the window fires all it has to (`FireAll`), or the reduce
function raises at one of the windows and the results of those before it are
gone with them (`ReduceRaises`, ghost `discarded`); a join function that raises
takes all pairs of its record along, which stays in its buffer (`JoinElements`,
ghost `missed`). `Checkpoint` keeps what the operators have, `Recover` goes back
to it: windows, buffers and results are those of that moment, the generator and
the emitter begin anew. Only an example calls `set_stream_side`, once; the
model's feeder is external and calls it in front of each record, which
`process_element` needs.

**OperatorChain** - extends EventTime: the window's results go on to a second
window, an aggregate and a sink, in the order of `process_watermark`. A sink that
raises (`SinkRaises`) has its record counted and those behind it cut off (ghost
`cut`); a window that a raising reduce function held up is in `held`. A
recovery (`ChainRecover`) takes these operators back too, but not what the sink
has written: `resumed` says how much there was.

**BufferPool**, **FlowControl**, **NetworkComponents** - the pool and the gate
with their conditions: a thread is asleep, woken, or late (its wait has timed
out but it has not got the lock yet); NetworkComponents runs the two side by
side.

**DashboardFeeds** - the lists of `state` in app_gcp.py and the demo. `at` says
where each thread is; loading a list and inserting into it, slicing it and storing
the slice are steps of their own (a writer is `stale` when the list that it has
loaded was replaced), and so are reading and writing the count of events, and
making an event, which may raise between its being counted and its being
inserted (`EventFails`, ghost `uninserted`). `inserted`, `overlapped` and `abandoned`
are ghosts too.

**DashboardPoll** - the dashboard as a client of the JobManager: the pieces of
`poll_jobmanager`, submissions and cancellations with time-outs, a JobManager
that cannot be reached for a while.

**WebSocketServer** - the registry of connections and the coroutine of each
client; a send to a client that left raises, and so does the one that says so.

**Monitoring** - the last three beside each other (they share no variable).

**MCCheckpoint**, **MCCluster**, **MCEventTime** - symmetry sets for TLC.

**CheckpointCoordinatorProofs**, **NetworkProofs** (of BufferPool, FlowControl
and NetworkComponents), **TasksProofs** (of SourceTask, BarrierAlignment,
KeyedState and Tasks), **JobClusterProofs**, **JobSchedulingProofs** (of
JobGraph and JobScheduling), **EventTimeProofs** (of StatelessOperators,
EventTime and OperatorChain), **MonitoringProofs** (of DashboardFeeds,
DashboardPoll and WebSocketServer) - the theorems (section 5);
**SequenceLemmas** - what they need of numbers, of FlattenSeq and of sequences
without repetitions. **ChainInvariants** - the invariants of EventTime and
OperatorChain, in a module of their own so that EventTimeProofs can state them of
the last checkpoint as well (`Saved == INSTANCE ChainInvariants WITH ...`).

## 3. The runs

| run (module) | instance | question |
|---|---|---|
| Checkpoints (MCCheckpoint) | 2 tasks, 2 concurrent calls, 2 attempts, whole objects, no recovery or restart, fair | Are completed checkpoints restorable (`CompletedIsRestorable`), acknowledgements counted for their own attempt (`AckMatchesAttempt`), the latest checkpoint the newest (`LatestIsNewest`), attempts of a running job decided (`RunningTimesOut`), and does the coordinator implement AtomicCheckpoint (`ImplementsAtomicCheckpoint`)? |
| CheckpointFaults (MCCheckpoint) | the same with local files, 1 recovery, 1 restart | Do the dictionaries agree (`AcksAccounted`), and is everything completed or committed whole (`OnlyWholeCheckpoints`) and durable (`CompletedIsDurable`), whatever fails? |
| CheckpointRecoverAck (MCCheckpoint) | 3 attempts, 1 recovery | *Violated*: `AckMatchesAttempt` once `recover_job` reuses ids (section 6). |
| SharedTableRows (SharedCheckpointTable) | 2 jobs with 1 task each | *Violated*: `CommitsAreOwn` (section 6). |
| Cluster (MCCluster) | 2 TaskManagers of 3 slots, 2 jobs of 2 tasks, deadlines | Does an accepted job run completely (`AcceptedJobsRun`), and what runs of a failed one (`DeployedInOrder`)? |
| ClusterFaults (JobCluster) | 1 TaskManager, 2 jobs; 1 crash, 1 lost heartbeat, 1 CancelTask; fair | Are slots respected and the count in its range (`SlotsAccounted`) and right in the end (`CountsConverge`)? |
| Scheduling (JobScheduling) | every list of at most 3 edges of 2 types between 3 vertices, repeated ones and self-loops too, every graph of the fluent API, parallelism 1-2, 2 TaskManagers of 0-3 slots | Does the sort respect every edge and refuse exactly the cycles (`SortIsTopological`), are the chains exactly what may be fused (`ChainsAreExact`), in order (`UpstreamFirst`), is no graph of the fluent API refused (`FluentGraphsRun`), and is nothing placed beyond the slots (`NeverOvercommits`)? |
| Tasks (Tasks) | source: 5 records, 2 operators, batches of up to 2, 2 deployments; barriers: 2 upstreams, 2 checkpoints, 2 records each, 1 repeated barrier, raising operators, a stop; state: 2 keys, 2 values, 2 callers, 2 writes, both backends; fair | Is what was read processed (`ReadIsProcessed`), the loss bounded (`LossIsBounded`), input counted (`InputIsCounted`), do snapshots have all in front of their barriers that was not lost (`SnapshotCoversBarriers`), once and in order (`SnapshotsInOrder`, `NoMarksLeft`), and cells what their updates made of them, in the backend (`CellsExact`) and in snapshots (`SnapshotsPerKey`)? |
| SourceResume (SourceTask) | 3 records, 1 operator, Kafka source | *Violated*: `ResumesFromCheckpoint` (section 6). |
| EventTime (MCEventTime) | 4 reads of 4 inputs (timestamps 1, 2, 3 and 5), streams of at most 3 events, flat maps of up to 2 copies, 2 keys; windows of size 2 that slide by 1, windows of 2 over them; raising user functions, 1 failure of the sink, 1 recovery, any checkpoint before it | Are windows (`WindowsFireComplete`) and windows of windows (`OuterFiresComplete`) complete, is nothing dropped (`NothingDropped`) and no pair missed or repeated (`JoinsExactly`) but by a user function that raises, are results counted and written once and in order but for what failures and recoveries cost (`SinkAccounts`), and how far may a watermark go back (`WatermarksAdvance`)? |
| Network (NetworkComponents) | 2 buffers, 3 threads, 1 timeout; 2 senders, 2 credits, 1 reset | `BuffersAccounted`, `NobodyForgotten`, `CreditsAccounted`, `SleepersLackCredits` |
| Monitoring (Monitoring) | 2 request threads, 2 demo threads, the consumer; lists of 1 with 2 events, uploads of 2; 2 submissions, 1 TaskManager, 2 outages; 2 clients; fair | Do lists keep the newest (`ListsKeepNewest`), has a demo its own numbers (`SessionIsOwn`), does a stopped demo end (`DemoEnds`), does the page show what the JobManager has once nothing changes (`PageCatchesUp`), and are clients that left forgotten (`LeaversAreForgotten`)? |

What the passing runs show beyond their names:

* `CompletedIsRestorable` is claimed for object stores only: with local files a
  late repeated upload truncates the file of a checkpoint that is complete
  (`OpenFile`, checkpoint_coordinator.py:357). CheckpointFaults includes that
  step and shows what still holds.
* `AcceptedJobsRun` assumes no crash and no CancelTask afterwards: nothing
  redeploys a task. `DeployedInOrder` says what a failed submission leaves: the
  first tasks of its plan, running under a job that stays RUNNING.
* `SlotsAccounted` has -1 as the lower end of the count: `_allocate_tasks` takes each slot
  twice, so an odd count ends below zero. `CountsConverge` holds since every
  heartbeat overwrites the count, and since only finitely many jobs come.
* `LossIsBounded` allows one batch per deployment: a snapshot has the offset
  of records that the chain has not processed, and they are lost when the task
  is restored from it. The docs promise exactly-once instead (section 6). With
  five records in batches of two, a checkpoint of the first deployment may
  lack two of them and one of the second four, so that the bound is at work on
  both sides of the recovery.
* `SnapshotCoversBarriers` exempts what `lost` names, record by record: one that
  an operator raised at, or that came to a stopped task. Such a record leaves no
  trace, and the barrier behind it snapshots without it: the property says that
  alignment loses no other.
* `SnapshotsInOrder` and `NoMarksLeft` assume that no barrier is repeated: a
  repeated one is taken for a new barrier of a checkpoint that was forgotten.
* `NothingDropped` is about windows of a size that is a multiple of the slide.
  A record is counted as lost only with a result that was made and not returned
  (`discarded`); those are results of windows in front of the failing one, in
  the same `process_watermark`. The failing window itself stays.
* `JoinsExactly` counts a pair as missed only when its later record is one at
  which the join function raised, and then this record makes none.
* `WindowsFireComplete`, `NothingDropped` and `JoinsExactly` follow the operators'
  own results. A recovery takes these back with the operators, so that they say
  that a checkpoint and what is read behind it fit together; what the sink shows
  of the results before the recovery is the matter of `SinkAccounts`.
* `WatermarksAdvance` has no promise for the first watermark behind a recovery
  but the disorder: the maximal timestamp of the generator is not in a snapshot
  and begins at 0. While the stream keeps to its disorder, the watermark goes
  back by no more than that; if not, by any amount.
* `OuterFiresComplete` exempts results that were `held` up by a raising reduce
  function, which come behind their watermark.
* `CellsExact` is claimed for keys that no two updates raced for: the types
  hold no lock, and the race loses an update. What it shows is that nothing
  else disturbs a cell: snapshots, cancellations with the old backend still
  open, crashes, restores and deployments.
* `SnapshotsPerKey` does not say that a snapshot is of one moment. It is not.
* `SinkAccounts` bounds what a failed send costs: its own record is counted and
  perhaps not written (so at most one count per failure was never written), and
  those behind it in the window operator's list are neither (`cut`). Nothing
  else is missing. A recovery takes the counts back, so that the sink gets
  counts again that it has; in between it gets each once and in order.
* `ListsKeepNewest` and `SessionIsOwn` leave out the overlaps in which the code
  loses an event or mixes two demos: writers of one list between slice and
  store or with a list that was replaced, and a start over the thread of a demo
  that was stopped. `SessionIsOwn` counts the events that were counted and then
  raised (`uninserted`); each other one comes to the list.
* `NobodyForgotten` assumes no timeout: a notification given to a thread whose
  wait has just timed out is lost for the others.

### Bounds, and why they are enough

Two tasks make a checkpoint partial; two calls race on one task or on two; two
attempts give a late acknowledgement something to be late for, and the third
in CheckpointRecoverAck is needed for an id to be used again behind a completed
one. Two TaskManagers make the order of bins visible; three slots leave
an odd one for the double count; two jobs make one submission meet what the
other left. Three vertices with three edges give every loop, cycle, diamond side,
duplicate and split or join between neighbours. Batches of two of five records
over two operators separate "read", "in the batch", "between operators" and
"processed", and leave records for a second deployment to lose. Two checkpoints
of two upstreams with two records each overlap in every way. Three events read
in four reads, with timestamps up to five around windows of two, a disorder of
one and a time bound of one, put records before, on and behind every border,
make a window fire a second time, and leave one to read again behind a recovery;
two windows are due at once, so that one may raise behind another. Three threads
on two buffers are the fewest of which one waits while another overtakes it.
Every bound is a constant of its module
whose comment begins with "bound"; guards stop at them, which is why most
configurations set `CHECK_DEADLOCK FALSE`. Network can never stop, and is
checked for deadlock.

Two keys and two callers race or do not; two writes are what an update needs to
be overtaken, and a snapshot to be torn. A window of two over windows of two
that slide by one takes results of two, which timestamps up to five let
fire at different watermarks or late. Two demo threads are one
that has not ended and its successor; lists of one with two events have one
to cut off. Two submissions meet in one poll, the second outage falls into
what the first left.

Symmetry is used where no property is a liveness one and no CHOOSE depends on
the set: tasks and callers (CheckpointFaults), jobs (Cluster), keys
(EventTime, whose `WatermarksAdvance` is a property of steps).

## 4. Fairness

* CheckpointCoordinator: time passes (`Elapse`) and the timeout thread runs
  (`LoopTest`, `CheckTimeouts`): it is a daemon thread in a loop with a
  sleep that nothing blocks for good. Nothing obliges tasks to acknowledge.
* JobCluster: a handler that has begun goes on (`SubmitStep`: it never awaits
  anything without a deadline); the gRPC server's threads serve what they
  were given (`Serve`); the monitor thread (`CheckHealth`) and each heartbeat
  thread (`SendHeartbeat`) loop for ever; a heartbeat that is sent again and
  again is received (`ReceiveHeartbeat`, of which only `MaxLosses` get lost).
  Clients, crashes and cancellations have none.
* Tasks: the run thread of a source task is scheduled (`RunThread`). Snapshots,
  stops, failures and deployments may stop happening.
* Monitoring: each demo thread (`DemoThread`), the poll thread (`PollThread`) and
  each client's coroutine (`Coroutine`) goes on: their sleeps end, their HTTP
  calls have time-outs, and a send to a client that left raises. Requests,
  outages and clients have none; a demo is only claimed to end if it is stopped
  for good, and the page to catch up if the JobManager stays up and unchanged.

No other specification states fairness, and no liveness is claimed there.

## 5. What is proved

All proofs are checked by tlapm down to the last leaf, with SMT (Z3), Zenon and
LS4. What is assumed is stated in each module (`CoordinatorAssumption`,
`AlignmentAssumption`, `BufferPoolAssumption`, `FlowControlAssumption`,
`KeyedStateAssumption`, `SourceTaskAssumption`, `ClusterAssumption`,
`JobGraphAssumption`, `JobSchedulingAssumption`, `CopiesAssumption`,
`EventTimeAssumption`, `OperatorChainAssumption`, `FeedsAssumption`): bounds are
natural numbers, limits of lists and sizes of windows positive ones, sets of threads and buffers are
finite where they are counted, None is not a value, the dashboard's consumer and
its demo threads are no request handlers. TLC evaluates them in the runs. Four
theorems have a hypothesis besides: CompletedAreRestorable, AcksMatchAttempts and
the refinement take ids to be used once, and RecordsAreNotDropped the size of the
window to be a multiple of the slide, without which it is not true (section 6).

Where a proof needs induction over numbers it uses a set of them that has zero
and is closed under successor (`SetInduction`), or takes the least element of one
(`SmallestExists`); `FlattenSeqProperties` is proved like that, from the recursive
function by which the community module defines FlattenSeq. Every other argument is about one step.

| theorem | says | argument |
|---|---|---|
| TypeCorrect, AcksAreAccounted | types; the two dictionaries agree | `Bookkeeping` = TypeOK, AcksAccounted, and `BarriersSent` (every barrier up to now carries an id: what an acknowledgement may name) is inductive. TypeOK alone is not: the timeout loop and `CommitRaises` touch one dictionary in terms of the other. |
| CheckpointsAreWhole, CompletedAreDurable | nothing partial is completed or committed; what is completed has a row of its job | `Durability` adds `RowsOwn` (every row is this job's, the table is not shared) to the two. The step that matters is the last acknowledgement: by AcksAccounted nobody being awaited means that all are recorded. |
| CompletedAreRestorable, AcksMatchAttempts, LatestIsTheNewest, CoordinatorRefinesAtomicCheckpoint | with ids used once and whole objects, files of completed checkpoints are right, the one offered for recovery is of the latest completed attempt, and the coordinator implements AtomicCheckpoint | Under `IdsUsedOnce` (`AtomicPut`, no recovery, no restart) `FreshIds` makes id and timestamp the same number, and `FilesInPlace` relates files, recorded states and calls under way. The largest id is then the latest attempt; that there is a largest one (`LatestIsLargest`) needs the least element of a set of naturals. The refinement takes one case per action: a recorded state is a stutter, an upload a Save, a timeout an Abort of a set, the last acknowledgement a Commit or an Abort. The run CheckpointRecoverAck shows that the assumption cannot be dropped. |
| SnapshotsCoverBarriers, SnapshotsAreInOrder, MarksAreForgotten | the three properties of BarrierAlignment | `AlignmentInv`: a mark stands for a barrier that has come, the state has every record delivered that was not lost, a barrier has at most those before it. Order follows from coverage: a barrier that is not repeated belongs to a checkpoint later than every snapshot. |
| BuffersAreAccounted, NobodyIsForgotten | the two properties of BufferPool | `PoolInv` (a thread holds a buffer exactly when it is past acquire); without timeouts the waiters are the sleepers (`WaitersSleep`), and each release adds one buffer and one woken thread, each acquisition removes at most one woken thread with its buffer. |
| CreditsAreAccounted, NoGrantMissed | the two properties of FlowControl | every step keeps credits plus data on its way, or resets. A grant wakes every sender, which is what makes the second inductive; with `NotifyOne` it is not. |
| NetworkBuffersAccounted, NetworkForgetsNobody, NetworkCreditsAccounted, NetworkMissesNoGrant | the same of the composition | NetworkComponents implements each part: a step of the other one is a stutter. |
| StateTypeCorrect, CellsAreExact, SnapshotsArePerKey | types; cells are what their updates made of them; a snapshot's cells were their keys' cells during it | `StateInv` adds `FreshReads` (an update that was not overtaken has read what the cell still is): without it the second half of an update could write back anything. `ScanInv`: while a snapshot is taken, each key's cell, and what was copied of it, is among those it has had meanwhile. |
| ReadAreProcessed | before a restore, what was read is held by the run thread or counted once by every operator | `Placed`: the batch holds the last records read, in order, and the record in the chain is the one before them. So what an operator has seen is a prefix (`Passed`), and `Processed` is inductive with it. |
| LossesAreBounded | a stored snapshot lacks at most a batch for each deployment | `SourceInv`: a live task has `Lost` at most a batch for each earlier deployment, and holds at most one batch more (`HeldBounded`), so its states, their copies and what is stored lack at most a batch for this one too. That the source is copied first matters in one step: the offset of the copy is behind that of the state copied later (`MissedGrows`). |
| TasksAreTheirParts | Tasks implements SourceTask, BarrierAlignment and KeyedState | a step of one part is a stutter of the others: the run Tasks and the theorems speak of the same behaviours. |
| ClusterTypeCorrect, SlotsAreAccounted | types; no TaskManager exceeds its slots, no count its range | `Counts` adds to the two that the task sets are finite and `Planned` (once calls begin, the plan is complete). That the scheduler's choice is one of the open TaskManagers (`LargestExists`) needs the least element of a set of naturals, since the set of TaskManagers need not be finite. A stale count does no harm because the executor checks again under its lock. |
| AcceptedAreDeployed, TasksAreInOrder | an accepted job runs completely; what runs of any job is a prefix of its plan, in place and nowhere else | `Ordered` says of each job that it has been `Reached` up to some n: in front of task n all run, behind it nothing runs or is asked for, and every request and task is where the plan has it. It is tied to the place of the event loop (`HandlerOrdered`) while it deploys, and left behind (`JobOrdered`) when the submission ends, however late the server takes the last request. `TasksAreInOrder` then counts: the tasks of a job are n or n - 1. |
| PlanFitsTheSlots | no TaskManager is planned more than it offered | `CountedTwice`: a TaskManager's count is its slots less twice what was placed on it, so an open one (count above zero) has a slot left. That the one chosen is open needs the least element again. |
| SortIsRight | an accepted sort is topological and complete, a refused graph cyclic | `SortHolds`: the in-degree of a vertex is the number of its edges that come from vertices not sorted yet (`Remaining`), and those with none left are the sorted and the queued, each once. `FreeingIs` is the inner loop: among edges that go twice to one vertex, the last takes the count to zero, and the vertex is queued once. If vertices are left when the queue is empty, each has an edge from another that is left: a cycle. |
| ChainsAreRight, ChainsFollowTheirInputs | the chains partition the vertices and fuse what may be fused, in an order of their inputs | `ChainsHold`: chains are apart, a link is a chainable edge, a chain starts where no chainable edge ends (`HeadsAreNot`), and chainable edges out of visited vertices are links, but at the vertex where a chain is growing. A chain cannot run into a vertex that is in one: it would be a head with a chainable edge, or have two predecessors. |
| FluentGraphsAreAccepted | graphs of the fluent API are accepted | `FluentHolds`: edges lead from smaller to larger vertices, and every vertex but the sources has one. The least vertex of a cycle would read from a smaller one. |
| EventTimeTypeCorrect, WatermarksOnlyAdvance, WindowsAreComplete, RecordsAreNotDropped | types; how far a watermark may go back; what a fired window has; where each record is | `EventInvariant`: no watermark promises more than the records read allow, and while the emitter lives its next is no less than its last (`WatermarksHold`); each record is kept or in one result, returned or not, for each of its windows (`WindowsHold`); what was made ended before any record that is in order (`MadeAreOver`). A record in order therefore finds none of its windows made, and a window is made once. Because a recovery goes back to the last checkpoint, the inductive invariant is `EventInvariant /\ Saved!EventInvariant`, the same formula about the checkpoint. |
| PairsAreJoined | the join is exact, but for records at which the join function raised | `BuffersHold`: a record is in its buffer, or too old for any partner that keeps to the disorder, so a record that comes meets every partner before it, and all pairs of it are joined or all are missed. What a step appends has no repetitions, as every pair has the record that is new. As above, of the state and of the checkpoint. |
| OuterWindowsAreComplete | windows over windows are complete, but for what a raising reduce function held up | `OuterIsOver`: what the second operator has fired ended before the results that open windows of the first will make, if they come in their time. It rests on the order in `process_watermark`: the results of a watermark go through the chain before the watermark does. |
| CountsReachTheSink | each result is counted or was cut off by a failed send; at most one count per failed send was never written; between recoveries the sink gets each count once, in order | `CountsHold` says the first, of the state and of the checkpoint; the unwritten counts can only become fewer when a recovery takes the counts back, since what is written stays; what was collected since the last recovery increases and stays within the count. |
| ChainExtendsEventTime | a chain is a window operator with more behind it | a step of OperatorChain is one of EventTime, or leaves its variables alone: the theorems about EventTime hold in the chain, which is what the run EventTime checks. |
| ListsStayNewest, SessionsAreTheirOwn | lists keep the newest; a demo's numbers are its own | `ListsAreHeads`: lists and slices on their way are the newest events, unless a slice was overtaken or a list replaced under its writer (`overlapped`); `ListsAreCut`: who leaves a list has cut it. `SessionIsCurrent` adds the thread's reading of the count, and where its event is between being counted, raised for (`uninserted`) and inserted: only one thread is alive, and no start came between its reading and its writing. |
| PageIsOnlyBehind | what the page lists was so, each job once, and its figures are those of its lists | `PollInvariant` adds `JobsAreRequested`: a job is made once, when its submission is handled, and only what the page shows is canceled. So a status moves on (`Since`) and none is read that the job has not had, whatever happens between the pieces of a poll and however late a request that was given up is handled. |
| RegistryIsTheStreams | a client is registered, for the job it asked for, exactly while its handler streams; no empty entry | `SocketInvariant` is inductive with the types. It is what `LeaversAreForgotten` rests on: once the coroutine has ended nothing of the client is left. |

Only model-checked: liveness (`RunningTimesOut`, `CountsConverge`,
`InputIsCounted`, `DemoEnds`, `PageCatchesUp`, `LeaversAreForgotten`), for which
the prover has no rule of fairness, and the three properties that the code
violates (section 6). What DashboardPoll and WebSocketServer promise is what they
come to show and forget, so the run checks that; the last two rows of the table
are the invariants behind it.

## 6. Where the code disagrees with what is said of it

Each run below that is expected to be violated has a finding in PROJECT.json.

* CheckpointRecoverAck - `recover_job` resets the id counter without clearing
  what is pending (api.py:507): an acknowledgement that is uploading is then
  counted for another attempt that has the same id.
* SharedTableRows - checkpoint ids are the primary key of a table that all jobs
  share (checkpoint_coordinator.py:432): a successful commit updates the
  row of another job.
* SourceResume - `deploy_task` restores a chain before it opens it, and a Kafka
  source without a consumer ignores what it is to restore (sources.py:152):
  it starts from the beginning of the topic (architecture.md:84 says otherwise).

Seen while reading and modelled or noted without a run of their own, because
every behaviour shows them or nothing interleaves:

* After a restart `json.loads` is applied to a column that the driver has
  decoded (checkpoint_coordinator.py:556): the exception is caught and no
  checkpoint is found (`DecodeRow`); architecture.md:81 has it retrieved from the
  table.
* A failed deployment leaves the job RUNNING with part of its tasks
  (api.py:242; api_reference.md:46). `cancel_job` cancels no task.
* Exactly-once is claimed for the system (architecture.md:67), for the Kafka
  source (sources.py:26, and at :139 that one can "resume from the exact
  position") and for the Kafka sink (sinks.py:21). The code gives none of them.
  The source's offset counts a batch of records that the chain has not processed
  when a snapshot comes between: they are lost by a recovery (`LossIsBounded`
  is what holds). The sink re-raises "to trigger recovery" (sinks.py:86), but
  nobody recovers: `process_record` swallows the exception, and `run` ends the
  thread. Results of a window that came behind the failing one are lost, a send
  that timed out may be in the topic, and a recovery makes the chain write again
  what was written since its checkpoint, as the producer has no transactions
  (`SinkAccounts` is what holds).
* Nothing holds back records behind a barrier while others are missing
  (architecture.md:70 says they are buffered): `ProcessRecord` has no guard.
  Nor does a barrier wait for what is lost in front of it: `process_record`
  drops the records of a stopped task (task_executor.py:165) and those an
  operator raises at (181-183) with the answer of a record without results,
  and `process_barrier` asks for neither, so that the checkpoint is taken to
  cover them.
* A reduce function that raises takes along the results of all windows that
  `process_watermark` has been through (stateful.py:242-247), and is met
  again at the next watermark, since its window stays. A join function that
  raises loses all pairs of its record, which is buffered by then (411-413).
* Nobody in the platform calls `set_stream_side` (examples/stream_join.py:86 does,
  once, with True): as it is, every record of a JoinOperator comes to the left
  side and nothing is joined. The model supplies the caller.
* The demo counts an event before it makes, sends and inserts it: an exception in
  between (app_gcp.py:650-662, caught at 671) leaves a count without an event.
* In `src/` nobody calls `process_barrier`, `process_record`,
  `Task.process_watermark`, `TaskExecutor.trigger_checkpoint`,
  `commit_offsets`, `NetworkFlowController`, `BackpressureMonitor`,
  `ConnectionManager.send_metrics`, `release_slot`, `unregister_task_manager` or
  `reschedule_tasks`, and no failure callback is registered: tasks of a lost
  TaskManager are not moved, `recover_job` redeploys nothing.
* CancelTask removes the task, then fails on an attribute that does not exist
  and answers `success=False` (`TaskManagers!Cancel`).
* A task that failed stays in the executor and keeps its slot.
* Slots that a rejected submission took in the registry stay taken, also when it
  is something behind the scheduling that raises (api.py:191-206): `RejectJob`
  has a partial or a complete plan. The next heartbeat corrects the count.
* Paths of upload and of load differ: local files are written to
  `{job}/chk-{id}/{tm}/{task}.bin` and looked for as `{path}/{task}_state.pkl`;
  S3 has the same problem, GCS does not.
* `_resolve_task_ids` makes ids (`{vertex}_parallel{i}`) that no task has
  (scheduler.py:230 against 132), so the ExecutionGraph's answers are of no use;
  it is stored and not read.
* A task's metrics are made with `registry=None`, which registers them nowhere
  (metrics.py:20 says "None for default").
* A StateDescriptor does not put its name into the key: two states of one key
  share a cell.
* A sliding window whose size is not a multiple of its slide starts off its
  grid, and with a slide larger than the size records fall in between.
* `process_watermark` takes any upstream's watermark; the maximal timestamp of
  the generator is not in the snapshot; timestamp 0 is replaced by now.
* `identify_chainable_operators` documents that it looks at state and
  parallelism, and looks at neither.
* Restore merges in the RocksDB backend and replaces in the in-memory one
  (`Overlaid`); a RocksDB task deployed anew begins with the directory of the
  last one (`Kept`).
* An upload of the dashboard that raises leaves its list longer than its limit
  until the next writer cuts it (`UploadFails`).

The models take psycopg2 to be installed (without it, a commit does nothing and
reports success).

## 7. What the models leave out

Data that no property tells apart: operator functions, keys beyond equality,
pickled bytes, addresses, statistics, logging. Wall-clock time: a timeout is a
step that may happen at any moment after what starts it (`Elapse`, `Silence`,
`TimeOut`). In JobCluster each job has one physical task per parallel instance
and slots are counted per task, as the executor does; the graph's part is
JobScheduling's. `SnapshotFails` stands for pickling a dictionary that grows
meanwhile. Snapshots of a source task come from whoever calls for them, as no
caller exists in `src/`.

Some steps of the code are left out although they change state:

* An exception of Kafka in the middle of a poll (sources.py:132) makes
  `read_records` return what it has so far while the consumer is beyond the rest
  of the poll, which is skipped. The Tasks run has a source that can seek, which
  has no consumer.
* `stop` closes the operators while the run thread works off its batch: what a
  closed sink then drops is not modelled. `SourceTask!Stop` only clears the
  flag.
* CancelTask is one step, although the code tests, stops and deletes without the
  lock of the tasks.
* Callers of the buffer pool and of the gate keep to the protocol: a buffer is
  released once, a sender reports what it was granted.
* In EventTime a checkpoint is aligned with the source, as the recovery of a
  chain whose parts are of different moments is SourceTask's; the order in which
  windows fire and a sink's results come is left open, and a watermark that is
  pending at the checkpoint is gone behind the recovery.

Of the fed task (Tasks) the barriers and the cells are followed apart, and of
the dashboard its feeds and its polls, because they share no state; nothing is
said of a behaviour in which one influences the other through time alone.

## 8. Plan

Done, in this order: the coordinator with its abstract specification and
proofs; the shared table; the cluster; graph and scheduling; source task,
alignment, event time; network with proofs; keyed state with proofs; operator
chains; the fluent API; the dashboard and the web sockets; the proofs of the
cluster, the source task and the composition Tasks; those of scheduling, event
time, chains and dashboard; raising user functions, lost records and recoveries
of operators behind which the sink keeps its output, in models and proofs.

Next, to model:
1. a pipeline that composes SourceTask with BarrierAlignment through bounded
   channels, to check the end-to-end effect of a snapshot on two tasks;
2. `reschedule_tasks` and `release_slot` as a caller would use them, and the
   client pool of grpc_client.py with addresses that change;
3. an abstract specification of the cluster (a job is pending, accepted or
   failed; its tasks are placed once) that JobCluster implements.

Next, to prove:
4. that JobCluster implements the specification of 3;
5. of the properties about progress, the steps that carry them: which action
   each fairness condition is needed for, and that it takes its part closer.

Not to be modelled: metrics (they are only counted up), configuration,
serialization and generated code (no state), gui/app.py (it shows what the
JobManager answers; its start of a coordinator is `Restart`), examples, scripts
and deployment files.
