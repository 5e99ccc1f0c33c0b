--------------------------- MODULE BarrierAlignment --------------------------
(***************************************************************************)
(* A task with several upstreams (taskmanager/task_executor.py, Task):     *)
(* process_record and process_barrier, called with what each channel       *)
(* delivers, in the order of the channel.  A channel is the records        *)
(* 1, 2, ... of one upstream with the barriers of checkpoints 1, 2, ...    *)
(* between them; the operator's state is the set of records it has taken.  *)
(***************************************************************************)
EXTENDS Naturals, Sequences, FiniteSets

CONSTANTS
    Upstreams,          \* upstream_tasks
    Checkpoints,        \* bound: barriers sent by each upstream
    MaxRecords,         \* bound: records sent by each upstream
    MaxRepeats          \* bound: barriers delivered a second time

ASSUME AlignmentAssumption ==
    /\ Upstreams # {}
    /\ {Checkpoints, MaxRecords, MaxRepeats} \subseteq Nat

Ids == 1 .. Checkpoints
Deliveries == Upstreams \X (1 .. MaxRecords)

VARIABLES
    sent,       \* upstream -> the number of records delivered
    barrier,    \* upstream -> the last barrier delivered
    before,     \* upstream, checkpoint -> the records before its barrier
    barriers,   \* checkpoint -> the upstreams marked, {} when not tracked
    taken,      \* the operator's state
    snapshots,  \* what process_barrier has returned: checkpoint, state
    stopped,    \* Task.running is no longer set
    repeats,
    lost        \* ghost: the records that process_record did not bring through
                \* the operator

alignVars == <<sent, barrier, before, barriers, taken, snapshots, stopped, repeats, lost>>

AlignTypeOK ==
    /\ sent \in [Upstreams -> 0 .. MaxRecords]
    /\ barrier \in [Upstreams -> 0 .. Checkpoints]
    /\ before \in [Upstreams \X Ids -> 0 .. MaxRecords]
    /\ barriers \in [Ids -> SUBSET Upstreams]
    /\ taken \subseteq Deliveries
    /\ snapshots \in Seq([id : Ids, state : SUBSET Deliveries])
    /\ stopped \in BOOLEAN
    /\ repeats \in 0 .. MaxRepeats
    /\ lost \subseteq Deliveries

AlignInit ==
    /\ sent = [u \in Upstreams |-> 0]
    /\ barrier = [u \in Upstreams |-> 0]
    /\ before = [uc \in Upstreams \X Ids |-> 0]
    /\ barriers = [c \in Ids |-> {}]
    /\ taken = {}
    /\ snapshots = << >>
    /\ stopped = FALSE
    /\ repeats = 0
    /\ lost = {}

Process(record) ==
    /\ ~ stopped
    /\ taken' = taken \cup {record}
    /\ UNCHANGED lost

\* An operator of the chain raises, in front of or behind those that keep
\* state; process_record answers as for a record that gives no results.
Swallow(record) ==
    /\ ~ stopped
    /\ taken' \in {taken, taken \cup {record}}
    /\ lost' = lost \cup {record}

\* The same answer from a task that is stopped.
Ignore(record) ==
    /\ stopped
    /\ lost' = lost \cup {record}
    /\ UNCHANGED taken

\* Nothing asks whether the upstream's barrier of an open checkpoint is behind.
ProcessRecord(u) ==
    /\ sent[u] < MaxRecords
    /\ sent' = [sent EXCEPT ![u] = @ + 1]
    /\ LET record == <<u, sent[u] + 1>> IN
       Process(record) \/ Swallow(record) \/ Ignore(record)
    /\ UNCHANGED <<barrier, before, barriers, snapshots, stopped, repeats>>

Marked(u, c) == barriers[c] \cup {u}

\* Mutant of AllReceived: the barrier of one upstream decides.
SomeReceived(marked) == Upstreams \cap marked # {}
AllReceived(marked) == Upstreams \subseteq marked

\* Mutant of Forget: the marks of the snapshot's checkpoint are kept.
ForgetNothing(u, c) == barriers' = [barriers EXCEPT ![c] = Marked(u, c)]
Forget(u, c) == barriers' = [barriers EXCEPT ![c] = {}]

\* The body of process_barrier, under the task's lock.  A snapshot that raises
\* returns None and keeps the marks.
Mark(u, c) ==
    LET marked == Marked(u, c) IN
    IF AllReceived(marked)
    THEN \/ /\ snapshots' = Append(snapshots, [id |-> c, state |-> taken])
            /\ Forget(u, c)
         \/ /\ barriers' = [barriers EXCEPT ![c] = marked]
            /\ UNCHANGED snapshots
    ELSE /\ barriers' = [barriers EXCEPT ![c] = marked]
         /\ UNCHANGED snapshots

ProcessBarrier(u) ==
    LET c == barrier[u] + 1 IN
    /\ barrier[u] < Checkpoints
    /\ barrier' = [barrier EXCEPT ![u] = c]
    /\ before' = [before EXCEPT ![<<u, c>>] = sent[u]]
    /\ Mark(u, c)
    /\ UNCHANGED <<sent, taken, stopped, repeats, lost>>

\* The caller repeats the last barrier of an upstream, whose answer it lost.
RepeatBarrier(u) ==
    /\ repeats < MaxRepeats
    /\ barrier[u] > 0
    /\ repeats' = repeats + 1
    /\ Mark(u, barrier[u])
    /\ UNCHANGED <<sent, barrier, before, taken, stopped, lost>>

(* stop(); barriers that come later are aligned and snapshotted all the same. *)
StopTask ==
    /\ ~ stopped
    /\ stopped' = TRUE
    /\ UNCHANGED <<sent, barrier, before, barriers, taken, snapshots, repeats, lost>>

AlignNext ==
    \/ \E u \in Upstreams : ProcessRecord(u) \/ ProcessBarrier(u) \/ RepeatBarrier(u)
    \/ StopTask

AlignSpec == AlignInit /\ [][AlignNext]_alignVars
-----------------------------------------------------------------------------
Below(u, n) == {u} \X (1 .. n)

(* A snapshot is taken only when every upstream's barrier has come, and has *)
(* every record that was sent before one of the barriers - but for those    *)
(* that an operator raised at or that came to a stopped task, which are     *)
(* neither refused nor reported and do not keep a barrier from snapshotting. *)
SnapshotCoversBarriers ==
    \A i \in DOMAIN snapshots : \A u \in Upstreams :
        LET s == snapshots[i] IN
        /\ barrier[u] >= s.id
        /\ Below(u, before[<<u, s.id>>]) \subseteq s.state \cup lost

(* However the barriers of several checkpoints overlap, each checkpoint is *)
(* snapshotted at most once, in the order of the ids, and the states only  *)
(* grow from one to the next - as long as no barrier is repeated.          *)
SnapshotsInOrder ==
    repeats = 0 =>
        \A i, j \in DOMAIN snapshots : i < j =>
            /\ snapshots[i].id < snapshots[j].id
            /\ snapshots[i].state \subseteq snapshots[j].state

(* Marks are kept only while a barrier is missing or a snapshot has failed *)
(* - a checkpoint that was snapshotted leaves none behind.                 *)
NoMarksLeft ==
    repeats = 0 => \A i \in DOMAIN snapshots : barriers[snapshots[i].id] = {}
=============================================================================
