----------------------------- MODULE TaskManagers -----------------------------
(***************************************************************************)
(* The TaskManager processes, as seen from the JobManager:                 *)
(* taskmanager/task_executor.py (TaskExecutor) and grpc_service.py.  Each  *)
(* runs deployed tasks under tasks_lock and reports its free slots from a  *)
(* thread of its own; requests and heartbeats travel on the network.       *)
(***************************************************************************)
EXTENDS Naturals, FiniteSets

CONSTANTS
    TMs,
    Slots,          \* task_slots
    TaskIds

VARIABLES
    alive,          \* is the process up
    tasks,          \* tm -> the keys of self.tasks
    requests,       \* DeployTask requests that wait for a thread of the server
    heartbeats      \* heartbeats on their way, with the slots they report

TypeOK ==
    /\ alive \in [TMs -> BOOLEAN]
    /\ tasks \in [TMs -> SUBSET TaskIds]
    /\ requests \subseteq [tm : TMs, task : TaskIds]
    /\ heartbeats \subseteq [tm : TMs, available : 0 .. Slots]

Init ==
    /\ alive = [tm \in TMs |-> TRUE]
    /\ tasks = [tm \in TMs |-> {}]
    /\ requests = {}
    /\ heartbeats = {}

\* Mutant of HasSlot: the check before the insertion is off by one.
HasSlotAndOneMore(tm) == Cardinality(tasks[tm]) <= Slots
HasSlot(tm) == Cardinality(tasks[tm]) < Slots

(* deploy_task: the check and the insertion are one critical section.      *)
Deploy(request) ==
    /\ request \in requests
    /\ HasSlot(request.tm)
    /\ requests' = requests \ {request}
    /\ tasks' = [tasks EXCEPT ![request.tm] = @ \cup {request.task}]
    /\ UNCHANGED <<alive, heartbeats>>

(* No slot, or an exception before the task is kept (unpickling, restoring *)
(* or opening the operator).                                               *)
Refuse(request) ==
    /\ request \in requests
    /\ requests' = requests \ {request}
    /\ UNCHANGED <<alive, tasks, heartbeats>>

(* CancelTask of the gRPC service: the task is stopped and removed, then   *)
(* self.task_executor.available_slots, which does not exist, is increased: *)
(* the AttributeError is answered with success=False.                      *)
Cancel(tm, task) ==
    /\ alive[tm]
    /\ task \in tasks[tm]
    /\ tasks' = [tasks EXCEPT ![tm] = @ \ {task}]
    /\ UNCHANGED <<alive, requests, heartbeats>>

\* Mutant of FreeSlots: every heartbeat reports the slots of an idle process.
AllSlots(tm) == Slots
FreeSlots(tm) == Slots - Cardinality(tasks[tm])

(* _send_heartbeat: the slots are counted under the lock and sent after it.*)
SendHeartbeat(tm) ==
    /\ alive[tm]
    /\ heartbeats' =
          heartbeats \cup {[tm |-> tm, available |-> FreeSlots(tm)]}
    /\ UNCHANGED <<alive, tasks, requests>>

\* "Silently fail heartbeat - will retry on next interval"
LoseHeartbeat(heartbeat) ==
    /\ heartbeat \in heartbeats
    /\ heartbeats' = heartbeats \ {heartbeat}
    /\ UNCHANGED <<alive, tasks, requests>>

(* A crash takes the tasks and the requests that were queued; the process  *)
(* may come back under its id, empty.                                      *)
Crash(tm) ==
    /\ alive[tm]
    /\ alive' = [alive EXCEPT ![tm] = FALSE]
    /\ tasks' = [tasks EXCEPT ![tm] = {}]
    /\ requests' = {r \in requests : r.tm # tm}
    /\ UNCHANGED heartbeats

ComeBack(tm) ==
    /\ ~alive[tm]
    /\ alive' = [alive EXCEPT ![tm] = TRUE]
    /\ UNCHANGED <<tasks, requests, heartbeats>>
=============================================================================
