------------------------------ MODULE JobCluster ------------------------------
(***************************************************************************)
(* The life of a job across the JobManager and the TaskManagers:           *)
(* submit_job, cancel_job and receive_heartbeat of jobmanager/api.py on    *)
(* one event loop, with the ResourceManager and its monitoring thread, the *)
(* Scheduler, the deployment calls and the TaskManager processes.          *)
(*                                                                         *)
(* The handlers never await once they have begun, so the event loop is in  *)
(* at most one of them; submit_job blocks it for the whole deployment.     *)
(***************************************************************************)
EXTENDS Integers, Sequences, FiniteSets, Scheduler

CONSTANTS
    TMs, Slots,
    Jobs,           \* the jobs that clients may submit, once each
    Parallelism,    \* the number of physical tasks of a job
    MaxCrashes,     \* bound: crashes of TaskManagers
    MaxLosses,      \* bound: heartbeats lost
    MaxCancels,     \* bound: CancelTask calls of gRPC clients
    None

ASSUME ClusterAssumption ==
    /\ Slots \in Nat \ {0}
    /\ Parallelism \in Nat \ {0}
    /\ {MaxCrashes, MaxLosses, MaxCancels} \subseteq Nat
    /\ None \notin {"RUNNING", "CANCELED", "ok", "rejected", "failed"}

TaskIds == Jobs \X (1 .. Parallelism)

VARIABLES
    task_managers,                          \* ResourceManager
    alive, tasks, requests, heartbeats,     \* TaskManagers
    status,         \* the status of the job in state.jobs, None before
    plan,           \* job -> the TaskManager of each task that has one
    response,       \* job -> what the client of submit_job was told
    handler,        \* submit_job while it is on the event loop
    crashes, losses, cancels

R == INSTANCE ResourceManager
T == INSTANCE TaskManagers

bounds == <<crashes, losses, cancels>>
api == <<status, plan, response, handler>>
taskManagers == <<alive, tasks, requests, heartbeats>>
vars == <<task_managers, taskManagers, api, bounds>>

Idle == [pc |-> "idle"]
Handlers ==
    {Idle}
    \cup [pc : {"place"}, job : Jobs, atFirst : UNION {[S -> 1 .. Slots] : S \in SUBSET TMs}]
    \cup [pc : {"call", "wait"}, job : Jobs, next : 1 .. Parallelism]
    \cup [pc : {"reply"}, job : Jobs, next : 1 .. Parallelism, success : BOOLEAN]

TypeOK ==
    /\ R!TypeOK
    /\ T!TypeOK
    /\ status \in [Jobs -> {"RUNNING", "CANCELED", None}]
    /\ plan \in [Jobs -> UNION {[1 .. n -> TMs] : n \in 0 .. Parallelism}]
    /\ response \in [Jobs -> {"ok", "rejected", "failed", None}]
    /\ handler \in Handlers
    /\ {crashes, losses, cancels} \subseteq Nat

Init ==
    /\ R!Init
    /\ T!Init
    /\ status = [j \in Jobs |-> None]
    /\ plan = [j \in Jobs |-> << >>]
    /\ response = [j \in Jobs |-> None]
    /\ handler = Idle
    /\ crashes = 0 /\ losses = 0 /\ cancels = 0
-----------------------------------------------------------------------------
(* submit_job                                                              *)

Submit(j) ==
    /\ handler = Idle
    /\ status[j] = None
    /\ response[j] = None
    /\ handler' = [pc |-> "place", job |-> j,
                   atFirst |-> [tm \in R!Available |->
                                   task_managers[tm].available_slots]]
    /\ UNCHANGED <<task_managers, taskManagers, status, plan, response, bounds>>

InRegistry(atFirst) == [tm \in DOMAIN atFirst |-> task_managers[tm].available_slots]

\* One round of the loop of _allocate_tasks.
PlaceTask ==
    /\ handler.pc = "place"
    /\ LET j == handler.job
           left == InRegistry(handler.atFirst)
           tm == Filling(handler.atFirst, left)
       IN  /\ Len(plan[j]) < Parallelism
           /\ Open(handler.atFirst, left) # {}
           /\ R!AllocateSlot(tm, TakeSlot(left[tm]))
           /\ plan' = [plan EXCEPT ![j] = Append(@, tm)]
    /\ UNCHANGED <<taskManagers, status, response, handler, bounds>>

\* HTTP 500 and no job, for want of slots, or because something raises between
\* scheduling and storing it; the slots that were taken stay taken.
RejectJob ==
    /\ handler.pc = "place"
    /\ \/ Len(plan[handler.job]) = Parallelism
       \/ Open(handler.atFirst, InRegistry(handler.atFirst)) = {}
    /\ plan' = [plan EXCEPT ![handler.job] = << >>]
    /\ response' = [response EXCEPT ![handler.job] = "rejected"]
    /\ handler' = Idle
    /\ UNCHANGED <<task_managers, taskManagers, status, bounds>>

\* The job is RUNNING before the first task is deployed.
StoreJob ==
    /\ handler.pc = "place"
    /\ Len(plan[handler.job]) = Parallelism
    /\ status' = [status EXCEPT ![handler.job] = "RUNNING"]
    /\ handler' = [pc |-> "call", job |-> handler.job, next |-> 1]
    /\ UNCHANGED <<task_managers, taskManagers, plan, response, bounds>>

Call == [tm |-> plan[handler.job][handler.next],
         task |-> <<handler.job, handler.next>>]

CallDeploy ==
    /\ handler.pc = "call"
    /\ alive[Call.tm]
    /\ requests' = requests \cup {Call}
    /\ handler' = [handler EXCEPT !.pc = "wait"]
    /\ UNCHANGED <<task_managers, alive, tasks, heartbeats, status, plan,
                   response, bounds>>

\* Mutant of Answer: any answer is taken for the one that is awaited.
AnswerToAnyone(request, success) ==
    handler' = IF handler.pc = "wait"
               THEN [pc |-> "reply", job |-> handler.job,
                     next |-> handler.next, success |-> success]
               ELSE handler

\* The answer reaches the event loop if it still waits for this request.
Answer(request, success) ==
    handler' = IF handler.pc = "wait" /\ request = Call
               THEN [pc |-> "reply", job |-> handler.job,
                     next |-> handler.next, success |-> success]
               ELSE handler

Deploy(request) ==
    /\ T!Deploy(request)
    /\ Answer(request, TRUE)
    /\ UNCHANGED <<task_managers, status, plan, response, bounds>>

Refuse(request) ==
    /\ T!Refuse(request)
    /\ Answer(request, FALSE)
    /\ UNCHANGED <<task_managers, status, plan, response, bounds>>

TaskDeployed ==
    /\ handler.pc = "reply"
    /\ handler.success
    /\ IF handler.next < Parallelism
       THEN /\ handler' = [pc |-> "call", job |-> handler.job,
                           next |-> handler.next + 1]
            /\ UNCHANGED response
       ELSE /\ handler' = Idle
            /\ response' = [response EXCEPT ![handler.job] = "ok"]
    /\ UNCHANGED <<task_managers, taskManagers, status, plan, bounds>>

\* Mutant of FailJob: the failure is printed and the loop goes on.
SkipTask ==
    /\ IF handler.next < Parallelism
       THEN /\ handler' = [pc |-> "call", job |-> handler.job,
                           next |-> handler.next + 1]
            /\ UNCHANGED response
       ELSE /\ handler' = Idle
            /\ response' = [response EXCEPT ![handler.job] = "failed"]
    /\ UNCHANGED <<task_managers, alive, tasks, heartbeats, status, plan, bounds>>

\* "In a real system, we would rollback here": HTTP 500 and nothing else.
FailJob ==
    /\ handler' = Idle
    /\ response' = [response EXCEPT ![handler.job] = "failed"]
    /\ UNCHANGED <<task_managers, alive, tasks, heartbeats, status, plan, bounds>>

DeploymentRefused ==
    /\ handler.pc = "reply"
    /\ ~handler.success
    /\ FailJob
    /\ UNCHANGED requests

\* connect waits for a channel in vain, or the channel of an earlier call is gone.
NoConnection ==
    /\ handler.pc = "call"
    /\ FailJob
    /\ UNCHANGED requests

\* The deadline of the call: a request that the server has begun is served all
\* the same, and so is one whose answer comes too late.
DeploymentTimesOut ==
    /\ handler.pc \in {"wait", "reply"}
    /\ FailJob
    /\ requests' \in {requests, requests \ {Call}}
-----------------------------------------------------------------------------
(* The other handlers and threads                                          *)

\* cancel_job: "Cancel tasks on TaskManagers via gRPC (not implemented)".
CancelJob(j) ==
    /\ handler = Idle
    /\ status[j] = "RUNNING"
    /\ status' = [status EXCEPT ![j] = "CANCELED"]
    /\ UNCHANGED <<task_managers, taskManagers, plan, response, handler, bounds>>

ReceiveHeartbeat(heartbeat) ==
    /\ handler = Idle
    /\ heartbeat \in heartbeats
    /\ R!ReceiveHeartbeat(heartbeat.tm, heartbeat.available)
    /\ heartbeats' = heartbeats \ {heartbeat}
    /\ UNCHANGED <<alive, tasks, requests, api, bounds>>

Silence(tm) ==
    /\ R!Silence(tm)
    /\ UNCHANGED <<taskManagers, api, bounds>>

CheckHealth ==
    /\ R!CheckHealth
    /\ UNCHANGED <<taskManagers, api, bounds>>

SendHeartbeat(tm) ==
    /\ T!SendHeartbeat(tm)
    /\ UNCHANGED <<task_managers, api, bounds>>

LoseHeartbeat(heartbeat) ==
    /\ losses < MaxLosses
    /\ losses' = losses + 1
    /\ T!LoseHeartbeat(heartbeat)
    /\ UNCHANGED <<task_managers, api, crashes, cancels>>

\* By CancelTask of the gRPC service or by cancel_task of the executor.
CancelTask(tm, task) ==
    /\ cancels < MaxCancels
    /\ cancels' = cancels + 1
    /\ T!Cancel(tm, task)
    /\ UNCHANGED <<task_managers, api, crashes, losses>>

Crash(tm) ==
    /\ crashes < MaxCrashes
    /\ crashes' = crashes + 1
    /\ T!Crash(tm)
    /\ UNCHANGED <<task_managers, api, losses, cancels>>

ComeBack(tm) ==
    /\ T!ComeBack(tm)
    /\ UNCHANGED <<task_managers, api, bounds>>

Network ==
    \E h \in heartbeats : ReceiveHeartbeat(h) \/ LoseHeartbeat(h)

Serve == \E r \in requests : Deploy(r) \/ Refuse(r)

SubmitStep ==
    \/ PlaceTask \/ RejectJob \/ StoreJob \/ CallDeploy \/ TaskDeployed
    \/ NoConnection \/ DeploymentRefused \/ DeploymentTimesOut

Next ==
    \/ \E j \in Jobs : Submit(j) \/ CancelJob(j)
    \/ SubmitStep
    \/ Serve
    \/ Network
    \/ CheckHealth
    \/ \E tm \in TMs : \/ Silence(tm) \/ SendHeartbeat(tm)
                       \/ Crash(tm) \/ ComeBack(tm)
    \/ \E tm \in TMs, task \in TaskIds : CancelTask(tm, task)

Spec == Init /\ [][Next]_vars

\* Threads run: the event loop through its handlers (a call has a deadline), the
\* servers through their requests, each TaskManager's heartbeat loop, the monitor.
FairSpec ==
    /\ Spec
    /\ WF_vars(SubmitStep)
    /\ WF_vars(Serve)
    /\ WF_vars(CheckHealth)
    /\ \A tm \in TMs : WF_vars(SendHeartbeat(tm))
    /\ \A tm \in TMs, n \in 0 .. Slots :
          WF_vars(ReceiveHeartbeat([tm |-> tm, available |-> n]))
-----------------------------------------------------------------------------
(* A TaskManager never runs more tasks than it has slots, although the     *)
(* JobManager deploys from counts that are stale, leaked or overdrawn, and *)
(* requests given up by the caller may still be served; and it never       *)
(* believes in more free slots than there are in all, nor in a debt of     *)
(* more than one.                                                          *)
SlotsAccounted ==
    \A tm \in TMs :
        /\ Cardinality(tasks[tm]) <= Slots
        /\ task_managers[tm] # None =>
              task_managers[tm].available_slots \in -1 .. Slots

TasksOf(j) == {task \in UNION {tasks[tm] : tm \in TMs} : task[1] = j}

(* A client told that its job runs has every task of it on its TaskManager *)
(* unless a TaskManager crashed or a task was canceled there.              *)
Deployed(j) == \A i \in 1 .. Parallelism :
                   /\ i \in DOMAIN plan[j]
                   /\ <<j, i>> \in tasks[plan[j][i]]

AcceptedJobsRun ==
    crashes = 0 /\ cancels = 0 => \A j \in Jobs : response[j] = "ok" => Deployed(j)

(* However the submission ended, the tasks that run are the first ones of  *)
(* the plan, each where the plan has it: no gap is left behind a request   *)
(* whose answer was lost, and nothing of a rejected job runs.              *)
DeployedInOrder ==
    crashes = 0 /\ cancels = 0 =>
        \A j \in Jobs :
            /\ TasksOf(j) = {<<j, i>> : i \in 1 .. Cardinality(TasksOf(j))}
            /\ \A task \in TasksOf(j) :
                  {tm \in TMs : task \in tasks[tm]} = {plan[j][task[2]]}

(* The JobManager's count of free slots comes to be right: what scheduling *)
(* leaks or overdraws and what stale heartbeats overwrite is repaired by   *)
(* later heartbeats.                                                       *)
CountRight(tm) ==
    /\ task_managers[tm] # None
    /\ task_managers[tm].available_slots = Slots - Cardinality(tasks[tm])

CountsConverge == <>[](\A tm \in TMs : alive[tm] => CountRight(tm))
=============================================================================
