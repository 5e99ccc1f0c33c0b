--------------------------- MODULE JobClusterProofs ---------------------------
(***************************************************************************)
(* Proofs about JobCluster, for any TaskManagers, slots, jobs, parallelism *)
(* and any number of crashes, lost heartbeats and cancellations.           *)
(***************************************************************************)
EXTENDS JobCluster, FiniteSetTheorems, SequenceTheorems, SequenceLemmas

-----------------------------------------------------------------------------
(* The choice of a TaskManager                                             *)

(* The list's numbers are bounded, so that Largest chooses a TaskManager   *)
(* of it, however many there are.                                          *)
LEMMA LargestExists ==
    ASSUME NEW S, NEW n \in Nat, NEW f \in [S -> 1 .. n],
           NEW open, open \subseteq S, open # {}
    PROVE  Largest(f, open) \in open
<1>1. {n - f[s] : s \in open} \subseteq Nat /\ {n - f[s] : s \in open} # {}
  OBVIOUS
<1>2. PICK least \in {n - f[s] : s \in open} :
         \A other \in {n - f[s] : s \in open} : least <= other
  BY <1>1, SmallestExists
<1>3. PICK s \in open : least = n - f[s]
  OBVIOUS
<1>4. ASSUME NEW other \in open PROVE f[other] <= f[s]
  <2>1. n - f[s] <= n - f[other]
    BY <1>2, <1>3
  <2>2. f[s] \in 1 .. n /\ f[other] \in 1 .. n
    OBVIOUS
  <2> QED
    BY <2>1, <2>2
<1> QED
  BY <1>4 DEF Largest
-----------------------------------------------------------------------------
(* Types                                                                   *)

LEMMA PlanGrows ==
    ASSUME NEW p \in UNION {[1 .. n -> TMs] : n \in 0 .. Parallelism},
           Len(p) < Parallelism, NEW tm \in TMs, Parallelism \in Nat
    PROVE  Append(p, tm) \in UNION {[1 .. n -> TMs] : n \in 0 .. Parallelism}
<1>1. PICK n \in 0 .. Parallelism : p \in [1 .. n -> TMs]
  OBVIOUS
<1>2. p \in Seq(TMs) /\ Len(p) = n
  BY <1>1
<1>3. Append(p, tm) \in Seq(TMs) /\ Len(Append(p, tm)) = n + 1
  BY <1>2
<1>4. Append(p, tm) \in [1 .. (n + 1) -> TMs]
  BY <1>3, LenProperties
<1>5. n + 1 \in 0 .. Parallelism
  BY <1>2
<1> QED
  BY <1>4, <1>5

LEMMA PlanShape ==
    ASSUME TypeOK, NEW j \in Jobs, Parallelism \in Nat
    PROVE  /\ Len(plan[j]) \in Nat
           /\ DOMAIN plan[j] = 1 .. Len(plan[j])
           /\ \A i \in DOMAIN plan[j] : plan[j][i] \in TMs
<1>1. PICK n \in 0 .. Parallelism : plan[j] \in [1 .. n -> TMs]
  BY DEF TypeOK
<1>2. plan[j] \in Seq(TMs) /\ Len(plan[j]) = n
  BY <1>1
<1> QED
  BY <1>1, <1>2

(* What the event loop keeps while it is in submit_job.                    *)
LEMMA HandlerShape ==
    ASSUME TypeOK
    PROVE  /\ handler.pc \in {"idle", "place", "call", "wait", "reply"}
           /\ handler.pc = "idle" => handler = Idle
           /\ handler.pc = "place" =>
                 /\ handler.job \in Jobs
                 /\ \E S \in SUBSET TMs : handler.atFirst \in [S -> 1 .. Slots]
           /\ handler.pc \in {"call", "wait"} =>
                 handler \in [pc : {"call", "wait"}, job : Jobs, next : 1 .. Parallelism]
           /\ handler.pc = "reply" =>
                 handler \in [pc : {"reply"}, job : Jobs, next : 1 .. Parallelism,
                              success : BOOLEAN]
<1>1. CASE handler = Idle
  BY <1>1 DEF Idle
<1>2. CASE handler \in [pc : {"place"}, job : Jobs,
                        atFirst : UNION {[S -> 1 .. Slots] : S \in SUBSET TMs}]
  BY <1>2
<1>3. CASE handler \in [pc : {"call", "wait"}, job : Jobs, next : 1 .. Parallelism]
  BY <1>3
<1>4. CASE handler \in [pc : {"reply"}, job : Jobs, next : 1 .. Parallelism,
                        success : BOOLEAN]
  BY <1>4
<1> QED
  BY <1>1, <1>2, <1>3, <1>4 DEF TypeOK, Handlers

(* The numbers that the slots are counted with are only right together:    *)
(* a heartbeat reports at most the slots because the tasks are finitely    *)
(* many and no more than them, and a count is at most what was reported.   *)
Planned ==
    handler.pc \in {"call", "wait", "reply"} => Len(plan[handler.job]) = Parallelism

Counts ==
    /\ TypeOK
    /\ Planned
    /\ \A tm \in TMs : IsFiniteSet(tasks[tm])
    /\ SlotsAccounted

LEMMA InitCounts == Init => Counts
<1> SUFFICES ASSUME Init PROVE Counts
  OBVIOUS
<1>1. \A tm \in TMs : tasks[tm] = {} /\ task_managers[tm] = None
  BY DEF Init, R!Init, T!Init
<1>2. \A tm \in TMs : IsFiniteSet(tasks[tm]) /\ Cardinality(tasks[tm]) <= Slots
  <2>1. IsFiniteSet({}) /\ Cardinality({}) = 0 /\ 0 <= Slots
    BY FS_EmptySet, ClusterAssumption DEF ClusterAssumption
  <2> QED
    BY <1>1, <2>1
<1>3. << >> \in [1 .. 0 -> TMs] /\ 0 \in 0 .. Parallelism
  BY ClusterAssumption DEF ClusterAssumption
<1>4. plan \in [Jobs -> UNION {[1 .. n -> TMs] : n \in 0 .. Parallelism}]
  BY <1>3 DEF Init
<1>5. R!TypeOK /\ T!TypeOK
  BY DEF Init, R!Init, T!Init, R!TypeOK, T!TypeOK
<1>6. TypeOK /\ Planned
  BY <1>4, <1>5 DEF Init, TypeOK, Handlers, Planned, Idle
<1> QED
  BY <1>1, <1>2, <1>6 DEF Counts, SlotsAccounted

LEMMA AllocateCounts ==
    ASSUME R!TypeOK, NEW tm \in TMs, task_managers[tm] # None, NEW left \in -1 .. Slots,
           task_managers' = [task_managers EXCEPT ![tm].available_slots = left]
    PROVE  /\ R!TypeOK'
           /\ task_managers'[tm].available_slots = left
           /\ \A other \in TMs \ {tm} : task_managers'[other] = task_managers[other]
<1>1. task_managers[tm] \in R!Info /\ left \in Int
  BY ClusterAssumption DEF R!TypeOK, ClusterAssumption
<1>2. task_managers' = [task_managers EXCEPT ![tm] =
                           [task_managers[tm] EXCEPT !.available_slots = left]]
  OBVIOUS
<1>3. /\ [task_managers[tm] EXCEPT !.available_slots = left] \in R!Info
      /\ [task_managers[tm] EXCEPT !.available_slots = left].available_slots = left
  BY <1>1 DEF R!Info
<1> QED
  BY <1>2, <1>3 DEF R!TypeOK

(* submit_job, up to the first deployment.                                 *)
LEMMA PlacingCounts ==
    ASSUME Counts,
           (\E j \in Jobs : Submit(j)) \/ PlaceTask \/ RejectJob \/ StoreJob
    PROVE  Counts'
<1> USE ClusterAssumption DEF ClusterAssumption
<1>1. ASSUME NEW j \in Jobs, Submit(j) PROVE Counts'
  <2>1. \A tm \in R!Available : task_managers[tm].available_slots \in 1 .. Slots
    BY DEF R!Available, Counts, SlotsAccounted, TypeOK, R!TypeOK, R!Info
  <2>2. R!Available \in SUBSET TMs
    BY DEF R!Available
  <2>3. [tm \in R!Available |-> task_managers[tm].available_slots]
           \in [R!Available -> 1 .. Slots]
    BY <2>1
  <2>4. handler' \in [pc : {"place"}, job : Jobs,
                      atFirst : UNION {[S -> 1 .. Slots] : S \in SUBSET TMs}]
    BY <1>1, <2>2, <2>3 DEF Submit
  <2>5. Planned'
    BY <1>1 DEF Submit, Planned
  <2> QED
    BY <1>1, <2>4, <2>5 DEF Submit, Counts, SlotsAccounted, TypeOK, Handlers, R!TypeOK,
       T!TypeOK, taskManagers, bounds
<1>2. CASE PlaceTask
  <2>1. PICK S \in SUBSET TMs : handler.atFirst \in [S -> 1 .. Slots]
    BY <1>2, HandlerShape DEF PlaceTask, Counts
  <2>2. PICK left : left = InRegistry(handler.atFirst)
    OBVIOUS
  <2>3. PICK tm : tm = Filling(handler.atFirst, left)
    OBVIOUS
  <2>4. tm \in Open(handler.atFirst, left)
    <3>1. Open(handler.atFirst, left) # {}
      BY <1>2, <2>2 DEF PlaceTask
    <3>2. Open(handler.atFirst, left) \subseteq S
      BY <2>1 DEF Open
    <3> QED
      BY <2>1, <2>3, <3>1, <3>2, LargestExists DEF Filling
  <2>5. tm \in TMs /\ left[tm] = task_managers[tm].available_slots
    BY <2>1, <2>2, <2>4 DEF Open, InRegistry
  <2>6. handler.job \in Jobs /\ Len(plan[handler.job]) < Parallelism
    BY <1>2, HandlerShape DEF PlaceTask, Counts
  <2>7. plan' \in [Jobs -> UNION {[1 .. n -> TMs] : n \in 0 .. Parallelism}]
    <3>1. plan' = [plan EXCEPT ![handler.job] = Append(plan[handler.job], tm)]
      BY <1>2, <2>2, <2>3 DEF PlaceTask
    <3>2. Append(plan[handler.job], tm) \in UNION {[1 .. n -> TMs] : n \in 0 .. Parallelism}
      BY <2>5, <2>6, PlanGrows DEF Counts, TypeOK
    <3> QED
      BY <3>1, <3>2 DEF Counts, TypeOK
  <2>8. /\ task_managers[tm] # None
        /\ task_managers[tm].available_slots > 0
        /\ task_managers' = [task_managers EXCEPT ![tm].available_slots = left[tm] - 1 - 1]
    BY <1>2, <2>2, <2>3 DEF PlaceTask, R!AllocateSlot, TakeSlot
  <2>9. left[tm] - 1 - 1 \in -1 .. Slots
    BY <2>5, <2>8 DEF Counts, SlotsAccounted
  <2>10. R!TypeOK' /\ \A m \in TMs : task_managers'[m] # None =>
            task_managers'[m].available_slots \in -1 .. Slots
    <3>1. R!TypeOK /\ \A m \in TMs : task_managers[m] # None =>
            task_managers[m].available_slots \in -1 .. Slots
      BY DEF Counts, SlotsAccounted, TypeOK
    <3>2. /\ R!TypeOK'
          /\ task_managers'[tm].available_slots = left[tm] - 1 - 1
          /\ \A m \in TMs \ {tm} : task_managers'[m] = task_managers[m]
      BY <2>5, <2>8, <2>9, <3>1, AllocateCounts
    <3> QED
      BY <2>9, <3>1, <3>2
  <2>11. Planned'
    BY <1>2 DEF PlaceTask, Planned
  <2> QED
    BY <1>2, <2>7, <2>10, <2>11 DEF PlaceTask, Counts, SlotsAccounted, TypeOK, T!TypeOK,
       taskManagers, bounds
<1>3. CASE RejectJob
  <2>1. << >> \in [1 .. 0 -> TMs] /\ 0 \in 0 .. Parallelism
    OBVIOUS
  <2>2. plan' \in [Jobs -> UNION {[1 .. n -> TMs] : n \in 0 .. Parallelism}]
    BY <1>3, <2>1 DEF RejectJob, Counts, TypeOK
  <2>3. Planned'
    BY <1>3 DEF RejectJob, Planned, Idle
  <2> QED
    BY <1>3, <2>2, <2>3 DEF RejectJob, Counts, SlotsAccounted, TypeOK, R!TypeOK, T!TypeOK,
       Handlers, taskManagers, bounds
<1>4. CASE StoreJob
  <2>1. handler' \in [pc : {"call", "wait"}, job : Jobs, next : 1 .. Parallelism]
    BY <1>4, HandlerShape DEF StoreJob, Counts
  <2>2. status' \in [Jobs -> {"RUNNING", "CANCELED", None}]
    BY <1>4 DEF StoreJob, Counts, TypeOK
  <2>3. Planned'
    BY <1>4, <2>1 DEF StoreJob, Planned
  <2> QED
    BY <1>4, <2>1, <2>2, <2>3 DEF StoreJob, Counts, SlotsAccounted, TypeOK, R!TypeOK, T!TypeOK,
       Handlers, taskManagers, bounds
<1> QED
  BY <1>1, <1>2, <1>3, <1>4

LEMMA SameCardinality == ASSUME NEW S PROVE T!Cardinality(S) = Cardinality(S)
BY DEF T!Cardinality, Cardinality

LEMMA DeployEffect ==
    ASSUME Counts, NEW request, T!Deploy(request)
    PROVE  /\ request \in requests /\ request.tm \in TMs /\ request.task \in TaskIds
           /\ Cardinality(tasks[request.tm]) < Slots
           /\ requests' \subseteq requests
           /\ alive' = alive /\ heartbeats' = heartbeats
           /\ tasks' = [tasks EXCEPT ![request.tm] = tasks[request.tm] \cup {request.task}]
           /\ \A tm \in TMs : tasks'[tm] =
                 IF tm = request.tm THEN tasks[tm] \cup {request.task} ELSE tasks[tm]
<1>1. /\ request \in requests
      /\ Cardinality(tasks[request.tm]) < Slots
      /\ requests' \subseteq requests
      /\ tasks' = [tasks EXCEPT ![request.tm] = tasks[request.tm] \cup {request.task}]
      /\ alive' = alive /\ heartbeats' = heartbeats
  BY SameCardinality DEF T!Deploy, T!HasSlot
<1>2. request.tm \in TMs /\ request.task \in TaskIds
  BY <1>1 DEF Counts, TypeOK, T!TypeOK
<1> QED
  BY <1>1, <1>2 DEF Counts, TypeOK, T!TypeOK

(* A task is added only under the check, in the same critical section.     *)
LEMMA DeployCounts ==
    ASSUME Counts, NEW request, T!Deploy(request)
    PROVE  /\ T!TypeOK'
           /\ \A tm \in TMs : IsFiniteSet(tasks'[tm]) /\ Cardinality(tasks'[tm]) <= Slots
<1>1. IsFiniteSet(tasks[request.tm])
  BY DeployEffect DEF Counts
<1>2. /\ IsFiniteSet(tasks[request.tm] \cup {request.task})
      /\ Cardinality(tasks[request.tm] \cup {request.task}) <= Slots
  <2>1. Cardinality(tasks[request.tm]) \in Nat /\ Slots \in Nat
    BY <1>1, FS_CardinalityType, ClusterAssumption DEF ClusterAssumption
  <2>2. /\ IsFiniteSet(tasks[request.tm] \cup {request.task})
        /\ Cardinality(tasks[request.tm] \cup {request.task}) =
              IF request.task \in tasks[request.tm] THEN Cardinality(tasks[request.tm])
              ELSE Cardinality(tasks[request.tm]) + 1
    BY <1>1, FS_AddElement
  <2>3. Cardinality(tasks[request.tm]) < Slots
    BY DeployEffect
  <2> QED
    BY <2>1, <2>2, <2>3
<1>3. T!TypeOK'
  <2>1. tasks' \in [TMs -> SUBSET TaskIds]
    BY DeployEffect DEF Counts, TypeOK, T!TypeOK
  <2>2. requests' \subseteq [tm : TMs, task : TaskIds]
    BY DeployEffect DEF Counts, TypeOK, T!TypeOK
  <2> QED
    BY <2>1, <2>2, DeployEffect DEF Counts, TypeOK, T!TypeOK
<1>4. \A tm \in TMs : IsFiniteSet(tasks'[tm]) /\ Cardinality(tasks'[tm]) <= Slots
  <2>1. \A tm \in TMs : IsFiniteSet(tasks[tm]) /\ Cardinality(tasks[tm]) <= Slots
    BY DEF Counts, SlotsAccounted
  <2> QED
    BY <1>2, <2>1, DeployEffect
<1> QED
  BY <1>3, <1>4

LEMMA AnswerType ==
    ASSUME TypeOK, Planned, NEW request, NEW success \in BOOLEAN, Answer(request, success),
           plan' = plan
    PROVE  handler' \in Handlers /\ Planned'
<1>1. CASE handler.pc = "wait" /\ request = Call
  <2>1. handler' = [pc |-> "reply", job |-> handler.job, next |-> handler.next,
                    success |-> success]
    BY <1>1 DEF Answer
  <2>2. handler.job \in Jobs /\ handler.next \in 1 .. Parallelism
    BY <1>1, HandlerShape
  <2> QED
    BY <1>1, <2>1, <2>2 DEF Handlers, Planned
<1>2. CASE ~ (handler.pc = "wait" /\ request = Call)
  BY <1>2 DEF Answer, TypeOK, Planned
<1> QED
  BY <1>1, <1>2

(* The deployment calls.                                                   *)
LEMMA DeployingCounts ==
    ASSUME Counts,
           \/ CallDeploy \/ TaskDeployed
           \/ NoConnection \/ DeploymentRefused \/ DeploymentTimesOut
           \/ Serve
    PROVE  Counts'
<1>1. CASE CallDeploy
  <2>1. handler \in [pc : {"call", "wait"}, job : Jobs, next : 1 .. Parallelism]
    BY <1>1, HandlerShape DEF CallDeploy, Counts
  <2>2. handler' \in Handlers
    BY <1>1, <2>1 DEF CallDeploy, Handlers
  <2>3. Call.tm \in TMs
    <3>1. handler.next \in DOMAIN plan[handler.job]
      BY <1>1, <2>1, PlanShape, ClusterAssumption
         DEF CallDeploy, ClusterAssumption, Counts, Planned
    <3> QED
      BY <2>1, <3>1, PlanShape, ClusterAssumption DEF Call, ClusterAssumption, Counts
  <2>4. Call \in [tm : TMs, task : TaskIds]
    BY <2>1, <2>3 DEF Call, TaskIds
  <2>5. Planned'
    BY <1>1, <2>1 DEF CallDeploy, Counts, Planned
  <2> QED
    BY <1>1, <2>2, <2>4, <2>5 DEF CallDeploy, Counts, SlotsAccounted, TypeOK, R!TypeOK, T!TypeOK,
       bounds
<1>2. CASE TaskDeployed
  <2>1. handler \in [pc : {"reply"}, job : Jobs, next : 1 .. Parallelism, success : BOOLEAN]
    BY <1>2, HandlerShape DEF TaskDeployed, Counts
  <2>2. handler' \in Handlers /\ response' \in [Jobs -> {"ok", "rejected", "failed", None}]
    <3>1. CASE handler.next < Parallelism
      <4>1. handler.next + 1 \in 1 .. Parallelism
        BY <2>1, <3>1, ClusterAssumption DEF ClusterAssumption
      <4> QED
        BY <1>2, <2>1, <3>1, <4>1 DEF TaskDeployed, Handlers, Counts, TypeOK
    <3>2. CASE ~ (handler.next < Parallelism)
      BY <1>2, <2>1, <3>2 DEF TaskDeployed, Handlers, Counts, TypeOK
    <3> QED
      BY <3>1, <3>2
  <2>3. Planned'
    BY <1>2, <2>1 DEF TaskDeployed, Counts, Planned, Idle
  <2> QED
    BY <1>2, <2>2, <2>3 DEF TaskDeployed, Counts, SlotsAccounted, TypeOK, R!TypeOK, T!TypeOK,
       taskManagers, bounds
<1>3. CASE NoConnection \/ DeploymentRefused \/ DeploymentTimesOut
  <2>1. requests' \subseteq requests
    BY <1>3 DEF NoConnection, DeploymentRefused, DeploymentTimesOut
  <2>2. FailJob
    BY <1>3 DEF NoConnection, DeploymentRefused, DeploymentTimesOut
  <2>3. Planned'
    BY <2>2 DEF FailJob, Planned, Idle
  <2>4. handler' \in Handlers
    BY <2>2 DEF FailJob, Handlers
  <2> QED
    BY <2>1, <2>2, <2>3, <2>4 DEF FailJob, Counts, SlotsAccounted, TypeOK, R!TypeOK, T!TypeOK,
       bounds
<1>4. ASSUME NEW request \in requests, Deploy(request) PROVE Counts'
  <2>1. handler' \in Handlers /\ Planned'
    BY <1>4, AnswerType DEF Deploy, Counts
  <2> QED
    BY <1>4, <2>1, DeployCounts DEF Deploy, Counts, SlotsAccounted, TypeOK, R!TypeOK, bounds
<1>5. ASSUME NEW request \in requests, Refuse(request) PROVE Counts'
  <2>1. handler' \in Handlers /\ Planned'
    BY <1>5, AnswerType DEF Refuse, Counts
  <2> QED
    BY <1>5, <2>1 DEF Refuse, T!Refuse, Counts, SlotsAccounted, TypeOK, R!TypeOK, T!TypeOK,
       bounds
<1> QED
  BY <1>1, <1>2, <1>3, <1>4, <1>5 DEF Serve

LEMMA UpdatedInfo ==
    ASSUME NEW k,
           NEW info \in [available_slots : Int, status : {"ACTIVE", "LOST", "REGISTERED"},
                         healthy : BOOLEAN]
    PROVE  R!UpdateHeartbeat(info, k) =
              [available_slots |-> k, status |-> "ACTIVE", healthy |-> TRUE]
<1>1. R!UpdateHeartbeat(info, k) =
         [[[info EXCEPT !.available_slots = k] EXCEPT !.status = "ACTIVE"]
                                               EXCEPT !.healthy = TRUE]
  BY DEF R!UpdateHeartbeat
<1>2. [info EXCEPT !.available_slots = k] =
         [available_slots |-> k, status |-> info.status, healthy |-> info.healthy]
  OBVIOUS
<1>3. [[available_slots |-> k, status |-> info.status, healthy |-> info.healthy]
          EXCEPT !.status = "ACTIVE"] =
         [available_slots |-> k, status |-> "ACTIVE", healthy |-> info.healthy]
  OBVIOUS
<1>4. [[available_slots |-> k, status |-> "ACTIVE", healthy |-> info.healthy]
          EXCEPT !.healthy = TRUE] =
         [available_slots |-> k, status |-> "ACTIVE", healthy |-> TRUE]
  <2>1. \A h, b : [[available_slots |-> k, status |-> "ACTIVE", healthy |-> h]
                       EXCEPT !.healthy = b] =
                   [available_slots |-> k, status |-> "ACTIVE", healthy |-> b]
    OBVIOUS
  <2> QED
    BY <2>1
<1> QED
  BY <1>1, <1>2, <1>3, <1>4

(* Of what the registry knew nothing is left after a heartbeat.            *)
LEMMA ReceiveEffect ==
    ASSUME R!TypeOK, NEW tm \in TMs, NEW k, R!ReceiveHeartbeat(tm, k)
    PROVE  task_managers' = [task_managers EXCEPT ![tm] =
               [available_slots |-> k, status |-> "ACTIVE", healthy |-> TRUE]]
<1>1. CASE task_managers[tm] = None
  <2>1. task_managers' = [task_managers EXCEPT ![tm] = R!UpdateHeartbeat(R!Registered, k)]
    BY <1>1 DEF R!ReceiveHeartbeat
  <2>2. R!Registered \in [available_slots : Int, status : {"ACTIVE", "LOST", "REGISTERED"},
                          healthy : BOOLEAN]
    BY ClusterAssumption DEF ClusterAssumption, R!Registered
  <2> QED
    BY <2>1, <2>2, UpdatedInfo
<1>2. CASE task_managers[tm] # None
  <2>1. task_managers' = [task_managers EXCEPT ![tm] =
                             R!UpdateHeartbeat(task_managers[tm], k)]
    BY <1>2 DEF R!ReceiveHeartbeat
  <2>2. task_managers[tm] \in [available_slots : Int,
                               status : {"ACTIVE", "LOST", "REGISTERED"}, healthy : BOOLEAN]
    BY <1>2 DEF R!TypeOK, R!Info
  <2> QED
    BY <2>1, <2>2, UpdatedInfo
<1> QED
  BY <1>1, <1>2

(* The other handlers, and what the TaskManagers do.                       *)
LEMMA OtherCounts ==
    ASSUME Counts,
           \/ \E j \in Jobs : CancelJob(j)
           \/ Network \/ CheckHealth
           \/ \E tm \in TMs :
                 \/ Silence(tm) \/ SendHeartbeat(tm) \/ Crash(tm) \/ ComeBack(tm)
                 \/ \E task \in TaskIds : CancelTask(tm, task)
    PROVE  Counts'
<1>p. plan' = plan /\ handler' = handler
  BY DEF CancelJob, Network, ReceiveHeartbeat, LoseHeartbeat, CheckHealth, Silence,
     SendHeartbeat, Crash, ComeBack, CancelTask, api
<1>q. Planned'
  BY <1>p DEF Counts, Planned
<1>1. ASSUME NEW j \in Jobs, CancelJob(j) PROVE Counts'
  BY <1>1, <1>q DEF CancelJob, Counts, SlotsAccounted, TypeOK, R!TypeOK, T!TypeOK, taskManagers, bounds
<1>2. ASSUME NEW h \in heartbeats, ReceiveHeartbeat(h) PROVE Counts'
  <2>1. h \in [tm : TMs, available : 0 .. Slots]
    BY DEF Counts, TypeOK, T!TypeOK
  <2>2. task_managers' = [task_managers EXCEPT ![h.tm] =
            [available_slots |-> h.available, status |-> "ACTIVE", healthy |-> TRUE]]
    BY <1>2, <2>1, ReceiveEffect DEF ReceiveHeartbeat, Counts, TypeOK
  <2>3. R!TypeOK' /\ \A tm \in TMs : task_managers'[tm] # None =>
            task_managers'[tm].available_slots \in -1 .. Slots
    BY <2>1, <2>2, ClusterAssumption
       DEF ClusterAssumption, Counts, SlotsAccounted, TypeOK, R!TypeOK, R!Info
  <2> QED
    BY <1>2, <2>3, <1>q DEF ReceiveHeartbeat, Counts, SlotsAccounted, TypeOK, T!TypeOK, api, bounds
<1>3. ASSUME NEW h \in heartbeats, LoseHeartbeat(h) PROVE Counts'
  BY <1>3, <1>q DEF LoseHeartbeat, T!LoseHeartbeat, Counts, SlotsAccounted, TypeOK, R!TypeOK,
     T!TypeOK, api
<1>4. CASE CheckHealth
  <2>1. task_managers' = [tm \in TMs |->
            IF R!Missing(tm) THEN [task_managers[tm] EXCEPT !.status = "LOST"]
            ELSE task_managers[tm]]
    BY <1>4 DEF CheckHealth, R!CheckHealth
  <2>2. ASSUME NEW tm \in TMs, task_managers[tm] # None
        PROVE  /\ [task_managers[tm] EXCEPT !.status = "LOST"] \in R!Info
               /\ [task_managers[tm] EXCEPT !.status = "LOST"].available_slots
                     = task_managers[tm].available_slots
    BY <2>2 DEF Counts, TypeOK, R!TypeOK, R!Info
  <2>3. \A tm \in TMs :
           /\ task_managers'[tm] \in R!Info \cup {None}
           /\ task_managers'[tm] # None =>
                 task_managers'[tm].available_slots \in -1 .. Slots
    BY <2>1, <2>2 DEF R!Missing, Counts, SlotsAccounted, TypeOK, R!TypeOK
  <2>4. R!TypeOK'
    BY <2>1, <2>3 DEF R!TypeOK
  <2> QED
    BY <1>4, <2>3, <2>4, <1>q DEF CheckHealth, Counts, SlotsAccounted, TypeOK, T!TypeOK,
       taskManagers, api, bounds
<1>5. ASSUME NEW tm \in TMs, Silence(tm) PROVE Counts'
  <2>1. task_managers' = [task_managers EXCEPT ![tm] =
                             [task_managers[tm] EXCEPT !.healthy = FALSE]]
    BY <1>5 DEF Silence, R!Silence
  <2>2. /\ [task_managers[tm] EXCEPT !.healthy = FALSE] \in R!Info
        /\ [task_managers[tm] EXCEPT !.healthy = FALSE].available_slots
              = task_managers[tm].available_slots
    BY <1>5 DEF Silence, R!Silence, Counts, TypeOK, R!TypeOK, R!Info
  <2>3. task_managers[tm] # None
    BY <1>5 DEF Silence, R!Silence
  <2>4. R!TypeOK' /\ \A m \in TMs : task_managers'[m] # None =>
            task_managers'[m].available_slots \in -1 .. Slots
    BY <2>1, <2>2, <2>3 DEF Counts, SlotsAccounted, TypeOK, R!TypeOK
  <2> QED
    BY <1>5, <2>4, <1>q DEF Silence, Counts, SlotsAccounted, TypeOK, T!TypeOK, taskManagers, api,
       bounds
<1>6. ASSUME NEW tm \in TMs, SendHeartbeat(tm) PROVE Counts'
  <2>1. Cardinality(tasks[tm]) \in Nat /\ Cardinality(tasks[tm]) <= Slots
    BY FS_CardinalityType DEF Counts, SlotsAccounted
  <2>2. T!FreeSlots(tm) \in 0 .. Slots
    BY <2>1, SameCardinality, ClusterAssumption DEF ClusterAssumption, T!FreeSlots
  <2> QED
    BY <1>6, <2>2, <1>q DEF SendHeartbeat, T!SendHeartbeat, Counts, SlotsAccounted, TypeOK, R!TypeOK,
       T!TypeOK, api, bounds
<1>7. ASSUME NEW tm \in TMs, Crash(tm) PROVE Counts'
  <2>1. IsFiniteSet({}) /\ Cardinality({}) <= Slots
    BY FS_EmptySet, ClusterAssumption DEF ClusterAssumption
  <2>2. \A m \in TMs : tasks'[m] = IF m = tm THEN {} ELSE tasks[m]
    BY <1>7 DEF Crash, T!Crash, Counts, TypeOK, T!TypeOK
  <2> QED
    BY <1>7, <2>1, <2>2, <1>q DEF Crash, T!Crash, Counts, SlotsAccounted, TypeOK, R!TypeOK, T!TypeOK,
       api
<1>8. ASSUME NEW tm \in TMs, ComeBack(tm) PROVE Counts'
  BY <1>8, <1>q DEF ComeBack, T!ComeBack, Counts, SlotsAccounted, TypeOK, R!TypeOK, T!TypeOK, api,
     bounds
<1>9. ASSUME NEW tm \in TMs, NEW task \in TaskIds, CancelTask(tm, task) PROVE Counts'
  <2>1. \A m \in TMs : tasks'[m] = IF m = tm THEN tasks[m] \ {task} ELSE tasks[m]
    BY <1>9 DEF CancelTask, T!Cancel, Counts, TypeOK, T!TypeOK
  <2>2. IsFiniteSet(tasks[tm] \ {task}) /\ Cardinality(tasks[tm] \ {task}) <= Slots
    <3>1. IsFiniteSet(tasks[tm]) /\ Cardinality(tasks[tm]) <= Slots
      BY DEF Counts, SlotsAccounted
    <3>2. Cardinality(tasks[tm]) \in Nat /\ Slots \in Nat
      BY <3>1, FS_CardinalityType, ClusterAssumption DEF ClusterAssumption
    <3>3. /\ IsFiniteSet(tasks[tm] \ {task})
          /\ Cardinality(tasks[tm] \ {task}) =
                IF task \in tasks[tm] THEN Cardinality(tasks[tm]) - 1
                ELSE Cardinality(tasks[tm])
      BY <3>1, FS_RemoveElement
    <3> QED
      BY <3>1, <3>2, <3>3
  <2>3. T!TypeOK'
    BY <1>9, <2>1 DEF CancelTask, T!Cancel, Counts, TypeOK, T!TypeOK
  <2>4. cancels' \in Nat
    BY <1>9 DEF CancelTask, Counts, TypeOK
  <2> QED
    BY <1>9, <2>1, <2>2, <2>3, <2>4, <1>q DEF CancelTask, Counts, SlotsAccounted, TypeOK, R!TypeOK,
       Handlers, api
<1> QED
  BY <1>1, <1>2, <1>3, <1>4, <1>5, <1>6, <1>7, <1>8, <1>9 DEF Network

LEMMA StepCounts == Counts /\ [Next]_vars => Counts'
<1> SUFFICES ASSUME Counts, [Next]_vars PROVE Counts'
  OBVIOUS
<1>1. CASE Next
  BY <1>1, PlacingCounts, DeployingCounts, OtherCounts DEF Next, SubmitStep
<1>2. CASE UNCHANGED vars
  BY <1>2 DEF vars, Counts, Planned, SlotsAccounted, TypeOK, R!TypeOK, T!TypeOK, taskManagers, api,
     bounds
<1> QED
  BY <1>1, <1>2

THEOREM AlwaysCounts == Spec => []Counts
BY InitCounts, StepCounts, PTL DEF Spec

(* The types are kept.                                                     *)
THEOREM ClusterTypeCorrect == Spec => []TypeOK
<1>1. Counts => TypeOK
  BY DEF Counts
<1> QED
  BY <1>1, AlwaysCounts, PTL

(* No TaskManager exceeds its slots and no count leaves its range.         *)
THEOREM SlotsAreAccounted == Spec => []SlotsAccounted
<1>1. Counts => SlotsAccounted
  BY DEF Counts
<1> QED
  BY <1>1, AlwaysCounts, PTL
-----------------------------------------------------------------------------
(* What runs where.  A submission reaches a task of the plan after the     *)
(* other: in front of the task reached everything runs, and behind it      *)
(* nothing runs or is asked for.                                           *)
Undisturbed == crashes = 0 /\ cancels = 0

Runs(j, i) == <<j, i>> \in tasks[plan[j][i]]

Reached(j, n) ==
    /\ n \in 0 .. Parallelism
    /\ \A i \in 1 .. n : i \in DOMAIN plan[j]
    /\ \A i \in 1 .. (n - 1) : Runs(j, i)
    /\ \A tm \in TMs, i \in 1 .. Parallelism :
          <<j, i>> \in tasks[tm] => i <= n /\ tm = plan[j][i]
    /\ \A r \in requests :
          r.task[1] = j => r.task[2] <= n /\ r.tm = plan[j][r.task[2]]

(* Where the event loop is in its submission, if it is in one.             *)
HandlerOrdered ==
    /\ handler.pc # "idle" => response[handler.job] = None
    /\ handler.pc = "place" => Reached(handler.job, 0)
    /\ handler.pc = "call" =>
          /\ Reached(handler.job, handler.next - 1)
          /\ handler.next > 1 => Runs(handler.job, handler.next - 1)
    /\ handler.pc \in {"wait", "reply"} => Reached(handler.job, handler.next)
    /\ handler.pc = "reply" /\ handler.success => Runs(handler.job, handler.next)

(* What is left of a submission that ended, and that nothing is there of   *)
(* one that did not begin.                                                 *)
JobOrdered(j) ==
    /\ \E n \in 0 .. Parallelism : Reached(j, n)
    /\ response[j] = "ok" => Reached(j, Parallelism) /\ Runs(j, Parallelism)
    /\ response[j] = None /\ (handler.pc = "idle" \/ handler.job # j) => Reached(j, 0)

Ordered == Undisturbed => HandlerOrdered /\ \A j \in Jobs : JobOrdered(j)

LEMMA InitOrdered == Init => Ordered
<1> SUFFICES ASSUME Init PROVE Ordered
  OBVIOUS
<1>1. ASSUME NEW j \in Jobs PROVE Reached(j, 0)
  <2>1. \A tm \in TMs : tasks[tm] = {}
    BY DEF Init, T!Init
  <2>2. requests = {}
    BY DEF Init, T!Init
  <2> QED
    BY <2>1, <2>2, ClusterAssumption DEF ClusterAssumption, Reached
<1>2. \A j \in Jobs : response[j] = None /\ None # "ok"
  BY ClusterAssumption DEF ClusterAssumption, Init
<1>3. HandlerOrdered
  BY DEF Init, Idle, HandlerOrdered
<1> QED
  BY <1>1, <1>2, <1>3, ClusterAssumption DEF ClusterAssumption, Ordered, JobOrdered

(* A step that leaves a job's plan and the tasks alone and asks for        *)
(* nothing new leaves the job where it is.                                 *)
LEMMA ReachedKept ==
    ASSUME NEW j \in Jobs, NEW n, plan'[j] = plan[j], tasks' = tasks, requests' \subseteq requests
    PROVE  /\ Reached(j, n) => Reached(j, n)'
           /\ \A i : Runs(j, i) => Runs(j, i)'
BY DEF Reached, Runs

(* A plan that grows before anything is asked for.                         *)
LEMMA NothingReached ==
    ASSUME NEW j \in Jobs, Reached(j, 0), tasks' = tasks, requests' = requests,
           requests \subseteq [tm : TMs, task : TaskIds]
    PROVE  Reached(j, 0)'
<1>1. \A r \in requests : r.task[2] \in 1 .. Parallelism
  BY DEF TaskIds
<1>2. \A r \in requests : r.task[1] # j
  BY <1>1, ClusterAssumption DEF Reached, ClusterAssumption
<1>3. \A tm \in TMs, i \in 1 .. Parallelism : <<j, i>> \notin tasks[tm]
  BY ClusterAssumption DEF Reached, ClusterAssumption
<1> QED
  BY <1>2, <1>3, ClusterAssumption DEF Reached, ClusterAssumption

(* A request that is served is for a task that has been reached.           *)
LEMMA DeployReached ==
    ASSUME Counts, NEW request, T!Deploy(request), plan' = plan, NEW j \in Jobs, NEW n,
           Reached(j, n)
    PROVE  Reached(j, n)'
<1>1. /\ request \in requests /\ request.tm \in TMs /\ request.task \in TaskIds
      /\ requests' \subseteq requests
      /\ \A tm \in TMs : tasks'[tm] =
            IF tm = request.tm THEN tasks[tm] \cup {request.task} ELSE tasks[tm]
  BY DeployEffect
<1>2. \A i \in 1 .. n : i \in DOMAIN plan[j] /\ plan[j][i] \in TMs
  BY PlanShape, ClusterAssumption DEF ClusterAssumption, Reached, Counts
<1>3. \A i \in 1 .. (n - 1) : Runs(j, i)'
  <2> SUFFICES ASSUME NEW i \in 1 .. (n - 1) PROVE Runs(j, i)'
    OBVIOUS
  <2>1. <<j, i>> \in tasks[plan[j][i]]
    BY DEF Reached, Runs
  <2>2. plan[j][i] \in TMs
    BY <1>2 DEF Reached
  <2> QED
    BY <1>1, <2>1, <2>2 DEF Runs
<1>4. ASSUME NEW tm \in TMs, NEW i \in 1 .. Parallelism, <<j, i>> \in tasks'[tm]
      PROVE  i <= n /\ tm = plan[j][i]
  <2>1. CASE <<j, i>> \in tasks[tm]
    BY <2>1 DEF Reached
  <2>2. CASE <<j, i>> \notin tasks[tm]
    <3>1. tm = request.tm /\ request.task = <<j, i>>
      BY <1>1, <1>4, <2>2
    <3> QED
      BY <1>1, <3>1 DEF Reached
  <2> QED
    BY <2>1, <2>2
<1>5. \A r \in requests' : r.task[1] = j => r.task[2] <= n /\ r.tm = plan[j][r.task[2]]
  BY <1>1 DEF Reached
<1> QED
  BY <1>3, <1>4, <1>5 DEF Reached

LEMMA DeployRuns ==
    ASSUME Counts, NEW request, T!Deploy(request), plan' = plan, NEW j \in Jobs, NEW i,
           i \in DOMAIN plan[j], Runs(j, i)
    PROVE  Runs(j, i)'
<1>1. plan[j][i] \in TMs
  BY PlanShape, ClusterAssumption DEF ClusterAssumption, Counts
<1> QED
  BY <1>1, DeployEffect DEF Runs

(* The call for the next task, when the task before it runs.               *)
LEMMA CallReached ==
    ASSUME NEW j \in Jobs, NEW next \in 1 .. Parallelism, Reached(j, next - 1),
           next > 1 => Runs(j, next - 1),
           next \in DOMAIN plan[j],
           requests \subseteq [tm : TMs, task : TaskIds],
           plan' = plan, tasks' = tasks,
           requests' = requests \cup {[tm |-> plan[j][next], task |-> <<j, next>>]}
    PROVE  Reached(j, next)'
<1>1. next \in 0 .. Parallelism /\ next \in Int
  BY ClusterAssumption DEF ClusterAssumption
<1>2. \A i \in 1 .. next : i \in DOMAIN plan[j]
  BY <1>1 DEF Reached
<1>3. \A i \in 1 .. (next - 1) : Runs(j, i)'
  BY <1>1 DEF Reached, Runs
<1>4. \A tm \in TMs, i \in 1 .. Parallelism :
         <<j, i>> \in tasks[tm] => i <= next /\ tm = plan[j][i]
  BY <1>1 DEF Reached
<1>5. ASSUME NEW r \in requests', r.task[1] = j
      PROVE  r.task[2] <= next /\ r.tm = plan[j][r.task[2]]
  <2>1. CASE r = [tm |-> plan[j][next], task |-> <<j, next>>]
    BY <1>1, <2>1
  <2>2. CASE r \in requests
    <3>1. r.task[2] \in Int
      BY <2>2, ClusterAssumption DEF TaskIds, ClusterAssumption
    <3>2. r.task[2] <= next - 1 /\ r.tm = plan[j][r.task[2]]
      BY <1>5, <2>2 DEF Reached
    <3> QED
      BY <1>1, <3>1, <3>2
  <2> QED
    BY <1>5, <2>1, <2>2
<1> QED
  BY <1>1, <1>2, <1>3, <1>4, <1>5 DEF Reached

(* The steps of submit_job that ask for nothing.                           *)
LEMMA PlacingOrdered ==
    ASSUME Counts, HandlerOrdered, \A j \in Jobs : JobOrdered(j),
           (\E j \in Jobs : Submit(j)) \/ PlaceTask \/ RejectJob \/ StoreJob
    PROVE  HandlerOrdered' /\ \A j \in Jobs : JobOrdered(j)'
<1> USE ClusterAssumption DEF ClusterAssumption
<1>1. tasks' = tasks /\ requests' = requests
  BY DEF Submit, PlaceTask, RejectJob, StoreJob, taskManagers
<1>2. requests \subseteq [tm : TMs, task : TaskIds]
  BY DEF Counts, TypeOK, T!TypeOK
<1>3. ASSUME NEW j \in Jobs, Submit(j)
      PROVE  HandlerOrdered' /\ \A k \in Jobs : JobOrdered(k)'
  <2>1. Reached(j, 0)
    BY <1>3 DEF Submit, JobOrdered, Idle
  <2>2. handler.pc = "idle" /\ handler'.pc = "place" /\ handler'.job = j
    BY <1>3 DEF Submit, Idle
  <2>3. plan' = plan /\ response' = response /\ response[j] = None
    BY <1>3 DEF Submit
  <2>4. HandlerOrdered'
    BY <1>1, <2>1, <2>2, <2>3, ReachedKept DEF HandlerOrdered
  <2>5. ASSUME NEW k \in Jobs PROVE JobOrdered(k)'
    BY <1>1, <2>2, <2>3, ReachedKept DEF JobOrdered
  <2> QED
    BY <2>4, <2>5
<1>4. CASE PlaceTask \/ RejectJob
  <2>1. handler.pc = "place" /\ handler.job \in Jobs
    BY <1>4, HandlerShape DEF PlaceTask, RejectJob, Counts
  <2>2. PICK j \in Jobs : j = handler.job
    BY <2>1
  <2>3. response[j] = None /\ Reached(j, 0)
    BY <2>1, <2>2 DEF HandlerOrdered
  <2>4. Reached(j, 0)'
    BY <1>1, <1>2, <2>3, NothingReached
  <2>5. \A k \in Jobs \ {j} : plan'[k] = plan[k] /\ response'[k] = response[k]
    BY <1>4, <2>2 DEF PlaceTask, RejectJob, Counts, TypeOK
  <2>6. handler' = handler \/ handler' = Idle
    BY <1>4 DEF PlaceTask, RejectJob
  <2>7. ASSUME NEW k \in Jobs \ {j} PROVE JobOrdered(k)'
    <3>1. JobOrdered(k) /\ handler.job # k /\ plan'[k] = plan[k] /\ response'[k] = response[k]
      BY <2>2, <2>5
    <3> QED
      BY <1>1, <3>1, ReachedKept DEF JobOrdered
  <2>8. response'[j] # "ok" /\ (response'[j] = None => handler' = handler)
    BY <1>4, <2>2, <2>3 DEF PlaceTask, RejectJob, Counts, TypeOK
  <2>9. HandlerOrdered'
    <3>1. CASE PlaceTask
      <4>1. handler' = handler /\ response' = response
        BY <3>1 DEF PlaceTask
      <4> QED
        BY <2>1, <2>2, <2>3, <2>4, <4>1 DEF HandlerOrdered
    <3>2. CASE RejectJob
      <4>1. handler'.pc = "idle"
        BY <3>2 DEF RejectJob, Idle
      <4> QED
        BY <4>1 DEF HandlerOrdered
    <3> QED
      BY <1>4, <3>1, <3>2
  <2>10. JobOrdered(j)'
    <3>1. 0 \in 0 .. Parallelism
      OBVIOUS
    <3> QED
      BY <2>4, <2>8, <3>1 DEF JobOrdered
  <2> QED
    BY <2>7, <2>9, <2>10
<1>5. CASE StoreJob
  <2>1. handler.pc = "place" /\ handler.job \in Jobs
    BY <1>5, HandlerShape DEF StoreJob, Counts
  <2>2. /\ handler'.pc = "call" /\ handler'.job = handler.job /\ handler'.next = 1
        /\ plan' = plan /\ response' = response
    BY <1>5 DEF StoreJob
  <2>3. PICK j \in Jobs : j = handler.job
    BY <2>1
  <2>4. response[j] = None /\ Reached(j, 0)
    BY <2>1, <2>3 DEF HandlerOrdered
  <2>5. Reached(j, 0)'
    BY <1>1, <2>2, <2>4, ReachedKept
  <2>6. handler'.next - 1 = 0
    BY <2>2
  <2>7. HandlerOrdered'
    BY <2>2, <2>3, <2>4, <2>5, <2>6 DEF HandlerOrdered
  <2>8. ASSUME NEW k \in Jobs PROVE JobOrdered(k)'
    <3>1. handler.pc # "idle" /\ handler'.pc # "idle" /\ JobOrdered(k)
      BY <2>1, <2>2
    <3> QED
      BY <1>1, <2>2, <3>1, ReachedKept DEF JobOrdered
  <2> QED
    BY <2>7, <2>8
<1> QED
  BY <1>3, <1>4, <1>5

(* A step that leaves the plans, the tasks and the requests of the others, *)
(* and ends or goes on with the submission of job j.                       *)
LEMMA OthersOrdered ==
    ASSUME NEW j \in Jobs, handler.pc # "idle", handler.job = j,
           handler'.pc = "idle" \/ handler'.job = j,
           \A k \in Jobs : JobOrdered(k),
           NEW k \in Jobs \ {j}, response'[k] = response[k],
           \A n : Reached(k, n) => Reached(k, n)',
           \A n : Runs(k, n) => Runs(k, n)'
    PROVE  JobOrdered(k)'
<1>1. JobOrdered(k)
  OBVIOUS
<1> QED
  BY <1>1 DEF JobOrdered

(* The calls, up to the answer of the last one or the first failure.       *)
LEMMA CallOrdered ==
    ASSUME Counts, HandlerOrdered, \A j \in Jobs : JobOrdered(j), CallDeploy
    PROVE  HandlerOrdered' /\ \A j \in Jobs : JobOrdered(j)'
<1> USE ClusterAssumption DEF ClusterAssumption
<1>1. handler \in [pc : {"call"}, job : Jobs, next : 1 .. Parallelism]
  BY HandlerShape DEF CallDeploy, Counts
<1>2. PICK j \in Jobs, n \in 1 .. Parallelism : j = handler.job /\ n = handler.next
  BY <1>1
<1>3. n \in DOMAIN plan[j]
  BY <1>2, PlanShape DEF CallDeploy, Counts, Planned
<1>4. /\ plan' = plan /\ tasks' = tasks /\ response' = response
      /\ requests' = requests \cup {[tm |-> plan[j][n], task |-> <<j, n>>]}
      /\ requests \subseteq [tm : TMs, task : TaskIds]
  BY <1>2 DEF CallDeploy, Call, Counts, TypeOK, T!TypeOK
<1>5. response[j] = None /\ Reached(j, n - 1) /\ (n > 1 => Runs(j, n - 1))
  BY <1>2 DEF CallDeploy, HandlerOrdered
<1>6. Reached(j, n)'
  BY <1>3, <1>4, <1>5, CallReached
<1>7. handler'.pc = "wait" /\ handler'.job = j /\ handler'.next = n
  BY <1>1, <1>2 DEF CallDeploy
<1>8. HandlerOrdered'
  BY <1>4, <1>5, <1>6, <1>7 DEF HandlerOrdered
<1>9. ASSUME NEW k \in Jobs \ {j} PROVE JobOrdered(k)'
  <2>1. \A m : Reached(k, m) => Reached(k, m)'
    BY <1>4 DEF Reached, Runs
  <2>2. \A m : Runs(k, m) => Runs(k, m)'
    BY <1>4 DEF Runs
  <2>3. response'[k] = response[k] /\ handler.pc # "idle" /\ handler.job = j
    BY <1>2, <1>4 DEF CallDeploy
  <2> QED
    BY <1>7, <2>1, <2>2, <2>3, OthersOrdered
<1>10. JobOrdered(j)'
  BY <1>4, <1>5, <1>6, <1>7 DEF JobOrdered
<1> QED
  BY <1>8, <1>9, <1>10

LEMMA AnsweredOrdered ==
    ASSUME Counts, HandlerOrdered, \A j \in Jobs : JobOrdered(j), TaskDeployed
    PROVE  HandlerOrdered' /\ \A j \in Jobs : JobOrdered(j)'
<1> USE ClusterAssumption DEF ClusterAssumption
<1>1. handler \in [pc : {"reply"}, job : Jobs, next : 1 .. Parallelism, success : BOOLEAN]
  BY HandlerShape DEF TaskDeployed, Counts
<1>2. PICK j \in Jobs, n \in 1 .. Parallelism : j = handler.job /\ n = handler.next
  BY <1>1
<1>3. plan' = plan /\ tasks' = tasks /\ requests' = requests
  BY DEF TaskDeployed, taskManagers
<1>4. Reached(j, n) /\ Runs(j, n) /\ response[j] = None
  BY <1>2 DEF TaskDeployed, HandlerOrdered
<1>5. \A k \in Jobs : \A m : Reached(k, m) => Reached(k, m)'
  BY <1>3, ReachedKept
<1>6. \A k \in Jobs : \A m : Runs(k, m) => Runs(k, m)'
  BY <1>3 DEF Runs
<1>7. CASE n < Parallelism
  <2>1. /\ handler'.pc = "call" /\ handler'.job = j
        /\ handler'.next = n + 1 /\ response' = response
    BY <1>2, <1>7 DEF TaskDeployed
  <2>2. (n + 1) - 1 = n
    OBVIOUS
  <2>3. Reached(j, n)' /\ Runs(j, n)'
    BY <1>4, <1>5, <1>6
  <2>4. HandlerOrdered'
    BY <1>4, <2>1, <2>2, <2>3 DEF HandlerOrdered
  <2>5. ASSUME NEW k \in Jobs \ {j} PROVE JobOrdered(k)'
    <3>1. response'[k] = response[k] /\ handler.pc # "idle" /\ handler.job = j
      BY <1>1, <1>2, <2>1
    <3> QED
      BY <1>5, <1>6, <2>1, <3>1, OthersOrdered
  <2>6. JobOrdered(j)'
    <3>1. n \in 0 .. Parallelism
      OBVIOUS
    <3> QED
      BY <1>4, <2>1, <2>3, <3>1 DEF JobOrdered
  <2> QED
    BY <2>4, <2>5, <2>6
<1>8. CASE ~ (n < Parallelism)
  <2>1. handler' = Idle /\ response' = [response EXCEPT ![j] = "ok"]
    BY <1>2, <1>8 DEF TaskDeployed
  <2>2. n = Parallelism
    BY <1>8
  <2>3. HandlerOrdered'
    BY <2>1 DEF HandlerOrdered, Idle
  <2>4. response'[j] = "ok"
    BY <2>1 DEF Counts, TypeOK
  <2>5. JobOrdered(j)'
    <3>1. Reached(j, Parallelism)' /\ Runs(j, Parallelism)' /\ Parallelism \in 0 .. Parallelism
      BY <1>4, <1>5, <1>6, <2>2
    <3> QED
      BY <2>4, <3>1 DEF JobOrdered
  <2>6. ASSUME NEW k \in Jobs \ {j} PROVE JobOrdered(k)'
    <3>1. /\ response'[k] = response[k] /\ handler.pc # "idle" /\ handler.job = j
          /\ handler'.pc = "idle"
      BY <1>1, <1>2, <2>1 DEF Idle
    <3> QED
      BY <1>5, <1>6, <3>1, OthersOrdered
  <2> QED
    BY <2>3, <2>5, <2>6
<1> QED
  BY <1>7, <1>8

LEMMA FailedOrdered ==
    ASSUME Counts, HandlerOrdered, \A j \in Jobs : JobOrdered(j),
           NoConnection \/ DeploymentRefused \/ DeploymentTimesOut
    PROVE  HandlerOrdered' /\ \A j \in Jobs : JobOrdered(j)'
<1> USE ClusterAssumption DEF ClusterAssumption
<1>1. requests' \subseteq requests /\ FailJob
  BY DEF NoConnection, DeploymentRefused, DeploymentTimesOut
<1>2. handler.pc \in {"call", "wait", "reply"} /\ handler.job \in Jobs
  BY HandlerShape DEF NoConnection, DeploymentRefused, DeploymentTimesOut, Counts
<1>3. PICK j \in Jobs : j = handler.job
  BY <1>2
<1>4. /\ plan' = plan /\ tasks' = tasks /\ handler'.pc = "idle"
      /\ response' = [response EXCEPT ![j] = "failed"]
  BY <1>1, <1>3 DEF FailJob, Idle
<1>5. \A k \in Jobs : \A m : Reached(k, m) => Reached(k, m)'
  BY <1>1, <1>4, ReachedKept
<1>6. \A k \in Jobs : \A m : Runs(k, m) => Runs(k, m)'
  BY <1>4 DEF Runs
<1>7. HandlerOrdered'
  BY <1>4 DEF HandlerOrdered
<1>8. response'[j] = "failed"
  BY <1>4 DEF Counts, TypeOK
<1>9. JobOrdered(j)'
  <2>1. PICK n \in 0 .. Parallelism : Reached(j, n)
    BY DEF JobOrdered
  <2> QED
    BY <1>5, <1>8, <2>1 DEF JobOrdered
<1>10. ASSUME NEW k \in Jobs \ {j} PROVE JobOrdered(k)'
  <2>1. response'[k] = response[k] /\ handler.pc # "idle" /\ handler.job = j
    BY <1>2, <1>3, <1>4
  <2> QED
    BY <1>4, <1>5, <1>6, <2>1, OthersOrdered
<1> QED
  BY <1>7, <1>9, <1>10

(* A server's step: what the event loop waits for is answered once it runs.*)
LEMMA ServeOrdered ==
    ASSUME Counts, HandlerOrdered, \A j \in Jobs : JobOrdered(j),
           NEW request \in requests, Deploy(request) \/ Refuse(request)
    PROVE  HandlerOrdered' /\ \A j \in Jobs : JobOrdered(j)'
<1> USE ClusterAssumption DEF ClusterAssumption
<1>1. plan' = plan /\ response' = response
  BY DEF Deploy, Refuse
<1>2. ASSUME NEW k \in Jobs, NEW m, Reached(k, m)
      PROVE  /\ Reached(k, m)'
             /\ m >= 1 /\ Runs(k, m) => Runs(k, m)'
  <2>1. CASE T!Deploy(request)
    <3>1. m >= 1 => m \in DOMAIN plan[k]
      BY <1>2 DEF Reached
    <3> QED
      BY <1>1, <1>2, <2>1, <3>1, DeployReached, DeployRuns
  <2>2. CASE T!Refuse(request)
    <3>1. tasks' = tasks /\ requests' \subseteq requests
      BY <2>2 DEF T!Refuse
    <3> QED
      BY <1>1, <1>2, <3>1, ReachedKept
  <2> QED
    BY <2>1, <2>2 DEF Deploy, Refuse
<1>3. \/ handler' = handler
      \/ handler.pc = "wait" /\ handler'.pc = "reply" /\ handler'.job = handler.job
  <2>1. ASSUME NEW success, Answer(request, success)
        PROVE  \/ handler' = handler
               \/ handler.pc = "wait" /\ handler'.pc = "reply" /\ handler'.job = handler.job
    BY <2>1 DEF Answer
  <2> QED
    BY <2>1 DEF Deploy, Refuse
<1>4. ASSUME NEW k \in Jobs PROVE JobOrdered(k)'
  <2>1. JobOrdered(k)
    OBVIOUS
  <2>2. \E n \in 0 .. Parallelism : Reached(k, n)'
    BY <1>2, <2>1 DEF JobOrdered
  <2>3. response[k] = "ok" => Reached(k, Parallelism)' /\ Runs(k, Parallelism)'
    BY <1>2, <2>1 DEF JobOrdered
  <2>4. response[k] = None /\ (handler.pc = "idle" \/ handler.job # k) => Reached(k, 0)'
    BY <1>2, <2>1 DEF JobOrdered
  <2> QED
    BY <1>1, <1>3, <2>2, <2>3, <2>4 DEF JobOrdered
<1>5. HandlerOrdered'
  <2>1. CASE handler.pc = "idle"
    BY <1>3, <2>1 DEF HandlerOrdered
  <2>2. CASE handler.pc # "idle"
    <3>1. handler.job \in Jobs
      BY <2>2, HandlerShape DEF Counts
    <3>2. PICK j \in Jobs : j = handler.job
      BY <3>1
    <3>3. response[j] = None
      BY <2>2, <3>2 DEF HandlerOrdered
    <3>4. CASE handler.pc = "place"
      <4>1. handler' = handler /\ Reached(j, 0)'
        BY <1>2, <1>3, <3>2, <3>4 DEF HandlerOrdered
      <4> QED
        BY <1>1, <3>2, <3>3, <3>4, <4>1 DEF HandlerOrdered
    <3>5. CASE handler.pc \in {"call", "wait", "reply"}
      <4>1. handler.next \in 1 .. Parallelism
        BY <3>5, HandlerShape DEF Counts
      <4>2. PICK n \in 1 .. Parallelism : n = handler.next
        BY <4>1
      <4>3. CASE handler.pc = "call"
        <5>1. handler' = handler /\ Reached(j, n - 1)' /\ (n > 1 => Runs(j, n - 1)')
          BY <1>2, <1>3, <3>2, <4>2, <4>3 DEF HandlerOrdered
        <5> QED
          BY <1>1, <3>2, <3>3, <4>2, <4>3, <5>1 DEF HandlerOrdered
      <4>4. CASE handler.pc = "wait" \/ handler.pc = "reply"
        <5>1. Reached(j, n)'
          BY <1>2, <3>2, <4>2, <4>4 DEF HandlerOrdered
        <5>2. CASE handler' = handler
          <6>1. handler.pc = "reply" /\ handler.success => Runs(j, n)'
            BY <1>2, <3>2, <4>2, <4>4 DEF HandlerOrdered
          <6> QED
            BY <1>1, <3>2, <3>3, <4>2, <4>4, <5>1, <5>2, <6>1 DEF HandlerOrdered
        <5>3. CASE handler' # handler
          <6>1. /\ handler'.pc = "reply" /\ handler'.job = j /\ handler'.next = n
                /\ request = [tm |-> plan[j][n], task |-> <<j, n>>]
                /\ handler'.success => T!Deploy(request)
            BY <3>2, <4>2, <5>3 DEF Deploy, Refuse, Answer, Call
          <6>2. ASSUME T!Deploy(request) PROVE Runs(j, n)'
            <7>1. /\ request.tm \in TMs /\ request.tm = plan'[j][n] /\ request.task = <<j, n>>
                  /\ \A tm \in TMs : tasks'[tm] =
                        IF tm = request.tm THEN tasks[tm] \cup {request.task} ELSE tasks[tm]
              BY <1>1, <6>1, <6>2, DeployEffect
            <7>2. <<j, n>> \in tasks'[plan'[j][n]]
              BY <7>1
            <7> QED
              BY <7>2 DEF Runs
          <6>3. handler'.success => Runs(j, n)'
            BY <6>1, <6>2
          <6>4. response'[j] = None
            BY <1>1, <3>3
          <6>5. handler'.pc = "reply" /\ handler'.job = j /\ handler'.next = n
            BY <6>1
          <6> QED
            BY <5>1, <6>3, <6>4, <6>5 DEF HandlerOrdered
        <5> QED
          BY <5>2, <5>3
      <4> QED
        BY <3>5, <4>3, <4>4
    <3> QED
      BY <2>2, <3>4, <3>5, HandlerShape DEF Counts
  <2> QED
    BY <2>1, <2>2
<1> QED
  BY <1>4, <1>5

(* A step that leaves the submission, the plans, the tasks and the         *)
(* requests alone.                                                         *)
LEMMA OrderedKept ==
    ASSUME HandlerOrdered, \A j \in Jobs : JobOrdered(j),
           UNCHANGED <<plan, response, handler, tasks, requests>>
    PROVE  HandlerOrdered' /\ \A j \in Jobs : JobOrdered(j)'
<1>1. \A j, n : (Reached(j, n) => Reached(j, n)') /\ (Runs(j, n) => Runs(j, n)')
  BY DEF Reached, Runs
<1>2. HandlerOrdered'
  BY <1>1 DEF HandlerOrdered
<1>3. ASSUME NEW j \in Jobs PROVE JobOrdered(j)'
  <2>1. JobOrdered(j)
    OBVIOUS
  <2> QED
    BY <1>1, <2>1 DEF JobOrdered
<1> QED
  BY <1>2, <1>3

(* Ordered is inductive, relative to Counts.                               *)
LEMMA StepOrdered == Counts /\ Ordered /\ [Next]_vars => Ordered'
<1> SUFFICES ASSUME Counts, Ordered, [Next]_vars, Undisturbed'
             PROVE  HandlerOrdered' /\ \A j \in Jobs : JobOrdered(j)'
  BY DEF Ordered
<1>1. crashes \in Nat /\ cancels \in Nat
  BY DEF Counts, TypeOK
<1>2. ASSUME Undisturbed, NEW j \in Jobs, Submit(j)
      PROVE  HandlerOrdered' /\ \A k \in Jobs : JobOrdered(k)'
  BY <1>2, PlacingOrdered DEF Ordered
<1>3. ASSUME Undisturbed, SubmitStep
      PROVE  HandlerOrdered' /\ \A k \in Jobs : JobOrdered(k)'
  BY <1>3, PlacingOrdered, CallOrdered, AnsweredOrdered, FailedOrdered DEF Ordered, SubmitStep
<1>4. ASSUME Undisturbed, Serve
      PROVE  HandlerOrdered' /\ \A k \in Jobs : JobOrdered(k)'
  BY <1>4, ServeOrdered DEF Ordered, Serve
<1>5. ASSUME Undisturbed, UNCHANGED <<plan, response, handler, tasks, requests>>
      PROVE  HandlerOrdered' /\ \A k \in Jobs : JobOrdered(k)'
  BY <1>5, OrderedKept DEF Ordered
<1>6. ASSUME NEW tm \in TMs, Crash(tm) \/ \E task \in TaskIds : CancelTask(tm, task)
      PROVE  FALSE
  BY <1>1, <1>6 DEF Crash, CancelTask, Undisturbed
<1>7. Undisturbed \/ \E tm \in TMs : Crash(tm) \/ \E task \in TaskIds : CancelTask(tm, task)
  BY DEF Undisturbed, Next, vars, bounds, taskManagers, api, SubmitStep, Submit, CancelJob,
         PlaceTask, RejectJob, StoreJob, CallDeploy, TaskDeployed, NoConnection,
         DeploymentRefused, DeploymentTimesOut, FailJob, Serve, Deploy, Refuse, Network,
         ReceiveHeartbeat, LoseHeartbeat, CheckHealth, Silence, SendHeartbeat, ComeBack
<1>8. CASE Undisturbed
  <2>1. CASE Next
    <3>1. CASE \E j \in Jobs : CancelJob(j)
      BY <1>5, <1>8, <3>1 DEF CancelJob, taskManagers
    <3>2. CASE Network \/ CheckHealth
      BY <1>5, <1>8, <3>2 DEF Network, ReceiveHeartbeat, LoseHeartbeat, T!LoseHeartbeat,
                              CheckHealth, taskManagers, api
    <3>3. CASE \E tm \in TMs : Silence(tm) \/ SendHeartbeat(tm) \/ ComeBack(tm)
      BY <1>5, <1>8, <3>3 DEF Silence, SendHeartbeat, T!SendHeartbeat, ComeBack, T!ComeBack,
                              taskManagers, api
    <3> QED
      BY <1>2, <1>3, <1>4, <1>6, <1>8, <2>1, <3>1, <3>2, <3>3 DEF Next
  <2>2. CASE UNCHANGED vars
    BY <1>5, <1>8, <2>2 DEF vars, taskManagers, api
  <2> QED
    BY <2>1, <2>2
<1> QED
  BY <1>6, <1>7, <1>8

THEOREM AlwaysOrdered == Spec => []Ordered
BY InitOrdered, StepOrdered, AlwaysCounts, PTL DEF Spec

(* A client told that its job runs has every task of it deployed, as long  *)
(* as no TaskManager crashes and no task is canceled.                      *)
THEOREM AcceptedAreDeployed == Spec => []AcceptedJobsRun
<1>1. Ordered => AcceptedJobsRun
  <2> SUFFICES ASSUME Ordered, Undisturbed, NEW j \in Jobs, response[j] = "ok",
                      NEW i \in 1 .. Parallelism
               PROVE  i \in DOMAIN plan[j] /\ <<j, i>> \in tasks[plan[j][i]]
    BY DEF AcceptedJobsRun, Deployed, Undisturbed
  <2>1. Reached(j, Parallelism) /\ Runs(j, Parallelism)
    BY DEF Ordered, JobOrdered
  <2>2. i = Parallelism \/ i \in 1 .. (Parallelism - 1)
    BY ClusterAssumption DEF ClusterAssumption
  <2> QED
    BY <2>1, <2>2 DEF Reached, Runs
<1> QED
  BY <1>1, AlwaysOrdered, PTL

(* However a submission ended, what runs of the job are the first tasks of *)
(* its plan, each where the plan has it and nowhere else.                  *)
THEOREM TasksAreInOrder == Spec => []DeployedInOrder
<1>1. Counts /\ Ordered => DeployedInOrder
  <2> SUFFICES ASSUME Counts, Ordered, Undisturbed, NEW j \in Jobs
               PROVE  /\ TasksOf(j) = {<<j, i>> : i \in 1 .. Cardinality(TasksOf(j))}
                      /\ \A task \in TasksOf(j) :
                            {tm \in TMs : task \in tasks[tm]} = {plan[j][task[2]]}
    BY DEF DeployedInOrder, Undisturbed
  <2>1. PICK n \in 0 .. Parallelism : Reached(j, n)
    BY DEF Ordered, JobOrdered
  <2>2. \A i \in 1 .. n : i \in DOMAIN plan[j] /\ plan[j][i] \in TMs
    BY <2>1, PlanShape, ClusterAssumption DEF Counts, Reached, ClusterAssumption
  <2>3. PICK m \in 0 .. Parallelism : m <= n /\ \A i \in 1 .. n : Runs(j, i) <=> i <= m
    <3>1. CASE n >= 1 /\ ~ Runs(j, n)
      <4>1. n - 1 \in 0 .. Parallelism /\ \A i \in 1 .. n : Runs(j, i) <=> i <= n - 1
        BY <2>1, <3>1, ClusterAssumption DEF Reached, ClusterAssumption
      <4> QED
        BY <4>1
    <3>2. CASE ~ (n >= 1 /\ ~ Runs(j, n))
      <4>1. \A i \in 1 .. n : Runs(j, i) <=> i <= n
        BY <2>1, <3>2, ClusterAssumption DEF Reached, ClusterAssumption
      <4> QED
        BY <4>1
    <3> QED
      BY <3>1, <3>2
  <2>4. ASSUME NEW tm \in TMs, NEW task \in tasks[tm], task[1] = j
        PROVE  task[2] \in 1 .. m /\ task = <<j, task[2]>> /\ tm = plan[j][task[2]]
    <3>1. task \in TaskIds
      BY DEF Counts, TypeOK, T!TypeOK
    <3>2. task[2] \in 1 .. Parallelism /\ task = <<j, task[2]>>
      BY <2>4, <3>1 DEF TaskIds
    <3>3. task[2] \in 1 .. n /\ tm = plan[j][task[2]]
      BY <2>1, <3>2, ClusterAssumption DEF Reached, ClusterAssumption
    <3>4. Runs(j, task[2])
      BY <3>2, <3>3 DEF Runs
    <3> QED
      BY <2>3, <3>2, <3>3, <3>4
  <2>5. ASSUME NEW i \in 1 .. m PROVE <<j, i>> \in tasks[plan[j][i]] /\ plan[j][i] \in TMs
    <3>1. i \in 1 .. n /\ i <= m
      BY <2>3
    <3> QED
      BY <2>2, <2>3, <3>1 DEF Runs
  <2>6. TasksOf(j) = {<<j, i>> : i \in 1 .. m}
    <3>1. ASSUME NEW task \in TasksOf(j) PROVE task \in {<<j, i>> : i \in 1 .. m}
      BY <2>4, <3>1 DEF TasksOf
    <3>2. ASSUME NEW i \in 1 .. m PROVE <<j, i>> \in TasksOf(j)
      BY <2>5, <3>2 DEF TasksOf
    <3> QED
      BY <3>1, <3>2
  <2>7. Cardinality(TasksOf(j)) = m
    <3>1. [i \in 1 .. m |-> <<j, i>>] \in Bijection(1 .. m, TasksOf(j))
      BY <2>6 DEF Bijection, Injection, Surjection, IsInjective
    <3>2. IsFiniteSet(1 .. m) /\ Cardinality(1 .. m) = m
      BY FS_Interval
    <3> QED
      BY <3>1, <3>2, FS_Bijection DEF ExistsBijection
  <2>8. ASSUME NEW task \in TasksOf(j)
        PROVE  {tm \in TMs : task \in tasks[tm]} = {plan[j][task[2]]}
    <3>1. PICK i \in 1 .. m : task = <<j, i>>
      BY <2>6
    <3> QED
      BY <2>4, <2>5, <3>1
  <2> QED
    BY <2>6, <2>7, <2>8
<1> QED
  BY <1>1, AlwaysOrdered, AlwaysCounts, PTL
=============================================================================
