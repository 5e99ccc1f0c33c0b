--------------------------- MODULE ResourceManager ---------------------------
(***************************************************************************)
(* jobmanager/resource_manager.py: the registry of TaskManagers, kept by   *)
(* the heartbeats that the API's event loop receives and watched by the    *)
(* monitoring thread.  Every operation is one critical section of the      *)
(* registry's lock.  last_heartbeat is kept as what is_healthy makes of it.*)
(* Host and port are left out: a TaskManager keeps its address.            *)
(***************************************************************************)
EXTENDS Integers

CONSTANTS
    TMs,            \* TaskManager ids
    Slots,          \* total_slots of every TaskManager
    None

VARIABLE task_managers      \* id -> TaskManagerInfo, None when unregistered

Info == [available_slots : Int, status : {"ACTIVE", "LOST"}, healthy : BOOLEAN]

TypeOK == task_managers \in [TMs -> Info \cup {None}]

Init == task_managers = [tm \in TMs |-> None]

Registered == [available_slots |-> Slots, status |-> "REGISTERED", healthy |-> TRUE]

UpdateHeartbeat(info, available) ==
    [info EXCEPT !.available_slots = available, !.status = "ACTIVE", !.healthy = TRUE]

(* receive_heartbeat: registers an unknown TaskManager, and updates in any *)
(* case; the status REGISTERED is gone before the handler returns.         *)
ReceiveHeartbeat(tm, available) ==
    task_managers' = [task_managers EXCEPT ![tm] =
        UpdateHeartbeat(IF task_managers[tm] = None THEN Registered ELSE @, available)]

(* get_available_task_managers                                             *)
Available ==
    {tm \in TMs : /\ task_managers[tm] # None
                  /\ task_managers[tm].available_slots > 0
                  /\ task_managers[tm].healthy}

(* allocate_slot, which does not look at the health again; what is left is *)
(* its own and its caller's work (Scheduler.TakeSlot).                     *)
AllocateSlot(tm, left) ==
    /\ task_managers[tm] # None
    /\ task_managers[tm].available_slots > 0
    /\ task_managers' =
          [task_managers EXCEPT ![tm].available_slots = left]

(* The timeout passes without a heartbeat that was received in time.       *)
Silence(tm) ==
    /\ task_managers[tm] # None
    /\ task_managers[tm].healthy
    /\ task_managers' = [task_managers EXCEPT ![tm].healthy = FALSE]

(* _check_health: nobody registers a failure callback.                     *)
Missing(tm) == task_managers[tm] # None /\ ~task_managers[tm].healthy

CheckHealth ==
    task_managers' = [tm \in TMs |->
        IF Missing(tm) THEN [task_managers[tm] EXCEPT !.status = "LOST"]
        ELSE task_managers[tm]]
=============================================================================
