-------------------------------- MODULE Tasks --------------------------------
(***************************************************************************)
(* A task as Task.run finds it (taskmanager/task_executor.py): either its  *)
(* chain begins with a source and the run thread polls it (SourceTask), or *)
(* it is fed by its upstreams, with records and barriers                   *)
(* (BarrierAlignment) and with records whose operators keep cells in the   *)
(* state backend (KeyedState).  The barriers and the backend share nothing *)
(* but the records, so a fed task is followed in one respect at a time.    *)
(***************************************************************************)
EXTENDS SourceTask, BarrierAlignment, KeyedState

VARIABLE role       \* the task, and of a fed task the respect

tasksVars == <<role, sourceVars, alignVars, stateVars>>

TasksInit ==
    /\ role \in {"source", "barriers", "state"}
    /\ SourceInit /\ AlignInit /\ StateInit
    /\ role # "state" => backend = "memory"

SourceStep ==
    /\ role = "source" /\ SourceNext
    /\ UNCHANGED <<role, alignVars, stateVars>>

AlignStep ==
    /\ role = "barriers" /\ AlignNext
    /\ UNCHANGED <<role, sourceVars, stateVars>>

StateStep ==
    /\ role = "state" /\ StateNext
    /\ UNCHANGED <<role, sourceVars, alignVars>>

TasksNext == SourceStep \/ AlignStep \/ StateStep

\* The run thread is scheduled; failures, snapshots and deployments may stop.
TasksSpec ==
    /\ TasksInit /\ [][TasksNext]_tasksVars
    /\ WF_sourceVars(RunThread /\ SourceStep)
=============================================================================
