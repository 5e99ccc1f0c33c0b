---------------------------- MODULE JobScheduling ----------------------------
(***************************************************************************)
(* schedule_job of jobmanager/scheduler.py: the chains of the job graph,   *)
(* the physical tasks made of them, and the allocation loop on the         *)
(* registry it finds, one task placed in each step.                        *)
(***************************************************************************)
EXTENDS JobGraph, Scheduler

CONSTANTS
    MaxParallelism, \* bound
    TMs,
    MaxSlots,       \* bound: slots of a TaskManager
    None

ASSUME JobSchedulingAssumption == {MaxParallelism, MaxSlots} \subseteq Nat

VARIABLES
    parallelism,    \* of each vertex
    tasks,          \* the physical tasks: chain and index
    slots,          \* what the TaskManagers offered; None before
    available,      \* the counts in the registry
    placed          \* task -> TaskManager, so far

vars == <<graphVars, parallelism, tasks, slots, available, placed>>

\* A vertex takes the parallelism of the environment, which a program may set
\* anew before each call.
Init ==
    /\ GraphInit
    /\ parallelism \in [Vertices -> 1 .. MaxParallelism]
    /\ tasks = << >>
    /\ slots = None
    /\ available = None
    /\ placed = << >>

GraphStep ==
    /\ GraphNext
    /\ UNCHANGED <<parallelism, tasks, slots, available, placed>>

Parallelism(chain) == Max({parallelism[v] : v \in ToSet(chain)})

CreatePhysicalTasks ==
    /\ phase = "chained"
    /\ slots = None
    /\ tasks' = FlattenSeq([c \in DOMAIN chains |->
          [i \in 1 .. Parallelism(chains[c]) |-> [chain |-> c, index |-> i - 1]]])
    /\ slots' \in [TMs -> 0 .. MaxSlots]
    /\ available' = slots'
    /\ UNCHANGED <<graphVars, parallelism, placed>>

\* With no slot open for the next task, the loop raises and the rest of the job
\* is not scheduled.
PlaceTask ==
    /\ slots # None
    /\ Len(placed) < Len(tasks)
    /\ Open(slots, available) # {}
    /\ LET tm == Filling(slots, available) IN
          /\ placed' = Append(placed, tm)
          /\ available' = [available EXCEPT ![tm] = TakeSlot(@)]
    /\ UNCHANGED <<graphVars, parallelism, tasks, slots>>

Next == GraphStep \/ CreatePhysicalTasks \/ PlaceTask

Spec == Init /\ [][Next]_vars
-----------------------------------------------------------------------------
On(tm) == {k \in DOMAIN placed : placed[k] = tm}

(* The plan never asks more of a TaskManager than the slots it offered,    *)
(* although several TaskManagers and the double count are in play.         *)
NeverOvercommits ==
    slots # None => \A tm \in TMs : Cardinality(On(tm)) <= slots[tm]
=============================================================================
