------------------------------ MODULE Scheduler ------------------------------
(***************************************************************************)
(* jobmanager/scheduler.py: how _allocate_tasks gives the tasks of a job,  *)
(* one after the other, to the TaskManagers that have slots.               *)
(*   atFirst     what each TaskManager on the sorted list offered          *)
(*   available   the counts in the registry now                            *)
(***************************************************************************)
EXTENDS Integers

Open(atFirst, available) == {tm \in DOMAIN atFirst : available[tm] > 0}

(* One TaskManager is filled before the loop turns to the next, in the     *)
(* order of the slots they had at first; a tie is broken by their place in *)
(* the registry, here by CHOOSE.                                           *)
Largest(atFirst, open) ==
    CHOOSE tm \in open : \A other \in open : atFirst[other] <= atFirst[tm]

Filling(atFirst, available) == Largest(atFirst, Open(atFirst, available))

\* Mutant of TakeSlot: the slot is not counted.
TakeNoSlot(available) == available

(* allocate_slot counts the slot as taken, and the caller, which holds the *)
(* same TaskManagerInfo, counts it a second time ("tm.available_slots -= 1"*)
(* once the plan is made).                                                 *)
TakeSlot(available) == (available - 1) - 1
=============================================================================
