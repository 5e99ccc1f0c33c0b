------------------------ MODULE SharedCheckpointTable ------------------------
(***************************************************************************)
(* The coordinators of two jobs of one JobManager.  Each has its own lock, *)
(* threads and state files (a path starts with the job id); they share the *)
(* PostgreSQL table checkpoints, whose primary key is the checkpoint id    *)
(* alone (_init_database), and the event loop that calls them.             *)
(***************************************************************************)
EXTENDS Naturals, FiniteSets

CONSTANTS JobA, JobB, Tasks, Ackers, AtomicPut,
          MaxTriggers, MaxRecoveries, MaxRestarts, None

VARIABLES db,
    currentA, pendingA, acksA, completedA, statusA, runningA, loopA, ackerA,
    recoveringA, recoveriesA, restartsA, storageA, barriersA, nowA, expiredA,
    currentB, pendingB, acksB, completedB, statusB, runningB, loopB, ackerB,
    recoveringB, recoveriesB, restartsB, storageB, barriersB, nowB, expiredB

ownA == <<currentA, pendingA, acksA, completedA, statusA, runningA, loopA,
          ackerA, recoveringA, recoveriesA, restartsA, storageA, barriersA,
          nowA, expiredA>>
ownB == <<currentB, pendingB, acksB, completedB, statusB, runningB, loopB,
          ackerB, recoveringB, recoveriesB, restartsB, storageB, barriersB,
          nowB, expiredB>>
vars == <<db, ownA, ownB>>

Jobs == {JobA, JobB}

A == INSTANCE CheckpointCoordinator WITH
        Job <- JobA, current_checkpoint_id <- currentA,
        pending_checkpoints <- pendingA, pending_acks <- acksA,
        completed_checkpoints <- completedA, status <- statusA,
        running <- runningA, loop <- loopA, acker <- ackerA,
        recovering <- recoveringA, recoveries <- recoveriesA,
        restarts <- restartsA, storage <- storageA, barriers <- barriersA,
        now <- nowA, expired <- expiredA

B == INSTANCE CheckpointCoordinator WITH
        Job <- JobB, current_checkpoint_id <- currentB,
        pending_checkpoints <- pendingB, pending_acks <- acksB,
        completed_checkpoints <- completedB, status <- statusB,
        running <- runningB, loop <- loopB, acker <- ackerB,
        recovering <- recoveringB, recoveries <- recoveriesB,
        restarts <- restartsB, storage <- storageB, barriers <- barriersB,
        now <- nowB, expired <- expiredB

Init == A!Init /\ B!Init

\* recover_job of one job keeps the event loop from the other one's handlers.
StepA ==
    /\ A!Next
    /\ recoveringB # None => UNCHANGED <<currentA, statusA, recoveringA>>
    /\ UNCHANGED ownB

StepB ==
    /\ B!Next
    /\ recoveringA # None => UNCHANGED <<currentB, statusB, recoveringB>>
    /\ UNCHANGED ownA

Next == StepA \/ StepB

Spec == Init /\ [][Next]_vars

-----------------------------------------------------------------------------
(* _commit_checkpoint_metadata, "True if commit successful": a checkpoint  *)
(* whose commit succeeded has a row of its own job.                        *)
CommitsAreOwn == A!CompletedIsDurable /\ B!CompletedIsDurable
=============================================================================
