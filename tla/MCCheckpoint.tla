---- MODULE MCCheckpoint ----
(* Tasks and calls are symmetric; only runs without liveness use it.       *)
EXTENDS CheckpointCoordinator, TLC

Symmetry == Permutations(Tasks) \cup Permutations(Ackers)
====
