---- MODULE MCCluster ----
(* Only the jobs are symmetric: ties between TaskManagers are broken by    *)
(* CHOOSE.                                                                 *)
EXTENDS JobCluster, TLC

JobSymmetry == Permutations(Jobs)
====
