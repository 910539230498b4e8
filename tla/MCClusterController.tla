------------------------ MODULE MCClusterController ------------------------
(* ClusterController for TLC: the jobs are interchangeable. *)
EXTENDS ClusterController, TLC

JobSymmetry == Permutations(Job)
=============================================================================
