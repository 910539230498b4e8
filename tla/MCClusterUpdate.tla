--------------------------- MODULE MCClusterUpdate ---------------------------
(* ClusterUpdate for TLC: one control plane group, worker groups, secrets. *)
EXTENDS ClusterUpdate, TLC

SecretSymmetry == Permutations(Secret)
=============================================================================
