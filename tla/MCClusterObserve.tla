--------------------------- MODULE MCClusterObserve ---------------------------
(* ClusterObserve for TLC: one cluster has no constants but the bound. *)
EXTENDS ClusterObserve
=============================================================================
