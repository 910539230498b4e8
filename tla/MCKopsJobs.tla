------------------------------ MODULE MCKopsJobs ------------------------------
(* KopsJobs for TLC: the elements of its sets are model values. *)
EXTENDS KopsJobs

CONSTANTS
    c1, c2, workers, ca, dockerconfig
=============================================================================
