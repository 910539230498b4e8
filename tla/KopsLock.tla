------------------------------ MODULE KopsLock ------------------------------
(***************************************************************************)
(* What the lock annotations of a Cluster promise, by themselves: kops is  *)
(* run by a job only under a lock that was free when the job was started,  *)
(* and the lock is given back only when nobody runs kops any more.  The    *)
(* lock goes away with the object that carries it, also from under a job,  *)
(* and nobody takes it until there is a new object, which comes when       *)
(* nobody runs kops.                                                       *)
(***************************************************************************)
CONSTANT Job

VARIABLES
    lock,    \* "free", "held", or "gone" with the object
    busy     \* the jobs that run kops

vars == <<lock, busy>>

TypeOK == lock \in {"free", "held", "gone"} /\ busy \subseteq Job

Init == lock = "free" /\ busy = {}

Acquire(j) ==
    /\ lock = "free" /\ busy = {}
    /\ lock' = "held" /\ busy' = {j}

(* The lock was written but its writer does not know, or was written again *)
(* by one who had seen it held: nobody runs kops and nobody will unlock.   *)
Leak ==
    /\ lock = "free" /\ busy = {}
    /\ lock' = "held" /\ UNCHANGED busy

Finish(j) ==
    /\ j \in busy
    /\ busy' = busy \ {j} /\ UNCHANGED lock

Release ==
    /\ lock = "held" /\ busy = {}
    /\ lock' = "free" /\ UNCHANGED busy

Remove ==
    /\ lock' = "gone" /\ UNCHANGED busy

(* A new object carries no lock, which is why it must come after the job.  *)
Renew ==
    /\ lock = "gone" /\ busy = {}
    /\ lock' = "free" /\ UNCHANGED busy

Next ==
    \/ \E j \in Job : Acquire(j) \/ Finish(j)
    \/ Leak \/ Release \/ Remove \/ Renew

Spec == Init /\ [][Next]_vars

(* At most one job runs kops, whoever took, leaked or lost the lock. *)
AtMostOneBusy == \A i, j \in busy : i = j
=============================================================================
