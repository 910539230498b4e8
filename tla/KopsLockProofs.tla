--------------------------- MODULE KopsLockProofs ---------------------------
(* The abstract lock keeps what its name promises, for any set of jobs. *)
EXTENDS KopsLock, TLAPS

(* At most one job is busy: one is added only when nobody is. *)
THEOREM Exclusive == Spec => []AtMostOneBusy
<1>1. Init => AtMostOneBusy
  BY DEF Init, AtMostOneBusy
<1>2. ASSUME AtMostOneBusy, [Next]_vars PROVE AtMostOneBusy'
  <2>1. ASSUME NEW j \in Job, Acquire(j) PROVE AtMostOneBusy'
    BY <2>1 DEF Acquire, AtMostOneBusy
  <2>2. ASSUME NEW j \in Job, Finish(j) PROVE AtMostOneBusy'
    BY <1>2, <2>2 DEF Finish, AtMostOneBusy
  <2>3. CASE UNCHANGED busy
    BY <1>2, <2>3 DEF AtMostOneBusy
  <2> QED BY <1>2, <2>1, <2>2, <2>3 DEF Next, Leak, Release, Remove, Renew, vars
<1> QED BY <1>1, <1>2, PTL DEF Spec
=============================================================================
