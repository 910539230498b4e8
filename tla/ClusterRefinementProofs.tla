----------------------- MODULE ClusterRefinementProofs -----------------------
(***************************************************************************)
(* The controller implements KopsLock: while the cache is fresh, "not      *)
(* found" means that and the CR is created again only when no job is left, *)
(* every step maps to a step of the abstract lock or leaves it alone.      *)
(*                                                                         *)
(* Beyond LockInv this needs to know that a handler that found no lock in  *)
(* its copy takes one that is free: Create looks for the pending           *)
(* annotation only, so the update lock without it may be on no CR whose    *)
(* cluster was not found.                                                  *)
(***************************************************************************)
EXTENDS ClusterLockProofs

LockedOnly(ann) == providerKopsUpdateLocked \in ann /\ providerKopsCreatePending \notin ann

FreeInv ==
    /\ Deciding /\ providerKopsUpdateLocked \in obj.ann => providerKopsUpdateLocked \in cr.ann
    /\ Deciding /\ status = "Creating" => ~LockedOnly(cr.ann)
    /\ LockedOnly(obj.ann) \/ LockedOnly(cr.ann) => external # "absent"

(* Two sets of annotations with the same locks. *)
SameLocks(a, b) ==
    /\ providerKopsUpdateLocked \in a <=> providerKopsUpdateLocked \in b
    /\ providerKopsCreatePending \in a <=> providerKopsCreatePending \in b

LEMMA InitFree == ASSUME Init PROVE FreeInv
BY DEF Init, FreeInv, LockedOnly, Deciding, NewObject, NoObject, providerKopsUpdateLocked,
       crossplaneExternalName, crossplaneCreateSucceeded, providerKopsCreateComplete

(* A write behind the reconciler's back that takes no lock. *)
LEMMA FreeBehind ==
    ASSUME FreeInv, UNCHANGED <<cr, pc, status>>,
           external' = "absent" => external = "absent",
           \/ SameLocks(obj'.ann, obj.ann)
           \/ providerKopsUpdateLocked \notin obj'.ann
    PROVE  FreeInv'
BY DEF FreeInv, LockedOnly, Deciding, SameLocks

(* The end of a reconcile, or of its call of Create. *)
LEMMA FreeReturn ==
    ASSUME FreeInv, external' = external,
           pc' \in {"idle", "critical"},
           cr'.ann = {} \/ SameLocks(cr'.ann, cr.ann),
           LockedOnly(obj'.ann)
           => LockedOnly(obj.ann) \/ LockedOnly(cr.ann) \/ external # "absent"
    PROVE  FreeInv'
BY DEF FreeInv, LockedOnly, Deciding, SameLocks

(* A step of a reconcile that goes on. *)
LEMMA FreeGoesOn ==
    ASSUME FreeInv, Deciding, external' = external, SameLocks(cr'.ann, cr.ann),
           obj' = obj \/ SameLocks(obj'.ann, cr.ann),
           status' = "Creating" => status = "Creating" \/ external = "absent"
    PROVE  FreeInv'
BY DEF FreeInv, LockedOnly, Deciding, SameLocks

LEMMA AnnotatedLocks ==
    ASSUME NEW o \in Object,
           NEW key \in {crossplaneExternalName, createIncomplete, providerKopsCreateComplete,
                        providerKopsCreateFail}
    PROVE  SameLocks(Annotated(o, {key}).ann, o.ann)
BY DEF Object, Annotated, SameLocks, providerKopsUpdateLocked, providerKopsCreatePending,
       crossplaneExternalName, createIncomplete, providerKopsCreateComplete,
       providerKopsCreateFail

LEMMA FreeReconciler ==
    ASSUME Fresh, SafeInv, LockInv, FreeInv, ReconcilerStep PROVE FreeInv'
<1>1. ASSUME Return, external' = external,
             obj' = obj \/ obj'.ann = {} \/ SameLocks(obj'.ann, cr.ann)
      PROVE  FreeInv'
  BY <1>1, FreeReturn DEF Return, NoObject, NewObject, LockedOnly, SameLocks
<1>2. CASE ObserveError \/ Delete \/ UpToDate \/ UpdateSkipped \/ LockPanics
  BY <1>1, <1>2 DEF ObserveError, Delete, UpToDate, UpdateSkipped, LockPanics, api, Write,
                    NoObject, NewObject
<1>3. CASE Fetch
  <2>1. cr' = obj /\ UNCHANGED <<obj, status, external>> /\ pc = "idle"
    BY <1>3 DEF Fetch, Cacheable, Fresh, SafeInv, CreateInv, CacheInv, api
  <2>2. status = "None"
    BY <2>1 DEF LockInv, KindInv
  <2> QED BY <2>1, <2>2 DEF FreeInv, Deciding
<1>4. ASSUME NEW new, NEW next, UpdateCopy(new, next), SameLocks(new.ann, cr.ann), Early,
             external' = external
      PROVE  FreeInv'
  <2>1. CASE Return
    BY <1>1, <1>4, <2>1 DEF UpdateCopy, Write, api, Early
  <2>2. CASE Write(new) /\ cr' = new /\ UNCHANGED status
    BY <1>4, <2>2, FreeGoesOn DEF Write, Early, Deciding
  <2> QED BY <1>4, <2>1, <2>2 DEF UpdateCopy
<1>5. CASE Initialize
  <2>1. SameLocks(Annotated(cr, {crossplaneExternalName}).ann, cr.ann)
    BY AnnotatedLocks DEF SafeInv, TypeOK
  <2>2. CASE UNCHANGED <<api, cr, status>>
    BY <1>5, <2>2, FreeGoesOn DEF Initialize, Deciding, SameLocks, api
  <2> QED BY <1>4, <1>5, <2>1, <2>2 DEF Initialize, Early
<1>6. CASE ObserveNotFound
  <2>1. CASE Return
    BY <1>1, <1>6, <2>1 DEF ObserveNotFound, api
  <2>2. CASE UNCHANGED cr
    BY <1>6, <2>2, FreeGoesOn DEF ObserveNotFound, Fresh, Deciding, SameLocks, api
  <2> QED BY <1>6, <2>1, <2>2 DEF ObserveNotFound
<1>7. CASE ObserveFound
  <2>1. SameLocks(cr'.ann, cr.ann)
    BY <1>7, AnnotatedLocks DEF ObserveFound, SafeInv, TypeOK, SameLocks
  <2> QED BY <1>7, <2>1, FreeGoesOn DEF ObserveFound, Deciding, api
<1>8. CASE AddFinalizer
  <2>1. SameLocks([cr EXCEPT !.finalizer = TRUE].ann, cr.ann)
    BY DEF SafeInv, TypeOK, Object, SameLocks
  <2>2. CASE UNCHANGED <<api, cr, status>>
    BY <1>8, <2>2, FreeGoesOn DEF AddFinalizer, Deciding, SameLocks, api
  <2>3. CASE UpdateCopy([cr EXCEPT !.finalizer = TRUE], "managed")
    <3> DEFINE new == [cr EXCEPT !.finalizer = TRUE]
    <3>1. UpdateCopy(new, "managed") /\ SameLocks(new.ann, cr.ann) /\ Early /\ external' = external
      BY <1>8, <2>1, <2>3 DEF AddFinalizer, Early
    <3> HIDE DEF new
    <3> QED BY <1>4, <3>1
  <2> QED BY <1>8, <2>2, <2>3 DEF AddFinalizer
<1>9. CASE MarkPending
  <2>1. SameLocks(Annotated(cr, {createIncomplete}).ann, cr.ann)
    BY AnnotatedLocks DEF SafeInv, TypeOK
  <2> QED BY <1>4, <1>9, <2>1 DEF MarkPending, Early
<1>10. CASE Critical
  <2>1. LockedOnly([obj EXCEPT !.ann = (@ \ {createIncomplete}) \cup cr.ann].ann)
        => LockedOnly(obj.ann) \/ LockedOnly(cr.ann)
    BY DEF SafeInv, TypeOK, Object, LockedOnly, createIncomplete, providerKopsUpdateLocked,
           providerKopsCreatePending
  <2> QED BY <1>10, <2>1, FreeReturn
          DEF Critical, Return, Write, NoObject, NewObject, api
<1>11. \A keys \in {{}, {crossplaneCreateSucceeded}} :
          CreateReturns(keys) => pc' = "critical" /\ SameLocks(cr'.ann, cr.ann)
  BY DEF CreateReturns, SameLocks, SafeInv, TypeOK, Object, createIncomplete,
         crossplaneCreateSucceeded, providerKopsUpdateLocked, providerKopsCreatePending
<1>12. lockCluster(createLockKeys) => ~LockedOnly(obj'.ann)
  BY DEF lockCluster, annotateCluster, WriteBehind, Write, Annotated, createLockKeys,
         SafeInv, TypeOK, Object, LockedOnly
<1>13. CASE CreateAlready \/ Create \/ CreateFails
  BY <1>11, <1>12, <1>13, FreeReturn DEF CreateAlready, Create, CreateFails, api
<1>14. CASE Update \/ UpdateFails
  <2>1. external # "absent"
    BY <1>14 DEF Update, UpdateFails, UpdateGuarded, SafeInv, BuiltInv
  <2> QED BY <1>14, <2>1, FreeReturn DEF Update, UpdateFails, Return, NoObject, NewObject
<1> QED BY <1>2, <1>3, <1>5, <1>6, <1>7, <1>8, <1>9, <1>10, <1>13, <1>14 DEF ReconcilerStep

LEMMA AnnotateLocks ==
    ASSUME SafeInv, NEW key \in {providerKopsCreateComplete, providerKopsCreateFail},
           annotateCluster({key})
    PROVE  SameLocks(obj'.ann, obj.ann)
BY AnnotatedLocks DEF annotateCluster, WriteBehind, Write, SafeInv, TypeOK

LEMMA UnlockFrees ==
    ASSUME SafeInv, NEW j, unlockCluster(unlockKeys(j))
    PROVE  providerKopsUpdateLocked \notin obj'.ann
BY KeysFacts DEF unlockCluster, WriteBehind, Write, SafeInv, TypeOK, Object

LEMMA FreeJob ==
    ASSUME SafeInv, FreeInv, NEW j \in Job, JobStep(j) PROVE FreeInv'
<1>1. CASE createCluster(j) \/ kopsUpdateCluster(j) \/ runKops(j)
  BY <1>1, FreeBehind
     DEF createCluster, kopsUpdateCluster, runKops, api, reconciler, SameLocks
<1>2. CASE annotateComplete(j) \/ annotateFail(j)
  BY <1>2, AnnotateLocks, FreeBehind DEF annotateComplete, annotateFail, api, SameLocks
<1>3. CASE unlock(j)
  BY <1>3, UnlockFrees, FreeBehind DEF unlock, api, SameLocks
<1>4. CASE JobPanics(j)
  BY <1>4, FreeReturn DEF JobPanics, ProcessDies, Return, NoObject, NewObject
<1> QED BY <1>1, <1>2, <1>3, <1>4 DEF JobStep

LEMMA FreeEnvironment ==
    ASSUME Fresh, SafeInv, FreeInv, CacheSync \/ Environment \/ UNCHANGED vars PROVE FreeInv'
<1>1. CASE CacheSync \/ Edit \/ UNCHANGED vars
  BY <1>1, FreeBehind DEF CacheSync, Edit, vars, api, reconciler, SameLocks
<1>2. CASE RequestDelete
  <2>1. [obj EXCEPT !.deleting = TRUE].ann = obj.ann /\ NoObject.ann = {}
    BY DEF SafeInv, TypeOK, Object, NoObject, NewObject
  <2> QED BY <1>2, <2>1, FreeBehind DEF RequestDelete, WriteBehind, Write, SameLocks
<1>3. CASE Recreate
  <2>1. providerKopsUpdateLocked \notin obj'.ann
    BY <1>3 DEF Recreate, WriteBehind, Write, NewObject, providerKopsUpdateLocked,
                crossplaneExternalName
  <2> QED BY <1>3, <2>1, FreeBehind DEF Recreate
<1>4. CASE Recover
  <2>1. providerKopsUpdateLocked \notin obj'.ann
    BY <1>4 DEF Recover, WriteBehind, Write, SafeInv, TypeOK, Object, createLockKeys,
                providerKopsUpdateLocked, providerKopsCreateComplete
  <2> QED BY <1>4, <2>1, FreeBehind DEF Recover
<1>5. CASE Crash
  BY <1>5, FreeReturn DEF Crash, ProcessDies, Return, NoObject, NewObject
<1> QED BY <1>1, <1>2, <1>3, <1>4, <1>5 DEF Environment

LEMMA FreeInvariant == ASSUME Fresh PROVE Spec => [](SafeInv /\ LockInv /\ FreeInv)
<1>1. Init => FreeInv
  BY InitFree
<1>2. SafeInv /\ LockInv /\ FreeInv /\ [Next]_vars => FreeInv'
  BY FreeReconciler, FreeJob, FreeEnvironment DEF Next
<1> QED BY <1>1, <1>2, LockInvariant, PTL DEF Spec

-----------------------------------------------------------------------------
(* The mapping.                                                            *)

LockOf == IF obj = NoObject THEN "gone"
          ELSE IF providerKopsUpdateLocked \in obj.ann THEN "held" ELSE "free"
Busy   == {j \in Job : RunsKops(j)}

(* The steps of KopsLock, by what they do to the two mapped variables. *)
AbstractStep ==
    \/ LockOf' = LockOf /\ Busy' = Busy
    \/ LockOf' = "gone" /\ Busy' = Busy
    \/ LockOf = "gone" /\ Busy = {} /\ LockOf' = "free" /\ Busy' = Busy
    \/ LockOf = "free" /\ Busy = {} /\ LockOf' = "held" /\ Busy' = Busy
    \/ \E j \in Job : LockOf = "free" /\ Busy = {} /\ LockOf' = "held" /\ Busy' = {j}
    \/ LockOf = "held" /\ Busy = {} /\ LockOf' = "free" /\ Busy' = Busy
    \/ \E j \in Busy : LockOf' = LockOf /\ Busy' = Busy \ {j}

LEMMA AbstractStepIsNext == AbstractStep => [Lock!Next]_(Lock!vars)
BY DEF AbstractStep, LockOf, Busy, Lock!Next, Lock!vars, Lock!Acquire, Lock!Leak, Lock!Finish,
       Lock!Release, Lock!Remove, Lock!Renew

(* A job that runs kops is the only one, and its lock is held. *)
LEMMA BusyHolds ==
    ASSUME LockInv, NEW j \in Busy
    PROVE  Busy = {j} /\ Holds(j) /\ (obj # NoObject => LockOf = "held")
<1>1. \A i \in Busy : i \in Job /\ Holds(i)
  BY DEF Busy, RunsKops, Holds
<1> QED BY <1>1, KeysFacts DEF LockInv, AloneInv, HoldInv, LockOf

LEMMA SameJobsSameBusy == UNCHANGED job => Busy' = Busy
BY DEF Busy, RunsKops

LEMMA DiesMaps ==
    ASSUME SafeInv, LockInv, ProcessDies PROVE AbstractStep
<1>1. Busy' = {}
  BY DEF ProcessDies, Busy, RunsKops, Live, SafeInv, TypeOK, KopsPhase, CreatePhase,
         UpdatePhase, EndPhase
<1>2. LockOf' = LockOf
  BY DEF ProcessDies, LockOf
<1>3. CASE Busy = {}
  BY <1>1, <1>2, <1>3 DEF AbstractStep
<1>4. ASSUME NEW j \in Busy PROVE AbstractStep
  <2>1. Busy' = Busy \ {j}
    BY <1>1, <1>4, BusyHolds
  <2> QED BY <1>2, <2>1 DEF AbstractStep
<1> QED BY <1>3, <1>4

(* A handler that starts a job found the lock free. *)
LEMMA StartMaps ==
    ASSUME SafeInv, LockInv, NEW kind \in {"create", "update"}, NEW phase \in KopsPhase,
           Start(kind, phase), obj # NoObject, providerKopsUpdateLocked \notin obj.ann,
           obj'.uid = obj.uid, providerKopsUpdateLocked \in obj'.ann
    PROVE  AbstractStep
<1>1. LockOf = "free"
  BY DEF LockOf
<1>2. Busy = {}
  BY <1>1, BusyHolds
<1>3. PICK k \in Job : job' = [job EXCEPT ![k] = [kind |-> kind, uid |-> cr.uid, pc |-> phase]]
  BY DEF Start
<1>4. job'[k].pc = phase /\ \A j \in Job \ {k} : job'[j] = job[j]
  BY <1>3 DEF SafeInv, TypeOK
<1>5. Busy' = {k}
  BY <1>2, <1>4 DEF Busy, RunsKops
<1>6. obj' # NoObject
  BY DEF SafeInv, CreateInv, UidInv, NoObject, NewObject
<1>7. LockOf' = "held"
  BY <1>6 DEF LockOf
<1> QED BY <1>1, <1>2, <1>5, <1>7 DEF AbstractStep

LEMMA ReconcilerMaps ==
    ASSUME SafeInv, SafeInv', LockInv, FreeInv, ReconcilerStep PROVE AbstractStep
<1>1. ASSUME UNCHANGED job PROVE AbstractStep
  <2>1. Busy' = Busy
    BY <1>1, SameJobsSameBusy
  <2>2. CASE obj' = NoObject
    BY <2>1, <2>2 DEF AbstractStep, LockOf
  <2>3. CASE obj' # NoObject
    <3>1. obj # NoObject /\ obj'.uid = obj.uid
      BY <2>3, ReconcilerObject
    <3>2. providerKopsUpdateLocked \in obj.ann => providerKopsUpdateLocked \in obj'.ann
      BY <3>1, ReconcilerKeeps
         DEF KeepsAnnotations, SafeInv, createIncomplete, providerKopsUpdateLocked
    <3>3. CASE LockOf' = LockOf
      BY <2>1, <3>3 DEF AbstractStep
    <3>4. CASE LockOf' # LockOf
      <4>1. LockOf = "free" /\ LockOf' = "held"
        BY <2>3, <3>1, <3>2, <3>4 DEF LockOf
      <4>2. Busy = {}
        BY <3>1, <4>1, BusyHolds
      <4> QED BY <2>1, <4>1, <4>2 DEF AbstractStep
    <3> QED BY <3>3, <3>4
  <2> QED BY <2>2, <2>3
<1>2. CASE Create
  <2>1. providerKopsUpdateLocked \notin obj.ann
    BY <1>2 DEF Create, CreateGuarded, FreeInv, LockedOnly, Deciding, LockInv, KindInv
  <2>2. /\ obj # NoObject /\ obj'.uid = obj.uid
        /\ providerKopsUpdateLocked \in obj'.ann
    BY <1>2 DEF Create, lockCluster, annotateCluster, WriteBehind, Write, Annotated,
                createLockKeys, SafeInv, TypeOK, Object
  <2>3. Start("create", "createCluster") /\ "createCluster" \in KopsPhase
    BY <1>2 DEF Create, KopsPhase, CreatePhase
  <2> QED BY <2>1, <2>2, <2>3, StartMaps
<1>3. CASE Update
  <2>1. providerKopsUpdateLocked \notin obj.ann
    BY <1>3 DEF Update, UpdateGuarded, FreeInv, Deciding
  <2>2. /\ obj # NoObject /\ obj'.uid = obj.uid
        /\ providerKopsUpdateLocked \in obj'.ann
    BY <1>3 DEF Update, Write, Annotated, updateLockKeys, SafeInv, TypeOK, Object
  <2>3. Start("update", "updateCluster") /\ "updateCluster" \in KopsPhase
    BY <1>3 DEF Update, KopsPhase, UpdatePhase
  <2> QED BY <2>1, <2>2, <2>3, StartMaps
<1> QED BY <1>1, <1>2, <1>3
        DEF ReconcilerStep, Fetch, Initialize, ObserveError, ObserveNotFound, ObserveFound, Delete,
            AddFinalizer, UpToDate, MarkPending, CreateAlready, CreateFails, Critical,
            UpdateSkipped, UpdateFails, LockPanics

LEMMA JobMaps ==
    ASSUME SafeInv, LockInv, NEW j \in Job, JobStep(j) PROVE AbstractStep
<1>1. ASSUME NEW phase, Goto(j, phase)
      PROVE  Busy' = IF phase \in KopsPhase THEN Busy \cup {j} ELSE Busy \ {j}
  BY <1>1 DEF Goto, Busy, RunsKops, SafeInv, TypeOK
<1>2. CASE createCluster(j) \/ kopsUpdateCluster(j) \/ runKops(j)
  <2>1. j \in Busy
    BY <1>2 DEF createCluster, kopsUpdateCluster, runKops, Busy, RunsKops, KopsPhase, CreatePhase
  <2>2. PICK phase : Goto(j, phase)
    BY <1>2 DEF createCluster, kopsUpdateCluster, runKops
  <2>3. Busy' = Busy \/ Busy' = Busy \ {j}
    BY <1>1, <2>1, <2>2
  <2>4. LockOf' = LockOf
    BY <1>2 DEF createCluster, kopsUpdateCluster, runKops, api, LockOf
  <2> QED BY <2>1, <2>3, <2>4 DEF AbstractStep
<1>3. CASE annotateComplete(j) \/ annotateFail(j)
  <2>1. j \notin Busy
    BY <1>3 DEF annotateComplete, annotateFail, Busy, RunsKops, KopsPhase, CreatePhase, UpdatePhase
  <2>2. PICK phase \in {"unlock", "annotateFail", "failed"} : Goto(j, phase)
    BY <1>3 DEF annotateComplete, annotateFail
  <2>3. Busy' = Busy
    BY <1>1, <2>1, <2>2 DEF KopsPhase, CreatePhase, UpdatePhase
  <2>4. LockOf' \in {LockOf, "gone"}
    BY <1>3, AnnotateLocks
       DEF annotateComplete, annotateFail, annotateCluster, api, LockOf, SameLocks
  <2> QED BY <2>3, <2>4 DEF AbstractStep
<1>4. CASE unlock(j)
  <2>1. Holds(j) /\ j \notin Busy
    BY <1>4 DEF unlock, Holds, Busy, RunsKops, KopsPhase, CreatePhase, UpdatePhase
  <2>2. Busy = {}
    BY <2>1, BusyHolds DEF LockInv, AloneInv, Busy
  <2>3. PICK phase \in {"done", "failed", "annotateFail"} : Goto(j, phase)
    BY <1>4 DEF unlock
  <2>4. Busy' = Busy
    BY <1>1, <2>1, <2>3 DEF KopsPhase, CreatePhase, UpdatePhase
  <2>5. CASE unlockCluster(unlockKeys(j))
    <3>1. LockOf = "held"
      BY <2>1, <2>5, KeysFacts DEF unlockCluster, LockInv, HoldInv, LockOf
    <3>2. LockOf' \in {"free", "gone"}
      BY <2>5, UnlockFrees DEF LockOf
    <3> QED BY <2>2, <2>4, <3>1, <3>2 DEF AbstractStep
  <2>6. CASE UNCHANGED api
    BY <2>4, <2>6 DEF AbstractStep, LockOf, api
  <2> QED BY <1>4, <2>5, <2>6 DEF unlock
<1>5. CASE JobPanics(j)
  BY <1>5, DiesMaps DEF JobPanics
<1> QED BY <1>2, <1>3, <1>4, <1>5 DEF JobStep

LEMMA EnvironmentMaps ==
    ASSUME Fresh, SafeInv, LockInv, CacheSync \/ Environment \/ UNCHANGED vars
    PROVE  AbstractStep
<1>1. CASE CacheSync \/ Edit \/ UNCHANGED vars
  BY <1>1, SameJobsSameBusy DEF CacheSync, Edit, vars, api, AbstractStep, LockOf
<1>2. CASE RequestDelete
  <2>1. [obj EXCEPT !.deleting = TRUE].ann = obj.ann
    BY DEF SafeInv, TypeOK, Object
  <2>2. LockOf' \in {LockOf, "gone"}
    BY <1>2, <2>1 DEF RequestDelete, WriteBehind, Write, LockOf
  <2> QED BY <1>2, <2>2, SameJobsSameBusy DEF RequestDelete, AbstractStep
<1>3. CASE Recreate
  <2>1. Busy = {} /\ Busy' = Busy
    BY <1>3, SameJobsSameBusy DEF Recreate, Fresh, Busy, RunsKops, Live
  <2>2. obj' # NoObject /\ providerKopsUpdateLocked \notin obj'.ann
    BY <1>3 DEF Recreate, WriteBehind, Write, NewObject, NoObject, SafeInv, TypeOK,
                providerKopsUpdateLocked, crossplaneExternalName
  <2>3. LockOf = "gone" /\ LockOf' = "free"
    BY <1>3, <2>2 DEF Recreate, LockOf
  <2> QED BY <2>1, <2>3 DEF AbstractStep
<1>4. CASE Recover
  <2>1. Busy = {} /\ Busy' = Busy
    BY <1>4, SameJobsSameBusy DEF Recover, Busy, RunsKops, Live
  <2>2. providerKopsUpdateLocked \notin obj'.ann
    BY <1>4 DEF Recover, WriteBehind, Write, SafeInv, TypeOK, Object, createLockKeys,
                providerKopsUpdateLocked, providerKopsCreateComplete
  <2>3. LockOf = "held" /\ LockOf' \in {"free", "gone"}
    BY <1>4, <2>2 DEF Recover, LockOf
  <2> QED BY <2>1, <2>3 DEF AbstractStep
<1>5. CASE Crash
  BY <1>5, DiesMaps DEF Crash
<1> QED BY <1>1, <1>2, <1>3, <1>4, <1>5 DEF Environment

LEMMA InitMaps == ASSUME Init PROVE Lock!Init
<1>1. obj # NoObject /\ providerKopsUpdateLocked \notin obj.ann
  BY DEF Init, NewObject, NoObject, providerKopsUpdateLocked, crossplaneExternalName,
         crossplaneCreateSucceeded, providerKopsCreateComplete
<1>2. \A j \in Job : ~RunsKops(j)
  BY DEF Init, NoJob, RunsKops, KopsPhase, CreatePhase, UpdatePhase
<1> QED BY <1>1, <1>2 DEF Lock!Init

(* The lock annotations of Create and Update implement the abstract lock,  *)
(* with one incarnation of the CR after the other as its carrier, for any  *)
(* number of jobs, incarnations, edits and crashes.                        *)
THEOREM Implementation == ASSUME Fresh PROVE Spec => ImplementsKopsLock
<1>1. Init => Lock!Init
  BY InitMaps
<1>2. /\ SafeInv /\ SafeInv' /\ LockInv /\ FreeInv /\ [Next]_vars
      => [Lock!Next]_(Lock!vars)
  BY ReconcilerMaps, JobMaps, EnvironmentMaps, AbstractStepIsNext DEF Next
<1> QED BY <1>1, <1>2, FreeInvariant, PTL DEF Spec, ImplementsKopsLock, Lock!Spec
=============================================================================
