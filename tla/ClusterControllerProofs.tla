----------------------- MODULE ClusterControllerProofs -----------------------
(***************************************************************************)
(* Theorems about ClusterController, for every set of jobs, every number   *)
(* of incarnations, edits and crashes.                                     *)
(***************************************************************************)
EXTENDS ClusterController, TLAPS

USE AdversaryAssumption, BoundAssumption

-----------------------------------------------------------------------------
(* Type correctness.                                                       *)

LEMMA AfterType == \A phase \in KopsPhase : After(phase) \in JobState
BY DEF After, JobState, KopsPhase, CreatePhase, UpdatePhase, EndPhase

LEMMA NoObjectType == NoObject \in Object
BY DEF NoObject, NewObject, Object

(* Writing annotation keys of the source keeps an object an object. *)
LEMMA AnnotatedType ==
    ASSUME NEW o \in Object, NEW keys \in SUBSET Annotation
    PROVE  Annotated(o, keys) \in Object
BY DEF Annotated, Object

LEMMA NewObjectType ==
    ASSUME NEW uid \in 0..MaxUid, NEW ann \in SUBSET Annotation
    PROVE  NewObject(uid, ann) \in Object
BY DEF NewObject, Object

LEMMA InitType == ASSUME Init PROVE TypeOK
<1>1. 1 \in 0..MaxUid /\ 1 \in 1..MaxUid /\ 0 \in 0..MaxEdits /\ 0 \in 0..MaxCrashes
  OBVIOUS
<1>2. obj \in Object
  <2>1. NewObject(1, {}) \in Object /\ NewObject(1, {crossplaneExternalName}) \in Object
    BY <1>1, NewObjectType DEF Annotation
  <2>2. NewObject(1, {crossplaneExternalName, crossplaneCreateSucceeded,
                      providerKopsCreateComplete}) \in Object
    BY <1>1, NewObjectType DEF Annotation
  <2> QED BY <2>1, <2>2 DEF Init, Object
<1>3. job \in [Job -> [kind: {"none", "create", "update"}, uid: 0..MaxUid, pc: JobState]]
  BY <1>1 DEF Init, NoJob, JobState
<1> QED BY <1>1, <1>2, <1>3, NoObjectType DEF Init, TypeOK

(* The variables of TypeOK by the part of the system that writes them. *)
ApiType == obj \in Object /\ cached \in Object /\ cacheCurrent \in BOOLEAN

ReconcilerType ==
    /\ cr \in Object /\ crCurrent \in BOOLEAN
    /\ pc \in {"idle", "initialize", "observe", "observed", "managed", "create", "critical"}
    /\ status \in {"None", "Creating", "Ready", "Updating", "Progressing", "Unknown"}

JobType == job \in [Job -> [kind: {"none", "create", "update"}, uid: 0..MaxUid, pc: JobState]]

LEMMA TypeParts ==
    TypeOK <=> /\ ApiType /\ ReconcilerType /\ JobType
               /\ external \in {"absent", "config", "built"}
               /\ uids \in 1..MaxUid /\ edits \in 0..MaxEdits /\ crashes \in 0..MaxCrashes
BY DEF TypeOK, ApiType, ReconcilerType, JobType

LEMMA WriteType ==
    ASSUME TypeOK, NEW new \in Object, Write(new)
    PROVE  ApiType'
BY DEF TypeOK, ApiType, Write

LEMMA ReturnType == ASSUME Return PROVE ReconcilerType'
BY NoObjectType DEF Return, ReconcilerType

LEMMA UpdateCopyType ==
    ASSUME TypeOK, NEW new \in Object,
           NEW next \in {"observe", "managed", "create"}, UpdateCopy(new, next)
    PROVE  ApiType' /\ ReconcilerType'
BY WriteType, ReturnType DEF UpdateCopy, TypeOK, ApiType, ReconcilerType, api

LEMMA GotoType ==
    ASSUME TypeOK, NEW j \in Job, NEW phase \in JobState, Goto(j, phase)
    PROVE  JobType'
BY DEF TypeOK, JobType, Goto

LEMMA StartType ==
    ASSUME TypeOK, NEW kind \in {"create", "update"}, NEW phase \in JobState, Start(kind, phase)
    PROVE  JobType'
BY DEF TypeOK, JobType, Start, Object

LEMMA BehindType ==
    ASSUME TypeOK, NEW new \in Object, WriteBehind(new)
    PROVE  ApiType' /\ crCurrent' \in BOOLEAN
BY WriteType DEF WriteBehind, TypeOK

LEMMA AnnotateType ==
    ASSUME TypeOK, NEW keys \in SUBSET Annotation, annotateCluster(keys)
    PROVE  ApiType' /\ crCurrent' \in BOOLEAN
BY BehindType, AnnotatedType DEF annotateCluster, TypeOK

LEMMA UnlockType ==
    ASSUME TypeOK, NEW keys, unlockCluster(keys)
    PROVE  ApiType' /\ crCurrent' \in BOOLEAN
<1>1. [obj EXCEPT !.ann = @ \ keys] \in Object
  BY DEF TypeOK, Object
<1> QED BY <1>1, BehindType DEF unlockCluster

LEMMA CreateReturnsType ==
    ASSUME TypeOK, NEW keys \in SUBSET Annotation, CreateReturns(keys)
    PROVE  /\ cr' \in Object /\ pc' = "critical" /\ status' = status
BY DEF TypeOK, CreateReturns, Object

LEMMA KeysType ==
    /\ createLockKeys \in SUBSET Annotation
    /\ {} \in SUBSET Annotation
    /\ \A a \in Annotation : {a} \in SUBSET Annotation
BY DEF createLockKeys, Annotation

LEMMA OnErrorType == \A j : OnError(j) \in JobState
BY DEF OnError, JobState, EndPhase

LEMMA DiesType ==
    ASSUME TypeOK, ProcessDies
    PROVE  ApiType' /\ ReconcilerType' /\ JobType' /\ external' = external
<1>1. ApiType' /\ ReconcilerType'
  BY ReturnType DEF ProcessDies, TypeOK, ApiType
<1>2. JobType'
  BY DEF ProcessDies, TypeOK, JobType, JobState
<1> QED BY <1>1, <1>2 DEF ProcessDies

(* One step per action, the parts of TypeOK that it writes. *)
LEMMA StepType == ASSUME TypeOK, [Next]_vars PROVE TypeOK'
<1> USE DEF TypeOK
<1>1. CASE UNCHANGED vars
  BY <1>1 DEF vars, api, reconciler, bounds
<1>2. CASE CacheSync
  BY <1>2 DEF CacheSync, reconciler, bounds
<1>3. CASE ReconcilerStep
  <2>1. CASE Fetch
    BY <2>1 DEF Fetch, api, bounds
  <2>2. CASE Initialize
    <3>1. Annotated(cr, {crossplaneExternalName}) \in Object
      BY AnnotatedType DEF Annotation
    <3>2. ApiType' /\ ReconcilerType'
      BY <2>2, <3>1, UpdateCopyType, TypeParts DEF Initialize, ApiType, ReconcilerType, api
    <3> QED BY <2>2, <3>2, TypeParts DEF Initialize, bounds, ApiType, ReconcilerType
  <2>3. CASE ObserveError
    BY <2>3, ReturnType DEF ObserveError, ReconcilerType, api, bounds
  <2>4. CASE ObserveNotFound
    BY <2>4, ReturnType DEF ObserveNotFound, ReconcilerType, api, bounds
  <2>5. CASE ObserveFound
    <3>1. Annotated(cr, {providerKopsCreateComplete}) \in Object
      BY AnnotatedType DEF Annotation
    <3> QED BY <2>5, <3>1 DEF ObserveFound, api, bounds
  <2>6. CASE Delete
    BY <2>6, ReturnType, NoObjectType DEF Delete, ReconcilerType, Write, api, bounds
  <2>7. CASE AddFinalizer
    <3>1. [cr EXCEPT !.finalizer = TRUE] \in Object
      BY DEF Object
    <3>2. ApiType' /\ ReconcilerType'
      BY <2>7, <3>1, UpdateCopyType, TypeParts DEF AddFinalizer, ApiType, ReconcilerType, api
    <3> QED BY <2>7, <3>2 DEF AddFinalizer, bounds, ApiType, ReconcilerType
  <2>8. CASE UpToDate
    BY <2>8, ReturnType DEF UpToDate, ReconcilerType, api, bounds
  <2>9. CASE MarkPending
    <3>1. Annotated(cr, {createIncomplete}) \in Object
      BY AnnotatedType DEF Annotation
    <3>2. ApiType' /\ ReconcilerType'
      BY <2>9, <3>1, UpdateCopyType, TypeParts DEF MarkPending
    <3> QED BY <2>9, <3>2 DEF MarkPending, bounds, ApiType, ReconcilerType
  <2>10. CASE CreateAlready
    BY <2>10, CreateReturnsType, KeysType DEF CreateAlready, Annotation, ReconcilerType, api, bounds
  <2>11. CASE Create
    <3>1. ApiType' /\ crCurrent' \in BOOLEAN
      BY <2>11, AnnotateType, KeysType DEF Create, lockCluster
    <3>2. JobType'
      BY <2>11, StartType DEF Create, JobState, KopsPhase, CreatePhase
    <3> QED BY <2>11, <3>1, <3>2, CreateReturnsType, KeysType
            DEF Create, Annotation, ApiType, ReconcilerType, JobType, bounds
  <2>12. CASE CreateFails
    <3>1. ApiType' /\ crCurrent' \in BOOLEAN
      BY <2>12, AnnotateType, TypeParts, KeysType DEF CreateFails, lockCluster, ApiType, api
    <3> QED BY <2>12, <3>1, CreateReturnsType, KeysType DEF CreateFails, ApiType, ReconcilerType, bounds
  <2>13. CASE Critical
    <3>1. [obj EXCEPT !.ann = (@ \ {createIncomplete}) \cup cr.ann] \in Object
      BY DEF Object
    <3>2. ApiType'
      BY <2>13, <3>1, WriteType, TypeParts DEF Critical, ApiType, api
    <3> QED BY <2>13, <3>2, ReturnType DEF Critical, ApiType, ReconcilerType, bounds
  <2>14. CASE UpdateSkipped
    BY <2>14, ReturnType DEF UpdateSkipped, ReconcilerType, api, bounds
  <2>15. CASE Update
    <3>1. ApiType'
      BY <2>15, AnnotatedType, WriteType DEF Update, updateLockKeys, Annotation
    <3>2. JobType'
      BY <2>15, StartType DEF Update, JobState, KopsPhase, UpdatePhase
    <3> QED BY <2>15, <3>1, <3>2, ReturnType DEF Update, ApiType, ReconcilerType, JobType, bounds
  <2>16. CASE UpdateFails
    <3>1. ApiType'
      BY <2>16, AnnotatedType, WriteType, TypeParts
      DEF UpdateFails, updateLockKeys, Annotation, ApiType, api
    <3> QED BY <2>16, <3>1, ReturnType DEF UpdateFails, ApiType, ReconcilerType, bounds
  <2>17. CASE LockPanics
    BY <2>17, ReturnType DEF LockPanics, ReconcilerType, api, bounds
  <2> QED BY <1>3, <2>1, <2>2, <2>3, <2>4, <2>5, <2>6, <2>7, <2>8, <2>9, <2>10, <2>11,
             <2>12, <2>13, <2>14, <2>15, <2>16, <2>17 DEF ReconcilerStep
<1>4. ASSUME NEW j \in Job, JobStep(j) PROVE TypeOK'
  <2>1. CASE createCluster(j)
    <3>1. JobType'
      BY <2>1, GotoType, OnErrorType, AfterType
      DEF createCluster, KopsPhase, CreatePhase
    <3> QED BY <2>1, <3>1 DEF createCluster, JobType, api, reconciler, bounds
  <2>2. CASE kopsUpdateCluster(j)
    <3>1. JobType'
      BY <2>2, GotoType, OnErrorType, AfterType
      DEF kopsUpdateCluster, KopsPhase, CreatePhase
    <3> QED BY <2>2, <3>1 DEF kopsUpdateCluster, JobType, api, reconciler, bounds
  <2>3. CASE runKops(j)
    <3>1. JobType'
      BY <2>3, GotoType, OnErrorType, AfterType DEF runKops
    <3> QED BY <2>3, <3>1 DEF runKops, JobType, api, reconciler, bounds
  <2>4. CASE annotateComplete(j)
    <3>1. ApiType' /\ crCurrent' \in BOOLEAN
      BY <2>4, AnnotateType, TypeParts DEF annotateComplete, ApiType, Annotation, api
    <3>2. JobType'
      BY <2>4, GotoType DEF annotateComplete, JobState, EndPhase
    <3> QED BY <2>4, <3>1, <3>2 DEF annotateComplete, ApiType, JobType, bounds
  <2>5. CASE unlock(j)
    <3>1. ApiType' /\ crCurrent' \in BOOLEAN
      BY <2>5, UnlockType DEF unlock, ApiType, api
    <3>2. JobType'
      BY <2>5, GotoType DEF unlock, JobState, EndPhase
    <3> QED BY <2>5, <3>1, <3>2 DEF unlock, ApiType, JobType, bounds
  <2>6. CASE annotateFail(j)
    <3>1. ApiType' /\ crCurrent' \in BOOLEAN
      BY <2>6, AnnotateType, TypeParts DEF annotateFail, ApiType, Annotation, api
    <3>2. JobType'
      BY <2>6, GotoType DEF annotateFail, JobState
    <3> QED BY <2>6, <3>1, <3>2 DEF annotateFail, ApiType, JobType, bounds
  <2>7. CASE JobPanics(j)
    BY <2>7, DiesType DEF JobPanics, ApiType, ReconcilerType, JobType, bounds
  <2> QED BY <1>4, <2>1, <2>2, <2>3, <2>4, <2>5, <2>6, <2>7 DEF JobStep
<1>5. CASE Environment
  <2>1. CASE Crash
    BY <2>1, DiesType DEF Crash, ApiType, ReconcilerType, JobType
  <2>2. CASE Edit
    <3>1. edits' \in 0..MaxEdits
      BY <2>2 DEF Edit
    <3> QED BY <2>2, <3>1 DEF Edit
  <2>3. CASE RequestDelete
    <3>1. ApiType' /\ crCurrent' \in BOOLEAN
      BY <2>3, BehindType, NoObjectType DEF RequestDelete, Object
    <3> QED BY <2>3, <3>1 DEF RequestDelete, ApiType, bounds
  <2>4. CASE Recreate
    <3>1. uids' \in 1..MaxUid
      BY <2>4 DEF Recreate
    <3>2. ApiType' /\ crCurrent' \in BOOLEAN
      BY <2>4, <3>1, BehindType, NewObjectType DEF Recreate, Annotation
    <3> QED BY <2>4, <3>1, <3>2 DEF Recreate, ApiType
  <2>5. CASE Recover
    <3>1. \A done \in {{providerKopsCreateComplete}, {}} :
             [obj EXCEPT !.ann = (@ \ createLockKeys) \cup done] \in Object
      BY DEF Object, Annotation
    <3>2. ApiType' /\ crCurrent' \in BOOLEAN
      BY <2>5, <3>1, BehindType DEF Recover
    <3> QED BY <2>5, <3>2 DEF Recover, ApiType
  <2> QED BY <1>5, <2>1, <2>2, <2>3, <2>4, <2>5 DEF Environment
<1> QED BY <1>1, <1>2, <1>3, <1>4, <1>5 DEF Next

(* Every variable keeps its type: no step of the reconciler, of a job, of  *)
(* the process or of the user leaves the states the model talks about.     *)
THEOREM TypeCorrect == Spec => []TypeOK
<1>1. Init => TypeOK
  BY InitType
<1>2. TypeOK /\ [Next]_vars => TypeOK'
  BY StepType
<1> QED BY <1>1, <1>2, PTL DEF Spec

-----------------------------------------------------------------------------
(* One creation per incarnation, and no annotation lost: what holds of the *)
(* copies of the object, under every failure the model has.                *)

CacheInv == cacheCurrent => cached = obj

(* Only NoObject has no uid. *)
UidInv ==
    /\ obj.uid <= uids /\ cached.uid <= uids /\ cr.uid <= uids
    /\ obj.uid = 0 => obj = NoObject
    /\ cached.uid = 0 => cached = NoObject
    /\ pc # "idle" => cr.uid # 0
    /\ \A j \in Job : /\ job[j].uid <= uids
                      /\ job[j].kind # "none" => job[j].uid # 0

(* A copy that is current misses nothing; before the reconciler marks the  *)
(* creation as pending, nothing marks it.                                  *)
Early == pc \in {"initialize", "observe", "observed", "managed"}

CopyInv ==
    /\ crCurrent => /\ pc # "idle"
                    /\ cr.uid = obj.uid
                    /\ obj.ann \ {createIncomplete} \subseteq cr.ann
                    /\ Early => createIncomplete \notin obj.ann
    /\ Early => createIncomplete \notin cr.ann

CreatedFor(uid) == \E j \in Job : job[j].kind = "create" /\ job[j].uid = uid

(* The marks that tell of a creation: on the object, and, while the        *)
(* reconciler is between its mark and the handler's job, in its copy.      *)
MarkInv ==
    /\ CreatedFor(obj.uid)
       => crossplaneCreateSucceeded \in obj.ann \/ createIncomplete \in obj.ann
    /\ pc = "create" /\ crossplaneCreateSucceeded \notin cr.ann
       => ~CreatedFor(cr.uid) /\ ~CreatedFor(obj.uid)
    /\ pc = "create" /\ cr.uid = obj.uid => createIncomplete \in obj.ann
    /\ pc = "critical" /\ crossplaneCreateSucceeded \notin cr.ann
       => ~CreatedFor(obj.uid)

CreateInv == CacheInv /\ UidInv /\ CopyInv /\ MarkInv /\ CreateOnce


LEMMA InitCreate == ASSUME Init PROVE CreateInv
<1>1. obj.uid = 1 /\ cr.uid = 0
  BY DEF Init, NewObject, NoObject
<1>2. \A j \in Job : job[j].kind = "none" /\ job[j].uid = 0
  BY DEF Init, NoJob
<1> QED BY <1>1, <1>2
        DEF Init, CreateInv, CacheInv, UidInv, CopyInv, MarkInv, CreateOnce, CreatedFor, Early

SameJobs == \A j \in Job : job'[j].kind = job[j].kind /\ job'[j].uid = job[j].uid

(* What a reconcile that ends does: its copy is gone. *)
LEMMA ReturnCreate ==
    ASSUME TypeOK, CreateInv, Return, SameJobs, uids' = uids,
           UNCHANGED cached \/ cached' = obj,
           cacheCurrent' => cached' = obj',
           obj'.uid \in {obj.uid, 0}, obj'.uid = 0 => obj' = NoObject,
           CreatedFor(obj'.uid)
              => crossplaneCreateSucceeded \in obj'.ann \/ createIncomplete \in obj'.ann
    PROVE  CreateInv'
<1>1. cr'.uid = 0 /\ ~crCurrent' /\ pc' = "idle"
  BY DEF Return, NoObject, NewObject
<1>2. CacheInv' /\ CopyInv'
  BY <1>1 DEF CacheInv, CopyInv, Early
<1>3. UidInv'
  BY <1>1 DEF CreateInv, UidInv, TypeOK, SameJobs
<1>4. MarkInv'
  BY <1>1 DEF MarkInv, CreatedFor, SameJobs
<1>5. CreateOnce'
  BY DEF CreateInv, CreateOnce, SameJobs
<1> QED BY <1>2, <1>3, <1>4, <1>5 DEF CreateInv

(* A reconcile that ends without a write. *)
LEMMA ReturnSame ==
    ASSUME TypeOK, CreateInv, Return, UNCHANGED <<api, job, uids>>
    PROVE  CreateInv'
<1>1. SameJobs
  BY DEF SameJobs
<1>2. UNCHANGED cached /\ (cacheCurrent' => cached' = obj') /\ obj' = obj
  BY DEF CreateInv, CacheInv, api
<1>3. obj.uid = 0 => obj = NoObject
  BY DEF CreateInv, UidInv
<1>4. CreatedFor(obj.uid)
      => crossplaneCreateSucceeded \in obj.ann \/ createIncomplete \in obj.ann
  BY DEF CreateInv, MarkInv
<1> QED BY <1>1, <1>2, <1>3, <1>4, ReturnCreate

(* What others write while a reconcile goes on. *)
LEMMA BehindCreate ==
    ASSUME TypeOK, CreateInv, SameJobs, UNCHANGED <<cached, cr, pc, uids>>,
           NEW new \in Object, WriteBehind(new),
           \/ new = NoObject
           \/ /\ new.uid = obj.uid /\ obj # NoObject
              /\ \A a \in {crossplaneCreateSucceeded, createIncomplete} :
                    a \in new.ann <=> a \in obj.ann
    PROVE  CreateInv'
<1> USE DEF WriteBehind, Write
<1>1. CacheInv'
  BY DEF CreateInv, CacheInv
<1>2. new = NoObject => new.uid = 0
  BY DEF NoObject, NewObject
<1>3. UidInv'
  BY <1>2 DEF CreateInv, UidInv, SameJobs, TypeOK
<1>4. CopyInv'
  BY DEF CreateInv, CopyInv, Early
<1>5. MarkInv'
  <2>1. ~CreatedFor(0)
    BY DEF CreateInv, UidInv, CreatedFor
  <2>2. \A uid : CreatedFor(uid)' <=> CreatedFor(uid)
    BY DEF CreatedFor, SameJobs
  <2>3. pc = "create" => cr.uid # 0
    BY DEF CreateInv, UidInv
  <2> QED BY <1>2, <2>1, <2>2, <2>3 DEF CreateInv, MarkInv
<1>6. CreateOnce'
  BY DEF CreateInv, CreateOnce, SameJobs
<1> QED BY <1>1, <1>3, <1>4, <1>5, <1>6 DEF CreateInv

(* An update of the reconciler's copy, before Create is called. *)
LEMMA UpdateCopyCreate ==
    ASSUME TypeOK, CreateInv, Early, UNCHANGED <<job, uids>>,
           NEW new \in Object, NEW next \in {"observe", "managed", "create"},
           UpdateCopy(new, next),
           new.uid = cr.uid, cr.ann \subseteq new.ann,
           createIncomplete \in new.ann <=> next = "create",
           crossplaneCreateSucceeded \in new.ann => crossplaneCreateSucceeded \in cr.ann
    PROVE  CreateInv'
<1> DEFINE Marked(o) == crossplaneCreateSucceeded \in o.ann \/ createIncomplete \in o.ann
<1>0. SameJobs
  BY DEF SameJobs
<1>1. cr.uid # 0
  BY DEF CreateInv, UidInv, Early
<1>2. CASE crCurrent /\ Write(new) /\ cr' = new /\ crCurrent' = TRUE /\ pc' = next
  <2>1. CacheInv'
    BY <1>2 DEF CreateInv, CacheInv, Write
  <2>2. UidInv'
    BY <1>1, <1>2 DEF CreateInv, UidInv, Write
  <2>3. CopyInv'
    BY <1>2 DEF CopyInv, Write, Early
  <2>4. CreatedFor(obj.uid) => Marked(obj)
    BY DEF CreateInv, MarkInv
  <2>5. createIncomplete \notin obj.ann /\ obj.ann \subseteq cr.ann /\ obj.uid = cr.uid
    BY <1>2 DEF CreateInv, CopyInv
  <2>6. crossplaneCreateSucceeded \notin new.ann => ~CreatedFor(new.uid)
    BY <2>4, <2>5
  <2>7. MarkInv'
    BY <1>2, <2>6 DEF MarkInv, Write, CreatedFor
  <2>8. CreateOnce'
    BY DEF CreateInv, CreateOnce
  <2> QED BY <2>1, <2>2, <2>3, <2>7, <2>8 DEF CreateInv
<1>3. CASE crCurrent /\ Write(new) /\ Return
  <2>1. CacheInv
    BY DEF CreateInv
  <2>2. CreatedFor(new.uid) => Marked(new)
    BY <1>3 DEF CreateInv, MarkInv, CopyInv, Early
  <2>3. obj' = new /\ new.uid = obj.uid
    BY <1>3 DEF Write, CreateInv, CopyInv
  <2>4. cacheCurrent' => cached' = obj'
    BY <1>3, <2>1 DEF Write, CacheInv
  <2> QED BY <1>0, <1>1, <1>3, <2>2, <2>3, <2>4, ReturnCreate DEF Write
<1>4. CASE Return /\ UNCHANGED api
  BY <1>0, <1>4, ReturnSame
<1> QED BY <1>2, <1>3, <1>4 DEF UpdateCopy

LEMMA StepCreateReconciler ==
    ASSUME TypeOK, CreateInv, ReconcilerStep PROVE CreateInv'
<1>1. CASE Fetch
  <2>1. cr' = cached /\ crCurrent' = cacheCurrent /\ pc' = "initialize"
        /\ UNCHANGED <<obj, cached, cacheCurrent, job, uids>>
    BY <1>1 DEF Fetch, api, bounds
  <2>2. cached # NoObject /\ createIncomplete \notin cached.ann
    BY <1>1 DEF Fetch
  <2>3. CopyInv'
    BY <2>1, <2>2 DEF CreateInv, CacheInv, CopyInv, Early
  <2> QED BY <2>1, <2>2, <2>3
          DEF CreateInv, CacheInv, UidInv, MarkInv, CreateOnce, CreatedFor
<1>2. CASE Initialize
  <2>1. CASE crossplaneExternalName \in cr.ann
    BY <1>2, <2>1 DEF Initialize, CreateInv, CacheInv, UidInv, CopyInv, MarkInv,
                      CreateOnce, CreatedFor, Early, api, bounds
  <2>2. CASE crossplaneExternalName \notin cr.ann
    <3> DEFINE new == Annotated(cr, {crossplaneExternalName})
    <3>1. new \in Object
      BY AnnotatedType DEF Annotation, TypeOK
    <3>2. new.uid = cr.uid /\ new.ann = cr.ann \cup {crossplaneExternalName}
      BY DEF Annotated, TypeOK, Object
    <3>3. createIncomplete \notin new.ann
      BY <1>2, <3>2 DEF Initialize, CreateInv, CopyInv, Early,
                        createIncomplete, crossplaneExternalName
    <3>4. crossplaneCreateSucceeded \in new.ann => crossplaneCreateSucceeded \in cr.ann
      BY <3>2 DEF crossplaneCreateSucceeded, crossplaneExternalName
    <3>5. UpdateCopy(new, "observe") /\ UNCHANGED <<job, uids>> /\ Early
      BY <1>2, <2>2 DEF Initialize, bounds, Early
    <3> QED BY <3>1, <3>2, <3>3, <3>4, <3>5, UpdateCopyCreate
  <2> QED BY <2>1, <2>2
<1>3. CASE ObserveError
  BY <1>3, ReturnSame DEF ObserveError, bounds
<1>4. CASE ObserveNotFound
  <2>1. CASE Return
    BY <1>4, <2>1, ReturnSame DEF ObserveNotFound, bounds
  <2>2. CASE pc' = "observed" /\ UNCHANGED <<cr, crCurrent>>
    BY <1>4, <2>2 DEF ObserveNotFound, CreateInv, CacheInv, UidInv, CopyInv, MarkInv,
                      CreateOnce, CreatedFor, Early, api, bounds
  <2> QED BY <1>4, <2>1, <2>2 DEF ObserveNotFound
<1>5. CASE ObserveFound
  <2>1. /\ cr'.uid = cr.uid /\ cr.ann \subseteq cr'.ann
        /\ createIncomplete \in cr'.ann => createIncomplete \in cr.ann
    BY <1>5 DEF ObserveFound, Annotated, TypeOK, Object, createIncomplete,
                providerKopsCreateComplete
  <2> QED BY <1>5, <2>1 DEF ObserveFound, CreateInv, CacheInv, UidInv, CopyInv, MarkInv,
                            CreateOnce, CreatedFor, Early, api, bounds
<1>6. CASE Delete
  <2>1. CASE UNCHANGED api
    BY <1>6, <2>1, ReturnSame DEF Delete, bounds
  <2>2. CASE Write(NoObject)
    <3>1. NoObject.uid = 0
      BY DEF NoObject, NewObject
    <3>2. ~CreatedFor(0)
      BY DEF CreateInv, UidInv, CreatedFor
    <3>3. SameJobs /\ UNCHANGED uids
      BY <1>6 DEF Delete, SameJobs, bounds
    <3>4. cacheCurrent' => cached' = obj'
      BY <2>2 DEF Write, CreateInv, CacheInv
    <3> QED BY <1>6, <2>2, <3>1, <3>2, <3>3, <3>4, ReturnCreate DEF Write, Delete
  <2> QED BY <1>6, <2>1, <2>2 DEF Delete
<1>7. CASE AddFinalizer
  <2>1. CASE cr.finalizer
    BY <1>7, <2>1 DEF AddFinalizer, CreateInv, CacheInv, UidInv, CopyInv, MarkInv,
                      CreateOnce, CreatedFor, Early, api, bounds
  <2>2. CASE ~cr.finalizer
    <3> DEFINE new == [cr EXCEPT !.finalizer = TRUE]
    <3>1. new \in Object /\ new.uid = cr.uid /\ new.ann = cr.ann
      BY DEF TypeOK, Object
    <3>2. createIncomplete \notin new.ann
      BY <1>7, <3>1 DEF AddFinalizer, CreateInv, CopyInv, Early
    <3>3. UpdateCopy(new, "managed") /\ UNCHANGED <<job, uids>> /\ Early
      BY <1>7, <2>2 DEF AddFinalizer, bounds, Early
    <3> QED BY <3>1, <3>2, <3>3, UpdateCopyCreate
  <2> QED BY <2>1, <2>2
<1>8. CASE UpToDate
  BY <1>8, ReturnSame DEF UpToDate, bounds
<1>9. CASE MarkPending
  <2> DEFINE new == Annotated(cr, {createIncomplete})
  <2>1. new \in Object
    BY AnnotatedType DEF Annotation, TypeOK
  <2>2. new.uid = cr.uid /\ new.ann = cr.ann \cup {createIncomplete}
    BY DEF Annotated, TypeOK, Object
  <2>3. crossplaneCreateSucceeded \in new.ann => crossplaneCreateSucceeded \in cr.ann
    BY <2>2 DEF crossplaneCreateSucceeded, createIncomplete
  <2>4. UpdateCopy(new, "create") /\ UNCHANGED <<job, uids>> /\ Early
    BY <1>9 DEF MarkPending, bounds, Early
  <2> QED BY <2>1, <2>2, <2>3, <2>4, UpdateCopyCreate
<1>10. CASE CreateAlready
  <2>1. cr'.uid = cr.uid /\ cr'.ann = (cr.ann \ {createIncomplete}) \cup {crossplaneCreateSucceeded}
    BY <1>10 DEF CreateAlready, CreateReturns, TypeOK, Object
  <2> QED BY <1>10, <2>1 DEF CreateAlready, CreateReturns, CreateInv, CacheInv, UidInv, CopyInv,
                             MarkInv, CreateOnce, CreatedFor, Early, api, bounds
<1>11. CASE Create
  <2>1. cr'.uid = cr.uid /\ cr'.ann = (cr.ann \ {createIncomplete}) \cup {crossplaneCreateSucceeded}
    BY <1>11 DEF Create, CreateReturns, TypeOK, Object
  <2>2. PICK j \in Job :
           /\ job[j].pc = "idle"
           /\ job' = [job EXCEPT ![j] = [kind |-> "create", uid |-> cr.uid, pc |-> "createCluster"]]
    BY <1>11 DEF Create, Start
  <2>3. job'[j].kind = "create" /\ job'[j].uid = cr.uid
    BY <2>2 DEF TypeOK
  <2>4. \A i \in Job \ {j} : job'[i] = job[i]
    BY <2>2 DEF TypeOK
  <2>5. ~CreatedFor(cr.uid) /\ ~CreatedFor(obj.uid)
    BY <1>11 DEF Create, CreateGuarded, CreateInv, MarkInv
  <2>6. CreateOnce'
    BY <2>3, <2>4, <2>5 DEF CreateInv, CreateOnce, CreatedFor
  <2>7. /\ obj # NoObject /\ obj' = Annotated(obj, createLockKeys) /\ pc' = "critical"
        /\ cacheCurrent' = (cacheCurrent /\ obj' = obj) /\ crCurrent' = (crCurrent /\ obj' = obj)
        /\ UNCHANGED <<cached, uids>>
    BY <1>11 DEF Create, CreateReturns, lockCluster, annotateCluster, WriteBehind, Write, bounds
  <2>8. obj'.uid = obj.uid /\ obj'.ann = obj.ann \cup createLockKeys
    BY <2>7 DEF Annotated, TypeOK, Object
  <2>9. CacheInv' /\ CopyInv'
    BY <2>1, <2>7 DEF CreateInv, CacheInv, CopyInv, Early
  <2>10. cr.uid # 0 /\ obj.uid # 0
    BY <1>11, <2>7 DEF Create, CreateInv, UidInv
  <2>11. UidInv'
    BY <2>1, <2>3, <2>4, <2>7, <2>8, <2>10 DEF CreateInv, UidInv
  <2>12. MarkInv'
    <3>1. CreatedFor(obj.uid)' => cr.uid = obj.uid
      BY <2>3, <2>4, <2>5, <2>8 DEF CreatedFor
    <3>2. cr.uid = obj.uid =>
            crossplaneCreateSucceeded \in obj.ann \/ createIncomplete \in obj.ann
      BY <1>11 DEF Create, CreateInv, MarkInv
    <3> QED BY <2>1, <2>7, <2>8, <3>1, <3>2 DEF MarkInv
  <2> QED BY <2>6, <2>9, <2>11, <2>12 DEF CreateInv
<1>12. CASE CreateFails
  <2>1. cr'.uid = cr.uid /\ cr'.ann = cr.ann \ {createIncomplete} /\ pc' = "critical"
    BY <1>12 DEF CreateFails, CreateReturns, TypeOK, Object
  <2>2. crossplaneCreateSucceeded \notin cr.ann /\ pc = "create"
    BY <1>12 DEF CreateFails, CreateGuarded
  <2>3. ~CreatedFor(obj.uid)
    BY <2>2 DEF CreateInv, MarkInv
  <2>4. UNCHANGED <<cached, uids, job>>
    BY <1>12 DEF CreateFails, lockCluster, annotateCluster, WriteBehind, Write, bounds, api
  <2>5. /\ cacheCurrent' => cacheCurrent /\ obj' = obj
        /\ crCurrent' => crCurrent /\ obj' = obj
        /\ obj'.uid = obj.uid /\ (obj' = obj \/ obj # NoObject)
    <3>1. CASE lockCluster(createLockKeys)
      BY <3>1 DEF lockCluster, annotateCluster, WriteBehind, Write, Annotated, TypeOK, Object
    <3>2. CASE UNCHANGED <<api, crCurrent>>
      BY <3>2 DEF api
    <3> QED BY <1>12, <3>1, <3>2 DEF CreateFails
  <2>6. CacheInv' /\ CopyInv' /\ MarkInv' /\ CreateOnce'
    BY <2>1, <2>3, <2>4, <2>5
    DEF CreateInv, CacheInv, CopyInv, MarkInv, CreateOnce, CreatedFor, Early
  <2>7. UidInv'
    BY <2>1, <2>2, <2>4, <2>5 DEF CreateInv, UidInv
  <2> QED BY <2>6, <2>7 DEF CreateInv
<1>13. CASE Critical
  <2>1. SameJobs /\ UNCHANGED uids
    BY <1>13 DEF Critical, SameJobs, bounds
  <2>2. CASE UNCHANGED api
    BY <1>13, <2>2, ReturnSame DEF Critical, bounds
  <2>3. CASE crCurrent /\ Write(cr)
    <3>1. cr.uid = obj.uid /\ cr.uid # 0
      BY <1>13, <2>3 DEF CreateInv, CopyInv, UidInv, Critical
    <3>2. CreatedFor(obj.uid) => crossplaneCreateSucceeded \in cr.ann
      BY <1>13 DEF Critical, CreateInv, MarkInv
    <3>3. cacheCurrent' => cached' = obj'
      BY <2>3 DEF Write, CreateInv, CacheInv
    <3> QED BY <1>13, <2>1, <2>3, <3>1, <3>2, <3>3, ReturnCreate DEF Critical, Write
  <2>4. CASE /\ obj # NoObject
             /\ Write([obj EXCEPT !.ann = (@ \ {createIncomplete}) \cup cr.ann])
    <3>1. obj'.uid = obj.uid /\ obj'.ann = (obj.ann \ {createIncomplete}) \cup cr.ann
      BY <2>4 DEF Write, TypeOK, Object
    <3>2. obj.uid # 0
      BY <2>4 DEF CreateInv, UidInv
    <3>3. CreatedFor(obj.uid) => crossplaneCreateSucceeded \in cr.ann
      BY <1>13 DEF Critical, CreateInv, MarkInv
    <3>4. cacheCurrent' => cached' = obj'
      BY <2>4 DEF Write, CreateInv, CacheInv
    <3> QED BY <1>13, <2>1, <2>4, <3>1, <3>2, <3>3, <3>4, ReturnCreate DEF Critical, Write
  <2> QED BY <1>13, <2>2, <2>3, <2>4 DEF Critical
<1>14. CASE UpdateSkipped
  BY <1>14, ReturnSame DEF UpdateSkipped, bounds
<1>15. CASE Update
  <2>1. PICK j \in Job :
           /\ job[j].pc = "idle"
           /\ job' = [job EXCEPT ![j] = [kind |-> "update", uid |-> cr.uid, pc |-> "updateCluster"]]
    BY <1>15 DEF Update, Start
  <2>2. job'[j].kind = "update" /\ job'[j].uid = cr.uid
    BY <2>1 DEF TypeOK
  <2>3. \A i \in Job \ {j} : job'[i] = job[i]
    BY <2>1 DEF TypeOK
  <2>4. /\ obj # NoObject /\ obj' = Annotated(obj, updateLockKeys)
        /\ cacheCurrent' = (cacheCurrent /\ obj' = obj)
        /\ UNCHANGED <<cached, uids>>
        /\ cr' = NoObject /\ ~crCurrent' /\ pc' = "idle" /\ pc # "idle"
    BY <1>15 DEF Update, Return, Write, bounds
  <2>5. obj'.uid = obj.uid /\ obj'.ann = obj.ann \cup updateLockKeys /\ cr'.uid = 0
    BY <2>4 DEF Annotated, TypeOK, Object, NoObject, NewObject
  <2>6. CacheInv' /\ CopyInv'
    BY <2>4 DEF CreateInv, CacheInv, CopyInv, Early
  <2>7. UidInv'
    BY <2>2, <2>3, <2>4, <2>5 DEF CreateInv, UidInv, TypeOK
  <2>8. \A uid : CreatedFor(uid)' => CreatedFor(uid)
    BY <2>2, <2>3 DEF CreatedFor
  <2>9. MarkInv'
    BY <2>4, <2>5, <2>8 DEF CreateInv, MarkInv
  <2>10. CreateOnce'
    BY <2>2, <2>3 DEF CreateInv, CreateOnce
  <2> QED BY <2>6, <2>7, <2>9, <2>10 DEF CreateInv
<1>16. CASE UpdateFails
  <2>1. SameJobs /\ UNCHANGED uids /\ Return
    BY <1>16 DEF UpdateFails, SameJobs, bounds
  <2>2. CASE UNCHANGED api
    BY <1>16, <2>1, <2>2, ReturnSame DEF UpdateFails, bounds
  <2>3. CASE obj # NoObject /\ Write(Annotated(obj, updateLockKeys))
    <3>1. obj'.uid = obj.uid /\ obj'.ann = obj.ann \cup updateLockKeys
      BY <2>3 DEF Write, Annotated, TypeOK, Object
    <3>2. obj.uid # 0
      BY <2>3 DEF CreateInv, UidInv
    <3>3. cacheCurrent' => cached' = obj'
      BY <2>3 DEF Write, CreateInv, CacheInv
    <3>4. CreatedFor(obj.uid)
          => crossplaneCreateSucceeded \in obj.ann \/ createIncomplete \in obj.ann
      BY DEF CreateInv, MarkInv
    <3> QED BY <2>1, <2>3, <3>1, <3>2, <3>3, <3>4, ReturnCreate DEF Write
  <2> QED BY <1>16, <2>2, <2>3 DEF UpdateFails
<1>17. CASE LockPanics
  BY <1>17, ReturnSame DEF LockPanics, bounds
<1> QED BY <1>1, <1>2, <1>3, <1>4, <1>5, <1>6, <1>7, <1>8, <1>9, <1>10, <1>11, <1>12,
           <1>13, <1>14, <1>15, <1>16, <1>17 DEF ReconcilerStep

(* Neither a job nor a user touches the marks of a creation. *)
LEMMA StepCreateOthers ==
    ASSUME TypeOK, CreateInv,
           CacheSync \/ (\E j \in Job : JobStep(j)) \/ Environment \/ UNCHANGED vars
    PROVE  CreateInv'
<1> DEFINE SameMarks(new) ==
      /\ new.uid = obj.uid /\ obj # NoObject
      /\ \A a \in {crossplaneCreateSucceeded, createIncomplete} : a \in new.ann <=> a \in obj.ann
<1>1. ASSUME NEW j \in Job, NEW phase, Goto(j, phase) PROVE SameJobs
  BY <1>1 DEF Goto, SameJobs, TypeOK
<1>2. ASSUME UNCHANGED <<obj, cached, cacheCurrent, cr, crCurrent, pc, uids>>, SameJobs
      PROVE  CreateInv'
  BY <1>2 DEF CreateInv, CacheInv, UidInv, CopyInv, MarkInv, CreateOnce, CreatedFor, Early, SameJobs
<1>3. ASSUME NEW a \in {providerKopsCreateComplete, providerKopsCreateFail},
             annotateCluster({a}), SameJobs, UNCHANGED <<cr, pc, uids>>
      PROVE  CreateInv'
  <2>1. a \in Annotation /\ a \notin {crossplaneCreateSucceeded, createIncomplete}
    BY DEF Annotation, providerKopsCreateComplete, providerKopsCreateFail,
           crossplaneCreateSucceeded, createIncomplete
  <2> DEFINE new == Annotated(obj, {a})
  <2>2. new \in Object
    BY <2>1, AnnotatedType DEF TypeOK
  <2>3. SameMarks(new)
    BY <1>3, <2>1 DEF annotateCluster, Annotated, TypeOK, Object
  <2>4. WriteBehind(new) /\ UNCHANGED cached
    BY <1>3 DEF annotateCluster, WriteBehind, Write
  <2> QED BY <1>3, <2>2, <2>3, <2>4, BehindCreate
<1>4. ASSUME NEW keys, keys \subseteq createLockKeys, NEW add \in {{}, {providerKopsCreateComplete}},
             obj # NoObject, WriteBehind([obj EXCEPT !.ann = (@ \ keys) \cup add]),
             SameJobs, UNCHANGED <<cr, pc, uids>>
      PROVE  CreateInv'
  <2> DEFINE new == [obj EXCEPT !.ann = (@ \ keys) \cup add]
  <2>1. \A a \in {crossplaneCreateSucceeded, createIncomplete} : a \notin keys /\ a \notin add
    BY <1>4 DEF createLockKeys, providerKopsCreateComplete, providerKopsCreatePending,
                providerKopsUpdateLocked, crossplaneCreateSucceeded, createIncomplete
  <2>2. add \subseteq Annotation
    BY DEF Annotation
  <2>3. new \in Object
    BY <2>2 DEF TypeOK, Object
  <2>4. SameMarks(new)
    BY <1>4, <2>1 DEF TypeOK, Object
  <2>5. UNCHANGED cached
    BY <1>4 DEF WriteBehind, Write
  <2> QED BY <1>4, <2>3, <2>4, <2>5, BehindCreate
<1>5. ASSUME ProcessDies, uids' = uids PROVE CreateInv'
  <2>1. SameJobs
    BY <1>5 DEF ProcessDies, SameJobs, TypeOK
  <2>2. obj' = obj /\ cached' = obj /\ Return
    BY <1>5 DEF ProcessDies
  <2>3. obj.uid = 0 => obj = NoObject
    BY DEF CreateInv, UidInv
  <2>4. CreatedFor(obj.uid)
        => crossplaneCreateSucceeded \in obj.ann \/ createIncomplete \in obj.ann
    BY DEF CreateInv, MarkInv
  <2> QED BY <1>5, <2>1, <2>2, <2>3, <2>4, ReturnCreate
<1>6. CASE CacheSync
  BY <1>6 DEF CacheSync, reconciler, bounds, CreateInv, CacheInv, UidInv, CopyInv, MarkInv,
              CreateOnce, CreatedFor, Early
<1>7. ASSUME NEW j \in Job, JobStep(j) PROVE CreateInv'
  <2>1. CASE createCluster(j) \/ kopsUpdateCluster(j) \/ runKops(j)
    <3>1. SameJobs
      BY <1>1, <2>1 DEF createCluster, kopsUpdateCluster, runKops
    <3> QED BY <1>2, <2>1, <3>1
            DEF createCluster, kopsUpdateCluster, runKops, api, reconciler, bounds
  <2>2. CASE annotateComplete(j)
    <3>1. SameJobs
      BY <1>1, <2>2 DEF annotateComplete
    <3> QED BY <1>2, <1>3, <2>2, <3>1 DEF annotateComplete, api, bounds
  <2>3. CASE unlock(j)
    <3>1. SameJobs
      BY <1>1, <2>3 DEF unlock
    <3>2. unlockKeys(j) \subseteq createLockKeys
      BY DEF unlockKeys, createLockKeys, updateLockKeys
    <3>3. CASE unlockCluster(unlockKeys(j))
      <4>1. [obj EXCEPT !.ann = @ \ unlockKeys(j)]
            = [obj EXCEPT !.ann = (@ \ unlockKeys(j)) \cup {}]
        OBVIOUS
      <4>2. obj # NoObject /\ WriteBehind([obj EXCEPT !.ann = (@ \ unlockKeys(j)) \cup {}])
        BY <3>3, <4>1 DEF unlockCluster
      <4>3. UNCHANGED <<cr, pc, uids>>
        BY <2>3 DEF unlock, bounds
      <4> HIDE DEF SameMarks
      <4> QED BY <1>4, <3>1, <3>2, <4>2, <4>3
    <3>4. CASE UNCHANGED <<api, crCurrent>>
      BY <1>2, <2>3, <3>1, <3>4 DEF unlock, api, bounds
    <3> QED BY <2>3, <3>3, <3>4 DEF unlock
  <2>4. CASE annotateFail(j)
    <3>1. SameJobs
      BY <1>1, <2>4 DEF annotateFail
    <3> QED BY <1>2, <1>3, <2>4, <3>1 DEF annotateFail, api, bounds
  <2>5. CASE JobPanics(j)
    BY <1>5, <2>5 DEF JobPanics, bounds
  <2> QED BY <1>7, <2>1, <2>2, <2>3, <2>4, <2>5 DEF JobStep
<1>8. CASE Environment
  <2>0. UNCHANGED job => SameJobs
    BY DEF SameJobs
  <2>1. CASE Crash
    BY <1>5, <2>1 DEF Crash
  <2>2. CASE Edit
    BY <2>2 DEF Edit, CreateInv, CacheInv, UidInv, CopyInv, MarkInv, CreateOnce, CreatedFor, Early
  <2>3. CASE RequestDelete
    <3> DEFINE new == [obj EXCEPT !.deleting = TRUE]
    <3>1. new \in Object /\ SameMarks(new)
      BY <2>3 DEF RequestDelete, TypeOK, Object
    <3>2. WriteBehind(new) \/ WriteBehind(NoObject)
      BY <2>3 DEF RequestDelete
    <3>3. UNCHANGED <<cached, cr, pc, uids>> /\ SameJobs
      BY <2>0, <2>3 DEF RequestDelete, WriteBehind, Write, bounds
    <3> HIDE DEF new
    <3> QED BY <3>1, <3>2, <3>3, NoObjectType, BehindCreate
  <2>4. CASE Recreate
    <3>1. PICK ann \in {{}, {crossplaneExternalName}} : WriteBehind(NewObject(uids', ann))
      BY <2>4 DEF Recreate
    <3>2. uids' = uids + 1 /\ obj = NoObject /\ UNCHANGED <<cached, cr, pc, job>>
      BY <2>4, <3>1 DEF Recreate, WriteBehind, Write
    <3>3. /\ obj'.uid = uids + 1 /\ obj' # obj
          /\ ~cacheCurrent' /\ ~crCurrent'
      <4>1. NewObject(uids + 1, ann).uid = uids + 1 /\ NoObject.uid = 0
        BY DEF NewObject, NoObject
      <4>2. uids + 1 # 0
        BY DEF TypeOK
      <4>3. obj' = NewObject(uids + 1, ann)
        BY <3>1, <3>2 DEF WriteBehind, Write
      <4> QED BY <3>1, <3>2, <4>1, <4>2, <4>3 DEF WriteBehind, Write
    <3>4. ~CreatedFor(uids + 1)
      BY DEF CreatedFor, CreateInv, UidInv, TypeOK
    <3>5. UidInv'
      BY <3>2, <3>3 DEF CreateInv, UidInv, TypeOK, Object
    <3>6. cr.uid # uids + 1
      BY DEF CreateInv, UidInv, TypeOK, Object
    <3>7. CacheInv' /\ CopyInv' /\ MarkInv' /\ CreateOnce'
      BY <3>2, <3>3, <3>4, <3>6 DEF CreateInv, CacheInv, CopyInv, MarkInv, CreateOnce, CreatedFor, Early
    <3> QED BY <3>5, <3>7 DEF CreateInv
  <2>5. CASE Recover
    <3>1. UNCHANGED <<cr, pc, uids>> /\ obj # NoObject /\ SameJobs
      BY <2>0, <2>5 DEF Recover
    <3>2. PICK add \in {{}, {providerKopsCreateComplete}} :
             WriteBehind([obj EXCEPT !.ann = (@ \ createLockKeys) \cup add])
      <4>1. CASE providerKopsCreatePending \in obj.ann
        BY <2>5, <4>1, Zenon DEF Recover
      <4>2. CASE providerKopsCreatePending \notin obj.ann
        BY <2>5, <4>2, Zenon DEF Recover
      <4> QED BY <4>1, <4>2
    <3> HIDE DEF SameMarks
    <3> QED BY <1>4, <3>1, <3>2
  <2> QED BY <1>8, <2>1, <2>2, <2>3, <2>4, <2>5 DEF Environment
<1>9. CASE UNCHANGED vars
  BY <1>9 DEF vars, api, reconciler, bounds, CreateInv, CacheInv, UidInv, CopyInv, MarkInv,
              CreateOnce, CreatedFor, Early
<1> QED BY <1>6, <1>7, <1>8, <1>9

LEMMA CreateInvariant == Spec => [](TypeOK /\ CreateInv)
<1>1. Init => TypeOK /\ CreateInv
  BY InitType, InitCreate
<1>2. TypeOK /\ CreateInv /\ [Next]_vars => TypeOK' /\ CreateInv'
  BY StepType, StepCreateReconciler, StepCreateOthers DEF Next
<1> QED BY <1>1, <1>2, PTL DEF Spec

(* However stale the cache, whatever request or reply is lost, however     *)
(* often the process dies and the CR is deleted and created again: Create  *)
(* starts one job at most for each incarnation of the CR.                  *)
THEOREM CreatesOnce == Spec => []CreateOnce
<1>1. CreateInv => CreateOnce
  BY DEF CreateInv
<1> QED BY <1>1, CreateInvariant, PTL

-----------------------------------------------------------------------------
(* No annotation is lost.                                                  *)

KeepsAnnotations == obj'.uid = obj.uid => obj.ann \ {createIncomplete} \subseteq obj'.ann

LEMMA UpdateCopyKeeps ==
    ASSUME CreateInv, NEW new, NEW next, UpdateCopy(new, next), cr.ann \subseteq new.ann
    PROVE  KeepsAnnotations
BY DEF CreateInv, CopyInv, KeepsAnnotations, UpdateCopy, Write, api

LEMMA ReconcilerKeeps ==
    ASSUME TypeOK, CreateInv, ReconcilerStep PROVE KeepsAnnotations
<1>1. CASE UNCHANGED obj
  BY <1>1 DEF KeepsAnnotations
<1>2. ASSUME NEW keys, Write(Annotated(obj, keys)) PROVE KeepsAnnotations
  BY <1>2 DEF KeepsAnnotations, Write, Annotated, TypeOK, Object
<1>3. CASE Initialize
  <2>1. CASE UpdateCopy(Annotated(cr, {crossplaneExternalName}), "observe")
    <3>1. cr.ann \subseteq Annotated(cr, {crossplaneExternalName}).ann
      BY DEF Annotated, TypeOK, Object
    <3> QED BY <2>1, <3>1, UpdateCopyKeeps
  <2> QED BY <1>1, <1>3, <2>1 DEF Initialize, api
<1>4. CASE Delete
  <2>1. CASE crCurrent /\ Write(NoObject)
    <3>1. obj.uid # 0 /\ obj'.uid = 0
      BY <1>4, <2>1 DEF Delete, Write, NoObject, NewObject, CreateInv, CopyInv, UidInv
    <3> QED BY <3>1 DEF KeepsAnnotations
  <2> QED BY <1>1, <1>4, <2>1 DEF Delete, api
<1>5. CASE AddFinalizer
  <2>1. CASE UpdateCopy([cr EXCEPT !.finalizer = TRUE], "managed")
    <3>1. [cr EXCEPT !.finalizer = TRUE].ann = cr.ann
      BY DEF TypeOK, Object
    <3> QED BY <2>1, <3>1, UpdateCopyKeeps
  <2> QED BY <1>1, <1>5, <2>1 DEF AddFinalizer, api
<1>6. CASE MarkPending
  <2>1. cr.ann \subseteq Annotated(cr, {createIncomplete}).ann
    BY DEF Annotated, TypeOK, Object
  <2> QED BY <1>6, <2>1, UpdateCopyKeeps DEF MarkPending
<1>7. CASE Create
  BY <1>2, <1>7 DEF Create, lockCluster, annotateCluster, WriteBehind
<1>8. CASE CreateFails
  BY <1>1, <1>2, <1>8 DEF CreateFails, lockCluster, annotateCluster, WriteBehind, api
<1>9. CASE Critical
  <2>1. CASE crCurrent /\ Write(cr)
    BY <2>1 DEF KeepsAnnotations, Write, CreateInv, CopyInv
  <2>2. CASE Write([obj EXCEPT !.ann = (@ \ {createIncomplete}) \cup cr.ann])
    BY <2>2 DEF KeepsAnnotations, Write, TypeOK, Object
  <2> QED BY <1>1, <1>9, <2>1, <2>2 DEF Critical, api
<1>10. CASE Update
  BY <1>2, <1>10 DEF Update
<1>11. CASE UpdateFails
  BY <1>1, <1>2, <1>11 DEF UpdateFails, api
<1> QED BY <1>1, <1>3, <1>4, <1>5, <1>6, <1>7, <1>8, <1>9, <1>10, <1>11
        DEF ReconcilerStep, Fetch, ObserveError, ObserveNotFound, ObserveFound, UpToDate,
            CreateAlready, UpdateSkipped, LockPanics, api

(* What a step may take off the CR. *)
Takes(k) ==
    \/ ReconcilerStep /\ k = createIncomplete
    \/ \E j \in Job : /\ job[j].pc = "unlock" /\ job'[j] # job[j]
                      /\ k \in unlockKeys(j)
    \/ Recover /\ k \in createLockKeys

Keeps == obj'.uid = obj.uid => \A k \in obj.ann \ obj'.ann : Takes(k)

LEMMA JobKeeps ==
    ASSUME TypeOK, NEW j \in Job, JobStep(j) PROVE Keeps
<1>1. CASE UNCHANGED obj
  BY <1>1 DEF Keeps
<1>2. ASSUME NEW keys, annotateCluster(keys) PROVE Keeps
  BY <1>2 DEF Keeps, annotateCluster, WriteBehind, Write, Annotated, TypeOK, Object
<1>3. CASE unlock(j)
  <2>1. CASE unlockCluster(unlockKeys(j))
    <3>1. obj.ann \ obj'.ann \subseteq unlockKeys(j)
      BY <2>1 DEF unlockCluster, WriteBehind, Write, TypeOK, Object
    <3>2. job[j].pc = "unlock" /\ job'[j].pc \in {"done", "annotateFail", "failed"}
      BY <1>3 DEF unlock, Goto, TypeOK
    <3> QED BY <3>1, <3>2 DEF Keeps, Takes
  <2> QED BY <1>1, <1>3, <2>1 DEF unlock, api
<1>4. CASE annotateComplete(j) \/ annotateFail(j)
  BY <1>1, <1>2, <1>4 DEF annotateComplete, annotateFail, api
<1> QED BY <1>1, <1>3, <1>4
        DEF JobStep, createCluster, kopsUpdateCluster, runKops, JobPanics, ProcessDies, api

LEMMA EnvironmentKeeps ==
    ASSUME TypeOK, CreateInv, Environment PROVE Keeps
<1>1. CASE UNCHANGED obj
  BY <1>1 DEF Keeps
<1>2. CASE RequestDelete
  <2>1. CASE obj' = [obj EXCEPT !.deleting = TRUE]
    BY <2>1 DEF Keeps, TypeOK, Object
  <2>2. CASE obj' = NoObject
    <3>1. obj.uid # 0 /\ obj'.uid = 0
      BY <1>2, <2>2 DEF RequestDelete, NoObject, NewObject, CreateInv, UidInv
    <3> QED BY <3>1 DEF Keeps
  <2> QED BY <1>2, <2>1, <2>2 DEF RequestDelete, WriteBehind, Write
<1>3. CASE Recreate
  <2>1. obj.ann = {}
    BY <1>3 DEF Recreate, NoObject, NewObject
  <2> QED BY <2>1 DEF Keeps
<1>4. CASE Recover
  <2>1. \E done : obj' = [obj EXCEPT !.ann = (@ \ createLockKeys) \cup done]
    BY <1>4 DEF Recover, WriteBehind, Write
  <2>2. obj.ann \ obj'.ann \subseteq createLockKeys
    BY <2>1 DEF TypeOK, Object
  <2> QED BY <1>4, <2>2 DEF Keeps, Takes
<1> QED BY <1>1, <1>2, <1>3, <1>4 DEF Environment, Crash, ProcessDies, Edit

LEMMA StepKeeps == TypeOK /\ CreateInv /\ [Next]_vars => Keeps
<1>1. ASSUME TypeOK, CreateInv, ReconcilerStep PROVE Keeps
  BY <1>1, ReconcilerKeeps DEF KeepsAnnotations, Keeps, Takes
<1>2. CacheSync \/ UNCHANGED vars => Keeps
  BY DEF CacheSync, vars, api, Keeps
<1> QED BY <1>1, <1>2, JobKeeps, EnvironmentKeeps DEF Next

(* No write of the provider, which may be minutes older than what it       *)
(* replaces, loses an annotation that another of its actors or a user set  *)
(* meanwhile: what is taken off is what the writer is to take off.         *)
THEOREM NoAnnotationLost == Spec => AnnotationsKept
<1>1. TypeOK /\ CreateInv /\ [Next]_vars => [Keeps]_vars
  BY StepKeeps
<1> QED BY <1>1, CreateInvariant, PTL DEF Spec, AnnotationsKept, Keeps, Takes

-----------------------------------------------------------------------------
(* A creation that completes is annotated.                                 *)

MarkedInv ==
    /\ CreationIsMarked
    /\ \A j \in Job : job[j].kind = "create" => job[j].pc \notin UpdatePhase

(* The object keeps its uid, goes, or comes as the next incarnation. *)
LEMMA Incarnations ==
    ASSUME TypeOK, CreateInv, [Next]_vars
    PROVE  obj'.uid \in {obj.uid, 0, uids + 1}
<1>1. CASE UNCHANGED obj
  BY <1>1
<1>3. ASSUME NEW keys, Write(Annotated(obj, keys)) PROVE obj'.uid = obj.uid
  BY <1>3 DEF Write, Annotated, TypeOK, Object
<1>4. ASSUME NEW new, NEW next, UpdateCopy(new, next), new.uid = cr.uid
      PROVE  obj'.uid = obj.uid
  BY <1>4 DEF UpdateCopy, Write, api, CreateInv, CopyInv
<1>5. NoObject.uid = 0
  BY DEF NoObject, NewObject
<1>6. CASE Initialize \/ AddFinalizer \/ MarkPending
  <2>1. ASSUME NEW keys, NEW next, UpdateCopy(Annotated(cr, keys), next)
        PROVE  obj'.uid = obj.uid
    <3>1. Annotated(cr, keys).uid = cr.uid
      BY DEF Annotated, TypeOK, Object
    <3> QED BY <1>4, <2>1, <3>1
  <2>2. ASSUME UpdateCopy([cr EXCEPT !.finalizer = TRUE], "managed")
        PROVE  obj'.uid = obj.uid
    <3>1. [cr EXCEPT !.finalizer = TRUE].uid = cr.uid
      BY DEF TypeOK, Object
    <3> QED BY <1>4, <2>2, <3>1
  <2> QED BY <1>6, <2>1, <2>2 DEF Initialize, AddFinalizer, MarkPending, api
<1>7. CASE Create \/ CreateFails \/ Update \/ UpdateFails
  BY <1>3, <1>7 DEF Create, CreateFails, Update, UpdateFails, lockCluster, annotateCluster,
                   WriteBehind, api
<1>8. CASE Critical
  BY <1>8 DEF Critical, Write, CreateInv, CopyInv, TypeOK, Object, api
<1>9. CASE Delete
  BY <1>5, <1>9 DEF Delete, Write, api
<1>10. ASSUME NEW j \in Job, annotateComplete(j) \/ unlock(j) \/ annotateFail(j)
       PROVE  obj'.uid = obj.uid
  <2>1. ASSUME NEW keys, annotateCluster(keys) PROVE obj'.uid = obj.uid
    BY <1>3, <2>1 DEF annotateCluster, WriteBehind
  <2>2. unlockCluster(unlockKeys(j)) => obj'.uid = obj.uid
    BY DEF unlockCluster, WriteBehind, Write, TypeOK, Object
  <2> QED BY <1>10, <2>1, <2>2 DEF annotateComplete, unlock, annotateFail, api
<1>11. CASE RequestDelete
  BY <1>5, <1>11 DEF RequestDelete, WriteBehind, Write, TypeOK, Object
<1>12. CASE Recreate
  BY <1>12 DEF Recreate, WriteBehind, Write, NewObject
<1>13. CASE Recover
  <2>1. \E ann : obj' = [obj EXCEPT !.ann = ann]
    BY <1>13 DEF Recover, WriteBehind, Write
  <2> QED BY <2>1 DEF TypeOK, Object
<1> QED BY <1>1, <1>6, <1>7, <1>8, <1>9, <1>10, <1>11, <1>12, <1>13
        DEF Next, ReconcilerStep, JobStep, Environment, CacheSync, Fetch, ObserveError,
            ObserveNotFound, ObserveFound, UpToDate, CreateAlready, UpdateSkipped,
            LockPanics, createCluster, kopsUpdateCluster, runKops, JobPanics, ProcessDies,
            Crash, Edit, vars, api

(* A creation gets to its unlock by writing the annotation. *)
LEMMA CreationPhases ==
    ASSUME TypeOK, MarkedInv, [Next]_vars, NEW j \in Job, job'[j].kind = "create"
    PROVE  /\ job'[j].pc \notin UpdatePhase
           /\ job'[j].pc \in {"unlock", "done"} =>
                 /\ job[j].kind = "create" /\ job'[j].uid = job[j].uid
                 /\ \/ job[j].pc \in {"unlock", "done"}
                    \/ annotateCluster({providerKopsCreateComplete})
<1> USE DEF MarkedInv, UpdatePhase
<1>1. CASE job' = job
  BY <1>1
<1>2. ASSUME NEW kind, NEW phase, Start(kind, phase),
             <<kind, phase>> \in {<<"create", "createCluster">>, <<"update", "updateCluster">>}
      PROVE  job'[j] = job[j] \/ (kind = "create" /\ job'[j].pc = "createCluster")
  BY <1>2 DEF Start, TypeOK
<1>3. CASE Create \/ Update
  BY <1>2, <1>3 DEF Create, Update
<1>4. CASE ProcessDies
  BY <1>4 DEF ProcessDies, TypeOK
<1>5. ASSUME NEW i \in Job, JobStep(i), ~JobPanics(i) PROVE
        /\ job'[j].pc \notin UpdatePhase
        /\ job'[j].pc \in {"unlock", "done"} =>
              /\ job[j].kind = "create" /\ job'[j].uid = job[j].uid
              /\ \/ job[j].pc \in {"unlock", "done"}
                 \/ annotateCluster({providerKopsCreateComplete})
  <2>1. PICK phase : Goto(i, phase)
    BY <1>5 DEF JobStep, createCluster, kopsUpdateCluster, runKops, annotateComplete, unlock,
                annotateFail
  <2>2. CASE i # j
    BY <2>1, <2>2 DEF Goto, TypeOK
  <2>3. CASE i = j
    <3>1. job[j].kind = "create" /\ job'[j].uid = job[j].uid
      BY <2>1, <2>3 DEF Goto, TypeOK
    <3>2. \A next : Goto(j, next) => job'[j].pc = next
      BY DEF Goto, TypeOK
    <3>3. OnError(j) = "annotateFail"
      BY <3>1 DEF OnError
    <3>4. CASE createCluster(j) \/ kopsUpdateCluster(j)
      BY <3>2, <3>3, <3>4 DEF createCluster, kopsUpdateCluster, After
    <3>5. CASE runKops(j)
      <4>1. job[j].pc \in {"createSecrets", "secondUpdate", "createRoll"}
        BY <3>1, <3>5 DEF runKops, KopsPhase, CreatePhase
      <4> QED BY <3>2, <3>3, <3>5, <4>1 DEF runKops, After
    <3>6. CASE annotateComplete(j)
      BY <3>1, <3>2, <3>6 DEF annotateComplete
    <3>7. CASE unlock(j)
      BY <3>1, <3>2, <3>7 DEF unlock
    <3>8. CASE annotateFail(j)
      BY <3>1, <3>2, <3>8 DEF annotateFail
    <3> QED BY <1>5, <2>3, <3>4, <3>5, <3>6, <3>7, <3>8 DEF JobStep
  <2> QED BY <2>2, <2>3
<1> QED BY <1>1, <1>3, <1>4, <1>5
        DEF Next, ReconcilerStep, Environment, CacheSync, Fetch, Initialize, ObserveError,
            ObserveNotFound, ObserveFound, Delete, AddFinalizer, UpToDate, MarkPending,
            CreateAlready, CreateFails, Critical, UpdateSkipped, UpdateFails, LockPanics,
            JobPanics, Crash, Edit, RequestDelete, Recreate, Recover, vars

LEMMA StepMarked == TypeOK /\ CreateInv /\ MarkedInv /\ [Next]_vars => MarkedInv'
<1> SUFFICES ASSUME TypeOK, CreateInv, MarkedInv, [Next]_vars PROVE MarkedInv'
  OBVIOUS
<1>1. ASSUME NEW j \in Job, job'[j].kind = "create", job'[j].pc \in {"unlock", "done"},
             job'[j].uid = obj'.uid
      PROVE  providerKopsCreateComplete \in obj'.ann
  <2>1. job[j].kind = "create" /\ job'[j].uid = job[j].uid
    BY <1>1, CreationPhases
  <2>2. job[j].uid \in Nat /\ job[j].uid <= uids /\ job[j].uid # 0 /\ uids \in Nat
    BY <2>1 DEF CreateInv, UidInv, TypeOK
  <2>3. obj'.uid = obj.uid
    BY <1>1, <2>1, <2>2, Incarnations
  <2>4. CASE annotateCluster({providerKopsCreateComplete})
    BY <2>4 DEF annotateCluster, WriteBehind, Write, Annotated, TypeOK, Object
  <2>5. CASE job[j].pc \in {"unlock", "done"}
    <3>1. providerKopsCreateComplete \in obj.ann
      BY <1>1, <2>1, <2>3, <2>5 DEF MarkedInv, CreationIsMarked
    <3>2. ~Takes(providerKopsCreateComplete)
      BY DEF Takes, unlockKeys, createLockKeys, updateLockKeys, createIncomplete,
             providerKopsCreateComplete, providerKopsCreatePending, providerKopsUpdateLocked
    <3> QED BY <2>3, <3>1, <3>2, StepKeeps DEF Keeps
  <2> QED BY <1>1, <2>4, <2>5, CreationPhases
<1> QED BY <1>1, CreationPhases DEF MarkedInv, CreationIsMarked

(* A creation that completed has left the annotation that lets the cluster *)
(* be updated on its CR, and nothing takes it off again, with any number   *)
(* of conflicts, lost replies, incarnations and manual repairs.            *)
THEOREM CreationsAreMarked == Spec => []CreationIsMarked
<1>1. Init => MarkedInv
  BY DEF Init, NoJob, MarkedInv, CreationIsMarked
<1>2. MarkedInv => CreationIsMarked
  BY DEF MarkedInv
<1> QED BY <1>1, <1>2, StepMarked, CreateInvariant, PTL DEF Spec

-----------------------------------------------------------------------------
(* The annotation CreateComplete and the cloud resources.                  *)

(* Phases in which the cloud resources are there. *)
BuiltPhase == UpdatePhase \cup {"createSecrets", "secondUpdate", "createRoll", "annotateComplete"}

BuiltInv ==
    \/ external = "built"
    \/ /\ \A o \in {obj, cached, cr} : providerKopsCreateComplete \notin o.ann
       /\ \A j \in Job : /\ job[j].pc \notin BuiltPhase
                         /\ job[j].kind = "update" => ~Live(j)

LEMMA InitBuilt == ASSUME Init PROVE BuiltInv
<1>1. CASE external = "absent"
  <2>1. obj.ann \subseteq {crossplaneExternalName} /\ cr.ann = {} /\ cached = obj
    BY <1>1 DEF Init, NewObject, NoObject
  <2>2. \A j \in Job : job[j].pc = "idle"
    BY DEF Init, NoJob
  <2> QED BY <2>1, <2>2 DEF BuiltInv, BuiltPhase, UpdatePhase, Live, KopsPhase, CreatePhase,
                            EndPhase, crossplaneExternalName, providerKopsCreateComplete
<1> QED BY <1>1 DEF Init, BuiltInv

(* On a cluster that is not built the annotation is nowhere, no job is far *)
(* enough to write it, and Update is guarded by it.                        *)
LEMMA StepBuilt == ASSUME TypeOK, CreateInv, BuiltInv, [Next]_vars PROVE BuiltInv'
<1> DEFINE None(o) == providerKopsCreateComplete \notin o.ann
           Safe(j) == job[j].pc \notin BuiltPhase /\ (job[j].kind = "update" => ~Live(j))
<1>1. external \in {"absent", "config", "built"} /\ external' \in {"absent", "config", "built"}
  BY StepType DEF TypeOK
<1>2. CASE external = "built"
  BY <1>2 DEF BuiltInv, Next, vars, api, reconciler, bounds, CacheSync, ReconcilerStep, JobStep,
     Environment, Fetch, Initialize, ObserveError, ObserveNotFound, ObserveFound, Delete,
     AddFinalizer, UpToDate, MarkPending, CreateAlready, Create, CreateFails, Critical,
     UpdateSkipped, Update, UpdateFails, LockPanics, createCluster, kopsUpdateCluster, runKops,
     annotateComplete, unlock, annotateFail, JobPanics, ProcessDies, Crash, Edit, RequestDelete,
     Recreate, Recover
<1>3. CASE external # "built" /\ external' # "built"
  <2>1. None(obj) /\ None(cached) /\ None(cr) /\ \A j \in Job : Safe(j)
    BY <1>3 DEF BuiltInv
  <2>2. None(NoObject)
    BY DEF NoObject, NewObject
  <2>3. ASSUME NEW o \in Object, None(o), NEW keys, providerKopsCreateComplete \notin keys
        PROVE  None(Annotated(o, keys))
    BY <2>3 DEF Annotated, Object
  <2>4. \A keys \in {{crossplaneExternalName}, {createIncomplete}, createLockKeys, updateLockKeys,
                     {providerKopsCreateFail}, {crossplaneCreateSucceeded}, {}} :
           providerKopsCreateComplete \notin keys
    BY DEF createLockKeys, updateLockKeys, crossplaneExternalName, crossplaneCreateSucceeded,
           createIncomplete, providerKopsCreatePending, providerKopsCreateComplete,
           providerKopsCreateFail, providerKopsUpdateLocked
  <2>5. obj \in Object /\ cached \in Object /\ cr \in Object
    BY DEF TypeOK
  <2>6. /\ None(obj') /\ None(cached') /\ None(cr')
        /\ \A j \in Job : job'[j].pc \notin BuiltPhase /\ (job'[j].kind = "update" => ~Live(j)')
    <3>1. CASE UNCHANGED job /\ None(obj') /\ None(cached') /\ None(cr')
      BY <2>1, <3>1 DEF Live
    <3>2. CASE ReconcilerStep
      <4>1. ASSUME NEW new, NEW next, UpdateCopy(new, next), None(new)
            PROVE  None(obj') /\ None(cached') /\ None(cr')
        BY <2>1, <2>2, <4>1 DEF UpdateCopy, Return, Write, api
      <4>2. CASE Fetch \/ ObserveError \/ ObserveNotFound \/ UpToDate \/ UpdateSkipped \/ LockPanics
        BY <2>1, <2>2, <3>1, <4>2
        DEF Fetch, ObserveError, ObserveNotFound, UpToDate, UpdateSkipped, LockPanics, Return, api
      <4>3. CASE Initialize
        BY <2>1, <2>3, <2>4, <2>5, <3>1, <4>1, <4>3 DEF Initialize, api
      <4>4. CASE ObserveFound
        BY <1>3, <2>1, <3>1, <4>4 DEF ObserveFound, api
      <4>5. CASE Delete
        BY <2>1, <2>2, <3>1, <4>5 DEF Delete, Return, Write, api
      <4>6. CASE AddFinalizer
        <5>1. None([cr EXCEPT !.finalizer = TRUE])
          BY <2>1, <2>5 DEF Object
        <5> QED BY <2>1, <3>1, <4>1, <4>6, <5>1 DEF AddFinalizer, api
      <4>7. CASE MarkPending
        BY <2>1, <2>3, <2>4, <2>5, <3>1, <4>1, <4>7 DEF MarkPending
      <4>8. ASSUME NEW keys \in {{crossplaneCreateSucceeded}, {}}, CreateReturns(keys)
            PROVE  None(cr')
        BY <2>1, <2>4, <2>5, <4>8 DEF CreateReturns, Object
      <4>9. CASE CreateAlready
        BY <2>1, <3>1, <4>8, <4>9 DEF CreateAlready, api
      <4>10. ASSUME lockCluster(createLockKeys) PROVE None(obj') /\ None(cached')
        BY <2>1, <2>3, <2>4, <2>5, <4>10 DEF lockCluster, annotateCluster, WriteBehind, Write
      <4>11. CASE Create
        <5>1. None(obj') /\ None(cached') /\ None(cr')
          BY <4>8, <4>10, <4>11 DEF Create
        <5>2. PICK i \in Job : job' = [job EXCEPT ![i] = [kind |-> "create", uid |-> cr.uid,
                                                          pc |-> "createCluster"]]
          BY <4>11 DEF Create, Start
        <5>3. \A j \in Job : job'[j] = job[j] \/ (job'[j].kind = "create" /\ job'[j].pc = "createCluster")
          BY <5>2 DEF TypeOK
        <5>4. "createCluster" \notin BuiltPhase
          BY DEF BuiltPhase, UpdatePhase
        <5> QED BY <2>1, <5>1, <5>3, <5>4 DEF Live
      <4>12. CASE CreateFails
        BY <2>1, <3>1, <4>8, <4>10, <4>12 DEF CreateFails, api
      <4>13. CASE Critical
        <5>1. None([obj EXCEPT !.ann = (@ \ {createIncomplete}) \cup cr.ann])
          BY <2>1, <2>5 DEF Object
        <5> QED BY <2>1, <2>2, <3>1, <4>13, <5>1 DEF Critical, Write, Return, api
      <4>14. CASE Update
        BY <2>1, <4>14 DEF Update, UpdateGuarded
      <4>15. CASE UpdateFails
        BY <2>1, <4>15 DEF UpdateFails, UpdateGuarded
      <4> QED BY <3>2, <4>2, <4>3, <4>4, <4>5, <4>6, <4>7, <4>9, <4>11, <4>12, <4>13, <4>14, <4>15
              DEF ReconcilerStep
    <3>3. CASE CacheSync \/ Edit \/ UNCHANGED vars
      BY <2>1, <3>1, <3>3 DEF CacheSync, Edit, vars, api, reconciler
    <3>4. CASE RequestDelete
      <4>1. None([obj EXCEPT !.deleting = TRUE])
        BY <2>1, <2>5 DEF Object
      <4> QED BY <2>1, <2>2, <3>1, <3>4, <4>1 DEF RequestDelete, WriteBehind, Write
    <3>5. CASE Recreate
      <4>1. None(NewObject(uids', {})) /\ None(NewObject(uids', {crossplaneExternalName}))
        BY <2>4 DEF NewObject
      <4> QED BY <2>1, <3>1, <3>5, <4>1 DEF Recreate, WriteBehind, Write
    <3>6. CASE Recover
      BY <1>3, <3>6 DEF Recover
    <3>7. ASSUME ProcessDies PROVE <2>6
      <4>1. None(obj') /\ None(cached') /\ None(cr')
        BY <2>1, <2>2, <3>7 DEF ProcessDies, Return
      <4>2. \A j \in Job : job'[j] = job[j] \/ job'[j].pc = "killed"
        BY <3>7 DEF ProcessDies, TypeOK
      <4>3. "killed" \notin BuiltPhase \cup KopsPhase \cup EndPhase
        BY DEF BuiltPhase, KopsPhase, CreatePhase, UpdatePhase, EndPhase
      <4> QED BY <2>1, <4>1, <4>2, <4>3 DEF Live
    <3>8. CASE Crash
      BY <3>7, <3>8 DEF Crash
    <3>9. ASSUME NEW j \in Job, JobStep(j) PROVE <2>6
      <4>1. job[j].pc \notin BuiltPhase /\ (job[j].kind = "update" => ~Live(j))
        BY <2>1
      <4>2. ASSUME NEW phase, Goto(j, phase), phase \notin BuiltPhase, job[j].kind # "update",
                   None(obj'), None(cached'), None(cr')
            PROVE  <2>6
        <5>1. job'[j].pc = phase /\ job'[j].kind = job[j].kind
          BY <4>2 DEF Goto, TypeOK
        <5>2. \A i \in Job \ {j} : job'[i] = job[i]
          BY <4>2 DEF Goto, TypeOK
        <5> QED BY <2>1, <4>2, <5>1, <5>2 DEF Live
      <4>3. \A phase \in {"firstUpdate", "annotateFail", "unlock", "done", "failed"} :
               phase \notin BuiltPhase
        BY DEF BuiltPhase, UpdatePhase
      <4>4. CASE createCluster(j)
        <5>1. job[j].kind # "update"
          BY <4>1, <4>4 DEF createCluster, Live, KopsPhase, CreatePhase
        <5>2. \E phase \in {"firstUpdate", "annotateFail", "unlock"} : Goto(j, phase)
          BY <4>4 DEF createCluster, After, OnError
        <5>3. None(obj') /\ None(cached') /\ None(cr')
          BY <2>1, <4>4 DEF createCluster, api, reconciler
        <5> QED BY <4>2, <4>3, <5>1, <5>2, <5>3
      <4>5. CASE kopsUpdateCluster(j)
        <5>1. job[j].kind # "update"
          BY <4>1, <4>5 DEF kopsUpdateCluster, Live, KopsPhase, CreatePhase
        <5>2. \E phase \in {"annotateFail", "unlock"} : Goto(j, phase)
          BY <1>3, <4>5 DEF kopsUpdateCluster, OnError
        <5>3. None(obj') /\ None(cached') /\ None(cr')
          BY <2>1, <4>5 DEF kopsUpdateCluster, api, reconciler
        <5> QED BY <4>2, <4>3, <5>1, <5>2, <5>3
      <4>6. CASE runKops(j)
        BY <4>1, <4>6 DEF runKops, BuiltPhase, KopsPhase, CreatePhase
      <4>7. CASE annotateComplete(j)
        BY <4>1, <4>7 DEF annotateComplete, BuiltPhase
      <4>8. CASE unlock(j)
        <5>1. job[j].kind # "update"
          BY <4>1, <4>8 DEF unlock, Live, EndPhase
        <5>2. \E phase \in {"annotateFail", "done", "failed"} : Goto(j, phase)
          BY <4>8 DEF unlock
        <5>3. None([obj EXCEPT !.ann = @ \ unlockKeys(j)])
          BY <2>1, <2>5 DEF Object
        <5>4. None(obj') /\ None(cached') /\ None(cr')
          BY <2>1, <4>8, <5>3 DEF unlock, unlockCluster, WriteBehind, Write, api
        <5> QED BY <4>2, <4>3, <5>1, <5>2, <5>4
      <4>9. CASE annotateFail(j)
        <5>1. job[j].kind # "update"
          BY <4>1, <4>9 DEF annotateFail, Live, EndPhase
        <5>2. Goto(j, "failed")
          BY <4>9 DEF annotateFail
        <5>3. None(Annotated(obj, {providerKopsCreateFail}))
          BY <2>1, <2>3, <2>4, <2>5
        <5>4. None(obj') /\ None(cached') /\ None(cr')
          BY <2>1, <4>9, <5>3 DEF annotateFail, annotateCluster, WriteBehind, Write, api
        <5> QED BY <4>2, <4>3, <5>1, <5>2, <5>4
      <4>10. CASE JobPanics(j)
        BY <3>7, <4>10 DEF JobPanics
      <4> QED BY <3>9, <4>4, <4>5, <4>6, <4>7, <4>8, <4>9, <4>10 DEF JobStep
    <3> QED BY <3>2, <3>3, <3>4, <3>5, <3>6, <3>8, <3>9 DEF Next, Environment
  <2> QED BY <2>6 DEF BuiltInv
<1> QED BY <1>1, <1>2, <1>3 DEF BuiltInv

LEMMA BuiltInvariant == Spec => [](TypeOK /\ CreateInv /\ BuiltInv)
<1>1. Init => BuiltInv
  BY InitBuilt
<1>2. TypeOK /\ CreateInv /\ BuiltInv /\ [Next]_vars => BuiltInv'
  BY StepBuilt
<1> QED BY <1>1, <1>2, CreateInvariant, PTL DEF Spec

(* Update is let through by an annotation that only a built cluster has.   *)
THEOREM CompletionIsBuilt == Spec => []CompleteImpliesBuilt
<1>1. BuiltInv => CompleteImpliesBuilt
  BY DEF BuiltInv, CompleteImpliesBuilt
<1> QED BY <1>1, BuiltInvariant, PTL
=============================================================================
