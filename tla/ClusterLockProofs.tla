-------------------------- MODULE ClusterLockProofs --------------------------
(***************************************************************************)
(* The annotations as a lock.  While the cache is fresh, "not found" means *)
(* that, and the CR is created again only when no job is left, no two jobs *)
(* run kops, and the controller implements KopsLock, through any number of *)
(* incarnations of the CR; requests and replies may still be lost, every   *)
(* kops command may fail and the process may crash.  None of the three     *)
(* conditions can go.                                                      *)
(***************************************************************************)
EXTENDS ClusterControllerProofs

Fresh == ~StaleReads /\ ~NotFoundErrors /\ ~EarlyRecreates

(* A job keeps its lock until it unlocks. *)
Holds(j) == job[j].pc \in KopsPhase \cup {"annotateComplete", "unlock"}

Deciding == pc \notin {"idle", "critical"}

(* The lock of a job is on the object and in the copy the reconciler       *)
(* decides on; a cluster that was not found has no job of Update.          *)
HoldInv ==
    \A j \in Job :
       Holds(j) => /\ obj # NoObject => unlockKeys(j) \subseteq obj.ann
                   /\ Deciding => unlockKeys(j) \subseteq cr.ann
                   /\ Deciding /\ status = "Creating" => job[j].kind = "create"

AloneInv == \A i, j \in Job : Holds(i) /\ Holds(j) => i = j

KindInv ==
    /\ pc = "create" => status = "Creating"
    /\ pc = "initialize" \/ pc = "idle" => status = "None"
    /\ \A j \in Job : Live(j) => job[j].kind # "none"

SafeInv == TypeOK /\ CreateInv /\ BuiltInv
LockInv == HoldInv /\ AloneInv /\ KindInv

LEMMA HoldsLive == \A j : Holds(j) => Live(j)
BY DEF Holds, Live, EndPhase

LEMMA KeysFacts ==
    \A j : /\ providerKopsUpdateLocked \in unlockKeys(j)
           /\ job[j].kind = "create" => providerKopsCreatePending \in unlockKeys(j)
           /\ createIncomplete \notin unlockKeys(j)
           /\ unlockKeys(j) \subseteq createLockKeys
BY DEF unlockKeys, createLockKeys, updateLockKeys, createIncomplete,
       providerKopsCreatePending, providerKopsUpdateLocked

LEMMA InitLock == ASSUME Init PROVE LockInv
<1>1. \A j \in Job : job[j].pc = "idle"
  BY DEF Init, NoJob
<1> QED BY <1>1 DEF Init, LockInv, HoldInv, AloneInv, KindInv, Holds, Live, KopsPhase,
                    CreatePhase, UpdatePhase, EndPhase

(* Jobs that only advance, stop or die, on an object that keeps what they  *)
(* rely on, while the reconciler's copy is what it was or is gone.         *)
LEMMA LockFrame ==
    ASSUME LockInv,
           \A j \in Job : /\ job'[j].kind = job[j].kind
                          /\ Holds(j)' => Holds(j)
                          /\ Live(j)' => Live(j),
           obj' # NoObject => obj # NoObject,
           obj' # NoObject =>
              \A j \in Job : Holds(j)' => (unlockKeys(j) \subseteq obj.ann
                                             => unlockKeys(j) \subseteq obj'.ann),
           UNCHANGED <<cr, pc, status>> \/ (pc' = "idle" /\ status' = "None")
    PROVE  LockInv'
<1>1. \A j \in Job : unlockKeys(j)' = unlockKeys(j)
  BY DEF unlockKeys
<1>2. HoldInv'
  BY <1>1 DEF LockInv, HoldInv, Deciding
<1>3. AloneInv' /\ KindInv'
  BY DEF LockInv, AloneInv, KindInv
<1> QED BY <1>2, <1>3 DEF LockInv

LEMMA DiesLock == ASSUME SafeInv, LockInv, ProcessDies PROVE LockInv'
<1>1. \A j \in Job : job'[j].kind = job[j].kind /\ ~Live(j)' /\ (Live(j)' => Live(j))
  BY DEF ProcessDies, Live, SafeInv, TypeOK, KopsPhase, CreatePhase, UpdatePhase, EndPhase
<1>2. \A j \in Job : ~Holds(j)'
  BY <1>1 DEF Holds, Live, EndPhase
<1> QED BY <1>1, <1>2, LockFrame DEF ProcessDies, Return

(* The reconciler writes only to an object that is there, and to the one   *)
(* it finds: an incarnation comes and goes by a user, or goes by Delete.   *)
LEMMA ReconcilerObject ==
    ASSUME SafeInv, ReconcilerStep, obj' # NoObject
    PROVE  obj # NoObject /\ obj'.uid = obj.uid
<1> USE DEF SafeInv
<1>1. crCurrent => obj # NoObject /\ cr.uid = obj.uid
  BY DEF CreateInv, CopyInv, UidInv, NoObject, NewObject
<1>2. /\ cr \in Object /\ obj \in Object
      /\ \A keys : Annotated(cr, keys).uid = cr.uid /\ Annotated(obj, keys).uid = obj.uid
      /\ [cr EXCEPT !.finalizer = TRUE].uid = cr.uid
      /\ [obj EXCEPT !.ann = (@ \ {createIncomplete}) \cup cr.ann].uid = obj.uid
  BY DEF TypeOK, Object, Annotated
<1>3. CASE UNCHANGED obj
  BY <1>3
<1>4. ASSUME NEW new, NEW next, UpdateCopy(new, next), new.uid = cr.uid
      PROVE  obj # NoObject /\ obj'.uid = obj.uid
  BY <1>1, <1>4 DEF UpdateCopy, Write, api
<1>5. CASE Initialize \/ AddFinalizer \/ MarkPending
  BY <1>2, <1>3, <1>4, <1>5 DEF Initialize, AddFinalizer, MarkPending, api
<1>6. CASE Delete
  BY <1>3, <1>6 DEF Delete, Write, api
<1>7. CASE Create \/ CreateFails \/ Update \/ UpdateFails
  BY <1>2, <1>3, <1>7
     DEF Create, CreateFails, Update, UpdateFails, lockCluster, annotateCluster, WriteBehind,
         Write, api
<1>8. CASE Critical
  BY <1>1, <1>2, <1>3, <1>8 DEF Critical, Write, api
<1> QED BY <1>3, <1>5, <1>6, <1>7, <1>8
    DEF ReconcilerStep, Fetch, ObserveError, ObserveNotFound, ObserveFound, UpToDate,
        CreateAlready, UpdateSkipped, LockPanics, api

LEMMA ReconcilerKeepsLocks ==
    ASSUME SafeInv, ReconcilerStep, obj' # NoObject, NEW j \in Job,
           unlockKeys(j) \subseteq obj.ann
    PROVE  unlockKeys(j) \subseteq obj'.ann
BY ReconcilerObject, ReconcilerKeeps, KeysFacts DEF KeepsAnnotations, SafeInv

(* A step of the reconciler that starts no job. *)
LEMMA ReconcilerLock ==
    ASSUME Fresh, SafeInv, LockInv, ReconcilerStep, UNCHANGED job,
           \/ pc' \in {"idle", "critical"}
           \/ /\ cr.ann \subseteq cr'.ann /\ Deciding
              /\ \/ status' = status
                 \/ status' # "Creating"
                 \/ external = "absent",
           pc' = "create" => status' = "Creating",
           pc' = "idle" => status' = "None", pc' # "initialize"
    PROVE  LockInv'
<1>1. \A j \in Job : unlockKeys(j)' = unlockKeys(j) /\ (Holds(j)' <=> Holds(j)) /\ (Live(j)' <=> Live(j))
  BY DEF unlockKeys, Holds, Live
<1>2. KindInv' /\ AloneInv'
  BY <1>1 DEF LockInv, KindInv, AloneInv
<1>3. ASSUME NEW j \in Job, Holds(j), external = "absent" PROVE job[j].kind = "create"
  <2>1. Live(j) /\ job[j].kind # "update"
    BY <1>3, HoldsLive DEF SafeInv, BuiltInv
  <2>2. job[j].kind # "none"
    BY <2>1 DEF LockInv, KindInv
  <2> QED BY <2>1, <2>2 DEF SafeInv, TypeOK
<1>4. ASSUME NEW j \in Job, Holds(j)
      PROVE  /\ obj' # NoObject => unlockKeys(j) \subseteq obj'.ann
             /\ Deciding' => unlockKeys(j) \subseteq cr'.ann
             /\ Deciding' /\ status' = "Creating" => job'[j].kind = "create"
  <2>1. obj' # NoObject => unlockKeys(j) \subseteq obj'.ann
    BY <1>4, ReconcilerObject, ReconcilerKeepsLocks DEF LockInv, HoldInv
  <2>2. Deciding' => unlockKeys(j) \subseteq cr'.ann
    BY <1>4 DEF LockInv, HoldInv, Deciding
  <2>3. Deciding' /\ status' = "Creating" => job'[j].kind = "create"
    BY <1>3, <1>4 DEF LockInv, HoldInv, Deciding
  <2> QED BY <2>1, <2>2, <2>3
<1>5. HoldInv'
  BY <1>1, <1>4 DEF HoldInv
<1> QED BY <1>2, <1>5 DEF LockInv

(* A handler starts a job: nobody else held a lock. *)
LEMMA StartLock ==
    ASSUME SafeInv, LockInv, NEW kind \in {"create", "update"}, NEW phase \in KopsPhase,
           Start(kind, phase), \A j \in Job : ~Holds(j),
           pc' = "critical" \/ (pc' = "idle" /\ status' = "None"),
           (IF kind = "create" THEN createLockKeys ELSE updateLockKeys) \subseteq obj'.ann
    PROVE  LockInv'
<1>1. PICK k \in Job : job' = [job EXCEPT ![k] = [kind |-> kind, uid |-> cr.uid, pc |-> phase]]
  BY DEF Start
<1>2. job'[k].kind = kind /\ job'[k].pc = phase
  BY <1>1 DEF SafeInv, TypeOK
<1>3. \A j \in Job \ {k} : job'[j] = job[j]
  BY <1>1 DEF SafeInv, TypeOK
<1>4. \A j \in Job : Holds(j)' => j = k
  BY <1>3 DEF Holds
<1>5. unlockKeys(k)' \subseteq obj'.ann
  BY <1>2 DEF unlockKeys
<1>6. HoldInv' /\ AloneInv'
  BY <1>4, <1>5 DEF HoldInv, AloneInv, Deciding
<1>7. KindInv'
  BY <1>2, <1>3 DEF LockInv, KindInv, Live
<1> QED BY <1>6, <1>7 DEF LockInv

LEMMA StepLockReconciler ==
    ASSUME Fresh, SafeInv, LockInv, ReconcilerStep PROVE LockInv'
<1>1. ASSUME Return, UNCHANGED job PROVE LockInv'
  BY <1>1, ReconcilerLock DEF Return
<1>2. CASE ObserveError \/ Delete \/ UpToDate \/ UpdateSkipped \/ UpdateFails \/ LockPanics
  BY <1>1, <1>2 DEF ObserveError, Delete, UpToDate, UpdateSkipped, UpdateFails, LockPanics
<1>3. CASE Critical
  BY <1>1, <1>3 DEF Critical
<1>4. CASE CreateAlready \/ CreateFails
  BY <1>4, ReconcilerLock DEF CreateAlready, CreateFails, CreateReturns
<1>5. CASE Fetch
  <2>1. cr' = obj /\ obj # NoObject /\ pc' = "initialize" /\ UNCHANGED <<obj, job, status>>
    BY <1>5 DEF Fetch, Cacheable, Fresh, SafeInv, CreateInv, CacheInv, api
  <2>2. \A j \in Job : unlockKeys(j)' = unlockKeys(j) /\ (Holds(j)' <=> Holds(j)) /\ (Live(j)' <=> Live(j))
    BY <2>1 DEF unlockKeys, Holds, Live
  <2>3. status = "None"
    BY <1>5 DEF Fetch, LockInv, KindInv, SafeInv
  <2> QED BY <2>1, <2>2, <2>3 DEF LockInv, HoldInv, AloneInv, KindInv, Deciding
<1>6. ASSUME Early, NEW new, NEW next, UpdateCopy(new, next), cr.ann \subseteq new.ann,
             next = "create" => status = "Creating", next \notin {"initialize", "idle"},
             UNCHANGED job
      PROVE  LockInv'
  <2>1. CASE Return
    BY <1>1, <1>6, <2>1
  <2>2. CASE cr' = new /\ pc' = next /\ UNCHANGED status
    BY <1>6, <2>2, ReconcilerLock DEF Early, Deciding
  <2> QED BY <1>6, <2>1, <2>2 DEF UpdateCopy
<1>7. CASE Initialize
  <2>1. cr.ann \subseteq Annotated(cr, {crossplaneExternalName}).ann
    BY DEF Annotated, SafeInv, TypeOK, Object
  <2>2. CASE pc' = "observe" /\ UNCHANGED <<cr, status>>
    BY <1>7, <2>2, ReconcilerLock DEF Initialize, Deciding
  <2> QED BY <1>6, <1>7, <2>1, <2>2 DEF Initialize, Early
<1>8. CASE ObserveNotFound
  <2>1. external = "absent"
    BY <1>8 DEF ObserveNotFound, Fresh
  <2>2. CASE Return
    BY <1>1, <1>8, <2>2 DEF ObserveNotFound
  <2>3. CASE pc' = "observed" /\ UNCHANGED cr
    BY <1>8, <2>1, <2>3, ReconcilerLock DEF ObserveNotFound, Deciding
  <2> QED BY <1>8, <2>2, <2>3 DEF ObserveNotFound
<1>9. CASE ObserveFound
  <2>1. cr.ann \subseteq Annotated(cr, {providerKopsCreateComplete}).ann
    BY DEF Annotated, SafeInv, TypeOK, Object
  <2>2. cr.ann \subseteq cr'.ann /\ status' # "Creating" /\ pc' = "observed" /\ UNCHANGED job
    BY <1>9, <2>1 DEF ObserveFound
  <2> QED BY <1>9, <2>2, ReconcilerLock DEF ObserveFound, Deciding
<1>10. CASE AddFinalizer
  <2> DEFINE new == [cr EXCEPT !.finalizer = TRUE]
  <2>1. cr.ann \subseteq new.ann
    BY DEF SafeInv, TypeOK, Object
  <2>2. CASE pc' = "managed" /\ UNCHANGED <<cr, status>>
    BY <1>10, <2>2, ReconcilerLock DEF AddFinalizer, Deciding
  <2>3. CASE UpdateCopy(new, "managed")
    <3>1. Early /\ UNCHANGED job
      BY <1>10 DEF AddFinalizer, Early
    <3> HIDE DEF new
    <3> QED BY <1>6, <2>1, <2>3, <3>1
  <2> QED BY <1>10, <2>2, <2>3 DEF AddFinalizer
<1>11. CASE MarkPending
  <2>1. cr.ann \subseteq Annotated(cr, {createIncomplete}).ann
    BY DEF Annotated, SafeInv, TypeOK, Object
  <2> QED BY <1>6, <1>11, <2>1 DEF MarkPending, Early
<1>12. CASE Create
  <2>1. \A j \in Job : ~Holds(j)
    <3>1. ASSUME NEW j \in Job, Holds(j) PROVE FALSE
      <4>1. job[j].kind = "create" /\ unlockKeys(j) \subseteq cr.ann
        BY <1>12, <3>1 DEF Create, LockInv, HoldInv, KindInv, Deciding
      <4> QED BY <1>12, <4>1, KeysFacts DEF Create, CreateGuarded
    <3> QED BY <3>1
  <2>2. Start("create", "createCluster") /\ pc' = "critical"
    BY <1>12 DEF Create, CreateReturns
  <2>3. createLockKeys \subseteq obj'.ann
    BY <1>12 DEF Create, lockCluster, annotateCluster, WriteBehind, Write, Annotated,
                 SafeInv, TypeOK, Object
  <2>4. "createCluster" \in KopsPhase
    BY DEF KopsPhase, CreatePhase
  <2> QED BY <2>1, <2>2, <2>3, <2>4, StartLock
<1>13. CASE Update
  <2>1. \A j \in Job : ~Holds(j)
    <3>1. ASSUME NEW j \in Job, Holds(j) PROVE FALSE
      <4>1. unlockKeys(j) \subseteq cr.ann
        BY <1>13, <3>1 DEF Update, LockInv, HoldInv, Deciding
      <4> QED BY <1>13, <4>1, KeysFacts DEF Update, UpdateGuarded
    <3> QED BY <3>1
  <2>2. Start("update", "updateCluster") /\ pc' = "idle" /\ status' = "None"
    BY <1>13 DEF Update, Return
  <2>3. updateLockKeys \subseteq obj'.ann
    BY <1>13 DEF Update, Write, Annotated, SafeInv, TypeOK, Object
  <2>4. "updateCluster" \in KopsPhase
    BY DEF KopsPhase, UpdatePhase
  <2> QED BY <2>1, <2>2, <2>3, <2>4, StartLock
<1> QED BY <1>2, <1>3, <1>4, <1>5, <1>7, <1>8, <1>9, <1>10, <1>11, <1>12, <1>13
        DEF ReconcilerStep

LEMMA StepLockJob ==
    ASSUME SafeInv, LockInv, NEW j \in Job, JobStep(j) PROVE LockInv'
<1>1. ASSUME NEW phase, Goto(j, phase), phase # "idle",
             Live(j), (phase \in KopsPhase \cup {"annotateComplete", "unlock"}) => Holds(j)
      PROVE  \A i \in Job : /\ job'[i].kind = job[i].kind
                            /\ Holds(i)' => Holds(i)
                            /\ Live(i)' => Live(i)
  <2>1. job'[j].pc = phase /\ job'[j].kind = job[j].kind
    BY <1>1 DEF Goto, SafeInv, TypeOK
  <2>2. \A i \in Job \ {j} : job'[i] = job[i]
    BY <1>1 DEF Goto, SafeInv, TypeOK
  <2> QED BY <1>1, <2>1, <2>2 DEF Holds, Live
<1>2. CASE createCluster(j) \/ kopsUpdateCluster(j) \/ runKops(j)
  <2>1. Holds(j) /\ Live(j)
    BY <1>2, HoldsLive DEF createCluster, kopsUpdateCluster, runKops, Holds, KopsPhase, CreatePhase
  <2>2. PICK phase : Goto(j, phase) /\ phase # "idle"
    <3>1. OnError(j) # "idle" /\ \A p \in KopsPhase : After(p) # "idle"
      BY DEF OnError, After, KopsPhase, CreatePhase, UpdatePhase
    <3> QED BY <1>2, <3>1 DEF createCluster, kopsUpdateCluster, runKops, KopsPhase, CreatePhase
  <2>3. UNCHANGED <<obj, cr, pc, status>>
    BY <1>2 DEF createCluster, kopsUpdateCluster, runKops, api, reconciler
  <2> QED BY <1>1, <2>1, <2>2, <2>3, LockFrame
<1>3. CASE annotateComplete(j)
  <2>1. Holds(j) /\ Live(j)
    BY <1>3, HoldsLive DEF annotateComplete, Holds
  <2>2. PICK phase \in {"unlock", "annotateFail"} : Goto(j, phase)
    BY <1>3 DEF annotateComplete
  <2>3. UNCHANGED <<cr, pc, status>>
    BY <1>3 DEF annotateComplete
  <2>4. obj' = obj \/ (obj # NoObject /\ obj.ann \subseteq obj'.ann)
    BY <1>3 DEF annotateComplete, annotateCluster, WriteBehind, Write, Annotated, api,
                SafeInv, TypeOK, Object
  <2> QED BY <1>1, <2>1, <2>2, <2>3, <2>4, LockFrame
<1>4. CASE unlock(j)
  <2>1. Holds(j) /\ Live(j)
    BY <1>4, HoldsLive DEF unlock, Holds
  <2>2. PICK phase \in {"done", "failed", "annotateFail"} : Goto(j, phase)
    BY <1>4 DEF unlock
  <2>3. UNCHANGED <<cr, pc, status>>
    BY <1>4 DEF unlock
  <2>4. \A i \in Job : ~Holds(i)'
    <3>1. job'[j].pc = phase /\ \A i \in Job \ {j} : job'[i] = job[i]
      BY <2>2 DEF Goto, SafeInv, TypeOK
    <3> QED BY <2>1, <2>2, <3>1 DEF LockInv, AloneInv, Holds, KopsPhase, CreatePhase, UpdatePhase
  <2>5. obj' # NoObject => obj # NoObject
    BY <1>4 DEF unlock, unlockCluster, api
  <2>6. phase # "idle" /\ phase \notin KopsPhase \cup {"annotateComplete", "unlock"}
    BY DEF KopsPhase, CreatePhase, UpdatePhase
  <2> QED BY <1>1, <2>1, <2>2, <2>3, <2>4, <2>5, <2>6, LockFrame
<1>5. CASE annotateFail(j)
  <2>1. Live(j)
    BY <1>5 DEF annotateFail, Live, EndPhase
  <2>2. Goto(j, "failed") /\ UNCHANGED <<cr, pc, status>>
    BY <1>5 DEF annotateFail
  <2>3. obj' = obj \/ (obj # NoObject /\ obj.ann \subseteq obj'.ann)
    BY <1>5 DEF annotateFail, annotateCluster, WriteBehind, Write, Annotated, api,
                SafeInv, TypeOK, Object
  <2>4. "failed" \notin KopsPhase \cup {"annotateComplete", "unlock"}
    BY DEF KopsPhase, CreatePhase, UpdatePhase
  <2> QED BY <1>1, <2>1, <2>2, <2>3, <2>4, LockFrame
<1>6. CASE JobPanics(j)
  BY <1>6, DiesLock DEF JobPanics
<1> QED BY <1>2, <1>3, <1>4, <1>5, <1>6 DEF JobStep

LEMMA StepLockEnvironment ==
    ASSUME Fresh, SafeInv, LockInv, CacheSync \/ Environment \/ UNCHANGED vars
    PROVE  LockInv'
<1>1. UNCHANGED job => \A j \in Job : /\ job'[j].kind = job[j].kind
                                      /\ Holds(j)' => Holds(j)
                                      /\ Live(j)' => Live(j)
  BY DEF Holds, Live
<1>2. CASE CacheSync \/ Edit \/ UNCHANGED vars
  BY <1>1, <1>2, LockFrame DEF CacheSync, Edit, vars, api, reconciler
<1>3. CASE RequestDelete
  <2>1. [obj EXCEPT !.deleting = TRUE].ann = obj.ann
    BY DEF SafeInv, TypeOK, Object
  <2>2. obj # NoObject /\ (obj' # NoObject => obj'.ann = obj.ann)
    BY <1>3, <2>1 DEF RequestDelete, WriteBehind, Write
  <2> QED BY <1>1, <1>3, <2>2, LockFrame DEF RequestDelete
<1>4. CASE Recreate
  <2>1. \A j \in Job : ~Live(j) /\ ~Holds(j)
    BY <1>4, HoldsLive DEF Recreate, Fresh
  <2>2. UNCHANGED <<job, cr, pc, status>>
    BY <1>4 DEF Recreate
  <2>3. \A j \in Job : ~Holds(j)'
    BY <1>1, <2>1, <2>2
  <2> QED BY <1>1, <2>1, <2>2, <2>3 DEF LockInv, HoldInv, AloneInv, KindInv
<1>5. CASE Recover
  <2>1. \A j \in Job : ~Holds(j)
    BY <1>5, HoldsLive DEF Recover
  <2>2. UNCHANGED <<job, cr, pc, status>> /\ obj # NoObject
    BY <1>5 DEF Recover
  <2> QED BY <1>1, <2>1, <2>2, LockFrame
<1>6. CASE Crash
  BY <1>6, DiesLock DEF Crash
<1> QED BY <1>2, <1>3, <1>4, <1>5, <1>6 DEF Environment

LEMMA LockInvariant == ASSUME Fresh PROVE Spec => [](SafeInv /\ LockInv)
<1>1. Init => LockInv
  BY InitLock
<1>2. SafeInv /\ LockInv /\ [Next]_vars => LockInv'
  BY StepLockReconciler, StepLockJob, StepLockEnvironment DEF Next
<1>3. Spec => []SafeInv
  BY BuiltInvariant DEF SafeInv
<1> QED BY <1>1, <1>2, <1>3, PTL DEF Spec

(* "Prevent concurrent executions of the kops cli": while the cache is     *)
(* fresh, "not found" means that and the CR is created again only when no  *)
(* job is left, no two jobs run kops at the same time, for any number of   *)
(* jobs and of incarnations, and across them.                              *)
THEOREM OneAtATime == ASSUME Fresh PROVE Spec => []OneKopsAtATime
<1>1. LockInv => OneKopsAtATime
  BY DEF LockInv, AloneInv, OneKopsAtATime, RunsKops, Holds
<1> QED BY <1>1, LockInvariant, PTL

(* Under the same conditions a job that runs kops is covered by the lock   *)
(* annotations its handler set, for as long as a CR exists: none is ever   *)
(* there that does not carry the lock of a job that runs.                  *)
THEOREM LockedWhileRunning == ASSUME Fresh PROVE Spec => []RunningJobHoldsLock
<1>1. LockInv => RunningJobHoldsLock
  BY DEF LockInv, HoldInv, RunningJobHoldsLock, RunsKops, Holds
<1> QED BY <1>1, LockInvariant, PTL
=============================================================================
