-------------------------- MODULE ClusterController --------------------------
(***************************************************************************)
(* The lifecycle of one Cluster custom resource (CR): the managed          *)
(* reconciler of crossplane-runtime, the provider's Observe, Create,       *)
(* Update and Delete handlers it calls, and the background goroutines      *)
(* (jobs) that Create and Update start to run the kops command line.       *)
(*                                                                         *)
(* The annotations of the CR are the only lock there is: the reconciler    *)
(* decides on the copy cr it fetched from the informer cache when the      *)
(* reconcile began, and every write of an annotation is a read from that   *)
(* cache followed by an optimistic update.                                 *)
(*                                                                         *)
(* Simplifications.  The status subresource is left out: its writes bump   *)
(* the resourceVersion but carry no decision.  Resource versions are two   *)
(* booleans, "the cache holds the latest object" and "the reconciler's     *)
(* copy is the latest object".  The cache jumps to the latest object when  *)
(* it syncs.  The five attempts of retry.RetryOnConflict are one attempt   *)
(* that conflicts exactly when the cache lags behind the API server.       *)
(***************************************************************************)
EXTENDS Naturals

CONSTANTS
    Job,             \* background goroutines, each started at most once
    StaleReads,      \* may the informer cache be read while it lags?
    NotFoundErrors,  \* may a "not found" be reported of an existing cluster?
    APIErrors,       \* may requests to the API server fail or lose their reply?
    EarlyRecreates,  \* may the CR be recreated while a job of the old one runs?
    MaxUid,          \* bound: incarnations of the CR (delete and recreate)
    MaxEdits,        \* bound: edits and manual repairs of the CR by a user
    MaxCrashes       \* bound: crashes of the provider process

ASSUME AdversaryAssumption ==
    /\ StaleReads \in BOOLEAN
    /\ NotFoundErrors \in BOOLEAN
    /\ APIErrors \in BOOLEAN
    /\ EarlyRecreates \in BOOLEAN

ASSUME BoundAssumption ==
    /\ MaxUid \in Nat \ {0}
    /\ MaxEdits \in Nat
    /\ MaxCrashes \in Nat

-----------------------------------------------------------------------------
(* Annotations, by the names of the source.  createIncomplete stands for a *)
(* crossplane external-create-pending younger than the -succeeded and      *)
(* -failed annotations: meta.ExternalCreateIncomplete.                     *)

crossplaneExternalName    == "external-name"
crossplaneCreateSucceeded == "external-create-succeeded"
createIncomplete          == "external-create-incomplete"
providerKopsCreatePending  == "create-pending"
providerKopsCreateComplete == "create-complete"
providerKopsCreateFail     == "create-fail"
providerKopsUpdateLocked   == "update-locked"

Annotation == {crossplaneExternalName, crossplaneCreateSucceeded, createIncomplete,
               providerKopsCreatePending, providerKopsCreateComplete,
               providerKopsCreateFail, providerKopsUpdateLocked}

createLockKeys == {providerKopsCreatePending, providerKopsUpdateLocked}
updateLockKeys == {providerKopsUpdateLocked}

Object == [uid: 0..MaxUid, ann: SUBSET Annotation, finalizer: BOOLEAN, deleting: BOOLEAN]
NewObject(uid, ann) == [uid |-> uid, ann |-> ann, finalizer |-> FALSE, deleting |-> FALSE]
NoObject == NewObject(0, {})

Annotated(o, keys) == [o EXCEPT !.ann = @ \cup keys]

(* What a job does next, in the order of runCreate and of the goroutine of *)
(* Update.                                                                 *)
CreatePhase == {"createCluster", "firstUpdate", "createSecrets", "secondUpdate", "createRoll"}
UpdatePhase == {"updateCluster", "roll", "passTwo", "passTwoRoll"}
KopsPhase   == CreatePhase \cup UpdatePhase
EndPhase    == {"annotateComplete", "annotateFail", "unlock"}
JobState    == KopsPhase \cup EndPhase \cup {"idle", "done", "failed", "killed"}

After(phase) ==
    CASE phase = "createCluster" -> "firstUpdate"
      [] phase = "firstUpdate"   -> "createSecrets"
      [] phase = "createSecrets" -> "secondUpdate"
      [] phase = "secondUpdate"  -> "createRoll"
      [] phase = "createRoll"    -> "annotateComplete"
      [] phase = "updateCluster" -> "roll"
      [] phase = "roll"          -> "passTwo"
      [] phase = "passTwo"       -> "passTwoRoll"
      [] OTHER                   -> "unlock"

NoJob == [kind |-> "none", uid |-> 0, pc |-> "idle"]

VARIABLES
    obj,           \* the CR in the API server, NoObject when there is none
    cached,        \* the CR in the informer cache
    cacheCurrent,  \* cached carries the resourceVersion of obj
    cr,            \* the reconciler's copy, shared with the jobs it starts
    crCurrent,     \* cr carries the resourceVersion of obj
    pc,            \* where the reconciler is, "idle" between reconciles
    status,        \* cr.Status.Status, as Observe left it
    job,           \* the background goroutines
    external,      \* the kops cluster: no config, config only, cloud resources too
    uids,          \* incarnations of the CR so far
    edits, crashes

api        == <<obj, cached, cacheCurrent>>
reconciler == <<cr, crCurrent, pc, status>>
bounds     == <<uids, edits, crashes>>
vars       == <<api, reconciler, job, external, bounds>>

TypeOK ==
    /\ obj \in Object /\ cached \in Object /\ cr \in Object
    /\ cacheCurrent \in BOOLEAN /\ crCurrent \in BOOLEAN
    /\ pc \in {"idle", "initialize", "observe", "observed", "managed", "create",
               "critical"}
    /\ status \in {"None", "Creating", "Ready", "Updating", "Progressing", "Unknown"}
    /\ job \in [Job -> [kind: {"none", "create", "update"}, uid: 0..MaxUid, pc: JobState]]
    /\ external \in {"absent", "config", "built"}
    /\ uids \in 1..MaxUid /\ edits \in 0..MaxEdits /\ crashes \in 0..MaxCrashes

(* A new CR of a cluster to create, a new CR of a cluster to adopt, or a   *)
(* CR whose cluster the provider created earlier.                          *)
Init ==
    /\ \/ /\ obj \in {NewObject(1, {}), NewObject(1, {crossplaneExternalName})}
          /\ external \in {"absent", "built"}
       \/ /\ obj = [NewObject(1, {crossplaneExternalName, crossplaneCreateSucceeded,
                                  providerKopsCreateComplete}) EXCEPT !.finalizer = TRUE]
          /\ external = "built"
    /\ cached = obj /\ cacheCurrent = TRUE
    /\ cr = NoObject /\ crCurrent = FALSE
    /\ pc = "idle" /\ status = "None"
    /\ job = [j \in Job |-> NoJob]
    /\ uids = 1 /\ edits = 0 /\ crashes = 0

-----------------------------------------------------------------------------
(* The API server and its client.                                          *)

(* A write that changes nothing leaves the resourceVersion as it is. *)
Write(new) ==
    /\ obj' = new
    /\ cacheCurrent' = (cacheCurrent /\ new = obj)
    /\ UNCHANGED cached

(* A write by anyone but the reconciler's own Update of its copy. *)
WriteBehind(new) ==
    /\ Write(new)
    /\ crCurrent' = (crCurrent /\ new = obj)

Cacheable == StaleReads \/ cacheCurrent

(* Mutant: what the cache has is written back, without a conflict. *)
annotateClusterCached(keys) ==
    /\ Cacheable /\ cached # NoObject /\ cached.ann # {} /\ obj # NoObject
    /\ WriteBehind(Annotated(cached, keys))

(* client.Get answers from the cache, client.Update then conflicts unless  *)
(* what it got is the latest object.  The keys are assigned into the map   *)
(* of annotations, which is nil when the object has none.                  *)
annotateCluster(keys) ==
    /\ cacheCurrent /\ obj # NoObject /\ obj.ann # {}
    /\ WriteBehind(Annotated(obj, keys))

AnnotatePanics == Cacheable /\ cached # NoObject /\ cached.ann = {}

lockCluster(keys) == annotateCluster(keys)

unlockCluster(keys) ==
    /\ cacheCurrent /\ obj # NoObject
    /\ WriteBehind([obj EXCEPT !.ann = @ \ keys])

(* Not found, a conflict on every attempt, or any other API error. *)
GetUpdateFails ==
    /\ Cacheable
    /\ APIErrors \/ ~cacheCurrent \/ obj = NoObject

CacheSync ==
    /\ ~cacheCurrent
    /\ cached' = obj /\ cacheCurrent' = TRUE
    /\ UNCHANGED <<obj, reconciler, job, external, bounds>>

-----------------------------------------------------------------------------
(* The reconciler: crossplane-runtime's managed.Reconciler.                *)

Return == pc' = "idle" /\ status' = "None" /\ cr' = NoObject /\ crCurrent' = FALSE

(* client.Update of the reconciler's copy.  An applied update whose reply  *)
(* is lost ends the reconcile like any other error.                        *)
UpdateCopy(new, next) ==
    \/ /\ crCurrent
       /\ Write(new)
       /\ cr' = new /\ crCurrent' = TRUE /\ pc' = next
       /\ UNCHANGED status
    \/ /\ APIErrors /\ crCurrent
       /\ Write(new)
       /\ Return
    \/ /\ APIErrors \/ ~crCurrent
       /\ Return
       /\ UNCHANGED api

(* A reconcile of an object whose creation is incomplete goes no further.  *)
(* Bound: a reconcile starts only while a job is left to start.            *)
Fetch ==
    /\ pc = "idle" /\ Cacheable /\ cached # NoObject
    /\ createIncomplete \notin cached.ann
    /\ \E j \in Job : job[j].pc = "idle"
    /\ cr' = cached /\ crCurrent' = cacheCurrent
    /\ pc' = "initialize"
    /\ UNCHANGED <<api, status, job, external, bounds>>

Initialize ==
    /\ pc = "initialize"
    /\ IF crossplaneExternalName \in cr.ann
       THEN pc' = "observe" /\ UNCHANGED <<api, cr, crCurrent, status>>
       ELSE UpdateCopy(Annotated(cr, {crossplaneExternalName}), "observe")
    /\ UNCHANGED <<job, external, bounds>>

(* Connect or a command that Observe runs fails. *)
ObserveError ==
    /\ pc = "observe"
    /\ Return
    /\ UNCHANGED <<api, job, external, bounds>>

(* Mutant: a cluster under deletion gets the status that is never assigned. *)
ObserveNotFoundDeleting ==
    /\ pc = "observe"
    /\ external = "absent" \/ NotFoundErrors
    /\ status' = (IF cr.deleting THEN "Deleting" ELSE "Creating") /\ pc' = "observed"
    /\ UNCHANGED <<cr, crCurrent, api, job, external, bounds>>

(* Within the grace period of a creation "not found" is not believed. *)
ObserveNotFound ==
    /\ pc = "observe"
    /\ external = "absent" \/ NotFoundErrors
    /\ \/ /\ status' = "Creating" /\ pc' = "observed"
          /\ UNCHANGED <<cr, crCurrent>>
       \/ /\ crossplaneCreateSucceeded \in cr.ann
          /\ Return
    /\ UNCHANGED <<api, job, external, bounds>>

(* kubectl reaches only a cluster that was built; whether it answers, what *)
(* kops validate finds and whether there is a diff is left open.           *)
(* CreateComplete is assigned to the copy only.                            *)
ObserveFound ==
    /\ pc = "observe"
    /\ external # "absent"
    /\ \/ /\ external = "built"
          /\ status' \in {"Ready", "Updating"}
          /\ cr' = Annotated(cr, {providerKopsCreateComplete})
       \/ /\ status' = IF /\ providerKopsCreatePending \in cr.ann
                          /\ providerKopsCreateComplete \notin cr.ann
                       THEN "Progressing" ELSE "Unknown"
          /\ UNCHANGED cr
    /\ pc' = "observed"
    /\ UNCHANGED <<api, crCurrent, job, external, bounds>>

(* The finalizer is removed by Delete of the provider when the cluster was *)
(* found, by the reconciler when it was not: both update the same copy.    *)
(* kops is not run.                                                        *)
Delete ==
    /\ pc = "observed" /\ cr.deleting
    /\ \/ crCurrent /\ Write(NoObject)
       \/ (APIErrors \/ ~crCurrent) /\ UNCHANGED api
    /\ Return
    /\ UNCHANGED <<job, external, bounds>>

AddFinalizer ==
    /\ pc = "observed" /\ ~cr.deleting
    /\ IF cr.finalizer
       THEN pc' = "managed" /\ UNCHANGED <<api, cr, crCurrent, status>>
       ELSE UpdateCopy([cr EXCEPT !.finalizer = TRUE], "managed")
    /\ UNCHANGED <<job, external, bounds>>

UpToDate ==
    /\ pc = "managed" /\ status \in {"Ready", "Unknown"}
    /\ Return
    /\ UNCHANGED <<api, job, external, bounds>>

(* meta.SetExternalCreatePending, before Create is called. *)
MarkPending ==
    /\ pc = "managed" /\ status = "Creating"
    /\ UpdateCopy(Annotated(cr, {createIncomplete}), "create")
    /\ UNCHANGED <<job, external, bounds>>

(* Mutant: the copy's annotations replace those of the latest object. *)
CriticalReplaces ==
    /\ pc = "critical"
    /\ \/ cacheCurrent /\ obj # NoObject /\ Write([obj EXCEPT !.ann = cr.ann])
       \/ GetUpdateFails /\ (APIErrors \/ ~crCurrent) /\ UNCHANGED api
    /\ Return
    /\ UNCHANGED <<job, external, bounds>>

(* UpdateCriticalAnnotations, after Create returned: on a conflict the     *)
(* annotations of the reconciler's copy are merged into the latest object, *)
(* whichever incarnation that is.                                          *)
Critical ==
    /\ pc = "critical"
    /\ \/ crCurrent /\ Write(cr)
       \/ /\ ~crCurrent /\ cacheCurrent /\ obj # NoObject
          /\ Write([obj EXCEPT !.ann = (@ \ {createIncomplete}) \cup cr.ann])
       \/ GetUpdateFails /\ (APIErrors \/ ~crCurrent) /\ UNCHANGED api
    /\ Return
    /\ UNCHANGED <<job, external, bounds>>

-----------------------------------------------------------------------------
(* Create and Update of the provider.                                      *)

Start(kind, phase) ==
    \E j \in Job :
       /\ job[j].pc = "idle"
       /\ job' = [job EXCEPT ![j] = [kind |-> kind, uid |-> cr.uid, pc |-> phase]]

(* The reconciler records how Create ended in its copy. *)
CreateReturns(keys) ==
    /\ cr' = [cr EXCEPT !.ann = (@ \ {createIncomplete}) \cup keys]
    /\ pc' = "critical"
    /\ UNCHANGED status

(* Mutant: only a creation under way keeps Create from starting. *)
CreateGuardedWhilePending == providerKopsCreatePending \in cr.ann

CreateGuarded ==
    \/ crossplaneCreateSucceeded \in cr.ann
    \/ providerKopsCreatePending \in cr.ann

CreateAlready ==
    /\ pc = "create" /\ CreateGuarded
    /\ CreateReturns({crossplaneCreateSucceeded})
    /\ UNCHANGED <<api, crCurrent, job, external, bounds>>

Create ==
    /\ pc = "create" /\ ~CreateGuarded
    /\ lockCluster(createLockKeys)
    /\ Start("create", "createCluster")
    /\ CreateReturns({crossplaneCreateSucceeded})
    /\ UNCHANGED <<external, bounds>>

(* Also when the lock was written and only the reply was lost. *)
CreateFails ==
    /\ pc = "create" /\ ~CreateGuarded
    /\ \/ APIErrors /\ lockCluster(createLockKeys)
       \/ GetUpdateFails /\ UNCHANGED <<api, crCurrent>>
    /\ CreateReturns({})
    /\ UNCHANGED <<job, external, bounds>>

(* Mutant: the update lock is not looked at. *)
UpdateGuardedUntilComplete ==
    status = "Unknown" \/ providerKopsCreateComplete \notin cr.ann

UpdateGuarded ==
    \/ status = "Unknown"
    \/ providerKopsCreateComplete \notin cr.ann
    \/ providerKopsUpdateLocked \in cr.ann

UpdateSkipped ==
    /\ pc = "managed" /\ status \in {"Updating", "Progressing"} /\ UpdateGuarded
    /\ Return
    /\ UNCHANGED <<api, job, external, bounds>>

(* The job keeps the copy the reconciler had; only its uid is recorded. *)
Update ==
    /\ pc = "managed" /\ status \in {"Updating", "Progressing"} /\ ~UpdateGuarded
    /\ cacheCurrent /\ obj # NoObject /\ obj.ann # {}
    /\ Write(Annotated(obj, updateLockKeys))
    /\ Start("update", "updateCluster")
    /\ Return
    /\ UNCHANGED <<external, bounds>>

(* Mutant: the error of lockCluster is not returned. *)
UpdateFailsAndRuns ==
    /\ pc = "managed" /\ status \in {"Updating", "Progressing"} /\ ~UpdateGuarded
    /\ GetUpdateFails /\ UNCHANGED api
    /\ Start("update", "updateCluster")
    /\ Return
    /\ UNCHANGED <<external, bounds>>

UpdateFails ==
    /\ pc = "managed" /\ status \in {"Updating", "Progressing"} /\ ~UpdateGuarded
    /\ \/ APIErrors /\ cacheCurrent /\ obj # NoObject /\ obj.ann # {}
          /\ Write(Annotated(obj, updateLockKeys))
       \/ GetUpdateFails /\ UNCHANGED api
    /\ Return
    /\ UNCHANGED <<job, external, bounds>>

(* A panic inside a reconcile is recovered by controller-runtime. *)
LockPanics ==
    /\ \/ pc = "create" /\ ~CreateGuarded
       \/ pc = "managed" /\ status \in {"Updating", "Progressing"} /\ ~UpdateGuarded
    /\ AnnotatePanics
    /\ Return
    /\ UNCHANGED <<api, job, external, bounds>>

-----------------------------------------------------------------------------
(* The background jobs.                                                    *)

Goto(j, phase) == job' = [job EXCEPT ![j].pc = phase]

(* Mutants: an update that fails returns before it unlocks; a creation     *)
(* that fails is not annotated.                                            *)
OnErrorReturns(j) == "annotateFail"
OnErrorSilent(j) == IF job[j].kind = "create" THEN "failed" ELSE "unlock"

(* Where a failing kops command leads: runCreate returns to the goroutine  *)
(* that annotates the failure, the goroutine of Update goes on to unlock.  *)
OnError(j) == IF job[j].kind = "create" THEN "annotateFail" ELSE "unlock"

(* kops create refuses a cluster that exists; it may fail half way. *)
createCluster(j) ==
    /\ job[j].pc = "createCluster"
    /\ \/ /\ external = "absent" /\ external' = "config"
          /\ Goto(j, After("createCluster"))
       \/ /\ external' \in {external, IF external = "absent" THEN "config" ELSE external}
          /\ Goto(j, OnError(j))
    /\ UNCHANGED <<api, reconciler, bounds>>

(* Mutant: runCreate goes on after a failed kops update. *)
kopsUpdateClusterUnchecked(j) ==
    /\ job[j].pc = "firstUpdate"
    /\ external' \in {external, "built"} /\ Goto(j, After("firstUpdate"))
    /\ UNCHANGED <<api, reconciler, bounds>>

(* The first kops update builds the cloud resources, or part of them. *)
kopsUpdateCluster(j) ==
    /\ job[j].pc = "firstUpdate"
    /\ \/ external' = "built" /\ Goto(j, After("firstUpdate"))
       \/ external' \in {external, "built"} /\ Goto(j, OnError(j))
    /\ UNCHANGED <<api, reconciler, bounds>>

(* Every other kops command works on a cluster that is there already. *)
runKops(j) ==
    /\ job[j].pc \in KopsPhase \ {"createCluster", "firstUpdate"}
    /\ \E next \in {After(job[j].pc), OnError(j)} : Goto(j, next)
    /\ UNCHANGED <<api, reconciler, external, bounds>>

(* Mutant: the error of the annotation is only logged. *)
annotateCompleteLogged(j) ==
    /\ job[j].pc = "annotateComplete"
    /\ \/ annotateCluster({providerKopsCreateComplete})
       \/ GetUpdateFails /\ UNCHANGED <<api, crCurrent>>
    /\ Goto(j, "unlock")
    /\ UNCHANGED <<cr, pc, status, external, bounds>>

(* The write of a job: it may be applied and its reply lost. *)
annotateComplete(j) ==
    /\ job[j].pc = "annotateComplete"
    /\ \/ /\ annotateCluster({providerKopsCreateComplete})
          /\ \E next \in {"unlock"} \cup (IF APIErrors THEN {"annotateFail"} ELSE {}) : Goto(j, next)
       \/ GetUpdateFails /\ UNCHANGED <<api, crCurrent>> /\ Goto(j, "annotateFail")
    /\ UNCHANGED <<cr, pc, status, external, bounds>>

unlockKeys(j) == IF job[j].kind = "create" THEN createLockKeys ELSE updateLockKeys

(* The goroutine of Update only logs that it could not unlock. *)
unlock(j) ==
    /\ job[j].pc = "unlock"
    /\ LET failed == IF job[j].kind = "create" THEN "annotateFail" ELSE "failed"
       IN  \/ /\ unlockCluster(unlockKeys(j))
              /\ \E next \in {"done"} \cup (IF APIErrors THEN {failed} ELSE {}) : Goto(j, next)
           \/ GetUpdateFails /\ UNCHANGED <<api, crCurrent>> /\ Goto(j, failed)
    /\ UNCHANGED <<cr, pc, status, external, bounds>>

annotateFail(j) ==
    /\ job[j].pc = "annotateFail"
    /\ \/ annotateCluster({providerKopsCreateFail})
       \/ GetUpdateFails /\ UNCHANGED <<api, crCurrent>>
    /\ Goto(j, "failed")
    /\ UNCHANGED <<cr, pc, status, external, bounds>>

-----------------------------------------------------------------------------
(* The process and the user.                                               *)

Live(j) == job[j].pc \in KopsPhase \cup EndPhase

(* Every job dies with the process; the new one lists the CRs afresh. *)
ProcessDies ==
    /\ job' = [j \in Job |-> IF Live(j) THEN [job[j] EXCEPT !.pc = "killed"] ELSE job[j]]
    /\ cached' = obj /\ cacheCurrent' = TRUE
    /\ Return
    /\ UNCHANGED <<obj, external>>

Crash ==
    /\ crashes < MaxCrashes /\ crashes' = crashes + 1
    /\ ProcessDies
    /\ UNCHANGED <<uids, edits>>

(* Nothing recovers a panic in a job. *)
JobPanics(j) ==
    /\ job[j].pc \in {"annotateComplete", "annotateFail"}
    /\ AnnotatePanics
    /\ ProcessDies
    /\ UNCHANGED bounds

Edit ==
    /\ obj # NoObject /\ edits < MaxEdits /\ edits' = edits + 1
    /\ cacheCurrent' = FALSE /\ crCurrent' = FALSE
    /\ UNCHANGED <<obj, cached, cr, pc, status, job, external, uids, crashes>>

(* The object stays while a finalizer holds it. *)
RequestDelete ==
    /\ obj # NoObject /\ ~obj.deleting
    /\ WriteBehind(IF obj.finalizer THEN [obj EXCEPT !.deleting = TRUE] ELSE NoObject)
    /\ UNCHANGED <<cr, pc, status, job, external, bounds>>

Recreate ==
    /\ EarlyRecreates \/ \A j \in Job : ~Live(j)
    /\ obj = NoObject /\ uids < MaxUid /\ uids' = uids + 1
    /\ \E ann \in {{}, {crossplaneExternalName}} : WriteBehind(NewObject(uids', ann))
    /\ UNCHANGED <<cr, pc, status, job, external, edits, crashes>>

(* The manual intervention the comments of Create and Update describe: the *)
(* external cluster is put right, then the annotations.                    *)
Recover ==
    /\ obj # NoObject /\ edits < MaxEdits /\ edits' = edits + 1
    /\ \A j \in Job : ~Live(j)
    /\ providerKopsUpdateLocked \in obj.ann
    /\ LET done == IF providerKopsCreatePending \in obj.ann
                   THEN {providerKopsCreateComplete} ELSE {}
       IN  WriteBehind([obj EXCEPT !.ann = (@ \ createLockKeys) \cup done])
    /\ external' = "built"
    /\ UNCHANGED <<cr, pc, status, job, uids, crashes>>

-----------------------------------------------------------------------------
ReconcilerStep ==
    \/ Fetch \/ Initialize
    \/ ObserveError \/ ObserveNotFound \/ ObserveFound
    \/ Delete \/ AddFinalizer \/ UpToDate
    \/ MarkPending \/ CreateAlready \/ Create \/ CreateFails \/ Critical
    \/ UpdateSkipped \/ Update \/ UpdateFails
    \/ LockPanics

JobStep(j) ==
    \/ createCluster(j) \/ kopsUpdateCluster(j) \/ runKops(j)
    \/ annotateComplete(j) \/ unlock(j) \/ annotateFail(j)
    \/ JobPanics(j)

Environment == Crash \/ Edit \/ RequestDelete \/ Recreate \/ Recover

Next ==
    \/ CacheSync
    \/ ReconcilerStep
    \/ \E j \in Job : JobStep(j)
    \/ Environment

Spec == Init /\ [][Next]_vars

(* controller-runtime requeues every reconcile, at the latest after the    *)
(* poll interval; the scheduler runs the goroutines; the watch delivers.   *)
(* An observation that keeps being possible is not prevented for ever by   *)
(* failing commands, nor the write of a job by the reconciler writing      *)
(* before each of its attempts: the cache lags by milliseconds, reconciles *)
(* are seconds apart.                                                      *)
Fairness ==
    /\ WF_vars(CacheSync)
    /\ WF_vars(ReconcilerStep)
    /\ SF_vars(ObserveNotFound) /\ SF_vars(ObserveFound)
    /\ \A j \in Job : SF_vars(JobStep(j))

FairSpec == Spec /\ Fairness

-----------------------------------------------------------------------------
(* Properties.                                                             *)

RunsKops(j) == job[j].pc \in KopsPhase

(* "Prevent concurrent executions of the kops cli" (the comments of Create *)
(* and Update): no two jobs of the CR run kops at the same time.           *)
OneKopsAtATime == \A i, j \in Job : RunsKops(i) /\ RunsKops(j) => i = j

(* A job that runs kops is covered by the locks its handler set for as     *)
(* long as the CR exists, whatever the reconciler, a user or a job that    *)
(* ended before it write meanwhile.                                        *)
RunningJobHoldsLock ==
    \A j \in Job : RunsKops(j) /\ obj # NoObject => unlockKeys(j) \subseteq obj.ann

(* "Oneshot cluster creation attempt": Create starts at most one job for   *)
(* an incarnation of the CR, under every failure the model has.            *)
CreateOnce ==
    \A i, j \in Job : /\ job[i].kind = "create" /\ job[j].kind = "create"
                      /\ job[i].uid = job[j].uid
                      => i = j

(* "On completion of initial Create go func: set annotation                *)
(* providerKopsCreateComplete" (Create): while the CR of a creation that   *)
(* unlocks, or has, is there, the annotation is on it.  Without it and     *)
(* with Create blocked, neither handler would do anything any more.        *)
CreationIsMarked ==
    \A j \in Job : /\ job[j].kind = "create" /\ job[j].pc \in {"unlock", "done"}
                   /\ job[j].uid = obj.uid
                   => providerKopsCreateComplete \in obj.ann

(* The annotation that lets Update run is on the CR only when the cloud    *)
(* resources were built, and kops update works only on such a cluster.     *)
CompleteImpliesBuilt ==
    \/ external = "built"
    \/ /\ providerKopsCreateComplete \notin obj.ann
       /\ \A j \in Job : job[j].kind = "update" => ~Live(j)

(* An annotation that is on the CR stays on it, whoever writes from a copy *)
(* that may be minutes old: the reconciler takes off its own mark of an    *)
(* incomplete creation, a job the locks of its handler, and the user the   *)
(* locks of a creation that he put right.                                  *)
AnnotationsKept ==
    [][obj'.uid = obj.uid =>
          \A k \in obj.ann \ obj'.ann :
             \/ ReconcilerStep /\ k = createIncomplete
             \/ \E j \in Job : /\ job[j].pc = "unlock" /\ job'[j] # job[j]
                               /\ k \in unlockKeys(j)
             \/ Recover /\ k \in createLockKeys]_vars

(* Whatever fails in the kops commands of an update, the lock is released: *)
(* the next update is not held up for ever.                                *)
UpdateLockReleased ==
    \A j \in Job :
       job[j].kind = "update" /\ Live(j)
       ~> obj = NoObject \/ providerKopsUpdateLocked \notin obj.ann

(* The creation of a new cluster ends with one of the two annotations, or  *)
(* with the deletion of the CR: nobody waits for it in vain.               *)
CreationConcludes ==
    external = "absent" /\ obj # NoObject
    ~> \/ obj = NoObject
       \/ obj.ann \cap {providerKopsCreateComplete, providerKopsCreateFail} # {}

(* While the cache is fresh, "not found" means that, and the CR is created *)
(* again only when no job is left, the annotations are the lock of         *)
(* KopsLock, with one incarnation of the CR after the other.               *)
Lock == INSTANCE KopsLock WITH
           lock <- IF obj = NoObject THEN "gone"
                   ELSE IF providerKopsUpdateLocked \in obj.ann THEN "held" ELSE "free",
           busy <- {j \in Job : RunsKops(j)}

ImplementsKopsLock == Lock!Spec

(* "Please inspect the associated error, fix the issue, and delete/recreate*)
(* the cluster" (the error of Create): a CR that is created again after a  *)
(* creation that failed gets an attempt of its own.                        *)
RecreatingRetries ==
    \A u \in 2..MaxUid :
       obj.uid = u /\ external # "built"
       ~> \/ obj.uid # u \/ obj.deleting \/ external = "built"
          \/ \E j \in Job : job[j].kind = "create" /\ job[j].uid = u
=============================================================================
