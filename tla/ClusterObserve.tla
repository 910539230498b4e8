---------------------------- MODULE ClusterObserve ----------------------------
(***************************************************************************)
(* Observe of the provider, command by command, and what the managed       *)
(* reconciler does with its result: kops get, the look into the kubeconfig *)
(* file, kops validate, kubectl, and the export of new admin credentials   *)
(* when one of the latter two is refused.  The cluster grows, fails and    *)
(* heals, credentials expire and the process restarts between any two of   *)
(* the commands.                                                           *)
(*                                                                         *)
(* The creation and the update jobs are those of ClusterController: here   *)
(* they only make external grow.  A "not found" is believed to mean it;    *)
(* ClusterController has the other case.  Whether the spec differs is a    *)
(* choice; ClusterUpdate has the difference.                               *)
(***************************************************************************)
EXTENDS Naturals

CONSTANT MaxFaults  \* bound: failures, expiries and restarts

ASSUME BoundAssumption == MaxFaults \in Nat

providerKopsCreatePending  == "create-pending"
providerKopsCreateComplete == "create-complete"
providerKopsUpdateLocked   == "update-locked"
Annotation == {providerKopsCreatePending, providerKopsCreateComplete, providerKopsUpdateLocked}

VARIABLES
    external,    \* what exists of the cluster: nothing, its kops config, or all
    healthy,     \* kops validate would find no failures
    kubeconfig,  \* the file of getKubeConfigFilePath and its credentials
    pc,          \* which command comes next
    cr,          \* the reconciler's copy and the local variables of Observe
    condition,   \* the condition Ready on the CR, by its reason
    secret,      \* the kubeconfig in the connection secret
    faults

environment == <<external, healthy, faults>>
vars == <<environment, kubeconfig, pc, cr, condition, secret>>

(* A kubeconfig that was read or published is that of the file, an older   *)
(* one, or empty because there was no file.                                *)
Copy == {"none", "empty", "file", "old"}

(* validation: what kops validate answered, if it did.                     *)
Blank == [ann |-> {}, status |-> "None", changed |-> FALSE, validation |-> "none", kubeconfig |-> "none"]

Statuses == {"None", "Creating", "Ready", "Updating", "Progressing", "Unknown"}

TypeOK ==
    /\ external \in {"absent", "config", "built"}
    /\ healthy \in BOOLEAN
    /\ kubeconfig \in {"absent", "valid", "expired"}
    /\ pc \in {"idle", "get", "view", "validate", "export", "kubectl", "reissue",
               "switch", "create", "update"}
    /\ cr \in [ann: SUBSET Annotation, status: Statuses, changed: BOOLEAN,
               validation: {"none", "passed", "failures"}, kubeconfig: Copy]
    /\ condition \in {"None", "Creating", "Available", "Unavailable"}
    /\ secret \in Copy
    /\ faults \in 0..MaxFaults

Init ==
    /\ external \in {"absent", "config", "built"} /\ healthy \in BOOLEAN
    /\ kubeconfig = "absent"
    /\ pc = "idle" /\ cr = Blank
    /\ condition = "None" /\ secret = "none"
    /\ faults = 0

-----------------------------------------------------------------------------
(* The commands of Observe.                                                *)

Return == pc' = "idle" /\ cr' = Blank

(* The cluster of a CR that is annotated as complete was built. *)
Fetch ==
    /\ pc = "idle"
    /\ \E ann \in SUBSET Annotation :
          /\ providerKopsCreateComplete \in ann => external = "built"
          /\ cr' = [Blank EXCEPT !.ann = ann]
    /\ pc' = "get"
    /\ UNCHANGED <<environment, kubeconfig, condition, secret>>

(* Connect or kops get fails. *)
ObserveError ==
    /\ pc = "get"
    /\ Return
    /\ UNCHANGED <<environment, kubeconfig, condition, secret>>

ObserveNotFound ==
    /\ pc = "get" /\ external = "absent"
    /\ cr' = [cr EXCEPT !.status = "Creating"]
    /\ pc' = "switch"
    /\ UNCHANGED <<environment, kubeconfig, condition, secret>>

(* Mutant: a status that the API does not know. *)
InitialStatusPending(ann) ==
    IF providerKopsCreatePending \in ann /\ providerKopsCreateComplete \notin ann
    THEN "Pending" ELSE "Unknown"

InitialStatus(ann) ==
    IF providerKopsCreatePending \in ann /\ providerKopsCreateComplete \notin ann
    THEN "Progressing" ELSE "Unknown"

getClusterConnectionDetails == IF kubeconfig = "absent" THEN "empty" ELSE "file"

(* The kubeconfig to publish is read before it may be exported anew. *)
ObserveFound ==
    /\ pc = "get" /\ external # "absent"
    /\ \E changed \in BOOLEAN :
          cr' = [cr EXCEPT !.status = InitialStatus(cr.ann), !.changed = changed,
                           !.kubeconfig = getClusterConnectionDetails]
    /\ pc' = "view"
    /\ UNCHANGED <<environment, kubeconfig, condition, secret>>

(* The first command of validateCluster looks at the file only: without    *)
(* one its error is errNoAuth, any other error is not.                     *)
forceKubecfgSNI ==
    /\ pc = "view"
    /\ pc' = IF kubeconfig = "absent" THEN "export" ELSE "validate"
    /\ UNCHANGED <<environment, kubeconfig, cr, condition, secret>>

(* Mutant: failures are lost with the exit code of the command. *)
validateClusterByExitCode ==
    /\ pc = "validate" /\ external = "built"
    /\ \/ /\ kubeconfig = "valid"
          /\ cr' = [cr EXCEPT !.validation = IF healthy THEN "passed" ELSE "none"]
          /\ pc' = "kubectl"
       \/ /\ kubeconfig = "expired"
          /\ pc' = "export" /\ UNCHANGED cr
    /\ UNCHANGED <<environment, kubeconfig, condition, secret>>

(* The answer is json, with an exit code that is not zero when there are   *)
(* failures; "Unauthorized" is errNoAuth.                                  *)
validateCluster ==
    /\ pc = "validate" /\ external = "built"
    /\ \/ /\ kubeconfig = "valid"
          /\ cr' = [cr EXCEPT !.validation = IF healthy THEN "passed" ELSE "failures"]
          /\ pc' = "kubectl"
       \/ /\ kubeconfig = "expired"
          /\ pc' = "export" /\ UNCHANGED cr
    /\ UNCHANGED <<environment, kubeconfig, condition, secret>>

(* Any other error of validateCluster is overwritten by that of kubectl. *)
validateClusterFails ==
    /\ pc \in {"view", "validate"}
    /\ pc' = "kubectl"
    /\ UNCHANGED <<environment, kubeconfig, cr, condition, secret>>

Outdated(copy) == IF copy = "file" THEN "old" ELSE copy

(* The export takes what the state store has, resources or not.  Then the  *)
(* observation goes on where it was: kops validate is not run again, and   *)
(* kubectl is not either.                                                  *)
kopsExportKubecfgAdmin ==
    /\ pc \in {"export", "reissue"} /\ external # "absent"
    /\ kubeconfig' = "valid"
    /\ secret' = Outdated(secret)
    /\ cr' = [cr EXCEPT !.kubeconfig = Outdated(@)]
    /\ pc' = IF pc = "export" THEN "kubectl" ELSE "switch"
    /\ UNCHANGED <<environment, condition>>

(* The error is returned, before or after the file was written: the store  *)
(* may not hold the keys yet, for one.                                     *)
kopsExportFails ==
    /\ pc \in {"export", "reissue"}
    /\ \/ UNCHANGED <<kubeconfig, secret>>
       \/ external # "absent" /\ kubeconfig' = "valid" /\ secret' = Outdated(secret)
    /\ Return
    /\ UNCHANGED <<environment, condition>>

(* Mutant: kubectl alone decides. *)
getNamespacesViaKubectlOnly ==
    /\ pc = "kubectl" /\ external = "built" /\ kubeconfig = "valid"
    /\ cr' = [cr EXCEPT !.status = IF cr.changed THEN "Updating" ELSE "Ready",
                        !.ann = @ \cup {providerKopsCreateComplete}]
    /\ pc' = "switch"
    /\ UNCHANGED <<environment, kubeconfig, condition, secret>>

(* Only failures that were reported count, an error of validation does not. *)
getNamespacesViaKubectl ==
    /\ pc = "kubectl" /\ external = "built" /\ kubeconfig = "valid"
    /\ cr' = IF cr.validation = "failures" THEN cr
             ELSE [cr EXCEPT !.status = IF cr.changed THEN "Updating" ELSE "Ready",
                             !.ann = @ \cup {providerKopsCreateComplete}]
    /\ pc' = "switch"
    /\ UNCHANGED <<environment, kubeconfig, condition, secret>>

(* Mutant: the error of kubectl does not count after the export. *)
kubectlFailsForgiven ==
    /\ pc = "kubectl"
    /\ cr' = [cr EXCEPT !.status = IF cr.changed THEN "Updating" ELSE "Ready"]
    /\ pc' = "reissue"
    /\ UNCHANGED <<environment, kubeconfig, condition, secret>>

kubectlFails ==
    /\ pc = "kubectl"
    /\ pc' = "reissue"
    /\ UNCHANGED <<environment, kubeconfig, cr, condition, secret>>

-----------------------------------------------------------------------------
(* The status switch, the connection secret and the handlers.              *)

(* Mutant: what is published once is not published again. *)
SwitchPublishesOnce ==
    /\ pc = "switch"
    /\ secret' = IF cr.status = "Creating" \/ secret # "none" THEN secret ELSE cr.kubeconfig
    /\ \/ cr.status = "Creating" /\ pc' = "create" /\ UNCHANGED cr
       \/ cr.status \in {"Updating", "Progressing"} /\ pc' = "update" /\ UNCHANGED cr
       \/ cr.status \in {"Ready", "Unknown"} /\ Return
    /\ UNCHANGED <<environment, kubeconfig, condition>>

(* Mutant: a resource that is Ready is not reported to be up to date. *)
SwitchUpdatesReady ==
    /\ pc = "switch"
    /\ condition' = CASE cr.status = "Creating"    -> "Creating"
                      [] cr.status = "Ready"       -> "Available"
                      [] cr.status = "Progressing" -> "Unavailable"
                      [] OTHER                     -> condition
    /\ secret' = IF cr.status = "Creating" THEN secret ELSE cr.kubeconfig
    /\ \/ cr.status = "Creating" /\ pc' = "create" /\ UNCHANGED cr
       \/ cr.status \in {"Ready", "Updating", "Progressing"} /\ pc' = "update" /\ UNCHANGED cr
       \/ cr.status = "Unknown" /\ Return
    /\ UNCHANGED <<environment, kubeconfig>>

(* Unknown and Updating set no condition, and an Unknown resource counts   *)
(* as up to date: the cases of the switch do not fall through.             *)
Switch ==
    /\ pc = "switch"
    /\ condition' = CASE cr.status = "Creating"    -> "Creating"
                      [] cr.status = "Ready"       -> "Available"
                      [] cr.status = "Progressing" -> "Unavailable"
                      [] OTHER                     -> condition
    /\ secret' = IF cr.status = "Creating" THEN secret ELSE cr.kubeconfig
    /\ \/ cr.status = "Creating" /\ pc' = "create" /\ UNCHANGED cr
       \/ cr.status \in {"Updating", "Progressing"} /\ pc' = "update" /\ UNCHANGED cr
       \/ cr.status \in {"Ready", "Unknown"} /\ Return
    /\ UNCHANGED <<environment, kubeconfig>>

(* Create returns an empty kubeconfig, or an error and nothing. *)
Create ==
    /\ pc = "create"
    /\ secret' \in {secret, "empty"}
    /\ Return
    /\ UNCHANGED <<environment, kubeconfig, condition>>

UpdateGuarded ==
    \/ cr.status = "Unknown"
    \/ providerKopsCreateComplete \notin cr.ann
    \/ providerKopsUpdateLocked \in cr.ann

(* Whether it starts a job or not, Update publishes the file once more;    *)
(* only the error of a lock that cannot be taken keeps it from that.       *)
Update ==
    /\ pc = "update"
    /\ \/ secret' = getClusterConnectionDetails
       \/ ~UpdateGuarded /\ UNCHANGED secret
    /\ Return
    /\ UNCHANGED <<environment, kubeconfig, condition>>

-----------------------------------------------------------------------------
(* The world.                                                              *)

Grow ==
    /\ external' \in (IF external = "absent" THEN {"config", "built"}
                      ELSE IF external = "config" THEN {"built"} ELSE {})
    /\ UNCHANGED <<healthy, faults, kubeconfig, pc, cr, condition, secret>>

Fault == faults < MaxFaults /\ faults' = faults + 1

HealthChanges ==
    /\ Fault
    /\ healthy' = ~healthy
    /\ UNCHANGED <<external, kubeconfig, pc, cr, condition, secret>>

(* The credentials live for a day. *)
Expire ==
    /\ Fault
    /\ kubeconfig = "valid" /\ kubeconfig' = "expired"
    /\ UNCHANGED <<external, healthy, pc, cr, condition, secret>>

(* The files of /tmp go with the container. *)
Restart ==
    /\ Fault
    /\ kubeconfig' = "absent"
    /\ secret' = Outdated(secret)
    /\ Return
    /\ UNCHANGED <<external, healthy, condition>>

-----------------------------------------------------------------------------
ReconcilerStep ==
    \/ Fetch \/ ObserveError \/ ObserveNotFound \/ ObserveFound
    \/ forceKubecfgSNI \/ validateCluster \/ validateClusterFails
    \/ kopsExportKubecfgAdmin \/ kopsExportFails
    \/ getNamespacesViaKubectl \/ kubectlFails
    \/ Switch \/ Create \/ Update

Environment == Grow \/ HealthChanges \/ Expire \/ Restart

Next == ReconcilerStep \/ Environment

Spec == Init /\ [][Next]_vars

(* Reconciles are requeued.  A command that could succeed in observation   *)
(* after observation does so at last.                                      *)
Fairness ==
    /\ WF_vars(ReconcilerStep)
    /\ SF_vars(ObserveFound)
    /\ SF_vars(forceKubecfgSNI) /\ SF_vars(validateCluster)
    /\ SF_vars(kopsExportKubecfgAdmin)
    /\ SF_vars(getNamespacesViaKubectl)

FairSpec == Spec /\ Fairness

-----------------------------------------------------------------------------
(* Properties.                                                             *)

(* The statuses that let kops run mean what the handlers take them for,    *)
(* although the cluster grows during the observation: "not found" holds    *)
(* when kops get was run, Ready and Updating when the observation ends.    *)
Obs == INSTANCE Observation WITH status <- cr.status
ImplementsObservation == Obs!Spec

(* "Skipping updates until external state is stable" (Update): when the    *)
(* validation of an observation has reported failures, the Update that     *)
(* follows starts no job, whatever kubectl said and whatever differs.      *)
FailuresBlockUpdates ==
    pc = "update" /\ cr.validation = "failures" => UpdateGuarded

(* The Update that is not held back has something to do, on a cluster that *)
(* can take it: the observation found a difference, and the cloud          *)
(* resources had been built, even when the CR lost the annotation that     *)
(* says so and kops get was run while they were being created.             *)
UpdatesAreCalledFor ==
    pc = "update" /\ ~UpdateGuarded => external = "built" /\ cr.changed

(* A healthy cluster is recognised again after its credentials expired,    *)
(* were lost with the container or were never there, and what clients find *)
(* in the connection secret becomes the current kubeconfig.                *)
Recovers ==
    <>[](external = "built" /\ healthy)
    => /\ []<>(pc = "switch" /\ cr.status \in {"Ready", "Updating"})
       /\ []<>(secret = "file" /\ kubeconfig = "valid")

(* A cluster that stays broken does not pass for good: validation, whose   *)
(* errors count for nothing, is answered at last, and the failures it then *)
(* reports keep the cluster from being Ready or updated.                   *)
NoticesFailures ==
    <>[](external = "built" /\ ~healthy)
    => []<>(pc = "switch" /\ cr.status \in {"Progressing", "Unknown"})

(* "status of cluster %s is unknown, this could be due to validation       *)
(* errors, skipping updates until external state is stable" (Update): an   *)
(* update starts only after a validation that passed.                      *)
UpdatesAreValidated ==
    pc = "update" /\ ~UpdateGuarded => cr.validation = "passed"
=============================================================================
