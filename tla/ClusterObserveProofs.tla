------------------------- MODULE ClusterObserveProofs -------------------------
(***************************************************************************)
(* The theorems about ClusterObserve, for any number of failures, expiries *)
(* and restarts: its types, that reported failures keep kops from being    *)
(* run, and that it implements Observation.                                *)
(***************************************************************************)
EXTENDS ClusterObserve, TLAPS

USE DEF Annotation, Statuses, Copy, Return

-----------------------------------------------------------------------------
(* Type correctness.                                                       *)

CRType == [ann: SUBSET Annotation, status: Statuses, changed: BOOLEAN,
           validation: {"none", "passed", "failures"}, kubeconfig: Copy]

LEMMA BlankType == Blank \in CRType
BY DEF Blank, CRType

LEMMA OutdatedType == \A copy \in Copy : Outdated(copy) \in Copy
BY DEF Outdated

LEMMA TypeInit == Init => TypeOK
BY BoundAssumption, BlankType DEF Init, TypeOK, CRType

LEMMA TypeStep == TypeOK /\ [Next]_vars => TypeOK'
<1> SUFFICES ASSUME TypeOK, [Next]_vars
             PROVE  TypeOK'
  OBVIOUS
<1> USE DEF environment
<1>t. cr \in CRType /\ Blank \in CRType /\ faults \in 0..MaxFaults
  BY BlankType DEF TypeOK, CRType
<1>1. CASE Fetch
  <2>1. PICK ann \in SUBSET Annotation : cr' = [Blank EXCEPT !.ann = ann]
    BY <1>1 DEF Fetch
  <2>2. cr' \in CRType
    BY <2>1 DEF Blank, CRType
  <2>3. pc' = "get" /\ UNCHANGED <<environment, kubeconfig, condition, secret>>
    BY <1>1 DEF Fetch
  <2> QED
    BY <2>2, <2>3 DEF TypeOK, CRType
<1>2. CASE ObserveError
  BY <1>2, <1>t DEF ObserveError, TypeOK, CRType
<1>3. CASE ObserveNotFound
  BY <1>3 DEF ObserveNotFound, TypeOK
<1>4. CASE ObserveFound
  <2>1. InitialStatus(cr.ann) \in Statuses /\ getClusterConnectionDetails \in Copy
    BY DEF InitialStatus, getClusterConnectionDetails
  <2>2. cr' \in CRType
    BY <1>4, <2>1, <1>t DEF ObserveFound, CRType
  <2> QED
    BY <1>4, <2>2 DEF ObserveFound, TypeOK, CRType
<1>5. CASE forceKubecfgSNI
  BY <1>5 DEF forceKubecfgSNI, TypeOK
<1>6. CASE validateCluster
  BY <1>6 DEF validateCluster, TypeOK
<1>7. CASE validateClusterFails
  BY <1>7 DEF validateClusterFails, TypeOK
<1>8. CASE kopsExportKubecfgAdmin
  BY <1>8, OutdatedType DEF kopsExportKubecfgAdmin, TypeOK
<1>9. CASE kopsExportFails
  BY <1>9, <1>t, OutdatedType DEF kopsExportFails, TypeOK, CRType
<1>10. CASE getNamespacesViaKubectl
  BY <1>10 DEF getNamespacesViaKubectl, TypeOK
<1>11. CASE kubectlFails
  BY <1>11 DEF kubectlFails, TypeOK
<1>12. CASE Switch
  <2>1. condition' \in {"None", "Creating", "Available", "Unavailable"} /\ secret' \in Copy
    BY <1>12 DEF Switch, TypeOK
  <2>2. cr' \in CRType /\ pc' \in {"idle", "create", "update"}
    BY <1>12, <1>t DEF Switch
  <2> QED
    BY <1>12, <2>1, <2>2 DEF Switch, TypeOK, CRType
<1>13. CASE Create
  BY <1>13, <1>t DEF Create, TypeOK, CRType
<1>14. CASE Update
  BY <1>14, <1>t DEF Update, getClusterConnectionDetails, TypeOK, CRType
<1>15. CASE Grow
  BY <1>15 DEF Grow, TypeOK
<1>16. CASE HealthChanges \/ Expire
  <2>1. faults' \in 0..MaxFaults
    BY <1>16, <1>t, BoundAssumption DEF HealthChanges, Expire, Fault
  <2>2. healthy' \in BOOLEAN /\ kubeconfig' \in {"absent", "valid", "expired"}
    BY <1>16 DEF HealthChanges, Expire, TypeOK
  <2> QED
    BY <1>16, <2>1, <2>2 DEF HealthChanges, Expire, TypeOK
<1>17. CASE Restart
  BY <1>17, <1>t, OutdatedType, BoundAssumption DEF Restart, Fault, TypeOK, CRType
<1>18. CASE UNCHANGED vars
  BY <1>18 DEF vars, TypeOK
<1> QED
  BY <1>1, <1>2, <1>3, <1>4, <1>5, <1>6, <1>7, <1>8, <1>9, <1>10, <1>11, <1>12, <1>13,
     <1>14, <1>15, <1>16, <1>17, <1>18 DEF Next, ReconcilerStep, Environment

(* Every reachable state has the types of the declarations; no more        *)
(* statuses are reported than the API has.                                 *)
THEOREM TypeCorrect == Spec => []TypeOK
BY TypeInit, TypeStep, PTL DEF Spec

-----------------------------------------------------------------------------
(* Failures keep kops from being run.                                      *)

(* The status stays what the annotations make it until kubectl has the     *)
(* last word, and a reported failure keeps it there.                       *)
Stable == {"Unknown", "Progressing"}

StatusInv ==
    /\ pc = "get" => cr.validation = "none"
    /\ pc \in {"view", "validate", "export", "kubectl", "reissue"} => cr.status \in Stable
    /\ cr.validation = "failures" => cr.status \in Stable
    /\ cr.status = "Progressing" => providerKopsCreateComplete \notin cr.ann
    /\ pc = "update" => cr.status \in {"Updating", "Progressing"}

LEMMA StatusBlank ==
    ASSUME cr' = Blank, pc' = "idle"
    PROVE  StatusInv'
BY DEF StatusInv, Blank

LEMMA StatusStep == TypeOK /\ StatusInv /\ [Next]_vars => StatusInv'
<1> SUFFICES ASSUME TypeOK, StatusInv, [Next]_vars
             PROVE  StatusInv'
  OBVIOUS
<1> USE DEF environment, Stable
<1>t. cr \in CRType
  BY DEF TypeOK, CRType
<1>1. CASE Fetch
  <2>1. cr'.validation = "none" /\ cr'.status = "None"
    BY <1>1 DEF Fetch, Blank
  <2> QED
    BY <1>1, <2>1 DEF Fetch, StatusInv
<1>2. CASE ObserveNotFound
  BY <1>2, <1>t DEF ObserveNotFound, StatusInv, CRType
<1>3. CASE ObserveFound
  <2>1. /\ cr'.status = InitialStatus(cr.ann) /\ cr'.ann = cr.ann
        /\ cr'.validation = cr.validation /\ pc' = "view"
    BY <1>3, <1>t DEF ObserveFound, CRType
  <2> QED
    BY <1>3, <2>1 DEF ObserveFound, InitialStatus, StatusInv
<1>4. CASE forceKubecfgSNI \/ validateClusterFails \/ kubectlFails
  BY <1>4 DEF forceKubecfgSNI, validateClusterFails, kubectlFails, StatusInv
<1>5. CASE validateCluster
  <2>1. cr'.status = cr.status /\ cr'.ann = cr.ann /\ pc' \in {"kubectl", "export"}
    BY <1>5, <1>t DEF validateCluster, CRType
  <2> QED
    BY <1>5, <2>1 DEF validateCluster, StatusInv
<1>6. CASE kopsExportKubecfgAdmin
  <2>1. /\ cr'.status = cr.status /\ cr'.ann = cr.ann /\ cr'.validation = cr.validation
        /\ pc' \in {"kubectl", "switch"}
    BY <1>6, <1>t DEF kopsExportKubecfgAdmin, CRType
  <2> QED
    BY <1>6, <2>1 DEF kopsExportKubecfgAdmin, StatusInv
<1>7. CASE getNamespacesViaKubectl
  <2>1. CASE cr.validation = "failures"
    BY <1>7, <2>1 DEF getNamespacesViaKubectl, StatusInv
  <2>2. CASE cr.validation # "failures"
    <3>1. /\ cr'.status \in {"Ready", "Updating"} /\ cr'.validation = cr.validation
          /\ pc' = "switch"
      BY <1>7, <2>2, <1>t DEF getNamespacesViaKubectl, CRType
    <3> QED
      BY <2>2, <3>1 DEF StatusInv
  <2> QED
    BY <2>1, <2>2
<1>8. CASE Switch
  <2>1. CASE cr.status = "Creating" /\ pc' = "create" /\ UNCHANGED cr
    BY <2>1 DEF StatusInv
  <2>2. CASE cr.status \in {"Updating", "Progressing"} /\ pc' = "update" /\ UNCHANGED cr
    BY <2>2 DEF StatusInv
  <2>3. CASE cr.status \in {"Ready", "Unknown"} /\ Return
    BY <2>3, StatusBlank
  <2> QED
    BY <1>8, <2>1, <2>2, <2>3 DEF Switch
<1>9. CASE ObserveError \/ kopsExportFails \/ Create \/ Update \/ Restart
  BY <1>9, StatusBlank DEF ObserveError, kopsExportFails, Create, Update, Restart
<1>10. CASE Grow \/ HealthChanges \/ Expire \/ UNCHANGED vars
  BY <1>10 DEF Grow, HealthChanges, Expire, vars, StatusInv
<1> QED
  BY <1>1, <1>2, <1>3, <1>4, <1>5, <1>6, <1>7, <1>8, <1>9, <1>10
     DEF Next, ReconcilerStep, Environment

(* No update of the cluster follows an observation whose validation has    *)
(* reported failures: the Update of the provider returns at its guards,    *)
(* although kubectl answers and the spec differs.                          *)
THEOREM FailuresBlock == Spec => []FailuresBlockUpdates
<1>1. Init => StatusInv
  BY StatusBlank DEF Init, StatusInv, Blank
<1>2. StatusInv => FailuresBlockUpdates
  BY DEF StatusInv, FailuresBlockUpdates, UpdateGuarded, Stable
<1> QED
  BY <1>1, <1>2, StatusStep, TypeCorrect, PTL DEF Spec

-----------------------------------------------------------------------------
(* Refinement.                                                             *)

LEMMA ObsForgets == ASSUME UNCHANGED external, cr' = Blank PROVE Obs!Forget
BY DEF Obs!Forget, Blank

LEMMA ObsStep == TypeOK /\ [Next]_vars => [Obs!Next]_(Obs!vars)
<1> SUFFICES ASSUME TypeOK, [Next]_vars
             PROVE  [Obs!Next]_(Obs!vars)
  OBVIOUS
<1> USE DEF environment
<1>t. cr \in CRType
  BY DEF TypeOK, CRType
<1>1. CASE ObserveNotFound
  <2>1. Obs!NotFound
    BY <1>1, <1>t DEF ObserveNotFound, Obs!NotFound, CRType
  <2> QED
    BY <2>1 DEF Obs!Next
<1>2. CASE ObserveFound
  <2>1. cr'.status = InitialStatus(cr.ann)
    BY <1>2, <1>t DEF ObserveFound, CRType
  <2>2. Obs!Found
    BY <1>2, <2>1 DEF ObserveFound, InitialStatus, Obs!Found
  <2> QED
    BY <2>2 DEF Obs!Next
<1>3. CASE getNamespacesViaKubectl
  <2>1. CASE cr.validation = "failures"
    BY <1>3, <2>1 DEF getNamespacesViaKubectl, Obs!vars
  <2>2. CASE cr.validation # "failures"
    <3>1. cr'.status \in {"Ready", "Updating"}
      BY <1>3, <2>2, <1>t DEF getNamespacesViaKubectl, CRType
    <3>2. Obs!Found
      BY <1>3, <3>1 DEF getNamespacesViaKubectl, Obs!Found, Obs!Operating
    <3> QED
      BY <3>2 DEF Obs!Next
  <2> QED
    BY <2>1, <2>2
<1>4. CASE validateCluster \/ kopsExportKubecfgAdmin
  <2>1. cr'.status = cr.status /\ UNCHANGED external
    BY <1>4, <1>t DEF validateCluster, kopsExportKubecfgAdmin, CRType
  <2> QED
    BY <2>1 DEF Obs!vars
<1>5. CASE Fetch
  <2>1. cr'.status = "None" /\ UNCHANGED external
    BY <1>5 DEF Fetch, Blank
  <2> QED
    BY <2>1 DEF Obs!Forget, Obs!Next
<1>6. CASE ObserveError \/ kopsExportFails \/ Create \/ Update \/ Restart
  BY <1>6, ObsForgets DEF ObserveError, kopsExportFails, Create, Update, Restart, Obs!Next
<1>7. CASE Switch
  BY <1>7, ObsForgets DEF Switch, Obs!vars, Obs!Next
<1>8. CASE Grow
  <2>1. Obs!Grow
    BY <1>8 DEF Grow, Obs!Grow
  <2> QED
    BY <2>1 DEF Obs!Next
<1>9. CASE \/ forceKubecfgSNI \/ validateClusterFails \/ kubectlFails
           \/ HealthChanges \/ Expire \/ UNCHANGED vars
  BY <1>9 DEF forceKubecfgSNI, validateClusterFails, kubectlFails, HealthChanges, Expire,
     vars, Obs!vars
<1> QED
  BY <1>1, <1>2, <1>3, <1>4, <1>5, <1>6, <1>7, <1>8, <1>9
     DEF Next, ReconcilerStep, Environment

(* Observe, command by command, reports a status that fits what exists:    *)
(* Creating only of a cluster that kops get did not find, Ready and        *)
(* Updating only of one whose cloud resources were built.                  *)
THEOREM ObserveImplementsObservation == Spec => ImplementsObservation
<1>1. Init => Obs!Init
  BY DEF Init, Obs!Init, Obs!External, Blank
<1> QED
  BY <1>1, ObsStep, TypeCorrect, PTL DEF Spec, ImplementsObservation, Obs!Spec
-----------------------------------------------------------------------------
(* What is updated.                                                        *)

(* What Observation promises is kept in all its behaviours, and so in all  *)
(* of Observe: Ready and Updating are reported only of a cluster whose     *)
(* cloud resources were built, and stay true while the cluster grows.      *)
THEOREM OperatingIsBuilt == Spec => []Obs!OperatingIsBuilt
<1>1. Obs!Init => Obs!OperatingIsBuilt
  BY DEF Obs!Init, Obs!OperatingIsBuilt, Obs!Operating
<1>2. Obs!OperatingIsBuilt /\ [Obs!Next]_(Obs!vars) => Obs!OperatingIsBuilt'
  BY DEF Obs!OperatingIsBuilt, Obs!Operating, Obs!Next, Obs!vars, Obs!Grow, Obs!NotFound,
         Obs!Found, Obs!Forget
<1>3. Obs!Spec => []Obs!OperatingIsBuilt
  BY <1>1, <1>2, PTL DEF Obs!Spec
<1> QED
  BY <1>3, ObserveImplementsObservation, PTL DEF ImplementsObservation

(* The Update that is not held back has a difference to apply, on a        *)
(* cluster that was built.                                                 *)
THEOREM UpdatesCalledFor == Spec => []UpdatesAreCalledFor
<1> DEFINE ChangedInv == cr.status = "Updating" => cr.changed
<1>1. Init => StatusInv /\ ChangedInv
  BY StatusBlank DEF Init, StatusInv, Blank
<1>2. TypeOK /\ ChangedInv /\ [Next]_vars => ChangedInv'
  <2> SUFFICES ASSUME TypeOK, ChangedInv, [Next]_vars
               PROVE  ChangedInv'
    OBVIOUS
  <2>t. cr \in CRType
    BY DEF TypeOK, CRType
  <2>1. CASE Fetch
    BY <2>1 DEF Fetch, Blank
  <2>2. CASE ObserveNotFound
    BY <2>2, <2>t DEF ObserveNotFound, CRType
  <2>3. CASE ObserveFound
    <3>1. cr'.status = InitialStatus(cr.ann)
      BY <2>3, <2>t DEF ObserveFound, CRType
    <3> QED
      BY <3>1 DEF InitialStatus
  <2>4. CASE validateCluster \/ kopsExportKubecfgAdmin
    BY <2>4, <2>t DEF validateCluster, kopsExportKubecfgAdmin, CRType
  <2>5. CASE getNamespacesViaKubectl
    <3>1. CASE cr.validation = "failures"
      BY <2>5, <3>1 DEF getNamespacesViaKubectl
    <3>2. CASE cr.validation # "failures"
      <4>1. /\ cr'.status = (IF cr.changed THEN "Updating" ELSE "Ready")
            /\ cr'.changed = cr.changed
        BY <2>5, <3>2, <2>t DEF getNamespacesViaKubectl, CRType
      <4> QED
        BY <4>1
    <3> QED
      BY <3>1, <3>2
  <2>6. CASE cr' = Blank \/ UNCHANGED cr
    BY <2>6 DEF Blank
  <2> QED
    BY <2>1, <2>2, <2>3, <2>4, <2>5, <2>6
       DEF Next, ReconcilerStep, Environment, ObserveError, forceKubecfgSNI,
           validateClusterFails, kopsExportFails, kubectlFails, Switch, Create, Update,
           Grow, HealthChanges, Expire, Restart, vars
<1>3. StatusInv /\ ChangedInv /\ Obs!OperatingIsBuilt => UpdatesAreCalledFor
  <2> SUFFICES ASSUME StatusInv, ChangedInv, Obs!OperatingIsBuilt,
                      pc = "update", ~UpdateGuarded
               PROVE  external = "built" /\ cr.changed
    BY DEF UpdatesAreCalledFor
  <2>1. cr.status = "Updating"
    BY DEF StatusInv, UpdateGuarded
  <2> QED
    BY <2>1 DEF Obs!OperatingIsBuilt, Obs!Operating
<1> HIDE DEF ChangedInv
<1> QED
  BY <1>1, <1>2, <1>3, StatusStep, TypeCorrect, OperatingIsBuilt, PTL DEF Spec

=============================================================================
