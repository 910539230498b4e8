---------------------------- MODULE ClusterUpdate ----------------------------
(***************************************************************************)
(* What an update does to a cluster.  A reconcile fetches the CR, observes *)
(* the state store of kops and compares it with the spec; if they differ,  *)
(* Update takes the lock and starts a goroutine (the job) that computes    *)
(* the same difference, applies it delta by delta to the state store, has  *)
(* kops update the cloud resources and roll the nodes, and does the latter *)
(* two again.  The spec, and by hand the store, may change meanwhile.      *)
(*                                                                         *)
(* The lock is that of ClusterController on fresh reads: one variable,     *)
(* looked up when the reconcile begins.  Taking it and giving it back may  *)
(* fail, and either may leave it on the CR with no job.  A value stands    *)
(* for the yaml of a cluster or of an instance group as                    *)
(* buildKopsYamlStructs renders it; the order of the deltas of one kind,   *)
(* that of the lists in the spec, is left open.                            *)
(***************************************************************************)
EXTENDS Naturals

CONSTANTS
    Group,           \* names of instance groups
    ControlPlane,    \* those whose role is the control plane
    Secret,          \* kinds of secrets
    MaxEdits,        \* bound: edits of the spec
    MaxDrifts,       \* bound: changes of the store by hand
    MaxFaults        \* bound: what leaves the lock without a job: crashes of the
                     \* process, unlocks that fail, locks whose reply is lost

ASSUME GroupAssumption == ControlPlane \subseteq Group /\ ControlPlane # {}
ASSUME BoundAssumption == MaxEdits \in Nat /\ MaxDrifts \in Nat /\ MaxFaults \in Nat

(* Which version of the yaml of a resource. *)
Value    == 0..(MaxEdits + 1)
GroupMap == UNION {[S -> Value] : S \in SUBSET Group}

(* The spec of the CR and what kops keeps of it in its state store. *)
Config == [cluster: Value, groups: GroupMap, secrets: SUBSET Secret]

(* A change list, by operation and resource of observedDelta. *)
Deltas == [cluster: BOOLEAN, create: SUBSET Group, replace: SUBSET Group,
           secrets: SUBSET Secret]
NoDeltas == [cluster |-> FALSE, create |-> {}, replace |-> {}, secrets |-> {}]

(* What the cloud resources and the nodes of a group are made from. *)
Machine    == [cluster: Value, group: Value]
MachineMap == UNION {[S -> Machine] : S \in SUBSET Group}

VARIABLES
    spec,    \* spec.forProvider of the CR
    locked,  \* providerKopsUpdateLocked is on the CR
    cr,      \* the reconciler's copy: its spec, its lock, what was observed
    pc,      \* where the reconciler is
    job,     \* the goroutine of Update
    store,   \* the state store of kops
    cloud,   \* launch configuration of each group
    nodes,   \* what the running nodes of each group were launched from
    edits, drifts, faults

bounds == <<edits, drifts, faults>>
vars   == <<spec, locked, cr, pc, job, store, cloud, nodes, bounds>>

JobPhase == {"idle", "deltas", "roll", "passTwo", "passTwoRoll", "complete", "failed"}

TypeOK ==
    /\ spec \in Config /\ store \in Config
    /\ locked \in BOOLEAN
    /\ cr \in [spec: Config, locked: BOOLEAN, seen: Config]
    /\ pc \in {"idle", "observe", "upToDate", "update"}
    /\ job \in [pc: JobPhase, spec: Config, deltas: Deltas]
    /\ cloud \in MachineMap /\ nodes \in MachineMap
    /\ edits \in 0..MaxEdits /\ drifts \in 0..MaxDrifts /\ faults \in 0..MaxFaults

-----------------------------------------------------------------------------
(* Observation and difference.                                             *)

(* Without instance groups the secrets are not asked for any more. *)
observeCluster(s) ==
    IF DOMAIN s.groups = {} THEN [s EXCEPT !.secrets = {}] ELSE s

(* Mutant: secrets that are only in the store count as a difference. *)
diffClusterV2BothWays(desired, seen) ==
    [cluster |-> desired.cluster # seen.cluster,
     create  |-> DOMAIN desired.groups \ DOMAIN seen.groups,
     replace |-> {g \in DOMAIN desired.groups \cap DOMAIN seen.groups :
                     desired.groups[g] # seen.groups[g]},
     secrets |-> (desired.secrets \ seen.secrets) \cup (seen.secrets \ desired.secrets)]

(* Nothing is ever deleted: a group or secret that only the store has is   *)
(* no difference.                                                          *)
diffClusterV2(desired, seen) ==
    [cluster |-> desired.cluster # seen.cluster,
     create  |-> DOMAIN desired.groups \ DOMAIN seen.groups,
     replace |-> {g \in DOMAIN desired.groups \cap DOMAIN seen.groups :
                     desired.groups[g] # seen.groups[g]},
     secrets |-> desired.secrets \ seen.secrets]

(* The reference: every part of the spec is in the store. *)
Covers(s, desired) ==
    /\ s.cluster = desired.cluster
    /\ DOMAIN desired.groups \subseteq DOMAIN s.groups
    /\ \A g \in DOMAIN desired.groups : s.groups[g] = desired.groups[g]
    /\ desired.secrets \subseteq s.secrets

MachineOf(s, g) == [cluster |-> s.cluster, group |-> s.groups[g]]

Applied(desired, machines) ==
    /\ DOMAIN desired.groups \subseteq DOMAIN machines
    /\ \A g \in DOMAIN desired.groups : machines[g] = MachineOf(desired, g)

NoConfig == [cluster |-> 0, groups |-> [g \in {} |-> 0], secrets |-> {}]
NoCopy   == [spec |-> NoConfig, locked |-> FALSE, seen |-> NoConfig]
NoJob    == [pc |-> "idle", spec |-> NoConfig, deltas |-> NoDeltas]

(* A running cluster and its CR, which describes it or adopts it with      *)
(* changes; the groups are rolled.                                         *)
Init ==
    /\ \E S \in SUBSET Group, T \in SUBSET Secret :
          /\ ControlPlane \subseteq S
          /\ store = [cluster |-> 0, groups |-> [g \in S |-> 0], secrets |-> T]
    /\ \E S \in SUBSET Group, T \in SUBSET Secret, v, w \in {0, 1} :
          /\ ControlPlane \subseteq S
          /\ spec = [cluster |-> v, groups |-> [g \in S |-> w], secrets |-> T]
    /\ cloud = [g \in DOMAIN store.groups |-> MachineOf(store, g)]
    /\ nodes = cloud
    /\ locked = FALSE /\ pc = "idle"
    /\ cr = NoCopy /\ job = NoJob
    /\ edits = 0 /\ drifts = 0 /\ faults = 0

-----------------------------------------------------------------------------
(* The reconciler.                                                         *)

Return == pc' = "idle" /\ cr' = NoCopy

CountFault == faults < MaxFaults /\ faults' = faults + 1

Fetch ==
    /\ pc = "idle"
    /\ cr' = [cr EXCEPT !.spec = spec, !.locked = locked]
    /\ pc' = "observe"
    /\ UNCHANGED <<spec, locked, job, store, cloud, nodes, bounds>>

(* A cluster that is not Ready is not compared, and not updated either. *)
ObserveError ==
    /\ pc = "observe"
    /\ Return
    /\ UNCHANGED <<spec, locked, job, store, cloud, nodes, bounds>>

Observe ==
    /\ pc = "observe"
    /\ cr' = [cr EXCEPT !.seen = observeCluster(store)]
    /\ pc' = IF diffClusterV2(cr.spec, observeCluster(store)) = NoDeltas
             THEN "upToDate" ELSE "update"
    /\ UNCHANGED <<spec, locked, job, store, cloud, nodes, bounds>>

UpToDate ==
    /\ pc = "upToDate"
    /\ Return
    /\ UNCHANGED <<spec, locked, job, store, cloud, nodes, bounds>>

UpdateSkipped ==
    /\ pc = "update" /\ cr.locked
    /\ Return
    /\ UNCHANGED <<spec, locked, job, store, cloud, nodes, bounds>>

(* Mutant: the lock is looked up when it is taken, not in the copy. *)
UpdateLooksLate ==
    /\ pc = "update" /\ ~locked
    /\ locked' = TRUE
    /\ job' = [pc |-> "deltas", spec |-> cr.spec,
               deltas |-> diffClusterV2(cr.spec, cr.seen)]
    /\ Return
    /\ UNCHANGED <<spec, store, cloud, nodes, bounds>>

(* Mutant: a job without the lock. *)
UpdateWithoutLocking ==
    /\ pc = "update" /\ ~cr.locked
    /\ job' = [pc |-> "deltas", spec |-> cr.spec,
               deltas |-> diffClusterV2(cr.spec, cr.seen)]
    /\ Return
    /\ UNCHANGED <<spec, locked, store, cloud, nodes, bounds>>

(* The deltas of the job are computed from what the reconcile observed. *)
Update ==
    /\ pc = "update" /\ ~cr.locked
    /\ locked' = TRUE
    /\ job' = [pc |-> "deltas", spec |-> cr.spec,
               deltas |-> diffClusterV2(cr.spec, cr.seen)]
    /\ Return
    /\ UNCHANGED <<spec, store, cloud, nodes, bounds>>

(* lockCluster failed: there is no job, and no lock unless the annotation  *)
(* was written and only the reply was lost.                                *)
UpdateFails ==
    /\ pc = "update" /\ ~cr.locked
    /\ \/ UNCHANGED <<locked, faults>>
       \/ CountFault /\ locked' = TRUE
    /\ Return
    /\ UNCHANGED <<spec, job, store, cloud, nodes, edits, drifts>>

-----------------------------------------------------------------------------
(* The job: updateCluster, rollingUpdateCluster and both again.            *)

JobFails == job' = [NoJob EXCEPT !.pc = "failed"]

(* A command changes the store to new; it may fail nevertheless. *)
upsert(new, rest) ==
    /\ store' = new
    /\ job' = [job EXCEPT !.deltas = rest] \/ JobFails
    /\ UNCHANGED <<spec, locked, cr, pc, cloud, nodes, bounds>>

replaceCluster ==
    /\ job.pc = "deltas" /\ job.deltas.cluster
    /\ upsert([store EXCEPT !.cluster = job.spec.cluster],
              [job.deltas EXCEPT !.cluster = FALSE])

GroupSet(groups, g, v) ==
    [h \in DOMAIN groups \cup {g} |-> IF h = g THEN v ELSE groups[h]]

(* kops create refuses a group that exists. *)
createInstanceGroup(g) ==
    /\ job.pc = "deltas" /\ ~job.deltas.cluster
    /\ g \in job.deltas.create
    /\ g \notin DOMAIN store.groups
    /\ upsert([store EXCEPT !.groups = GroupSet(@, g, job.spec.groups[g])],
              [job.deltas EXCEPT !.create = @ \ {g}])

(* kops replace refuses a group that does not exist. *)
replaceInstanceGroup(g) ==
    /\ job.pc = "deltas" /\ ~job.deltas.cluster
    /\ g \in job.deltas.replace
    /\ g \in DOMAIN store.groups
    /\ upsert([store EXCEPT !.groups = GroupSet(@, g, job.spec.groups[g])],
              [job.deltas EXCEPT !.replace = @ \ {g}])

(* kops create secret refuses a secret that exists. *)
createSecret(s) ==
    /\ job.pc = "deltas" /\ ~job.deltas.cluster
    /\ job.deltas.create = {} /\ job.deltas.replace = {}
    /\ s \in job.deltas.secrets
    /\ s \notin store.secrets
    /\ upsert([store EXCEPT !.secrets = @ \cup {s}],
              [job.deltas EXCEPT !.secrets = @ \ {s}])

(* The first delta that fails, or a file that cannot be written, ends the  *)
(* update: kops update is not run.                                         *)
DeltaFails ==
    /\ job.pc = "deltas"
    /\ JobFails
    /\ UNCHANGED <<spec, locked, cr, pc, store, cloud, nodes, bounds>>

ControlPlaneRolled ==
    \A g \in ControlPlane \cap DOMAIN nodes : nodes[g].cluster = store.cluster

(* kops may hold worker groups back until the control plane runs the new   *)
(* version.  New groups start from what they are launched with.            *)
KopsApplies(held) ==
    /\ held => ~ControlPlaneRolled
    /\ cloud' = [g \in DOMAIN store.groups |->
                   IF held /\ g \in DOMAIN cloud \ ControlPlane
                   THEN [MachineOf(store, g) EXCEPT !.cluster = cloud[g].cluster]
                   ELSE MachineOf(store, g)]
    /\ nodes' = [g \in DOMAIN cloud' |-> IF g \in DOMAIN nodes THEN nodes[g] ELSE cloud'[g]]

kopsUpdateCluster ==
    /\ \/ job.pc = "deltas" /\ job.deltas = NoDeltas
       \/ job.pc = "passTwo"
    /\ \/ /\ \E held \in BOOLEAN : KopsApplies(held)
          /\ \/ job' = [job EXCEPT !.pc = IF @ = "deltas" THEN "roll" ELSE "passTwoRoll"]
             \/ JobFails
       \/ JobFails /\ UNCHANGED <<cloud, nodes>>
    /\ UNCHANGED <<spec, locked, cr, pc, store, bounds>>

(* Whatever spec.forProvider.rollingUpdateOpts.enabled says: the code      *)
(* compares it with the address of a local variable, which it never is.    *)
SkipsRolling == FALSE

(* Mutants: no second pass; a third one. *)
rollingUpdateClusterOnce ==
    /\ job.pc = "roll"
    /\ nodes' = cloud
    /\ job' = [job EXCEPT !.pc = "complete"]
    /\ UNCHANGED <<spec, locked, cr, pc, store, cloud, bounds>>

rollingUpdateClusterThrice ==
    /\ job.pc \in {"roll", "passTwoRoll"}
    /\ nodes' = cloud
    /\ job' = [job EXCEPT !.pc = IF @ = "roll" THEN "passTwo" ELSE "passThree"]
    /\ UNCHANGED <<spec, locked, cr, pc, store, cloud, bounds>>

(* A rolling update that fails has rolled some of the groups. *)
rollingUpdateCluster ==
    /\ job.pc \in {"roll", "passTwoRoll"}
    /\ \/ /\ nodes' = IF SkipsRolling THEN nodes ELSE cloud
          /\ job' = [job EXCEPT !.pc = IF @ = "roll" THEN "passTwo" ELSE "complete"]
       \/ /\ ~SkipsRolling
          /\ \E S \in SUBSET DOMAIN nodes :
                nodes' = [g \in DOMAIN nodes |-> IF g \in S THEN cloud[g] ELSE nodes[g]]
          /\ JobFails
    /\ UNCHANGED <<spec, locked, cr, pc, store, cloud, bounds>>

(* The job is over in any case: that unlockCluster failed is only logged.  *)
unlock ==
    /\ job.pc \in {"complete", "failed"}
    /\ \/ locked' = FALSE /\ UNCHANGED faults
       \/ CountFault /\ UNCHANGED locked
    /\ job' = NoJob
    /\ UNCHANGED <<spec, cr, pc, store, cloud, nodes, edits, drifts>>

-----------------------------------------------------------------------------
(* The user and the process.                                               *)

Edit ==
    /\ edits < MaxEdits /\ edits' = edits + 1
    /\ \/ spec' = [spec EXCEPT !.cluster = edits' + 1]
       \/ \E g \in Group : spec' = [spec EXCEPT !.groups = GroupSet(@, g, edits' + 1)]
       \/ \E g \in DOMAIN spec.groups \ ControlPlane :
             spec' = [spec EXCEPT !.groups = [h \in DOMAIN @ \ {g} |-> @[h]]]
       \/ \E s \in Secret : spec' = [spec EXCEPT !.secrets = IF s \in @ THEN @ \ {s} ELSE @ \cup {s}]
    /\ UNCHANGED <<locked, cr, pc, job, store, cloud, nodes, drifts, faults>>

(* kops run by hand against the same store. *)
Drift ==
    /\ drifts < MaxDrifts /\ drifts' = drifts + 1
    /\ \/ store' = [store EXCEPT !.cluster = 0]
       \/ \E g \in Group : store' = [store EXCEPT !.groups = GroupSet(@, g, 0)]
       \/ \E S \in SUBSET DOMAIN store.groups :
             store' = [store EXCEPT !.groups = [h \in S |-> @[h]]]
       \/ \E T \in SUBSET Secret : store' = [store EXCEPT !.secrets = T]
    /\ UNCHANGED <<spec, locked, cr, pc, job, cloud, nodes, edits, faults>>

(* The lock outlives the job. *)
Crash ==
    /\ CountFault
    /\ job' = NoJob /\ Return
    /\ UNCHANGED <<spec, locked, store, cloud, nodes, edits, drifts>>

(* The manual removal of the lock that the comment of Update describes. *)
Recover ==
    /\ locked /\ job.pc = "idle"
    /\ locked' = FALSE
    /\ UNCHANGED <<spec, cr, pc, job, store, cloud, nodes, bounds>>

-----------------------------------------------------------------------------
ReconcilerStep ==
    \/ Fetch \/ ObserveError \/ Observe \/ UpToDate
    \/ UpdateSkipped \/ Update \/ UpdateFails

JobStep ==
    \/ replaceCluster
    \/ \E g \in Group : createInstanceGroup(g) \/ replaceInstanceGroup(g)
    \/ \E s \in Secret : createSecret(s)
    \/ DeltaFails
    \/ kopsUpdateCluster \/ rollingUpdateCluster
    \/ unlock

Next == ReconcilerStep \/ JobStep \/ Edit \/ Drift \/ Crash \/ Recover

Spec == Init /\ [][Next]_vars

(* Reconciles are requeued and goroutines run on.  Commands may fail, and  *)
(* so may taking the lock, but what is tried again and again takes effect  *)
(* at last.                                                                *)
Fairness ==
    /\ WF_vars(ReconcilerStep) /\ SF_vars(Observe) /\ SF_vars(Update)
    /\ WF_vars(JobStep)
    /\ SF_vars(replaceCluster)
    /\ \A g \in Group : SF_vars(createInstanceGroup(g)) /\ SF_vars(replaceInstanceGroup(g))
    /\ \A s \in Secret : SF_vars(createSecret(s))

FairSpec == Spec /\ Fairness

-----------------------------------------------------------------------------
(* Properties.                                                             *)

(* With nobody else at the store, no delta of a job is refused: it creates *)
(* what is not there and replaces what is, although the deltas come from   *)
(* an observation made before the lock was taken.                          *)
PendingDeltasApply ==
    job.pc = "deltas" =>
       /\ job.deltas.create \cap DOMAIN store.groups = {}
       /\ job.deltas.replace \subseteq DOMAIN store.groups
       /\ job.deltas.secrets \cap store.secrets = {}

(* A job that reports no error has brought every group its spec names to   *)
(* the state the spec asks for: the store, the cloud and the nodes, worker *)
(* groups that kops held back in the first pass included.                  *)
CompleteIsApplied ==
    job.pc = "complete" => Covers(store, job.spec) /\ Applied(job.spec, nodes)

(* d is what is left of the change list e when a part of it is applied. *)
Less(d, e) ==
    /\ d # e
    /\ d.cluster => e.cluster
    /\ d.create \subseteq e.create /\ d.replace \subseteq e.replace
    /\ d.secrets \subseteq e.secrets

(* What only the store has is there as it was. *)
Kept(desired, old, new) ==
    /\ \A g \in DOMAIN old.groups \ DOMAIN desired.groups :
          g \in DOMAIN new.groups /\ new.groups[g] = old.groups[g]
    /\ old.secrets \subseteq new.secrets

(* A delta is ticked off, or the store changes. *)
AppliesDelta == \/ store' # store
                \/ job.pc = "deltas" /\ job'.pc = "deltas" /\ job' # job

(* Nothing is applied in vain, twice, or undone: every delta that a job    *)
(* ticks off, and every change of the store, one by a command that then    *)
(* reports an error included, takes a difference between the spec of the   *)
(* job and the store away and adds none, and leaves what only the store    *)
(* has.  The next job, after a failure or a crash, goes on from there.     *)
DeltasShrink ==
    [][AppliesDelta =>
          /\ Less(diffClusterV2(job.spec, store'), diffClusterV2(job.spec, store))
          /\ Kept(job.spec, store, store')]_vars

(* Nodes are not rolled for nothing: when a job starts, the store lacks    *)
(* something of its spec, although the reconcile that decided so looked at *)
(* the store before it took the lock.                                      *)
JobsAreNeeded ==
    [][job.pc = "idle" /\ job'.pc = "deltas" => ~Covers(store, job'.spec)]_vars

(* When the user and the store come to rest, so does the provider: the     *)
(* store ends up with everything in the spec, and no job is started any    *)
(* more that would roll nodes for nothing.                                 *)
Converges == <>[](Covers(store, spec) /\ job.pc = "idle")

(* What this module assumes of the lock is what ClusterController          *)
(* provides: both are implementations of KopsLock.                         *)
Lock == INSTANCE KopsLock WITH
           Job  <- {"update"},
           lock <- IF locked THEN "held" ELSE "free",
           busy <- IF job.pc \in {"idle", "complete", "failed"} THEN {} ELSE {"update"}

ImplementsKopsLock == Lock!Spec

(* "Return false when the external resource exists, but it not up to date  *)
(* with the desired managed resource state. This lets the managed resource *)
(* reconciler know that it needs to call Update" (Observe): an observation *)
(* outside an update that reports up to date finds the spec applied.       *)
UpToDateMeansApplied ==
    pc = "upToDate" /\ ~cr.locked => Applied(cr.spec, cloud)
=============================================================================
