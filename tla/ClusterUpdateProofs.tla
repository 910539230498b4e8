------------------------- MODULE ClusterUpdateProofs -------------------------
(***************************************************************************)
(* What a job of Update does, for any groups, secrets, edits and faults:   *)
(* the types, the lock, when a job starts, the exactness of its pending    *)
(* deltas, the progress each of them makes and what its completion means.  *)
(* The last four hold as long as nobody else changes the store (Alone).    *)
(***************************************************************************)
EXTENDS ClusterUpdate, TLAPS

-----------------------------------------------------------------------------
(* Types.                                                                  *)

LEMMA GroupMaps ==
    /\ \A S \in SUBSET Group : \A f \in [S -> Value] : f \in GroupMap
    /\ \A f \in GroupMap : /\ DOMAIN f \subseteq Group
                           /\ f \in [DOMAIN f -> Value]
BY DEF GroupMap

LEMMA MachineMaps ==
    /\ \A S \in SUBSET Group : \A f \in [S -> Machine] : f \in MachineMap
    /\ \A f \in MachineMap : /\ DOMAIN f \subseteq Group
                             /\ f \in [DOMAIN f -> Machine]
BY DEF MachineMap

LEMMA SetTyped ==
    ASSUME NEW f \in GroupMap, NEW g \in Group, NEW v \in Value
    PROVE  GroupSet(f, g, v) \in GroupMap
<1>1. GroupSet(f, g, v) \in [DOMAIN f \cup {g} -> Value]
  BY GroupMaps DEF GroupSet
<1> QED BY <1>1, GroupMaps

LEMMA RestrictTyped ==
    ASSUME NEW f \in GroupMap, NEW S \in SUBSET DOMAIN f
    PROVE  [h \in S |-> f[h]] \in GroupMap
<1>1. [h \in S |-> f[h]] \in [S -> Value]
  BY GroupMaps
<1> QED BY <1>1, GroupMaps

LEMMA Values == /\ 0 \in Value /\ 1 \in Value
                /\ \A e \in 0..MaxEdits : e < MaxEdits => e + 1 + 1 \in Value
BY BoundAssumption DEF Value

LEMMA MachineTyped ==
    ASSUME NEW s \in Config, NEW g \in DOMAIN s.groups
    PROVE  MachineOf(s, g) \in Machine
<1>1. s.groups \in GroupMap /\ s.cluster \in Value
  BY DEF Config
<1>2. s.groups[g] \in Value
  BY <1>1, GroupMaps
<1> QED BY <1>1, <1>2 DEF MachineOf, Machine

LEMMA ConfigTyped == NoConfig \in Config
<1>1. [g \in {} |-> 0] \in [{} -> Value]
  OBVIOUS
<1>2. [g \in {} |-> 0] \in GroupMap
  BY <1>1, GroupMaps
<1> QED BY <1>2, Values DEF NoConfig, Config

LEMMA DiffTyped ==
    ASSUME NEW desired \in Config, NEW seen \in Config
    PROVE  diffClusterV2(desired, seen) \in Deltas
<1>1. DOMAIN desired.groups \subseteq Group
  BY GroupMaps DEF Config
<1> QED BY <1>1 DEF diffClusterV2, Deltas, Config

LEMMA ObservedTyped == ASSUME NEW s \in Config PROVE observeCluster(s) \in Config
BY DEF observeCluster, Config

LEMMA NothingTyped ==
    /\ NoDeltas \in Deltas
    /\ NoCopy \in [spec: Config, locked: BOOLEAN, seen: Config]
    /\ NoJob \in [pc: JobPhase, spec: Config, deltas: Deltas]
    /\ [NoJob EXCEPT !.pc = "failed"] \in [pc: JobPhase, spec: Config, deltas: Deltas]
BY ConfigTyped DEF NoDeltas, Deltas, NoCopy, NoJob, JobPhase

(* A job changes groups its spec names, and what nodes were launched from  *)
(* is known of exactly the groups that have a launch configuration.        *)
ShapeInv ==
    /\ job.pc = "deltas" =>
          job.deltas.create \cup job.deltas.replace \subseteq DOMAIN job.spec.groups
    /\ DOMAIN nodes = DOMAIN cloud

LEMMA InitTyped == ASSUME Init PROVE TypeOK /\ ShapeInv
<1>1. \A S \in SUBSET Group, T \in SUBSET Secret, v, w \in {0, 1} :
         [cluster |-> v, groups |-> [g \in S |-> w], secrets |-> T] \in Config
  <2> TAKE S \in SUBSET Group, T \in SUBSET Secret, v, w \in {0, 1}
  <2>1. [g \in S |-> w] \in [S -> Value]
    BY Values
  <2>2. [g \in S |-> w] \in GroupMap
    BY <2>1, GroupMaps
  <2> QED BY <2>2, Values DEF Config
<1>2. store \in Config /\ spec \in Config
  <2>1. PICK S \in SUBSET Group, T \in SUBSET Secret :
           store = [cluster |-> 0, groups |-> [g \in S |-> 0], secrets |-> T]
    BY DEF Init
  <2>2. PICK S2 \in SUBSET Group, T2 \in SUBSET Secret, v, w \in {0, 1} :
           spec = [cluster |-> v, groups |-> [g \in S2 |-> w], secrets |-> T2]
    BY DEF Init
  <2> QED BY <1>1, <2>1, <2>2
<1>3. cloud \in [DOMAIN store.groups -> Machine] /\ DOMAIN store.groups \subseteq Group
  BY <1>2, MachineTyped, GroupMaps DEF Init, Config
<1>4. cloud \in MachineMap
  BY <1>3, MachineMaps
<1>5. /\ locked = FALSE /\ pc = "idle" /\ cr = NoCopy /\ job = NoJob /\ nodes = cloud
      /\ edits = 0 /\ drifts = 0 /\ faults = 0
  BY DEF Init
<1>6. job.pc # "deltas"
  BY <1>5 DEF NoJob
<1>7. cr \in [spec: Config, locked: BOOLEAN, seen: Config]
  BY <1>5, NothingTyped
<1>8. job \in [pc: JobPhase, spec: Config, deltas: Deltas]
  BY <1>5, NothingTyped
<1>9. edits \in 0..MaxEdits /\ drifts \in 0..MaxDrifts /\ faults \in 0..MaxFaults
  BY <1>5, BoundAssumption
<1>10. TypeOK
  BY <1>2, <1>4, <1>5, <1>7, <1>8, <1>9 DEF TypeOK
<1> QED BY <1>5, <1>6, <1>10 DEF ShapeInv

LEMMA FaultsTyped ==
    ASSUME faults \in 0..MaxFaults, CountFault \/ UNCHANGED faults
    PROVE  faults' \in 0..MaxFaults
BY BoundAssumption DEF CountFault

LEMMA ReconcilerTyped ==
    ASSUME TypeOK, ShapeInv, ReconcilerStep PROVE TypeOK' /\ ShapeInv'
<1>1. CASE Fetch
  BY <1>1 DEF Fetch, TypeOK, ShapeInv, bounds
<1>2. CASE ObserveError \/ UpToDate \/ UpdateSkipped
  BY <1>2, NothingTyped DEF ObserveError, UpToDate, UpdateSkipped, Return, TypeOK,
                               ShapeInv, bounds
<1>3. CASE Observe
  <2>1. observeCluster(store) \in Config
    BY ObservedTyped DEF TypeOK
  <2> QED BY <1>3, <2>1 DEF Observe, TypeOK, ShapeInv, bounds
<1>4. CASE Update
  <2>1. diffClusterV2(cr.spec, cr.seen) \in Deltas
    BY DiffTyped DEF TypeOK
  <2>2. TypeOK'
    BY <1>4, <2>1, NothingTyped DEF Update, Return, TypeOK, JobPhase, bounds
  <2>3. ShapeInv'
    BY <1>4 DEF Update, ShapeInv, diffClusterV2
  <2> QED BY <2>2, <2>3
<1>5. CASE UpdateFails
  <2>1. locked' \in BOOLEAN /\ faults' \in 0..MaxFaults
    BY <1>5, FaultsTyped DEF UpdateFails, TypeOK
  <2> QED BY <1>5, <2>1, NothingTyped DEF UpdateFails, Return, TypeOK, ShapeInv
<1> QED BY <1>1, <1>2, <1>3, <1>4, <1>5 DEF ReconcilerStep

LEMMA UpsertTyped ==
    ASSUME TypeOK, ShapeInv, job.pc = "deltas", NEW new \in Config, NEW rest \in Deltas,
           rest.create \subseteq job.deltas.create, rest.replace \subseteq job.deltas.replace,
           upsert(new, rest)
    PROVE  TypeOK' /\ ShapeInv'
<1>1. CASE job' = [job EXCEPT !.deltas = rest]
  BY <1>1 DEF upsert, TypeOK, ShapeInv, bounds
<1>2. CASE JobFails
  BY <1>2, NothingTyped DEF upsert, JobFails, NoJob, TypeOK, ShapeInv, bounds
<1> QED BY <1>1, <1>2 DEF upsert

LEMMA GroupDelta ==
    ASSUME TypeOK, NEW g \in Group, g \in DOMAIN job.spec.groups
    PROVE  [store EXCEPT !.groups = GroupSet(@, g, job.spec.groups[g])] \in Config
<1>1. job.spec.groups[g] \in Value /\ store.groups \in GroupMap
  BY GroupMaps DEF TypeOK, Config
<1>2. GroupSet(store.groups, g, job.spec.groups[g]) \in GroupMap
  BY <1>1, SetTyped
<1> QED BY <1>2 DEF TypeOK, Config

LEMMA DeltaTyped ==
    ASSUME TypeOK, ShapeInv,
           \/ replaceCluster
           \/ \E g \in Group : createInstanceGroup(g) \/ replaceInstanceGroup(g)
           \/ \E s \in Secret : createSecret(s)
    PROVE  TypeOK' /\ ShapeInv'
<1>1. CASE replaceCluster
  <2>1. [store EXCEPT !.cluster = job.spec.cluster] \in Config
    BY DEF TypeOK, Config
  <2>2. [job.deltas EXCEPT !.cluster = FALSE] \in Deltas
    BY DEF TypeOK, Deltas
  <2> QED BY <1>1, <2>1, <2>2, UpsertTyped DEF replaceCluster, TypeOK, Deltas
<1>2. ASSUME NEW g \in Group, createInstanceGroup(g) PROVE TypeOK' /\ ShapeInv'
  <2> DEFINE rest == [job.deltas EXCEPT !.create = @ \ {g}]
  <2>1. g \in DOMAIN job.spec.groups
    BY <1>2 DEF createInstanceGroup, ShapeInv
  <2>2. /\ rest \in Deltas /\ rest.create \subseteq job.deltas.create
        /\ rest.replace \subseteq job.deltas.replace
    BY DEF TypeOK, Deltas
  <2>3. job.pc = "deltas"
        /\ upsert([store EXCEPT !.groups = GroupSet(@, g, job.spec.groups[g])], rest)
    BY <1>2 DEF createInstanceGroup
  <2> HIDE DEF rest
  <2> QED BY <2>1, <2>2, <2>3, GroupDelta, UpsertTyped
<1>3. ASSUME NEW g \in Group, replaceInstanceGroup(g) PROVE TypeOK' /\ ShapeInv'
  <2> DEFINE rest == [job.deltas EXCEPT !.replace = @ \ {g}]
  <2>1. g \in DOMAIN job.spec.groups
    BY <1>3 DEF replaceInstanceGroup, ShapeInv
  <2>2. /\ rest \in Deltas /\ rest.create \subseteq job.deltas.create
        /\ rest.replace \subseteq job.deltas.replace
    BY DEF TypeOK, Deltas
  <2>3. job.pc = "deltas"
        /\ upsert([store EXCEPT !.groups = GroupSet(@, g, job.spec.groups[g])], rest)
    BY <1>3 DEF replaceInstanceGroup
  <2> HIDE DEF rest
  <2> QED BY <2>1, <2>2, <2>3, GroupDelta, UpsertTyped
<1>4. ASSUME NEW s \in Secret, createSecret(s) PROVE TypeOK' /\ ShapeInv'
  <2> DEFINE rest == [job.deltas EXCEPT !.secrets = @ \ {s}]
             new  == [store EXCEPT !.secrets = @ \cup {s}]
  <2>1. new \in Config
    BY DEF TypeOK, Config
  <2>2. /\ rest \in Deltas /\ rest.create \subseteq job.deltas.create
        /\ rest.replace \subseteq job.deltas.replace
    BY DEF TypeOK, Deltas
  <2>3. job.pc = "deltas" /\ upsert(new, rest)
    BY <1>4 DEF createSecret
  <2> HIDE DEF rest, new
  <2> QED BY <2>1, <2>2, <2>3, UpsertTyped
<1> QED BY <1>1, <1>2, <1>3, <1>4

LEMMA ApplyTyped ==
    ASSUME TypeOK, ShapeInv, NEW held \in BOOLEAN, KopsApplies(held)
    PROVE  /\ cloud' \in MachineMap /\ nodes' \in MachineMap
           /\ DOMAIN nodes' = DOMAIN cloud'
<1>1. /\ DOMAIN store.groups \subseteq Group
      /\ \A g \in DOMAIN store.groups : MachineOf(store, g) \in Machine
  BY MachineTyped, GroupMaps DEF TypeOK, Config
<1>2. \A g \in DOMAIN cloud : cloud[g].cluster \in Value
  BY MachineMaps DEF TypeOK, Machine
<1>3. \A g \in DOMAIN store.groups, v \in Value :
         [MachineOf(store, g) EXCEPT !.cluster = v] \in Machine
  BY <1>1 DEF Machine
<1>4. cloud' \in [DOMAIN store.groups -> Machine]
  BY <1>1, <1>2, <1>3 DEF KopsApplies
<1>5. \A g \in DOMAIN nodes : nodes[g] \in Machine
  BY MachineMaps DEF TypeOK
<1>6. nodes' \in [DOMAIN store.groups -> Machine]
  BY <1>4, <1>5 DEF KopsApplies
<1> QED BY <1>1, <1>4, <1>6, MachineMaps

LEMMA JobTyped == ASSUME TypeOK, ShapeInv, JobStep PROVE TypeOK' /\ ShapeInv'
<1>1. CASE DeltaFails \/ unlock
  <2>1. /\ job' \in [pc: JobPhase, spec: Config, deltas: Deltas]
        /\ job'.pc # "deltas"
    BY <1>1, NothingTyped DEF DeltaFails, unlock, JobFails, NoJob
  <2>2. /\ UNCHANGED <<spec, cr, pc, store, cloud, nodes, edits, drifts>>
        /\ locked' \in BOOLEAN /\ faults' \in 0..MaxFaults
    BY <1>1, FaultsTyped DEF DeltaFails, unlock, TypeOK, bounds
  <2> QED BY <2>1, <2>2 DEF TypeOK, ShapeInv
<1>2. CASE kopsUpdateCluster
  <2>1. /\ cloud' \in MachineMap /\ nodes' \in MachineMap
        /\ DOMAIN nodes' = DOMAIN cloud'
    BY <1>2, ApplyTyped DEF kopsUpdateCluster, TypeOK, ShapeInv
  <2>2. /\ job' \in [pc: JobPhase, spec: Config, deltas: Deltas]
        /\ job'.pc # "deltas"
    BY <1>2, NothingTyped DEF kopsUpdateCluster, JobFails, NoJob, TypeOK, JobPhase
  <2> QED BY <1>2, <2>1, <2>2 DEF kopsUpdateCluster, TypeOK, ShapeInv, bounds
<1>3. CASE rollingUpdateCluster
  <2>1. /\ job' \in [pc: JobPhase, spec: Config, deltas: Deltas]
        /\ job'.pc # "deltas"
    BY <1>3, NothingTyped DEF rollingUpdateCluster, JobFails, NoJob, TypeOK, JobPhase
  <2>2. \A S \in SUBSET DOMAIN nodes :
           [g \in DOMAIN nodes |-> IF g \in S THEN cloud[g] ELSE nodes[g]]
              \in [DOMAIN nodes -> Machine]
    BY MachineMaps DEF TypeOK, ShapeInv
  <2>3. nodes' \in MachineMap /\ DOMAIN nodes' = DOMAIN cloud
    BY <1>3, <2>2, MachineMaps DEF rollingUpdateCluster, TypeOK, ShapeInv, SkipsRolling
  <2> QED BY <1>3, <2>1, <2>3 DEF rollingUpdateCluster, TypeOK, ShapeInv, bounds
<1> QED BY <1>1, <1>2, <1>3, DeltaTyped DEF JobStep

LEMMA EditTyped == ASSUME TypeOK, Edit PROVE spec' \in Config
<1>1. edits' + 1 \in Value
  BY Values DEF Edit, TypeOK
<1>2. spec.groups \in GroupMap
  BY DEF TypeOK, Config
<1>3. \A g \in Group : GroupSet(spec.groups, g, edits' + 1) \in GroupMap
  BY <1>1, <1>2, SetTyped
<1>4. \A g : [h \in DOMAIN spec.groups \ {g} |-> spec.groups[h]] \in GroupMap
  BY <1>2, RestrictTyped
<1>5. CASE spec' = [spec EXCEPT !.cluster = edits' + 1]
  BY <1>1, <1>5 DEF TypeOK, Config
<1>6. ASSUME NEW f \in GroupMap, spec' = [spec EXCEPT !.groups = f] PROVE spec' \in Config
  BY <1>6 DEF TypeOK, Config
<1>7. ASSUME NEW s \in Secret,
             spec' = [spec EXCEPT !.secrets = IF s \in @ THEN @ \ {s} ELSE @ \cup {s}]
      PROVE  spec' \in Config
  BY <1>7 DEF TypeOK, Config
<1> QED BY <1>3, <1>4, <1>5, <1>6, <1>7 DEF Edit

LEMMA DriftTyped == ASSUME TypeOK, Drift PROVE store' \in Config
<1>1. store.groups \in GroupMap
  BY DEF TypeOK, Config
<1>2. \A g \in Group : GroupSet(store.groups, g, 0) \in GroupMap
  BY <1>1, Values, SetTyped
<1>3. \A S \in SUBSET DOMAIN store.groups : [h \in S |-> store.groups[h]] \in GroupMap
  BY <1>1, RestrictTyped
<1>4. ASSUME NEW f \in GroupMap, store' = [store EXCEPT !.groups = f] PROVE store' \in Config
  BY <1>4 DEF TypeOK, Config
<1>5. CASE store' = [store EXCEPT !.cluster = 0]
  BY <1>5, Values DEF TypeOK, Config
<1>6. ASSUME NEW T \in SUBSET Secret, store' = [store EXCEPT !.secrets = T]
      PROVE  store' \in Config
  BY <1>6 DEF TypeOK, Config
<1> QED BY <1>2, <1>3, <1>4, <1>5, <1>6 DEF Drift

LEMMA NextTyped == ASSUME TypeOK, ShapeInv, [Next]_vars PROVE TypeOK' /\ ShapeInv'
<1>1. CASE Edit
  <2>1. UNCHANGED <<locked, cr, pc, job, store, cloud, nodes, drifts, faults>>
        /\ edits' \in 0..MaxEdits
    BY <1>1, BoundAssumption DEF Edit, TypeOK
  <2> QED BY <1>1, <2>1, EditTyped DEF TypeOK, ShapeInv
<1>2. CASE Drift
  <2>1. UNCHANGED <<spec, locked, cr, pc, job, cloud, nodes, edits, faults>>
        /\ drifts' \in 0..MaxDrifts
    BY <1>2, BoundAssumption DEF Drift, TypeOK
  <2> QED BY <1>2, <2>1, DriftTyped DEF TypeOK, ShapeInv
<1>3. CASE Crash
  BY <1>3, NothingTyped, BoundAssumption DEF Crash, CountFault, Return, NoJob, TypeOK, ShapeInv
<1>4. CASE Recover
  BY <1>4 DEF Recover, TypeOK, ShapeInv, bounds
<1>5. CASE UNCHANGED vars
  BY <1>5 DEF vars, bounds, TypeOK, ShapeInv
<1> QED BY <1>1, <1>2, <1>3, <1>4, <1>5, ReconcilerTyped, JobTyped DEF Next

LEMMA Shapes == Spec => [](TypeOK /\ ShapeInv)
BY InitTyped, NextTyped, PTL DEF Spec

(* Every variable keeps its type, whoever changes the store. *)
THEOREM TypeCorrect == Spec => []TypeOK
BY Shapes, PTL

-----------------------------------------------------------------------------
(* The difference.                                                         *)

(* The change list of diffClusterV2 is empty exactly when every part of    *)
(* the spec is in the store, for any groups, values and secrets.           *)
THEOREM DifferenceIsExact ==
    ASSUME NEW desired, NEW s
    PROVE  diffClusterV2(desired, s) = NoDeltas <=> Covers(s, desired)
<1> DEFINE replaced == {g \in DOMAIN desired.groups \cap DOMAIN s.groups :
                           desired.groups[g] # s.groups[g]}
<1>1. ASSUME diffClusterV2(desired, s) = NoDeltas PROVE Covers(s, desired)
  <2>1. /\ (desired.cluster # s.cluster) = FALSE
        /\ DOMAIN desired.groups \ DOMAIN s.groups = {}
        /\ replaced = {}
        /\ desired.secrets \ s.secrets = {}
    BY <1>1 DEF diffClusterV2, NoDeltas
  <2> QED BY <2>1 DEF Covers
<1>2. ASSUME Covers(s, desired) PROVE diffClusterV2(desired, s) = NoDeltas
  <2>1. /\ (desired.cluster # s.cluster) = FALSE
        /\ DOMAIN desired.groups \ DOMAIN s.groups = {}
        /\ replaced = {}
        /\ desired.secrets \ s.secrets = {}
    BY <1>2 DEF Covers
  <2> QED BY <2>1 DEF diffClusterV2, NoDeltas
<1> QED BY <1>1, <1>2

-----------------------------------------------------------------------------
(* The update, with nobody else at the store.                              *)

Alone == MaxDrifts = 0

Launched == [g \in DOMAIN store.groups |-> MachineOf(store, g)]

(* The copy that Update would act on was made while no job ran, and so the *)
(* store is still what was observed.                                       *)
CopyInv ==
    /\ ControlPlane \subseteq DOMAIN store.groups
    /\ job.pc # "idle" => locked
    /\ pc # "idle" /\ ~cr.locked => ~locked
    /\ pc = "update" /\ ~cr.locked => cr.seen = store

(* How far the store, the cloud and the nodes are in each phase.           *)
JobInv ==
    /\ job.pc = "deltas" => job.deltas = diffClusterV2(job.spec, store)
    /\ job.pc \in {"roll", "passTwo", "passTwoRoll", "complete"} => Covers(store, job.spec)
    /\ job.pc = "roll" => /\ DOMAIN cloud = DOMAIN store.groups
                          /\ \A g \in ControlPlane : cloud[g].cluster = store.cluster
    /\ job.pc = "passTwo" => ControlPlaneRolled
    /\ job.pc = "passTwoRoll" => cloud = Launched
    /\ job.pc = "complete" => nodes = Launched

UpdateInv == CopyInv /\ JobInv

LEMMA InitUpdate == ASSUME Init PROVE UpdateInv
<1>1. ControlPlane \subseteq DOMAIN store.groups
  BY DEF Init
<1>2. pc = "idle" /\ job.pc = "idle"
  BY DEF Init, NoJob
<1> QED BY <1>1, <1>2 DEF UpdateInv, CopyInv, JobInv

(* Nothing of the update moves: the job is idle, failed or where it was.   *)
LEMMA JobFrame ==
    ASSUME JobInv,
           job' = job \/ job'.pc \in {"idle", "failed"},
           UNCHANGED <<store, cloud, nodes>>
    PROVE  JobInv'
BY DEF JobInv, ControlPlaneRolled, Launched

LEMMA ReconcilerUpdate ==
    ASSUME TypeOK, UpdateInv, ReconcilerStep PROVE UpdateInv'
<1>1. CASE Fetch \/ ObserveError \/ UpToDate \/ UpdateSkipped
  <2>1. JobInv'
    BY <1>1, JobFrame DEF Fetch, ObserveError, UpToDate, UpdateSkipped, UpdateInv
  <2>2. /\ UNCHANGED <<store, locked, job>> /\ pc' # "update"
        /\ pc' # "idle" => cr'.locked = locked
    BY <1>1 DEF Fetch, ObserveError, UpToDate, UpdateSkipped, Return, TypeOK
  <2> QED BY <2>1, <2>2 DEF UpdateInv, CopyInv
<1>2. CASE Observe
  <2>1. observeCluster(store) = store
    BY GroupAssumption DEF observeCluster, UpdateInv, CopyInv
  <2>2. cr'.seen = store /\ cr'.locked = cr.locked
    BY <1>2, <2>1 DEF Observe, TypeOK
  <2>3. CopyInv'
    BY <1>2, <2>2 DEF Observe, UpdateInv, CopyInv
  <2> QED BY <1>2, <2>3, JobFrame DEF Observe, UpdateInv
<1>3. CASE Update
  <2>1. /\ job' = [pc |-> "deltas", spec |-> cr.spec,
                   deltas |-> diffClusterV2(cr.spec, store)]
        /\ UNCHANGED <<store, cloud, nodes>> /\ locked' /\ pc' = "idle"
    BY <1>3 DEF Update, Return, UpdateInv, CopyInv
  <2> QED BY <2>1 DEF UpdateInv, CopyInv, JobInv
<1>4. CASE UpdateFails
  <2>1. /\ UNCHANGED <<store, cloud, nodes, job>> /\ pc' = "idle"
        /\ locked => locked'
    BY <1>4 DEF UpdateFails, Return
  <2>2. JobInv'
    BY <2>1, JobFrame DEF UpdateInv
  <2> QED BY <2>1, <2>2 DEF UpdateInv, CopyInv
<1> QED BY <1>1, <1>2, <1>3, <1>4 DEF ReconcilerStep

(* A job that runs has the lock, so that no copy is still to be acted on.  *)
LEMMA JobKeepsCopy ==
    ASSUME CopyInv, job.pc # "idle", UNCHANGED <<cr, pc>>,
           ControlPlane \subseteq DOMAIN store'.groups,
           locked' = locked \/ (~locked' /\ job'.pc = "idle")
    PROVE  CopyInv'
BY DEF CopyInv

LEMMA UpsertUpdate ==
    ASSUME UpdateInv, job.pc = "deltas", NEW new, NEW rest, upsert(new, rest),
           job \in [pc: JobPhase, spec: Config, deltas: Deltas],
           ControlPlane \subseteq DOMAIN new.groups,
           diffClusterV2(job.spec, new) = rest
    PROVE  UpdateInv'
<1>1. CopyInv'
  BY JobKeepsCopy DEF upsert, UpdateInv
<1>2. JobInv'
  <2>1. CASE job' = [job EXCEPT !.deltas = rest]
    BY <2>1 DEF upsert, JobInv
  <2>2. CASE JobFails
    BY <2>2 DEF JobFails, NoJob, JobInv
  <2> QED BY <2>1, <2>2 DEF upsert
<1> QED BY <1>1, <1>2 DEF UpdateInv

Replaced(desired, groups) == {g \in DOMAIN desired \cap DOMAIN groups :
                                 desired[g] # groups[g]}

LEMMA DiffFields ==
    \A desired, s :
       diffClusterV2(desired, s) =
          [cluster |-> desired.cluster # s.cluster,
           create  |-> DOMAIN desired.groups \ DOMAIN s.groups,
           replace |-> Replaced(desired.groups, s.groups),
           secrets |-> desired.secrets \ s.secrets]
BY Zenon DEF diffClusterV2, Replaced

(* A change list is the difference when its parts are.                     *)
LEMMA DiffParts ==
    ASSUME NEW desired, NEW s, NEW d \in Deltas,
           d.cluster <=> desired.cluster # s.cluster,
           d.create = DOMAIN desired.groups \ DOMAIN s.groups,
           d.replace = Replaced(desired.groups, s.groups),
           d.secrets = desired.secrets \ s.secrets
    PROVE  diffClusterV2(desired, s) = d
<1>1. d = [cluster |-> d.cluster, create |-> d.create, replace |-> d.replace,
           secrets |-> d.secrets]
  BY DEF Deltas
<1>2. d.cluster = (desired.cluster # s.cluster)
  BY DEF Deltas
<1> QED BY <1>1, <1>2, DiffFields

LEMMA PendingParts ==
    ASSUME TypeOK, UpdateInv, job.pc = "deltas"
    PROVE  /\ job.deltas \in Deltas
           /\ job.deltas.cluster <=> job.spec.cluster # store.cluster
           /\ job.deltas.create = DOMAIN job.spec.groups \ DOMAIN store.groups
           /\ job.deltas.replace = Replaced(job.spec.groups, store.groups)
           /\ job.deltas.secrets = job.spec.secrets \ store.secrets
<1>1. job.deltas \in Deltas
  BY DEF TypeOK
<1>2. job.deltas = diffClusterV2(job.spec, store)
  BY DEF UpdateInv, JobInv
<1>3. job.deltas = [cluster |-> job.spec.cluster # store.cluster,
                     create  |-> DOMAIN job.spec.groups \ DOMAIN store.groups,
                     replace |-> Replaced(job.spec.groups, store.groups),
                     secrets |-> job.spec.secrets \ store.secrets]
  BY <1>2, DiffFields
<1>4. job.deltas.cluster <=> job.spec.cluster # store.cluster
  <2> DEFINE other == job.spec.cluster # store.cluster
  <2>1. job.deltas = [cluster |-> other,
                      create  |-> DOMAIN job.spec.groups \ DOMAIN store.groups,
                      replace |-> Replaced(job.spec.groups, store.groups),
                      secrets |-> job.spec.secrets \ store.secrets]
    BY <1>3
  <2>2. other \in BOOLEAN
    OBVIOUS
  <2> HIDE DEF other
  <2>3. job.deltas.cluster = other
    BY <2>1
  <2>4. job.deltas.cluster <=> other
    BY <2>2, <2>3
  <2> QED BY <2>4 DEF other
<1>5. /\ job.deltas.create = DOMAIN job.spec.groups \ DOMAIN store.groups
      /\ job.deltas.replace = Replaced(job.spec.groups, store.groups)
      /\ job.deltas.secrets = job.spec.secrets \ store.secrets
  BY <1>3
<1> QED BY <1>1, <1>4, <1>5

(* A group that is written as the spec has it is no difference any more.   *)
LEMMA GroupWritten ==
    ASSUME TypeOK, UpdateInv, job.pc = "deltas", NEW g \in DOMAIN job.spec.groups,
           NEW new, new = [store EXCEPT !.groups = GroupSet(@, g, job.spec.groups[g])]
    PROVE  /\ ControlPlane \subseteq DOMAIN new.groups
           /\ Kept(job.spec, store, new)
           /\ diffClusterV2(job.spec, new) =
                 [job.deltas EXCEPT !.create = @ \ {g}, !.replace = @ \ {g}]
<1>1. /\ new.cluster = store.cluster /\ new.secrets = store.secrets
      /\ DOMAIN new.groups = DOMAIN store.groups \cup {g}
      /\ new.groups[g] = job.spec.groups[g]
      /\ \A h \in DOMAIN store.groups : h # g => new.groups[h] = store.groups[h]
  BY DEF TypeOK, Config, GroupSet
<1>2. Replaced(job.spec.groups, new.groups) = job.deltas.replace \ {g}
  BY <1>1, PendingParts DEF Replaced
<1>3. DOMAIN job.spec.groups \ DOMAIN new.groups = job.deltas.create \ {g}
  BY <1>1, PendingParts
<1> DEFINE rest == [job.deltas EXCEPT !.create = @ \ {g}, !.replace = @ \ {g}]
<1>4. /\ rest \in Deltas /\ rest.cluster = job.deltas.cluster
      /\ rest.create = job.deltas.create \ {g} /\ rest.replace = job.deltas.replace \ {g}
      /\ rest.secrets = job.deltas.secrets
  BY PendingParts DEF Deltas
<1> HIDE DEF rest
<1>5. /\ rest.cluster <=> job.spec.cluster # new.cluster
      /\ rest.create = DOMAIN job.spec.groups \ DOMAIN new.groups
      /\ rest.secrets = job.spec.secrets \ new.secrets
  BY <1>1, <1>3, <1>4, PendingParts
<1>6. rest.replace = Replaced(job.spec.groups, new.groups)
  BY <1>2, <1>4
<1>7. diffClusterV2(job.spec, new) = rest
  <2>1. rest \in Deltas
    BY <1>4
  <2> QED BY <2>1, <1>5, <1>6, DiffParts, Zenon
<1> QED BY <1>1, <1>7 DEF rest, Kept, UpdateInv, CopyInv

(* What a command makes of the store, and what of the change list is left. *)
Applying(new, rest) ==
    /\ upsert(new, rest)
    /\ diffClusterV2(job.spec, new) = rest
    /\ Less(rest, job.deltas)
    /\ Kept(job.spec, store, new)
    /\ ControlPlane \subseteq DOMAIN new.groups

ADelta ==
    \/ replaceCluster
    \/ \E g \in Group : createInstanceGroup(g) \/ replaceInstanceGroup(g)
    \/ \E s \in Secret : createSecret(s)

LEMMA DeltaApplies ==
    ASSUME TypeOK, UpdateInv, ADelta
    PROVE  job.pc = "deltas" /\ \E new, rest : Applying(new, rest)
<1> job.pc = "deltas"
  BY DEF ADelta, replaceCluster, createInstanceGroup, replaceInstanceGroup, createSecret
<1>1. job.deltas = diffClusterV2(job.spec, store)
  BY DEF UpdateInv, JobInv
<1>2. CASE replaceCluster
  <2> DEFINE new  == [store EXCEPT !.cluster = job.spec.cluster]
             rest == [job.deltas EXCEPT !.cluster = FALSE]
  <2>1. ControlPlane \subseteq DOMAIN new.groups
    BY DEF TypeOK, Config, UpdateInv, CopyInv
  <2>2. /\ new.cluster = job.spec.cluster /\ new.groups = store.groups
        /\ new.secrets = store.secrets
    BY DEF TypeOK, Config
  <2>3. /\ rest \in Deltas /\ rest.cluster = FALSE /\ rest.create = job.deltas.create
        /\ rest.replace = job.deltas.replace /\ rest.secrets = job.deltas.secrets
    BY PendingParts DEF Deltas
  <2>4. upsert(new, rest) /\ job.deltas.cluster
    BY <1>2 DEF replaceCluster
  <2> HIDE DEF new, rest
  <2>5. diffClusterV2(job.spec, new) = rest
    BY <2>2, <2>3, PendingParts, DiffParts
  <2>6. Less(rest, job.deltas) /\ Kept(job.spec, store, new)
    BY <2>2, <2>3, <2>4 DEF Less, Kept
  <2> QED BY <2>1, <2>4, <2>5, <2>6 DEF Applying
<1>3. ASSUME NEW g \in Group, createInstanceGroup(g) PROVE \E new, rest : Applying(new, rest)
  <2> DEFINE new  == [store EXCEPT !.groups = GroupSet(@, g, job.spec.groups[g])]
             rest == [job.deltas EXCEPT !.create = @ \ {g}]
  <2>1. g \in DOMAIN job.spec.groups /\ g \notin DOMAIN store.groups
    BY <1>1, <1>3 DEF createInstanceGroup, diffClusterV2
  <2>2. rest = [job.deltas EXCEPT !.create = @ \ {g}, !.replace = @ \ {g}]
    <3>1. job.deltas.replace \ {g} = job.deltas.replace
      BY <2>1, PendingParts DEF Replaced
    <3> QED BY <3>1, PendingParts DEF Deltas
  <2>3. upsert(new, rest) /\ g \in job.deltas.create
    BY <1>3 DEF createInstanceGroup
  <2>4. Less(rest, job.deltas)
    BY <2>3, PendingParts DEF Less, Deltas
  <2>5. Kept(job.spec, store, new)
    BY <2>1, GroupWritten
  <2> HIDE DEF new, rest
  <2>6. /\ ControlPlane \subseteq DOMAIN new.groups
        /\ diffClusterV2(job.spec, new) = rest
    BY <2>1, <2>2, GroupWritten DEF new
  <2> QED BY <2>3, <2>4, <2>5, <2>6 DEF Applying
<1>4. ASSUME NEW g \in Group, replaceInstanceGroup(g) PROVE \E new, rest : Applying(new, rest)
  <2> DEFINE new  == [store EXCEPT !.groups = GroupSet(@, g, job.spec.groups[g])]
             rest == [job.deltas EXCEPT !.replace = @ \ {g}]
  <2>1. g \in DOMAIN job.spec.groups /\ g \in DOMAIN store.groups
    BY <1>1, <1>4 DEF replaceInstanceGroup, diffClusterV2
  <2>2. rest = [job.deltas EXCEPT !.create = @ \ {g}, !.replace = @ \ {g}]
    <3>1. job.deltas.create \ {g} = job.deltas.create
      BY <2>1, PendingParts
    <3> QED BY <3>1, PendingParts DEF Deltas
  <2>3. upsert(new, rest) /\ g \in job.deltas.replace
    BY <1>4 DEF replaceInstanceGroup
  <2>4. Less(rest, job.deltas)
    BY <2>3, PendingParts DEF Less, Deltas
  <2>5. Kept(job.spec, store, new)
    BY <2>1, GroupWritten
  <2> HIDE DEF new, rest
  <2>6. /\ ControlPlane \subseteq DOMAIN new.groups
        /\ diffClusterV2(job.spec, new) = rest
    BY <2>1, <2>2, GroupWritten DEF new
  <2> QED BY <2>3, <2>4, <2>5, <2>6 DEF Applying
<1>5. ASSUME NEW s \in Secret, createSecret(s) PROVE \E new, rest : Applying(new, rest)
  <2> DEFINE new  == [store EXCEPT !.secrets = @ \cup {s}]
             rest == [job.deltas EXCEPT !.secrets = @ \ {s}]
  <2>1. ControlPlane \subseteq DOMAIN new.groups
    BY DEF TypeOK, Config, UpdateInv, CopyInv
  <2>2. /\ new.cluster = store.cluster /\ new.groups = store.groups
        /\ new.secrets = store.secrets \cup {s}
    BY DEF TypeOK, Config
  <2>3. /\ rest \in Deltas /\ rest.cluster = job.deltas.cluster
        /\ rest.create = job.deltas.create /\ rest.replace = job.deltas.replace
        /\ rest.secrets = job.deltas.secrets \ {s}
    BY PendingParts DEF Deltas
  <2>4. upsert(new, rest) /\ s \in job.deltas.secrets
    BY <1>5 DEF createSecret
  <2> HIDE DEF new, rest
  <2>5. rest.secrets = job.spec.secrets \ new.secrets
    BY <2>2, <2>3, PendingParts
  <2>6. diffClusterV2(job.spec, new) = rest
    BY <2>2, <2>3, <2>5, PendingParts, DiffParts
  <2>7. Less(rest, job.deltas) /\ Kept(job.spec, store, new)
    BY <2>2, <2>3, <2>4 DEF Less, Kept
  <2> QED BY <2>1, <2>4, <2>6, <2>7 DEF Applying
<1> QED BY <1>2, <1>3, <1>4, <1>5 DEF ADelta

LEMMA DeltaUpdate == ASSUME TypeOK, UpdateInv, ADelta PROVE UpdateInv'
<1>1. PICK new, rest : Applying(new, rest)
  BY DeltaApplies
<1> QED BY <1>1, DeltaApplies, UpsertUpdate DEF Applying, TypeOK

(* The first pass leaves the control plane to be rolled to what the store  *)
(* has; when it is, the second one holds nothing back.                     *)
LEMMA ApplyUpdate == ASSUME TypeOK, UpdateInv, kopsUpdateCluster PROVE UpdateInv'
<1>1. CopyInv'
  <2>1. CASE JobFails
    BY <2>1, JobKeepsCopy DEF JobFails, NoJob, kopsUpdateCluster, UpdateInv, CopyInv
  <2> QED BY <2>1, JobKeepsCopy DEF kopsUpdateCluster, UpdateInv, CopyInv
<1>2. CASE JobFails
  <2>1. job'.pc = "failed"
    BY <1>2 DEF JobFails, NoJob
  <2> QED BY <1>1, <2>1 DEF UpdateInv, JobInv
<1>3. CASE ~JobFails
  <2>1. PICK held \in BOOLEAN : KopsApplies(held)
    BY <1>3 DEF kopsUpdateCluster
  <2>2. /\ DOMAIN cloud' = DOMAIN store.groups
        /\ \A g \in ControlPlane : cloud'[g].cluster = store.cluster
    BY <2>1 DEF KopsApplies, MachineOf, UpdateInv, CopyInv
  <2>3. store' = store /\ job'.spec = job.spec
        /\ job'.pc = IF job.pc = "deltas" THEN "roll" ELSE "passTwoRoll"
    BY <1>3 DEF kopsUpdateCluster, TypeOK
  <2>4. Covers(store, job.spec)
    BY <1>3, DifferenceIsExact DEF kopsUpdateCluster, UpdateInv, JobInv
  <2>5. CASE job.pc = "deltas"
    BY <1>1, <2>2, <2>3, <2>4, <2>5 DEF UpdateInv, JobInv
  <2>6. CASE job.pc = "passTwo"
    <3>1. ~held
      BY <2>1, <2>6 DEF KopsApplies, UpdateInv, JobInv
    <3>2. cloud' = Launched
      BY <2>1, <3>1 DEF KopsApplies, Launched
    <3> QED BY <1>1, <2>3, <2>4, <2>6, <3>2 DEF UpdateInv, JobInv, Launched
  <2> QED BY <1>3, <2>5, <2>6 DEF kopsUpdateCluster
<1> QED BY <1>2, <1>3

LEMMA RollUpdate == ASSUME TypeOK, UpdateInv, rollingUpdateCluster PROVE UpdateInv'
<1>1. CopyInv'
  <2>1. CASE JobFails
    BY <2>1, JobKeepsCopy DEF JobFails, NoJob, rollingUpdateCluster, UpdateInv, CopyInv
  <2> QED BY <2>1, JobKeepsCopy DEF rollingUpdateCluster, UpdateInv, CopyInv
<1>2. CASE JobFails
  <2>1. job'.pc = "failed"
    BY <1>2 DEF JobFails, NoJob
  <2> QED BY <1>1, <2>1 DEF UpdateInv, JobInv
<1>3. CASE ~JobFails
  <2>1. /\ nodes' = cloud /\ UNCHANGED <<store, cloud>> /\ job'.spec = job.spec
        /\ job.pc \in {"roll", "passTwoRoll"}
        /\ job'.pc = IF job.pc = "roll" THEN "passTwo" ELSE "complete"
    BY <1>3 DEF rollingUpdateCluster, SkipsRolling, TypeOK
  <2>2. CASE job.pc = "roll"
    BY <1>1, <2>1, <2>2 DEF UpdateInv, JobInv, ControlPlaneRolled
  <2>3. CASE job.pc = "passTwoRoll"
    BY <1>1, <2>1, <2>3 DEF UpdateInv, JobInv, Launched
  <2> QED BY <2>1, <2>2, <2>3
<1> QED BY <1>2, <1>3

LEMMA NextUpdate ==
    ASSUME Alone, TypeOK, UpdateInv, [Next]_vars PROVE UpdateInv'
<1>1. CASE DeltaFails \/ unlock
  <2>1. job'.pc \in {"idle", "failed"} /\ UNCHANGED <<store, cloud, nodes, cr, pc>>
    BY <1>1 DEF DeltaFails, unlock, JobFails, NoJob
  <2>2. locked' = locked \/ (~locked' /\ job'.pc = "idle")
    BY <1>1 DEF DeltaFails, unlock, NoJob
  <2>3. job.pc # "idle"
    BY <1>1 DEF DeltaFails, unlock
  <2> QED BY <2>1, <2>2, <2>3, JobFrame, JobKeepsCopy DEF UpdateInv, CopyInv
<1>2. CASE Edit
  BY <1>2, JobFrame DEF Edit, UpdateInv, CopyInv
<1>3. CASE Drift
  BY <1>3, BoundAssumption DEF Drift, Alone, TypeOK
<1>4. CASE Crash
  <2>1. job'.pc = "idle" /\ pc' = "idle" /\ UNCHANGED <<store, cloud, nodes>>
    BY <1>4 DEF Crash, Return, NoJob
  <2> QED BY <2>1, JobFrame DEF UpdateInv, CopyInv
<1>5. CASE Recover
  BY <1>5, JobFrame DEF Recover, UpdateInv, CopyInv
<1>6. CASE UNCHANGED vars
  BY <1>6, JobFrame DEF vars, UpdateInv, CopyInv
<1> QED BY <1>1, <1>2, <1>3, <1>4, <1>5, <1>6, ReconcilerUpdate, DeltaUpdate, ApplyUpdate,
           RollUpdate DEF Next, JobStep, ADelta

LEMMA UpdateInvariant == ASSUME Alone PROVE Spec => [](TypeOK /\ UpdateInv)
<1>1. Init => UpdateInv
  BY InitUpdate
<1>2. TypeOK /\ UpdateInv /\ [Next]_vars => UpdateInv'
  BY NextUpdate
<1> QED BY <1>1, <1>2, TypeCorrect, PTL DEF Spec

(* No delta of a job is refused by kops, for any groups and secrets: the   *)
(* pending deltas are at all times the difference between the spec of the  *)
(* job and the store, although they were computed from an observation that *)
(* was made before the lock was taken.                                     *)
THEOREM DeltasApply == ASSUME Alone PROVE Spec => []PendingDeltasApply
<1>1. UpdateInv => PendingDeltasApply
  BY DEF UpdateInv, JobInv, PendingDeltasApply, diffClusterV2
<1> QED BY <1>1, UpdateInvariant, PTL

(* A job without errors has brought the store, the cloud and the nodes to  *)
(* its spec: two passes are enough, whatever kops held back in the first.  *)
THEOREM CompletionIsApplied == ASSUME Alone PROVE Spec => []CompleteIsApplied
<1>1. UpdateInv => CompleteIsApplied
  <2> SUFFICES ASSUME UpdateInv, job.pc = "complete"
               PROVE  Covers(store, job.spec) /\ Applied(job.spec, nodes)
    BY DEF CompleteIsApplied
  <2>1. Covers(store, job.spec) /\ nodes = Launched
    BY DEF UpdateInv, JobInv
  <2> QED BY <2>1 DEF Covers, Applied, Launched, MachineOf
<1> QED BY <1>1, UpdateInvariant, PTL

(* A step of a job other than a delta leaves the store alone and ticks     *)
(* nothing off.                                                            *)
LEMMA OnlyDeltasApply ==
    ASSUME Alone, TypeOK, UpdateInv, Next, ~ADelta PROVE ~AppliesDelta
<1>1. CASE ReconcilerStep
  <2>1. store' = store /\ (job' = job \/ Update)
    BY <1>1 DEF ReconcilerStep, Fetch, Observe, ObserveError, UpToDate, UpdateSkipped, Update,
                UpdateFails
  <2>2. Update => job.pc = "idle"
    BY DEF Update, UpdateInv, CopyInv
  <2> QED BY <2>1, <2>2 DEF AppliesDelta
<1>2. CASE kopsUpdateCluster \/ rollingUpdateCluster
  <2>1. store' = store /\ (JobFails \/ job.pc # "deltas" \/ job'.pc = "roll")
    BY <1>2 DEF kopsUpdateCluster, rollingUpdateCluster, TypeOK
  <2> QED BY <2>1, <1>2 DEF AppliesDelta, JobFails, NoJob
<1>3. CASE DeltaFails \/ unlock \/ Crash
  BY <1>3 DEF DeltaFails, unlock, Crash, JobFails, NoJob, AppliesDelta
<1>4. CASE Edit \/ Recover
  BY <1>4 DEF Edit, Recover, AppliesDelta
<1>5. ~Drift
  BY BoundAssumption DEF Drift, Alone, TypeOK
<1> QED BY <1>1, <1>2, <1>3, <1>4, <1>5 DEF Next, JobStep, ADelta

(* Every change of the store takes a difference between it and the spec of *)
(* the job away, for good as far as that job goes: the updates approach    *)
(* their spec step by step, through failures and crashes, none of them     *)
(* applies what is there already and none touches what only the store has. *)
THEOREM Progress == ASSUME Alone PROVE Spec => DeltasShrink
<1> DEFINE Shrinks ==
              AppliesDelta =>
                 /\ Less(diffClusterV2(job.spec, store'), diffClusterV2(job.spec, store))
                 /\ Kept(job.spec, store, store')
<1>1. ASSUME TypeOK, UpdateInv, ADelta PROVE Shrinks
  <2>1. PICK new, rest : Applying(new, rest)
    BY <1>1, DeltaApplies
  <2>2. store' = new
    BY <2>1 DEF Applying, upsert
  <2>3. job.deltas = diffClusterV2(job.spec, store)
    BY <1>1, DeltaApplies DEF UpdateInv, JobInv
  <2> QED BY <2>1, <2>2, <2>3 DEF Applying
<1>2. UNCHANGED vars => ~AppliesDelta
  BY DEF vars, AppliesDelta
<1>3. TypeOK /\ UpdateInv /\ [Next]_vars => [Shrinks]_vars
  BY <1>1, <1>2, OnlyDeltasApply
<1> QED BY <1>3, UpdateInvariant, PTL DEF Spec, DeltasShrink

(* A job starts only when the store lacks something of its spec: the       *)
(* difference that the reconcile found is there still when it has taken    *)
(* the lock, and so no nodes are rolled that need not be.                  *)
THEOREM NoNeedlessJob == ASSUME Alone PROVE Spec => JobsAreNeeded
<1> DEFINE NeedInv == pc = "update" => diffClusterV2(cr.spec, cr.seen) # NoDeltas
           Needed  == job.pc = "idle" /\ job'.pc = "deltas" => ~Covers(store, job'.spec)
<1>1. Init => NeedInv
  BY DEF Init
<1>2. TypeOK /\ NeedInv /\ [Next]_vars => NeedInv'
  <2> SUFFICES ASSUME TypeOK, NeedInv, [Next]_vars PROVE NeedInv'
    OBVIOUS
  <2>1. CASE Observe
    <3>1. cr'.spec = cr.spec /\ cr'.seen = observeCluster(store)
      BY <2>1 DEF Observe, TypeOK
    <3>2. CASE diffClusterV2(cr.spec, observeCluster(store)) = NoDeltas
      BY <2>1, <3>2 DEF Observe
    <3>3. CASE diffClusterV2(cr.spec, observeCluster(store)) # NoDeltas
      BY <3>1, <3>3
    <3> QED BY <3>2, <3>3
  <2>2. CASE pc' # "update" \/ UNCHANGED <<pc, cr>>
    BY <2>2
  <2> QED BY <2>1, <2>2
          DEF Next, ReconcilerStep, Fetch, ObserveError, UpToDate, UpdateSkipped, Update,
              UpdateFails, Return, JobStep, replaceCluster, createInstanceGroup, replaceInstanceGroup,
              createSecret, upsert, DeltaFails, kopsUpdateCluster, rollingUpdateCluster,
              unlock, Edit, Drift, Crash, Recover, vars
<1>3. TypeOK /\ UpdateInv /\ NeedInv /\ [Next]_vars => [Needed]_vars
  <2> SUFFICES ASSUME UpdateInv, NeedInv, Next, job.pc = "idle", job'.pc = "deltas"
               PROVE  ~Covers(store, job'.spec)
    OBVIOUS
  <2>1. Update
    BY DEF Next, ReconcilerStep, Fetch, Observe, ObserveError, UpToDate, UpdateSkipped,
           UpdateFails, JobStep, replaceCluster, createInstanceGroup, replaceInstanceGroup, createSecret,
           DeltaFails, kopsUpdateCluster, rollingUpdateCluster, unlock, Edit, Drift, Crash,
           Recover, NoJob
  <2>2. /\ job'.spec = cr.spec /\ cr.seen = store
        /\ diffClusterV2(cr.spec, cr.seen) # NoDeltas
    BY <2>1 DEF Update, UpdateInv, CopyInv
  <2> QED BY <2>2, DifferenceIsExact
<1> HIDE DEF NeedInv
<1> QED BY <1>1, <1>2, <1>3, UpdateInvariant, PTL DEF Spec, JobsAreNeeded

-----------------------------------------------------------------------------
(* The lock, whoever changes the store.                                    *)

(* A job has the lock, and a copy without a lock was made while it was     *)
(* free and no job ran.                                                    *)
HeldInv ==
    /\ job.pc # "idle" => locked
    /\ pc # "idle" /\ ~cr.locked => ~locked

LockOf == IF locked THEN "held" ELSE "free"
Busy   == IF job.pc \in {"idle", "complete", "failed"} THEN {} ELSE {"update"}

LockStep ==
    \/ Lock!Acquire("update") \/ Lock!Finish("update") \/ Lock!Release \/ Lock!Leak
    \/ LockOf' = LockOf /\ Busy' = Busy

LEMMA ReconcilerLocks ==
    ASSUME TypeOK, HeldInv, ReconcilerStep PROVE HeldInv' /\ LockStep
<1>1. CASE Update
  <2>1. /\ job.pc = "idle" /\ ~locked /\ locked' /\ pc' = "idle" /\ job'.pc = "deltas"
    BY <1>1 DEF Update, Return, HeldInv
  <2> QED BY <2>1 DEF HeldInv, LockStep, Lock!Acquire
<1>2. CASE UpdateFails
  <2>1. /\ job.pc = "idle" /\ ~locked /\ job' = job /\ pc' = "idle"
        /\ locked' \in BOOLEAN
    BY <1>2 DEF UpdateFails, Return, HeldInv, TypeOK
  <2> QED BY <2>1 DEF HeldInv, LockStep, LockOf, Busy, Lock!Leak
<1>3. CASE ReconcilerStep /\ ~Update /\ ~UpdateFails
  <2>1. UNCHANGED <<locked, job>>
    BY <1>3 DEF ReconcilerStep, Fetch, Observe, ObserveError, UpToDate, UpdateSkipped
  <2>2. pc' # "idle" => \/ cr'.locked = locked
                        \/ pc # "idle" /\ cr'.locked = cr.locked
    <3>1. CASE Fetch
      BY <3>1 DEF Fetch, TypeOK
    <3>2. CASE Observe
      BY <3>2 DEF Observe, TypeOK
    <3> QED BY <1>3, <3>1, <3>2
            DEF ReconcilerStep, ObserveError, UpToDate, UpdateSkipped, Return
  <2> QED BY <2>1, <2>2 DEF HeldInv, LockStep, LockOf, Busy
<1> QED BY <1>1, <1>2, <1>3

LEMMA JobLocks == ASSUME TypeOK, HeldInv, JobStep PROVE HeldInv' /\ LockStep
<1>1. CASE unlock
  <2>1. /\ job.pc \in {"complete", "failed"} /\ locked /\ job'.pc = "idle"
        /\ locked' \in BOOLEAN /\ UNCHANGED <<cr, pc>>
    BY <1>1 DEF unlock, NoJob, HeldInv, TypeOK
  <2> QED BY <2>1 DEF HeldInv, LockStep, LockOf, Busy, Lock!Release
<1>2. CASE JobStep /\ ~unlock
  <2>1. UNCHANGED <<locked, cr, pc>>
    BY <1>2 DEF JobStep, replaceCluster, createInstanceGroup, replaceInstanceGroup,
                createSecret, upsert, DeltaFails, kopsUpdateCluster, rollingUpdateCluster
  <2>2. job.pc \in {"deltas", "roll", "passTwo", "passTwoRoll"}
    BY <1>2 DEF JobStep, replaceCluster, createInstanceGroup, replaceInstanceGroup,
                createSecret, DeltaFails, kopsUpdateCluster, rollingUpdateCluster
  <2>3. job'.pc \in {"deltas", "roll", "passTwo", "passTwoRoll", "complete", "failed"}
    <3>1. CASE JobFails
      BY <3>1 DEF JobFails, NoJob
    <3>2. CASE DeltaFails
      BY <3>1, <3>2 DEF DeltaFails
    <3>3. CASE kopsUpdateCluster \/ rollingUpdateCluster
      BY <3>1, <3>3 DEF kopsUpdateCluster, rollingUpdateCluster, TypeOK
    <3>4. ASSUME NEW new, NEW rest, upsert(new, rest) PROVE JobFails \/ job'.pc = job.pc
      BY <3>4 DEF upsert, TypeOK
    <3> QED BY <1>2, <2>2, <3>1, <3>2, <3>3, <3>4
            DEF JobStep, replaceCluster, createInstanceGroup, replaceInstanceGroup,
                createSecret
  <2> QED BY <2>1, <2>2, <2>3 DEF HeldInv, LockStep, LockOf, Busy, Lock!Finish
<1> QED BY <1>1, <1>2

LEMMA NextLocks ==
    ASSUME TypeOK, HeldInv, [Next]_vars PROVE HeldInv' /\ LockStep
<1>1. CASE Edit \/ Drift \/ UNCHANGED vars
  <2>1. UNCHANGED <<locked, cr, pc, job>>
    BY <1>1 DEF Edit, Drift, vars
  <2> QED BY <2>1 DEF HeldInv, LockStep, LockOf, Busy
<1>2. CASE Crash
  <2>1. UNCHANGED locked /\ pc' = "idle" /\ job'.pc = "idle"
    BY <1>2 DEF Crash, Return, NoJob
  <2> QED BY <2>1 DEF HeldInv, LockStep, LockOf, Busy, Lock!Finish
<1>3. CASE Recover
  BY <1>3 DEF Recover, HeldInv, LockStep, Lock!Release
<1> QED BY <1>1, <1>2, <1>3, ReconcilerLocks, JobLocks DEF Next

(* What the update takes for granted of the lock annotation is an          *)
(* implementation of KopsLock, as the annotations of ClusterController     *)
(* are, for any number of changes of the store by others.                  *)
THEOREM Implementation == Spec => ImplementsKopsLock
<1>1. Init => HeldInv /\ Lock!Init
  BY DEF Init, NoJob, HeldInv, Lock!Init
<1>2. LockStep => [Lock!Next]_(Lock!vars)
  BY DEF LockStep, LockOf, Busy, Lock!Next, Lock!vars, Lock!Leak
<1>3. TypeOK /\ HeldInv /\ [Next]_vars => HeldInv' /\ [Lock!Next]_(Lock!vars)
  BY <1>2, NextLocks
<1> QED BY <1>1, <1>3, TypeCorrect, PTL DEF Spec, ImplementsKopsLock, Lock!Spec
=============================================================================
