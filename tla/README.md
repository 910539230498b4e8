# provider-kops in TLA+

A verification project for provider-kops, the Crossplane provider that manages
Kubernetes clusters by running the `kops` command line. It models the lifecycle
of one `Cluster` custom resource (CR), how it is observed command by command,
what an update does to the cluster behind it, and what the jobs of several
clusters share in one process. It checks all of it with TLC on small instances
and proves the safety properties with TLAPS for every value of the constants.

All paths below are relative to `src/internal/controller/cluster/` unless they
say otherwise.

## The system

| part | state it keeps | operations | source |
| --- | --- | --- | --- |
| managed reconciler (crossplane-runtime, external) | the copy of the CR a reconcile works on | fetch from the informer cache, initialize, connect, observe, add or remove the finalizer, mark a pending creation, write the critical annotations, requeue | set up in `cluster.go` `Setup` |
| handlers | none of their own; annotations of the CR | `Observe`, `Create`, `Update`, `Delete` | `cluster.go` |
| lock | the annotations `external-create-pending`, `external-update-locked` (and `-complete`, `-fail`) | `lockCluster`, `unlockCluster`, `annotateCluster` | `cluster.go` 584-635 |
| background jobs | a goroutine per creation or update, for minutes to hours | `runCreate`, the goroutine of `Update` | `cluster.go` 384-453, 504-536 |
| observation | the specs kops returned and the status, on the copy of the CR; the kubeconfig under `/tmp`; the condition and the connection secret | `observeCluster`, `diffClusterV2`, `validateCluster`, `getNamespacesViaKubectl`, `kopsExportKubecfgAdmin`, the status switch | `kops_helpers.go`, `cluster.go` 197-335 |
| commands | the state store and the cloud, outside the process | `createCluster`, `updateCluster`, `createSecret`, `createKeypair`, `kopsUpdateCluster`, `rollingUpdateCluster` | `kops_helpers.go` |
| files | kops yaml, public keys, docker config under `/tmp` | `writeKopsYamlFile`, `checkWriteDockerConfigFile`, `checkDeleteDockerConfigFile` | `utils.go` |
| connection | none: the credentials of a command come from its ProviderConfig | `Connect`, `newKopsClientService`, `getKopsCliEnv` | `cluster.go`, `utils.go` |
| ProviderConfig controller, process, API types | usage counts, flags, schema | set-up only | `config/`, `src/cmd`, `src/apis` |

How they interact. The reconciler calls `Observe` and then at most one of
`Create`, `Update` and `Delete`, all on one copy of the CR. `Create` and
`Update` look for the lock *in that copy*, take it by reading the CR again and
writing it, start a goroutine, and return. The goroutine runs kops and in the
end writes annotations, again by reading and writing the CR. Nothing else
connects the two: there is no queue, no channel and no memory of a running job
except the annotations, which a crash leaves behind and a deleted CR takes away.
Clusters meet in the process they share and in its files under `/tmp`, which
carry the name of the cluster and the kind of job but not the job.

What is hard here: decisions on a stale copy; the lock taken by a write that
does not look; optimistic writes that conflict, or are applied while their reply
is lost; goroutines that die with the process; a CR deleted and created again
under a running job; "not found" recognised as a substring of an error; a
sequence of commands that stops half way; a spec that changes during an update;
an observation of many commands in which the cluster grows and its credentials
expire; errors that overwrite each other; files of one job that outlive it.
`PROJECT.json` lists these hazards at their lines, with the property for each.

What makes each part correct:

- lock: no two jobs of a CR run kops at the same time, and a running job is
  covered by its lock;
- creation: one attempt per CR, a result that is always reported, and the
  complete annotation after every creation that completes and only on a cluster
  that was built;
- annotation writes: none of them, by the reconciler, a job or a user, loses what
  another one wrote behind its back;
- update: a job starts only for a difference, its deltas are the right ones when
  they are applied and each of them brings the store nearer to the spec, a job
  without errors has applied its spec everywhere, a failing one releases the
  lock, and the whole converges and comes to rest;
- observation: a status fits what exists of the cluster, reported failures stop
  updates, an update that is not stopped has something to do, a healthy cluster
  is recognised again after its credentials were lost and a broken one is noticed;
- creation commands: a creation that completes has entered all of its spec, and
  its nodes were launched with it;
- files: a command reads what its own job wrote, and a creation keeps its docker
  config for as long as it runs kops.

## Modules

| module | what it is |
| --- | --- |
| `ClusterController` | CR, informer cache, reconciler, the four handlers, jobs, crashes, the user |
| `KopsLock` | abstract specification: what the lock promises |
| `ClusterUpdate` | spec, state store, cloud, nodes; observation of the spec, deltas, the two passes of an update |
| `ClusterObserve` | one observation, command by command, with the kubeconfig, the condition and the connection secret |
| `Observation` | abstract specification: what a status promises |
| `KopsJobs` | the jobs of several clusters: files, the commands of a creation |
| `MCClusterController`, `MCClusterUpdate`, `MCClusterObserve`, `MCKopsJobs` | the four for TLC |
| `KopsLockProofs` | the abstract lock is exclusive |
| `ClusterControllerProofs`, `ClusterLockProofs`, `ClusterRefinementProofs` | theorems about `ClusterController`: types and creation; the lock; its refinement of `KopsLock` |
| `ClusterUpdateProofs`, `ClusterObserveProofs`, `KopsJobsProofs` | theorems about the other three |

How they fit together. `ClusterController` has the control of a CR and leaves
open what kops answers. `ClusterObserve` opens its steps `ObserveNotFound`,
`ObserveFound` and `ObserveError` into commands. What holds of the outcome of an
observation is `Observation`: `ClusterController` takes its guards for those
steps, and that the commands keep to them is shown of `ClusterObserve`.
`ClusterUpdate` and `KopsJobs` open the phases of its jobs, the first into what
an update does to the store, the cloud and the nodes, the second into files and
the commands of a creation. Both rely on a job running alone on its cluster, which is `KopsLock`:
all three modules implement it, `KopsJobs` for every cluster in the process.

### ClusterController

`obj` is the CR in the API server and `cached` what the informer cache holds;
`cr` is the copy of a reconcile (`pc` says how far it is, `status` is
`cr.Status.Status`), `job` the goroutines, `external` what exists of the
cluster: nothing, its kops configuration, or also the cloud resources.
A resourceVersion only ever matters as "is this the latest object", so
two booleans, `cacheCurrent` and `crCurrent`, stand for the versions.

One action stands for one handler or one call of it that is atomic for the
others. `Fetch`, `Initialize`, `AddFinalizer`, `MarkPending` and `Critical` are
steps of crossplane-runtime, modelled from how the code relies on them.
`ObserveNotFound`, `ObserveFound` and `ObserveError` are the outcomes of
`Observe`; the assignment of `create-complete` to the copy (line 276) is part of
`ObserveFound`, and reaches the API server only if a later step writes the copy.
`Create`/`CreateAlready`/`CreateFails` and `Update`/`UpdateSkipped`/`UpdateFails`
are the branches of the two handlers; `LockPanics` and `JobPanics` the
assignment into a nil map (line 604). `annotateCluster` reads the cache and
updates, so it succeeds exactly when the cache is current; a lost reply is the
same write followed by the error path. A job goes through the phases of
`runCreate` or of the goroutine of `Update` (`After`), and on an error to where
the code goes (`OnError`): a creation annotates its failure, an update unlocks.

Kept out: the status subresource, conditions and connection secrets (no decision
reads them; `ClusterObserve` has them), the data the annotations carry, and the five attempts of
`retry.RetryOnConflict`, which are one attempt that conflicts when the cache
lags. Two provider processes at a time are not modelled either (leader election
is off by default, `src/cmd/provider/main.go`).

The adversary is chosen by constants: `StaleReads` (reconciles and jobs may read
a cache that lags), `NotFoundErrors` (an existing cluster may be reported "not
found"), `APIErrors` (requests fail, or are applied and their reply is lost),
`EarlyRecreates` (a user creates the CR again while a job of the deleted one still
runs; without it he waits for the last job to end).

### KopsLock

The lock is free, held, or gone with the object; a job becomes busy only by
acquiring a free lock while nobody is busy, and the lock is released only when
nobody is. `Leak` is the lock that was written although nobody runs (a lost
reply, or the annotations of an old copy merged after `Create`), which
the comments of `Create` and `Update` leave to manual intervention. `Remove` is
the deletion of the object, from under a job if need be, and `Renew` the next
object, which must come when nobody is busy any more.
`ClusterController` implements it with one of the annotations as the lock and
the jobs that run kops as busy (`ImplementsKopsLock`), incarnation after
incarnation. So do `ClusterUpdate`, which has the lock as a variable that is
looked at when a reconcile begins, and `KopsJobs`, which has one for each cluster
(`Lock(c)`), looked at and taken in one step. The look, the write and the merge
of annotations are those of `ClusterController` only; what the other two rely on
is what it provides.

### ClusterUpdate

`spec` is what the CR asks for, `store` what kops keeps, `cloud` the launch
configuration of each group, `nodes` what the nodes run from. `observeCluster`
keeps the early return that skips the secrets when no group was found, and
`diffClusterV2` compares as the code does: groups and secrets that only the
store has are no difference. A job applies one delta per step, in the order
cluster, groups, secrets; kops refuses to create what exists and to replace what
does not; the first failure ends the update (`JobFails`), before or after the
command took effect. `kopsUpdateCluster` may hold worker groups back until the
control plane runs the new version, as the comment of the second pass says.

The lock itself may fail: `lockCluster` returns an error and no job is started
(`UpdateFails`), after the lock was written if only the reply was lost; the
error of `unlockCluster` is logged and the job is over with its lock (`unlock`).
Either way nobody removes the lock but the user (`Recover`). What leaves a lock
without a job, a crash too, is counted in `faults`, and `MaxFaults` bounds it.
A conflict that goes away with the next attempt is no fault.

Nodes are rolled whatever `rollingUpdateOpts.enabled` says (`SkipsRolling`): line
468 of `kops_helpers.go` compares the pointer of the option with the address of
a local variable, which is never equal, so that "Skipped Rolling Update" is
never reached. The option defaults to true.

A value stands for a whole yaml document as `buildKopsYamlStructs` renders it.
The spec always names the control plane groups: a spec without any instance
group would never converge in this model when a secret is in the store, since
the observation then never sees the secret, and it is not a cluster.

### ClusterObserve and Observation

`pc` is the command that comes next: `get` (`kopsGet`), `view` (the look into the
kubeconfig by `forceKubecfgSNI`), `validate`, `export`, `kubectl`, `reissue`,
then the status `switch` and the handler it leads to. `cr` holds the annotations
and the status of the copy together with the local variables of `Observe`: is
there a difference, what validation answered, which kubeconfig was read.
`kubeconfig` is the file under `/tmp`, `secret` what was published of it: `file`
as long as it equals the file, `old` once the file was exported anew.

Every command has its error branch. The export needs only what is in the state
store, so it may succeed on a cluster that has nothing but its configuration;
kubectl then finds nobody to talk to, and the status stays as it was. That of validation is where the code loses
it: `validateClusterFails` leads to kubectl, and only a refusal of the
credentials leads to an export first, after which validation is not repeated.
`getNamespacesViaKubectl` decides on the failures that were reported and on its
own error. An error of kubectl leads to `reissue` and leaves the status as it was
initialised, whatever the export does. `Switch` has the cases of the Go switch,
which do not fall through: `Unknown` is up to date and, like `Updating`, leaves
the condition alone. `Create` and `Update` are there for the connection details
they return and for the guards of `Update`.

Around it the cluster grows (jobs and users), its health changes, the
credentials expire and the process restarts, which empties `/tmp`. Whether the
spec differs is a choice. The annotations a reconcile reads are any, except that
the complete annotation is only on a cluster that was built: that is
`CompleteImpliesBuilt`, proved of `ClusterController`.

`Observation` says what the handlers may rely on: `Creating` only if the store
had no cluster when it was asked, `Ready` and `Updating` only if the cloud
resources were built. What exists may grow meanwhile and never shrinks: this
provider runs no kops delete.

### KopsJobs

A job is started when its cluster's lock is free and by nothing else
(`Start`); that the one job `job[c]` of a cluster is never overwritten by the
next is the refinement `ImplementsKopsLock`. There may be any number of jobs
that have unlocked and not yet removed the docker config (`cleanups`). A file is
named by what its path is made of (`fileName`): the name of the cluster and of
the part with dots replaced by dashes, and the kind of job. `TwinClusters` and
`TwinGroups` are names that become equal by that. A job remembers the version of
the spec it was started with, what is still to be entered (`todo`), what is in
the `store`, what kops update has made of that (`cloud`) and what the `nodes`
were launched with.

`writeKopsYamlFile` writes all files of the spec whatever the deltas, as the
code does, and leaves them when it fails half way; `enter` is one kops create or
replace, in the order cluster, public key, groups; `createKey` keypairs, then
secrets. `Fail` is where a failing command leads: a creation ends with its lock,
an update goes on to unlock. `checkWriteDockerConfigFile` fails a creation and is
only logged by an update. `checkDeleteDockerConfigFile` comes after the unlock.
The commands of an update that follow its yaml touch nothing that is shared; they
are one step here and `ClusterUpdate` has them.

A CR may be deleted and created again (`Recreate`), for the cluster that is
still there or, once that was removed by hand, for one to be created anew: then a
creation follows other jobs of its cluster. It comes when no job is left, and
with `EarlyRecreates` perhaps before the cleanup of the last one.
`checkWriteDockerConfigFile` creates the file before it looks whether the secret
has data, and does nothing where the spec names no dockerconfig secret: such
clusters are `Dockerless`, and the file is left as it was or made empty
(`NothingWritten`), as it is by an error. The temporary files of keypairs and
secrets have random names and are left out.

## Runs

| run | adversary and bounds | shows |
| --- | --- | --- |
| `lock_fresh` | fresh cache, true "not found", a user who waits; 2 incarnations, 3 jobs, lost replies, 2 edits or repairs, 1 crash | `OneKopsAtATime`, `RunningJobHoldsLock`, `ImplementsKopsLock` |
| `create_once` | everything: stale reads, spurious "not found", lost replies, 2 incarnations, 1 edit, 1 crash; 2 jobs | `TypeOK`, `CreateOnce`, `CreationIsMarked`, `CompleteImpliesBuilt`, `AnnotationsKept` |
| `liveness` | commands and observations may fail, a user edits; no crash, no lost replies | `UpdateLockReleased`, `CreationConcludes` |
| `race_stale_read` | stale reads only | `OneKopsAtATime` is violated |
| `race_not_found` | spurious "not found" only | `OneKopsAtATime` is violated |
| `recreate` | 2 incarnations, failing commands only | `RecreatingRetries` is violated |
| `update_safe` | 2 groups, 1 secret, failing commands, 2 edits, 1 fault (crash, unlock that fails, lock whose reply is lost) | `TypeOK`, `PendingDeltasApply`, `CompleteIsApplied`, `DeltasShrink`, `JobsAreNeeded`, `ImplementsKopsLock` |
| `update_live` | 1 group, 1 secret, 1 edit, 1 change of the store by hand | `Converges` |
| `up_to_date` | failing commands only | `UpToDateMeansApplied` is violated |
| `observe` | failing commands; 3 changes of health, expiries or restarts | `TypeOK`, `FailuresBlockUpdates`, `UpdatesAreCalledFor`, `ImplementsObservation`, `Recovers`, `NoticesFailures` |
| `observe_unvalidated` | failing commands only | `UpdatesAreValidated` is violated |
| `jobs` | 2 clusters, one without a docker config; 1 group, 1 keypair, 1 secret; CRs deleted and created again; 3 jobs, 1 edit each, 1 crash | `TypeOK`, `ReadsOwnFiles`, `CreatedCompletely`, `CreationHasDockerConfig`, `ImplementsKopsLock` |

Why the bounds are enough to be interesting: two jobs are what a race needs, the
third one is the job that starts after a race, a crash or a repair; the second
incarnation and one crash put a step of the old world between any two of the
new; two edits let the spec change during a job and again during the next one.
The job pool limits how often a lock is taken; a reconcile begins only while a
job is left, which is why the controller runs do not check for deadlock. (The
object may also be deleted for good.) Jobs are interchangeable in
the safety runs (symmetry), not in the liveness run.

In `observe` three faults are an expiry, a restart after it and a change of
health, in any order and between any two commands; `faults` is the only counter,
everything else may happen any number of times. In `jobs` three jobs are a
creation and an update of one cluster beside a job of the other, or a creation, a
repair and two updates of one cluster, or two creations with an update between
them, so that old files of both kinds lie around. A job that has unlocked is
cleaned up before the cluster's next job unlocks (`MaxCleanups`).

The two races show that the first two conditions of `lock_fresh` cannot be
dropped. In `race_stale_read` the lock is looked up in a copy from a lagging
cache and then taken by a write that does not look. In `race_not_found` an
adopted cluster, whose CR has no mark of a creation, is reported "not found"
while it is updated, and `Create` does not look at the update lock. The third
cannot be dropped either: a CR that is created again while a job of the old one
runs carries no lock, and with `EarlyRecreates` TLC finds its job beside the old
one. That configuration is not kept as a run.

Two things the lock does not promise are in `KopsLock` as `Leak`, and no run
refutes them. A lock comes back when a reconcile fetched the CR under a
creation's lock, was told "not found", returned early from `Create` and writes
the annotations of its copy after the creation has unlocked. A lock stays when
`unlockCluster` fails after an update. In both cases nobody works under it
(`ImplementsKopsLock`), no second creation follows (`CreateOnce`), and it stays
until the user removes it.

`CreationHasDockerConfig` needs that the user waits as well: with
`EarlyRecreates` TLC finds a creation whose docker config is removed by the
cleanup of the last job of the deleted CR.

The violations are disagreements between the code and what is said of it: the
comments of `Create` and `Update` ("prevent concurrent executions of the kops
cli"), the advice to delete and recreate a cluster whose creation failed, the
comment on `ResourceUpToDate`, and the message with which `Update` skips a
cluster ("skipping updates until external state is stable"). `PROJECT.json`
quotes the lines.

### Fairness

`ReconcilerStep` is weakly fair: controller-runtime requeues every reconcile, at
the latest after the poll interval. Jobs are goroutines the scheduler runs, and
the watch delivers, so `CacheSync` is weakly fair. Two assumptions are stronger.
Observations that stay possible are made at last (`SF` of the outcomes of
`Observe`): kops and the network do not fail for ever. And `JobStep` is strongly
fair: with weak fairness TLC finds the behaviour in which each attempt of a
job's annotation write meets a write of the reconciler and all five conflict for
ever. Reconciles are seconds apart and the cache lags by milliseconds, so we
exclude it; that all attempts fail once is in the safety runs. In
`ClusterUpdate` every command is strongly fair, and so is `Update`: a command or
a lock that is tried again and again takes effect at last. `update_live` has no
faults (`MaxFaults = 0`), since a lock that stays without a job stays until it is
removed by hand. `ClusterObserve` has weakly fair reconciles and
strongly fair commands: `kops get`, the look into the kubeconfig, validation,
the export and kubectl each succeed at last if observation after observation
could run them. With weak fairness alone one failing command per observation,
never the same, would be a behaviour. Nothing is assumed of commands that are tried
finitely often, nor of crashes and manual repairs.

## Proofs

`ClusterControllerProofs` proves `TypeOK`, `CreateOnce`, `CompleteImpliesBuilt`,
`AnnotationsKept` and `CreationIsMarked` for every adversary. The inductive
invariant (`CreateInv`, `BuiltInv`) says what a copy that carries the latest
resourceVersion means, that uids only grow, and that a creation job of an
incarnation leaves a mark (pending or succeeded) on the object, the cache and
every copy that could still lead to `Create`. That no annotation is lost is a
statement about each step from such a state (`Keeps`): an update of the copy is
applied only when the copy misses nothing, the other writes start from the
latest object. `CreationIsMarked` follows from it: a creation gets to its unlock
only by a write of the annotation that was applied (`CreationPhases`), no step
takes that annotation off, and an incarnation does not come back
(`Incarnations`).

`ClusterLockProofs` proves `OneKopsAtATime` and `RunningJobHoldsLock` under
`Fresh`: no stale reads, true "not found", and a CR that is created again only
when no job is left, for any number of incarnations. Its invariant
(`LockInv`) adds that the copy a reconcile decides on carries the lock of every
job that still holds one, which is what the look-up in the copy relies on.

`KopsLockProofs` proves that the abstract lock is exclusive (`Exclusive`), and
`ClusterRefinementProofs` that the controller implements it under `Fresh`
(`Implementation`). Every step maps to a step of `KopsLock` or to a stutter. The
additional invariant (`FreeInv`) shows that the lock a job takes is free: while a
reconcile decides, a lock on the object is also in its copy; and an update lock
without a pending creation exists only where the cluster does, so that `Create`,
which does not look at it, never meets it.

`ClusterObserveProofs` proves `TypeOK`, `FailuresBlockUpdates`,
`UpdatesAreCalledFor` and `ImplementsObservation` without any condition. The
invariant (`StatusInv`) ties what validation answered to the status: until the
switch a status other than the two of `InitialStatus` exists only where no
failures were reported, and `Progressing` only where the complete annotation is
missing, so that the guards of `Update` catch both. What is left is `Updating`,
and that the cluster was built then is not argued again from the commands: it is
proved of `Observation` (`OperatingIsBuilt`) and carried over by the refinement.

`KopsJobsProofs` proves the four invariants of `KopsJobs` for any clusters,
groups and bounds; `ReadsOwnFiles` and `CreationHasDockerConfig` under
`DistinctNames`, without which they are false (the file of one twin is that of
the other), and the second under `~EarlyRecreates` too. The first rests on
`fileName` being injective where names are distinct: a write of another job then
leaves the files of this one alone. The second on the cleanups being over when a
creation starts: its CR is the first, or was created again after them.
`CreatedCompletely` carries, phase by phase,
what is entered, built and launched so far. `Implementation` proves, for every
cluster at once, that its lock is a `KopsLock`: a job that is there has the lock
(`LockedInv`), the steps of other clusters are stutters, and a crash is a step
of each.

`ClusterUpdateProofs` proves `TypeOK` and the refinement of `KopsLock` by
`ClusterUpdate` for every value of the constants, and `PendingDeltasApply`,
`CompleteIsApplied`, `DeltasShrink` and `JobsAreNeeded` under `Alone`
(`MaxDrifts = 0`: nobody else changes the store, without which all four are
false). The types need `ShapeInv`: a pending delta
names a group of the job's spec. `CopyInv` says that a copy without the lock was
made while no job ran, so that the store is still what was observed; `JobInv`
that the pending deltas are at all times the difference between the job's spec
and the store, and how far cloud and nodes are in each phase. That two passes
are enough is the step from `roll` to `passTwoRoll`: the first roll brings the
control plane to the version of the store, after which nothing is held back.
`DeltaApplies` says of each of the four commands what it makes of the store and
of the difference; both the invariant and `DeltasShrink` (`Progress`) come from
it. `DifferenceIsExact` shows that `diffClusterV2` is empty exactly where the
reference `Covers` holds; with it a non-empty change list in the copy is a real
need of the store at the moment the job starts (`NoNeedlessJob`).

The theorems assume only the named assumptions on the constants, and `Fresh`,
`Alone`, `DistinctNames` and `~EarlyRecreates` where their statements say so.

Only model-checked: the liveness properties (`UpdateLockReleased`,
`CreationConcludes`, `Converges`, `Recovers`, `NoticesFailures`), since TLAPS here
has no rules for fairness. Every safety property of a passing run is proved.

## Not modelled

- Two provider processes at a time (leader election is off by default): the lock
  across them is the stale read of `race_stale_read`, with a second cache.
- Two CRs with one external name: they share the cluster, its files and its
  kubeconfig, but not a lock. Nothing in the code provides for it.
- The temporary files of `createKeypair` and `createSecret`, which stay when the
  command fails: random names, nobody reads them again.
- Data races on fields of the shared copy (lines 421-422), beyond the crash a
  concurrent access to a map can cause: no decision reads the fields.
- Credentials: `getKopsCliEnv` makes the whole environment of a command from its
  own ProviderConfig, so no state is shared, and what `Connect` sets in the
  environment of the process is read by no command of this repository.
- How `Connect` looks up a ProviderConfig and its secret, the ProviderConfig
  controller (one call into crossplane-runtime), flags: no state of their own.
- API types beyond what the decisions read, generated code, CRDs, packaging.

## Plan

1. `ClusterController`, `KopsLock`, their runs and invariants, the proofs
   that the annotations are a lock and refine `KopsLock` (done).
2. `ClusterUpdate` with convergence, the proofs of its safety properties (done).
3. `ClusterObserve` against `Observation`; recovery and the noticing of failures; the proofs (done).
4. `KopsJobs`: creation commands, files, docker config, for several clusters in
   one process, with CRs that are deleted and created again; the proofs (done).
5. Two processes with a cache each, and the lock across them; two CRs with one
   external name (left).
