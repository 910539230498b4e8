------------------------------- MODULE KopsJobs -------------------------------
(***************************************************************************)
(* The commands of the background jobs of several clusters in one provider *)
(* process: the files under /tmp they write and read, and what a creation  *)
(* makes of the spec it was started with.  Each CR has a lock, which is    *)
(* all that keeps the jobs of its cluster apart.  What happens after the   *)
(* unlock, the removal of the docker config, is not covered by it, and the *)
(* lock goes with the CR when that is deleted and created again.           *)
(*                                                                         *)
(* An update enters some of the yaml, whichever; the commands after that   *)
(* read no file another job writes and are those of ClusterUpdate.         *)
(* A name in a path has its dots replaced by dashes: the names of          *)
(* TwinClusters become the same, and so do those of TwinGroups.            *)
(***************************************************************************)
EXTENDS Naturals

CONSTANTS
    Cluster,       \* external names of clusters
    Group,         \* names of instance groups, the same in every cluster
    Keypair,       \* spec.forProvider.keypairs
    Secret,        \* spec.forProvider.secrets
    Dockerless,    \* clusters without a dockerconfig secret, or one with no data
    TwinClusters, TwinGroups,
    EarlyRecreates,  \* may a CR be created again before the last cleanup?
    MaxEdits,      \* bound: edits of the spec of a cluster
    MaxJobs,       \* bound: jobs that are started, of all clusters
    MaxCleanups,   \* bound: jobs of a cluster between unlock and cleanup
    MaxCrashes     \* bound: crashes of the process

ASSUME NameAssumption ==
    /\ Dockerless \subseteq Cluster
    /\ TwinClusters \subseteq Cluster /\ TwinGroups \subseteq Group
    /\ Group \cap {"cluster", "pub"} = {}
    /\ (Keypair \cup Secret) \cap ({"cluster", "pub"} \cup Group) = {}
ASSUME EnvironmentAssumption == EarlyRecreates \in BOOLEAN
ASSUME BoundAssumption ==
    MaxEdits \in Nat /\ MaxJobs \in Nat /\ MaxCleanups \in Nat \ {0} /\ MaxCrashes \in Nat

-----------------------------------------------------------------------------
(* Files.                                                                  *)

Part   == {"cluster", "pub"} \cup Group
Suffix == {"create", "update"}

Dashed(name) ==
    IF name \in TwinClusters THEN TwinClusters
    ELSE IF name \in TwinGroups THEN TwinGroups ELSE {name}

(* Mutant: the file of an instance group is not named after its cluster. *)
fileNameOfGroup(c, part, suffix) ==
    <<IF part \in Group THEN Group ELSE Dashed(c), Dashed(part), suffix>>

(* getKopsClusterFilename, getKopsInstanceGroupFilename and, for the deltas*)
(* of an update, getKopsInstanceGroupFilenameFromYaml.                     *)
fileName(c, part, suffix) == <<Dashed(c), Dashed(part), suffix>>

Path    == {fileName(c, part, suffix) : c \in Cluster, part \in Part, suffix \in Suffix}
Content == [cluster: Cluster, part: Part, value: 0..MaxEdits]
NoFile  == [cluster |-> "none", part |-> "none", value |-> 0]

(* What buildKopsYamlStructs renders for a part of a spec. *)
buildKopsYamlStructs(c, part, value) == [cluster |-> c, part |-> part, value |-> value]

-----------------------------------------------------------------------------
VARIABLES
    spec,       \* version of the spec of each cluster
    lock,       \* annotations: no creation yet, locked, created and unlocked
    job,        \* the job of each cluster
    cleanups,   \* jobs that have unlocked, but not removed the docker config
    files,      \* the yaml and the public keys under /tmp
    docker,     \* is the docker config there, with data?
    started,    \* how many jobs were
    crashes

process == <<files, docker, cleanups>>
counters == <<started, crashes>>
vars == <<spec, lock, job, process, counters>>

(* All that a spec asks to be entered in the state store. *)
Entry == Part \cup Keypair \cup Secret

Phase == {"docker", "files", "yaml", "keys", "roll", "unlock"}

(* todo:  what is still to be entered                                      *)
(* store: what the job has entered; cloud: what kops update has seen of    *)
(* it; nodes: what the nodes of a new cluster were launched with           *)
Job == [kind: {"create", "update"}, pc: Phase \cup {"none"}, value: 0..MaxEdits,
        todo: SUBSET Entry, store: SUBSET Entry, cloud: SUBSET Entry, nodes: SUBSET Entry]

NewJob(kind, pc, value, todo) ==
    [kind |-> kind, pc |-> pc, value |-> value, todo |-> todo,
     store |-> {}, cloud |-> {}, nodes |-> {}]

NoJob == NewJob("create", "none", 0, {})

TypeOK ==
    /\ spec \in [Cluster -> 0..MaxEdits]
    /\ lock \in [Cluster -> {"new", "locked", "free"}]
    /\ job \in [Cluster -> Job]
    /\ cleanups \in [Cluster -> 0..MaxCleanups]
    /\ files \in [Path -> Content \cup {NoFile}]
    /\ docker \in [{Dashed(c) : c \in Cluster} -> BOOLEAN]
    /\ started \in 0..MaxJobs
    /\ crashes \in 0..MaxCrashes

NewProcess ==
    [files |-> [p \in Path |-> NoFile],
     docker |-> [d \in {Dashed(c) : c \in Cluster} |-> FALSE]]

Init ==
    /\ spec = [c \in Cluster |-> 0]
    /\ lock = [c \in Cluster |-> "new"]
    /\ job = [c \in Cluster |-> NoJob]
    /\ cleanups = [c \in Cluster |-> 0]
    /\ files = NewProcess.files /\ docker = NewProcess.docker
    /\ started = 0 /\ crashes = 0

-----------------------------------------------------------------------------
(* The reconcilers.                                                        *)

(* Only the lock says that no other job of the cluster is running. *)
Start(c, new) ==
    /\ lock' = [lock EXCEPT ![c] = "locked"]
    /\ job' = [job EXCEPT ![c] = new]
    /\ started < MaxJobs /\ started' = started + 1
    /\ UNCHANGED <<spec, process, crashes>>

Create(c) ==
    /\ lock[c] = "new"
    /\ Start(c, NewJob("create", "docker", spec[c], Entry))

(* Mutant: Update looks only whether the cluster is created. *)
UpdateUnlocked(c) ==
    /\ lock[c] # "new"
    /\ \E parts \in SUBSET (Part \ {"pub"}) :
          Start(c, NewJob("update", "docker", spec[c], parts))

(* A public key is never entered again. *)
Update(c) ==
    /\ lock[c] = "free"
    /\ \E parts \in SUBSET (Part \ {"pub"}) :
          Start(c, NewJob("update", "docker", spec[c], parts))

-----------------------------------------------------------------------------
(* The jobs.                                                               *)

(* The goroutine of a creation annotates the failure and ends with the     *)
(* lock, the one of an update goes on to unlock.                           *)
Fail(c) ==
    job' = [job EXCEPT ![c] = IF @.kind = "create" THEN NoJob
                              ELSE NewJob("update", "unlock", @.value, {})]

(* Without data the file is created empty, or nothing is done at all; so   *)
(* it may be left by an error, too.                                        *)
NothingWritten(c) == \E kept \in BOOLEAN : docker' = [docker EXCEPT ![Dashed(c)] = @ /\ kept]

(* Mutant: an error is logged only, in a creation too. *)
checkWriteDockerConfigFileLogged(c) ==
    /\ job[c].pc = "docker"
    /\ NothingWritten(c) \/ docker' = [docker EXCEPT ![Dashed(c)] = TRUE]
    /\ job' = [job EXCEPT ![c].pc = "files"]
    /\ UNCHANGED <<spec, lock, files, cleanups, counters>>

(* Only a creation ends when the docker config cannot be written. *)
checkWriteDockerConfigFile(c) ==
    /\ job[c].pc = "docker"
    /\ \/ /\ IF c \in Dockerless THEN NothingWritten(c)
             ELSE docker' = [docker EXCEPT ![Dashed(c)] = TRUE]
          /\ job' = [job EXCEPT ![c].pc = "files"]
       \/ /\ job[c].kind = "create"
          /\ NothingWritten(c) /\ Fail(c)
       \/ /\ job[c].kind = "update"
          /\ NothingWritten(c)
          /\ job' = [job EXCEPT ![c].pc = "files"]
    /\ UNCHANGED <<spec, lock, files, cleanups, counters>>

Written(c, parts) ==
    [p \in Path |->
       IF \E part \in parts : p = fileName(c, part, job[c].kind)
       THEN LET part == CHOOSE x \in parts : p = fileName(c, x, job[c].kind)
            IN  buildKopsYamlStructs(c, part, job[c].value)
       ELSE files[p]]

(* The files of the whole spec, whatever the deltas: the cluster, the      *)
(* groups, the public key; or an error on the way.                         *)
writeKopsYamlFile(c) ==
    /\ job[c].pc = "files"
    /\ \/ files' = Written(c, Part) /\ job' = [job EXCEPT ![c].pc = "yaml"]
       \/ \E groups \in SUBSET Group : \E parts \in {{}, {"cluster"} \cup groups} :
             files' = Written(c, parts) /\ Fail(c)
    /\ UNCHANGED <<spec, lock, docker, cleanups, counters>>

(* kops create -f, kops replace -f and kops create sshpublickey -i: the    *)
(* cluster first, then the public key, then the groups.                    *)
enter(c, part) ==
    /\ job[c].pc = "yaml" /\ part \in job[c].todo \cap Part
    /\ part # "cluster" => "cluster" \notin job[c].todo
    /\ part \in Group => "pub" \notin job[c].todo
    /\ files[fileName(c, part, job[c].kind)] # NoFile
    /\ job' = [job EXCEPT ![c].todo = @ \ {part}, ![c].store = @ \cup {part}]
    /\ UNCHANGED <<spec, lock, process, counters>>

(* createKeypair for the keypairs, then createSecret for the secrets. *)
createKey(c, key) ==
    /\ job[c].pc = "keys" /\ key \in job[c].todo
    /\ key \in Secret => job[c].todo \cap Keypair = {}
    /\ job' = [job EXCEPT ![c].todo = @ \ {key}, ![c].store = @ \cup {key}]
    /\ UNCHANGED <<spec, lock, process, counters>>

(* Mutant: the second pass is left out, the cluster is rolled at once. *)
kopsUpdateClusterOnce(c) ==
    /\ job[c].kind = "create"
    /\ \/ /\ job[c].pc = "yaml" /\ job[c].todo \cap Part = {}
          /\ job' = [job EXCEPT ![c].cloud = job[c].store, ![c].nodes = job[c].store,
                                ![c].pc = "keys"]
       \/ /\ job[c].pc = "keys" /\ job[c].todo = {}
          /\ job' = [job EXCEPT ![c].pc = "roll"]
    /\ UNCHANGED <<spec, lock, process, counters>>

(* A creation builds the cluster and launches its nodes before it adds the *)
(* keys, and updates it once more with them.                               *)
kopsUpdateCluster(c) ==
    /\ job[c].kind = "create"
    /\ \/ /\ job[c].pc = "yaml" /\ job[c].todo \cap Part = {}
          /\ job' = [job EXCEPT ![c].cloud = job[c].store, ![c].nodes = job[c].store,
                                ![c].pc = "keys"]
       \/ /\ job[c].pc = "keys" /\ job[c].todo = {}
          /\ job' = [job EXCEPT ![c].cloud = job[c].store, ![c].pc = "roll"]
    /\ UNCHANGED <<spec, lock, process, counters>>

(* The roll of a creation, cloud only, replaces all nodes. *)
rollingUpdateCluster(c) ==
    /\ job[c].pc = "roll"
    /\ job' = [job EXCEPT ![c].nodes = job[c].cloud, ![c].pc = "unlock"]
    /\ UNCHANGED <<spec, lock, process, counters>>

(* The commands of an update after those for the yaml: done, or failed. *)
updateCluster(c) ==
    /\ job[c].kind = "update" /\ job[c].pc = "yaml" /\ job[c].todo = {}
    /\ job' = [job EXCEPT ![c] = NewJob("update", "unlock", @.value, {})]
    /\ UNCHANGED <<spec, lock, process, counters>>

(* With or without an effect: what a failed job has done is not read again.*)
CommandFails(c) ==
    /\ job[c].pc \in {"yaml", "keys", "roll"}
    /\ Fail(c)
    /\ UNCHANGED <<spec, lock, process, counters>>

(* A creation annotates that it is complete before it unlocks.  When it    *)
(* cannot do either it ends as it does after any error, an update goes on. *)
unlockCluster(c) ==
    /\ job[c].pc = "unlock" /\ cleanups[c] < MaxCleanups
    /\ \/ lock' = [lock EXCEPT ![c] = "free"] /\ cleanups' = [cleanups EXCEPT ![c] = @ + 1]
       \/ /\ UNCHANGED lock
          /\ cleanups' = [cleanups EXCEPT ![c] = IF job[c].kind = "create" THEN @ ELSE @ + 1]
    /\ job' = [job EXCEPT ![c] = NoJob]
    /\ UNCHANGED <<spec, files, docker, counters>>

(* Mutant: the docker config is removed at any time. *)
checkDeleteDockerConfigFileAlways(c) ==
    /\ cleanups' = [cleanups EXCEPT ![c] = @ - 1]
    /\ docker' = [docker EXCEPT ![Dashed(c)] = FALSE]
    /\ UNCHANGED <<spec, lock, job, files, counters>>

(* After the unlock: another job of the cluster may have started. *)
checkDeleteDockerConfigFile(c) ==
    /\ cleanups[c] > 0
    /\ cleanups' = [cleanups EXCEPT ![c] = @ - 1]
    /\ docker' = [docker EXCEPT ![Dashed(c)] = FALSE]
    /\ UNCHANGED <<spec, lock, job, files, counters>>

-----------------------------------------------------------------------------
(* The user and the process.                                               *)

Edit(c) ==
    /\ spec[c] < MaxEdits
    /\ spec' = [spec EXCEPT ![c] = @ + 1]
    /\ UNCHANGED <<lock, job, process, counters>>

(* Everything under /tmp goes with the container, the locks stay. *)
Crash ==
    /\ crashes < MaxCrashes /\ crashes' = crashes + 1
    /\ job' = [c \in Cluster |-> NoJob]
    /\ cleanups' = [c \in Cluster |-> 0]
    /\ files' = NewProcess.files /\ docker' = NewProcess.docker
    /\ UNCHANGED <<spec, lock, started>>

(* A lock that was left by an error or a crash is removed by hand. *)
Recover(c) ==
    /\ lock[c] = "locked" /\ job[c].pc = "none"
    /\ lock' = [lock EXCEPT ![c] = "free"]
    /\ UNCHANGED <<spec, job, process, counters>>

(* Delete lets the CR go, with whatever lock is on it, and the user makes  *)
(* it anew: for the cluster that is still there, or, when that was deleted *)
(* by hand, for one to be created.  ClusterController has what happens     *)
(* when a job still works then.                                            *)
Recreate(c) ==
    /\ job[c].pc = "none"
    /\ EarlyRecreates \/ cleanups[c] = 0
    /\ \E adopted \in BOOLEAN : lock' = [lock EXCEPT ![c] = IF adopted THEN "free" ELSE "new"]
    /\ UNCHANGED <<spec, job, process, counters>>

-----------------------------------------------------------------------------
JobStep(c) ==
    \/ checkWriteDockerConfigFile(c) \/ writeKopsYamlFile(c)
    \/ \E part \in Part : enter(c, part)
    \/ \E key \in Keypair \cup Secret : createKey(c, key)
    \/ kopsUpdateCluster(c) \/ rollingUpdateCluster(c)
    \/ updateCluster(c) \/ CommandFails(c)
    \/ unlockCluster(c) \/ checkDeleteDockerConfigFile(c)

Next ==
    \/ \E c \in Cluster : \/ Create(c) \/ Update(c)
                          \/ JobStep(c)
                          \/ Edit(c) \/ Recover(c) \/ Recreate(c)
    \/ Crash

Spec == Init /\ [][Next]_vars

-----------------------------------------------------------------------------
(* Properties.                                                             *)

(* No two names become the same when dots are replaced by dashes. *)
DistinctNames == TwinClusters = {} /\ TwinGroups = {}

(* A command reads what its own job has written, from the spec the job was *)
(* started with: no file of another cluster, of a creation, of an earlier  *)
(* update or of an instance group with a similar name.                     *)
ReadsOwnFiles ==
    \A c \in Cluster : job[c].pc = "yaml" =>
       \A part \in job[c].todo \cap Part :
          files[fileName(c, part, job[c].kind)] = buildKopsYamlStructs(c, part, job[c].value)

(* A creation that is about to report that it is complete has entered all  *)
(* of its spec, and the nodes were launched with all of it, the keypairs   *)
(* and secrets that are added after the cluster was built too.             *)
CreatedCompletely ==
    \A c \in Cluster : job[c].kind = "create" /\ job[c].pc = "unlock" =>
       job[c].store = Entry /\ job[c].nodes = Entry

(* A creation has its docker config for as long as it runs kops, although  *)
(* a job of an earlier CR of the same name removes the file after its      *)
(* unlock, as long as the CR was created again only after that.  (Of an    *)
(* update this is not true: the job before it may remove its file.)        *)
CreationHasDockerConfig ==
    \A c \in Cluster \ Dockerless :
       job[c].kind = "create" /\ job[c].pc \notin {"none", "docker"} => docker[Dashed(c)]

(* Each cluster has a lock as KopsLock has it, although a crash ends the   *)
(* jobs of all clusters at once: its one place for a job is never taken    *)
(* twice, and neither a failure, a manual repair nor a new CR frees the    *)
(* lock of a job that works.                                               *)
Lock(c) == INSTANCE KopsLock WITH
              Job  <- {c},
              lock <- IF lock[c] = "locked" THEN "held" ELSE "free",
              busy <- IF job[c].pc \in {"none", "unlock"} THEN {} ELSE {c}

ImplementsKopsLock ==
    /\ \A c \in Cluster : Lock(c)!Init
    /\ [][\A c \in Cluster : [Lock(c)!Next]_(Lock(c)!vars)]_vars
=============================================================================
