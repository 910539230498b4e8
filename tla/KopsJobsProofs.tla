---------------------------- MODULE KopsJobsProofs ----------------------------
(***************************************************************************)
(* The theorems about KopsJobs, for any number of clusters, groups, keys,  *)
(* edits, jobs and crashes.  The two about files need that no two names    *)
(* become the same when their dots are replaced by dashes, and the one     *)
(* about the docker config that CRs are not created again too early.       *)
(***************************************************************************)
EXTENDS KopsJobs, TLAPS

USE DEF Suffix, Phase

-----------------------------------------------------------------------------
(* Names.                                                                  *)

(* Distinct clusters, parts and jobs have distinct files. *)
LEMMA FileNamesDiffer ==
    ASSUME DistinctNames,
           NEW c, NEW d, NEW p, NEW q, NEW s, NEW t, fileName(c, p, s) = fileName(d, q, t)
    PROVE  c = d /\ p = q /\ s = t
BY DEF DistinctNames, fileName, Dashed

(* And distinct docker configs. *)
LEMMA DirectoriesDiffer ==
    ASSUME DistinctNames, NEW c, NEW d, Dashed(c) = Dashed(d)
    PROVE  c = d
BY DEF DistinctNames, Dashed

LEMMA FileNameInPath ==
    ASSUME NEW c \in Cluster, NEW p \in Part, NEW s \in Suffix
    PROVE  fileName(c, p, s) \in Path
BY DEF Path

-----------------------------------------------------------------------------
(* What writeKopsYamlFile leaves under a name.                             *)

LEMMA WrittenType ==
    ASSUME TypeOK, NEW c \in Cluster, NEW parts \in SUBSET Part
    PROVE  Written(c, parts) \in [Path -> Content \cup {NoFile}]
<1>1. SUFFICES ASSUME NEW p \in Path
               PROVE  Written(c, parts)[p] \in Content \cup {NoFile}
  BY DEF Written
<1> DEFINE x == CHOOSE y \in parts : p = fileName(c, y, job[c].kind)
<1>2. job[c].value \in 0..MaxEdits /\ files[p] \in Content \cup {NoFile}
  BY DEF TypeOK, Job
<1>3. CASE \E part \in parts : p = fileName(c, part, job[c].kind)
  <2>1. x \in parts
    BY <1>3
  <2>2. Written(c, parts)[p] = buildKopsYamlStructs(c, x, job[c].value)
    BY <1>3 DEF Written
  <2> HIDE DEF x
  <2> QED
    BY <2>1, <2>2, <1>2 DEF buildKopsYamlStructs, Content
<1>4. CASE ~ \E part \in parts : p = fileName(c, part, job[c].kind)
  BY <1>2, <1>4 DEF Written
<1> QED
  BY <1>3, <1>4

(* Every file that is written holds what its name says ... *)
LEMMA WrittenOwn ==
    ASSUME TypeOK, DistinctNames, NEW c \in Cluster, NEW parts \in SUBSET Part, NEW part \in parts
    PROVE  Written(c, parts)[fileName(c, part, job[c].kind)]
             = buildKopsYamlStructs(c, part, job[c].value)
<1> DEFINE p == fileName(c, part, job[c].kind)
           x == CHOOSE y \in parts : p = fileName(c, y, job[c].kind)
<1>1. p \in Path
  BY FileNameInPath DEF TypeOK, Job
<1>2. x \in parts /\ p = fileName(c, x, job[c].kind)
  OBVIOUS
<1>3. x = part
  BY <1>2, FileNamesDiffer
<1> QED
  BY <1>1, <1>2, <1>3 DEF Written

(* ... and the files of other clusters are left alone. *)
LEMMA WrittenOther ==
    ASSUME TypeOK, DistinctNames, NEW c \in Cluster, NEW parts \in SUBSET Part,
           NEW d \in Cluster, d # c, NEW part \in Part, NEW suffix \in Suffix
    PROVE  Written(c, parts)[fileName(d, part, suffix)] = files[fileName(d, part, suffix)]
BY FileNameInPath, FileNamesDiffer DEF Written

-----------------------------------------------------------------------------
(* Type correctness.                                                       *)

LEMMA NewJobType ==
    ASSUME NEW kind \in {"create", "update"}, NEW pc \in Phase \cup {"none"},
           NEW value \in 0..MaxEdits, NEW todo \in SUBSET Entry
    PROVE  NewJob(kind, pc, value, todo) \in Job
BY DEF NewJob, Job

LEMMA NoJobType == NoJob \in Job
BY BoundAssumption, NewJobType DEF NoJob

LEMMA NewProcessType ==
    /\ NewProcess.files \in [Path -> Content \cup {NoFile}]
    /\ NewProcess.docker \in [{Dashed(c) : c \in Cluster} -> BOOLEAN]
BY DEF NewProcess

LEMMA FailType ==
    ASSUME TypeOK, NEW c \in Cluster, Fail(c)
    PROVE  job' \in [Cluster -> Job]
<1>1. job[c] \in Job /\ job[c].value \in 0..MaxEdits
  BY DEF TypeOK, Job
<1>2. NewJob("update", "unlock", job[c].value, {}) \in Job
  BY <1>1, NewJobType
<1> QED
  BY <1>2, NoJobType DEF Fail, TypeOK

LEMMA GotoType ==
    ASSUME TypeOK, NEW c \in Cluster, NEW phase \in Phase
    PROVE  [job EXCEPT ![c].pc = phase] \in [Cluster -> Job]
<1>1. job[c] \in Job /\ job \in [Cluster -> Job]
  BY DEF TypeOK
<1>2. [job[c] EXCEPT !.pc = phase] \in Job
  BY <1>1 DEF Job
<1> QED
  BY <1>1, <1>2

(* An entry moves from what is to be done to what was done. *)
LEMMA EnteredType ==
    ASSUME TypeOK, NEW c \in Cluster, NEW entry \in Entry
    PROVE  [job EXCEPT ![c].todo = @ \ {entry}, ![c].store = @ \cup {entry}]
             \in [Cluster -> Job]
<1>1. job[c] \in Job /\ job \in [Cluster -> Job]
  BY DEF TypeOK
<1>2. [job[c] EXCEPT !.todo = @ \ {entry}, !.store = @ \cup {entry}] \in Job
  BY <1>1 DEF Job
<1> QED
  BY <1>1, <1>2

(* A step of a job keeps the types. *)
LEMMA JobStepType ==
    ASSUME TypeOK, NEW c \in Cluster, JobStep(c)
    PROVE  TypeOK'
<1> USE DEF process, counters
<1>t. job[c] \in Job /\ job[c].value \in 0..MaxEdits
  BY DEF TypeOK, Job
<1>1. CASE checkWriteDockerConfigFile(c)
  <2>1. job' \in [Cluster -> Job]
    <3>1. [job EXCEPT ![c].pc = "files"] \in [Cluster -> Job]
      BY GotoType
    <3>2. job' = [job EXCEPT ![c].pc = "files"] \/ Fail(c)
      BY <1>1 DEF checkWriteDockerConfigFile
    <3> QED
      BY <3>1, <3>2, FailType
  <2>2. docker' \in [{Dashed(d) : d \in Cluster} -> BOOLEAN]
    <3>1. NothingWritten(c) \/ docker' = [docker EXCEPT ![Dashed(c)] = TRUE]
      BY <1>1 DEF checkWriteDockerConfigFile
    <3> QED
      BY <3>1 DEF NothingWritten, TypeOK
  <2> QED
    BY <1>1, <2>1, <2>2 DEF checkWriteDockerConfigFile, TypeOK
<1>2. CASE writeKopsYamlFile(c)
  <2>1. job' \in [Cluster -> Job]
    <3>1. [job EXCEPT ![c].pc = "yaml"] \in [Cluster -> Job]
      BY GotoType
    <3>2. job' = [job EXCEPT ![c].pc = "yaml"] \/ Fail(c)
      BY <1>2 DEF writeKopsYamlFile
    <3> QED
      BY <3>1, <3>2, FailType
  <2>2. PICK parts \in SUBSET Part : files' = Written(c, parts)
    BY <1>2 DEF writeKopsYamlFile, Part
  <2>3. files' \in [Path -> Content \cup {NoFile}]
    BY <2>2, WrittenType
  <2> QED
    BY <1>2, <2>1, <2>3 DEF writeKopsYamlFile, TypeOK
<1>3. CASE \E part \in Part : enter(c, part)
  <2>1. PICK part \in Part : enter(c, part)
    BY <1>3
  <2>2. job' \in [Cluster -> Job]
    BY <2>1, EnteredType DEF enter, Entry
  <2> QED
    BY <2>1, <2>2 DEF enter, TypeOK
<1>4. CASE \E key \in Keypair \cup Secret : createKey(c, key)
  <2>1. PICK key \in Keypair \cup Secret : createKey(c, key)
    BY <1>4
  <2>2. job' \in [Cluster -> Job]
    BY <2>1, EnteredType DEF createKey, Entry
  <2> QED
    BY <2>1, <2>2 DEF createKey, TypeOK
<1>5. CASE kopsUpdateCluster(c)
  BY <1>5, <1>t DEF kopsUpdateCluster, TypeOK, Job
<1>6. CASE rollingUpdateCluster(c)
  BY <1>6, <1>t DEF rollingUpdateCluster, TypeOK, Job
<1>7. CASE updateCluster(c)
  BY <1>7, <1>t, NewJobType DEF updateCluster, TypeOK
<1>8. CASE CommandFails(c)
  BY <1>8, FailType DEF CommandFails, TypeOK
<1>9. CASE unlockCluster(c)
  <2>1. job' \in [Cluster -> Job] /\ lock' \in [Cluster -> {"new", "locked", "free"}]
    BY <1>9, NoJobType DEF unlockCluster, TypeOK
  <2>2. cleanups' \in [Cluster -> 0..MaxCleanups]
    BY <1>9, BoundAssumption DEF unlockCluster, TypeOK
  <2> QED
    BY <1>9, <2>1, <2>2 DEF unlockCluster, TypeOK
<1>10. CASE checkDeleteDockerConfigFile(c)
  BY <1>10, BoundAssumption DEF checkDeleteDockerConfigFile, TypeOK
<1> QED
  BY <1>1, <1>2, <1>3, <1>4, <1>5, <1>6, <1>7, <1>8, <1>9, <1>10 DEF JobStep

LEMMA TypeStep == TypeOK /\ [Next]_vars => TypeOK'
<1> SUFFICES ASSUME TypeOK, [Next]_vars
             PROVE  TypeOK'
  OBVIOUS
<1> USE DEF process, counters
<1>1. ASSUME NEW c \in Cluster, Recreate(c)
      PROVE  TypeOK'
  BY <1>1 DEF Recreate, TypeOK
<1>2. ASSUME NEW c \in Cluster, Create(c) \/ Update(c)
      PROVE  TypeOK'
  <2>1. PICK kind \in {"create", "update"}, todo \in SUBSET Entry :
           Start(c, NewJob(kind, "docker", spec[c], todo))
    BY <1>2 DEF Create, Update, Entry
  <2>2. NewJob(kind, "docker", spec[c], todo) \in Job
    BY NewJobType DEF TypeOK
  <2> QED
    BY <2>1, <2>2, BoundAssumption DEF Start, TypeOK
<1>3. ASSUME NEW c \in Cluster, JobStep(c)
      PROVE  TypeOK'
  BY <1>3, JobStepType
<1>4. ASSUME NEW c \in Cluster, Edit(c)
      PROVE  TypeOK'
  BY <1>4, BoundAssumption DEF Edit, TypeOK
<1>5. ASSUME NEW c \in Cluster, Recover(c)
      PROVE  TypeOK'
  BY <1>5 DEF Recover, TypeOK
<1>6. CASE Crash
  BY <1>6, BoundAssumption, NoJobType, NewProcessType DEF Crash, TypeOK
<1>7. CASE UNCHANGED vars
  BY <1>7 DEF vars, TypeOK
<1> QED
  BY <1>1, <1>2, <1>3, <1>4, <1>5, <1>6, <1>7 DEF Next

LEMMA TypeInit == Init => TypeOK
BY BoundAssumption, NoJobType, NewProcessType DEF Init, TypeOK

(* Every reachable state has the types of the declarations: the jobs of a  *)
(* cluster stay in their phases, and no cleanup is run twice.              *)
THEOREM TypeCorrect == Spec => []TypeOK
BY TypeInit, TypeStep, PTL DEF Spec

-----------------------------------------------------------------------------
(* The steps of a job touch no other job.                                  *)

LEMMA OthersKeepTheirJobs ==
    ASSUME TypeOK, NEW c \in Cluster, JobStep(c), NEW d \in Cluster, d # c
    PROVE  job'[d] = job[d]
BY DEF JobStep, checkWriteDockerConfigFile, writeKopsYamlFile, enter, createKey,
       kopsUpdateCluster, rollingUpdateCluster, updateCluster, CommandFails, unlockCluster,
       checkDeleteDockerConfigFile, Fail, TypeOK, process

-----------------------------------------------------------------------------
(* What a creation enters.                                                 *)

Complete(j) ==
    j.kind = "create" =>
       /\ j.pc \in {"docker", "files"} => j.todo = Entry
       /\ j.pc \in {"yaml", "keys"} => j.todo \cup j.store = Entry
       /\ j.pc = "roll" => j.cloud = Entry /\ j.store = Entry
       /\ j.pc = "unlock" => j.store = Entry /\ j.nodes = Entry

(* Nothing of a creation is lost between its phases. *)
CreationInv == \A c \in Cluster : Complete(job[c])

LEMMA NoJobComplete ==
    /\ Complete(NoJob)
    /\ \A v, todo : Complete(NewJob("update", "unlock", v, todo))
    /\ \A v, todo : Complete(NewJob("update", "docker", v, todo))
    /\ \A v : Complete(NewJob("create", "docker", v, Entry))
BY DEF NoJob, NewJob, Complete

LEMMA FailComplete ==
    ASSUME TypeOK, NEW c \in Cluster, Fail(c)
    PROVE  Complete(job'[c])
BY NoJobComplete DEF Fail, TypeOK

LEMMA JobStepComplete ==
    ASSUME TypeOK, NEW c \in Cluster, Complete(job[c]), JobStep(c)
    PROVE  Complete(job'[c])
<1> USE DEF process
<1>t. job[c] \in Job /\ job \in [Cluster -> Job]
  BY DEF TypeOK
<1>1. CASE checkWriteDockerConfigFile(c)
  BY <1>1, <1>t, FailComplete DEF checkWriteDockerConfigFile, Complete, Job
<1>2. CASE writeKopsYamlFile(c)
  <2>1. CASE Fail(c)
    BY <2>1, FailComplete
  <2>2. CASE job' = [job EXCEPT ![c].pc = "yaml"]
    <3>1. job[c].pc = "files" /\ job'[c] = [job[c] EXCEPT !.pc = "yaml"]
      BY <1>2, <2>2, <1>t DEF writeKopsYamlFile
    <3> QED
      BY <3>1, <1>t DEF Complete, Job
  <2> QED
    BY <1>2, <2>1, <2>2 DEF writeKopsYamlFile
<1>3. CASE \E part \in Part : enter(c, part)
  BY <1>3, <1>t DEF enter, Complete, Job
<1>4. CASE \E key \in Keypair \cup Secret : createKey(c, key)
  BY <1>4, <1>t DEF createKey, Complete, Job
<1>5. CASE kopsUpdateCluster(c)
  BY <1>5, <1>t DEF kopsUpdateCluster, Complete, Job
<1>6. CASE rollingUpdateCluster(c)
  BY <1>6, <1>t DEF rollingUpdateCluster, Complete, Job
<1>7. CASE updateCluster(c)
  BY <1>7, <1>t, NoJobComplete DEF updateCluster
<1>8. CASE CommandFails(c)
  BY <1>8, FailComplete DEF CommandFails
<1>9. CASE unlockCluster(c)
  BY <1>9, <1>t, NoJobComplete DEF unlockCluster
<1>10. CASE checkDeleteDockerConfigFile(c)
  BY <1>10 DEF checkDeleteDockerConfigFile
<1> QED
  BY <1>1, <1>2, <1>3, <1>4, <1>5, <1>6, <1>7, <1>8, <1>9, <1>10 DEF JobStep

LEMMA CreationStep == TypeOK /\ CreationInv /\ [Next]_vars => CreationInv'
<1> SUFFICES ASSUME TypeOK, CreationInv, [Next]_vars, NEW d \in Cluster
             PROVE  Complete(job'[d])
  BY DEF CreationInv, Complete
<1> USE DEF process, counters
<1>t. Complete(job[d]) /\ job \in [Cluster -> Job]
  BY DEF CreationInv, TypeOK
<1>1. ASSUME NEW c \in Cluster, Edit(c) \/ Recover(c) \/ Recreate(c)
      PROVE  Complete(job'[d])
  BY <1>1, <1>t DEF Edit, Recover, Recreate
<1>2. ASSUME NEW c \in Cluster, Create(c) \/ Update(c)
      PROVE  Complete(job'[d])
  BY <1>2, <1>t, NoJobComplete DEF Create, Update, Start
<1>3. ASSUME NEW c \in Cluster, JobStep(c)
      PROVE  Complete(job'[d])
  BY <1>3, <1>t, JobStepComplete, OthersKeepTheirJobs
<1>4. CASE Crash
  BY <1>4, NoJobComplete DEF Crash
<1>5. CASE UNCHANGED vars
  BY <1>5, <1>t DEF vars
<1> QED
  BY <1>1, <1>2, <1>3, <1>4, <1>5 DEF Next

(* A creation that reports that it is complete has entered its whole spec, *)
(* and the nodes have all of it: the keypairs and secrets that are added   *)
(* only after the cluster was built reach them by the second kops update   *)
(* and the forced roll.                                                    *)
THEOREM CreationsAreComplete == Spec => []CreatedCompletely
<1>1. Init => CreationInv
  BY NoJobComplete DEF Init, CreationInv
<1>2. CreationInv => CreatedCompletely
  BY DEF CreationInv, Complete, CreatedCompletely
<1> QED
  BY <1>1, <1>2, CreationStep, TypeCorrect, PTL DEF Spec

-----------------------------------------------------------------------------
(* Files.                                                                  *)

(* The files of a job that is reading them are as it has written them. *)
OwnFiles(c) ==
    job[c].pc = "yaml" =>
       \A part \in job[c].todo \cap Part :
          files[fileName(c, part, job[c].kind)] = buildKopsYamlStructs(c, part, job[c].value)

LEMMA WriteOwnFiles ==
    ASSUME TypeOK, DistinctNames, NEW c \in Cluster, writeKopsYamlFile(c),
           NEW d \in Cluster, OwnFiles(d)
    PROVE  OwnFiles(d)'
<1>t. job[c] \in Job /\ job[d] \in Job /\ job \in [Cluster -> Job]
  BY DEF TypeOK
<1>1. PICK parts \in SUBSET Part :
         files' = Written(c, parts) /\ (Fail(c) \/ (parts = Part /\ job' = [job EXCEPT ![c].pc = "yaml"]))
  BY DEF writeKopsYamlFile, Part
<1>2. CASE d # c
  <2>1. job'[d] = job[d]
    BY <1>2, OthersKeepTheirJobs DEF JobStep
  <2>2. ASSUME NEW part \in Part
        PROVE  files'[fileName(d, part, job[d].kind)] = files[fileName(d, part, job[d].kind)]
    BY <1>1, <1>2, <1>t, WrittenOther DEF Job
  <2> QED
    BY <2>1, <2>2 DEF OwnFiles
<1>3. CASE d = c /\ Fail(c)
  BY <1>3, <1>t DEF Fail, OwnFiles, NewJob, NoJob
<1>4. CASE d = c /\ parts = Part /\ job' = [job EXCEPT ![c].pc = "yaml"]
  <2>1. job'[c].kind = job[c].kind /\ job'[c].value = job[c].value
    BY <1>4, <1>t DEF Job
  <2>2. \A part \in Part : Written(c, parts)[fileName(c, part, job[c].kind)]
                             = buildKopsYamlStructs(c, part, job[c].value)
    BY <1>4, WrittenOwn
  <2> QED
    BY <1>1, <1>4, <2>1, <2>2 DEF OwnFiles
<1> QED
  BY <1>1, <1>2, <1>3, <1>4

(* The other steps write no file; what is to be read only shrinks. *)
LEMMA ReadOwnFiles ==
    ASSUME TypeOK, NEW c \in Cluster, JobStep(c), ~writeKopsYamlFile(c),
           NEW d \in Cluster, OwnFiles(d)
    PROVE  OwnFiles(d)'
<1>t. job[c] \in Job /\ job \in [Cluster -> Job]
  BY DEF TypeOK
<1>1. UNCHANGED files
  BY DEF JobStep, checkWriteDockerConfigFile, enter, createKey, kopsUpdateCluster,
         rollingUpdateCluster, updateCluster, CommandFails, unlockCluster,
         checkDeleteDockerConfigFile, process
<1>2. CASE d # c
  BY <1>1, <1>2, OthersKeepTheirJobs DEF OwnFiles
<1>3. CASE d = c
  <2>1. \/ job'[c].pc # "yaml"
        \/ /\ job'[c].pc = job[c].pc /\ job'[c].kind = job[c].kind
           /\ job'[c].value = job[c].value /\ job'[c].todo \subseteq job[c].todo
    <3> USE DEF process
    <3>1. CASE \E part \in Part : enter(c, part)
      BY <3>1, <1>t DEF enter, Job
    <3>2. CASE checkDeleteDockerConfigFile(c)
      BY <3>2 DEF checkDeleteDockerConfigFile
    <3>3. CASE checkWriteDockerConfigFile(c)
      <4>1. CASE job' = [job EXCEPT ![c].pc = "files"]
        BY <4>1, <1>t DEF Job
      <4>2. CASE Fail(c)
        BY <4>2, <1>t DEF Fail, NoJob, NewJob
      <4> QED
        BY <3>3, <4>1, <4>2 DEF checkWriteDockerConfigFile
    <3>4. CASE \E key \in Keypair \cup Secret : createKey(c, key)
      BY <3>4, <1>t DEF createKey, Job
    <3>5. CASE kopsUpdateCluster(c)
      BY <3>5, <1>t DEF kopsUpdateCluster, Job
    <3>6. CASE rollingUpdateCluster(c)
      BY <3>6, <1>t DEF rollingUpdateCluster, Job
    <3>7. CASE updateCluster(c) \/ CommandFails(c) \/ unlockCluster(c)
      BY <3>7, <1>t DEF updateCluster, CommandFails, unlockCluster, Fail, NoJob, NewJob
    <3> QED
      BY <3>1, <3>2, <3>3, <3>4, <3>5, <3>6, <3>7 DEF JobStep
  <2> QED
    BY <1>1, <1>3, <2>1 DEF OwnFiles
<1> QED
  BY <1>2, <1>3

LEMMA FilesStep ==
    ASSUME DistinctNames
    PROVE  TypeOK /\ ReadsOwnFiles /\ [Next]_vars => ReadsOwnFiles'
<1> SUFFICES ASSUME TypeOK, ReadsOwnFiles, [Next]_vars, NEW d \in Cluster
             PROVE  OwnFiles(d)'
  BY DEF ReadsOwnFiles, OwnFiles
<1> USE DEF process, counters
<1>t. OwnFiles(d) /\ job \in [Cluster -> Job]
  BY DEF ReadsOwnFiles, OwnFiles, TypeOK
<1>1. ASSUME NEW c \in Cluster, Edit(c) \/ Recover(c) \/ Recreate(c)
      PROVE  OwnFiles(d)'
  BY <1>1, <1>t DEF Edit, Recover, Recreate, OwnFiles
<1>2. ASSUME NEW c \in Cluster, Create(c) \/ Update(c)
      PROVE  OwnFiles(d)'
  BY <1>2, <1>t DEF Create, Update, Start, NewJob, OwnFiles
<1>3. ASSUME NEW c \in Cluster, JobStep(c)
      PROVE  OwnFiles(d)'
  BY <1>3, <1>t, WriteOwnFiles, ReadOwnFiles
<1>4. CASE Crash
  BY <1>4 DEF Crash, NoJob, NewJob, OwnFiles
<1>5. CASE UNCHANGED vars
  BY <1>5, <1>t DEF vars, OwnFiles
<1> QED
  BY <1>1, <1>2, <1>3, <1>4, <1>5 DEF Next

(* Jobs of different clusters, and a creation and an update of the same    *)
(* cluster, share /tmp without reading each other's yaml, provided that no *)
(* two names become the same when their dots are replaced by dashes.       *)
THEOREM JobsReadOwnFiles ==
    ASSUME DistinctNames
    PROVE  Spec => []ReadsOwnFiles
<1>1. Init => ReadsOwnFiles
  BY DEF Init, ReadsOwnFiles, NoJob, NewJob
<1> QED
  BY <1>1, FilesStep, TypeCorrect, PTL DEF Spec

-----------------------------------------------------------------------------
(* The docker config.                                                      *)

(* The jobs of an earlier CR have cleaned up before the creation starts,   *)
(* and it is the first of its own: no other can be about to remove the     *)
(* file.                                                                   *)
Docker(c) ==
    /\ lock[c] = "new" \/ (job[c].kind = "create" /\ job[c].pc # "none") => cleanups[c] = 0
    /\ lock[c] = "new" => job[c].pc = "none"
    /\ c \notin Dockerless /\ job[c].kind = "create" /\ job[c].pc \notin {"none", "docker"}
       => docker[Dashed(c)]

DockerInv == \A c \in Cluster : Docker(c)

(* A step to the next phase, or the end of the job, with the file in place.*)
LEMMA DockerKept ==
    ASSUME TypeOK, NEW c \in Cluster, Docker(c), job[c].pc # "none",
           UNCHANGED <<lock, cleanups>>,
           \/ Fail(c)
           \/ /\ \E phase \in Phase : job' = [job EXCEPT ![c].pc = phase]
              /\ c \notin Dockerless /\ job[c].kind = "create" => docker'[Dashed(c)]
    PROVE  Docker(c)'
<1>t. job[c] \in Job /\ job \in [Cluster -> Job]
  BY DEF TypeOK
<1>1. CASE Fail(c)
  BY <1>1, <1>t DEF Fail, NoJob, NewJob, Docker
<1>2. CASE /\ \E phase \in Phase : job' = [job EXCEPT ![c].pc = phase]
           /\ c \notin Dockerless /\ job[c].kind = "create" => docker'[Dashed(c)]
  <2>1. job'[c].kind = job[c].kind
    BY <1>2, <1>t DEF Job
  <2> QED
    BY <1>2, <2>1 DEF Docker
<1> QED
  BY <1>1, <1>2

LEMMA DockerJobStep ==
    ASSUME TypeOK, DistinctNames, NEW c \in Cluster, JobStep(c),
           NEW d \in Cluster, Docker(d)
    PROVE  Docker(d)'
<1> USE DEF process
<1>t. /\ job[c] \in Job /\ job \in [Cluster -> Job]
      /\ lock \in [Cluster -> {"new", "locked", "free"}]
      /\ cleanups \in [Cluster -> 0..MaxCleanups]
      /\ docker \in [{Dashed(x) : x \in Cluster} -> BOOLEAN]
      /\ Dashed(c) \in {Dashed(x) : x \in Cluster} /\ Dashed(d) \in {Dashed(x) : x \in Cluster}
  BY DEF TypeOK
<1>1. CASE d # c
  <2>1. job'[d] = job[d]
    BY <1>1, OthersKeepTheirJobs
  <2>2. lock'[d] = lock[d] /\ cleanups'[d] = cleanups[d]
    BY <1>1, <1>t DEF JobStep, checkWriteDockerConfigFile, writeKopsYamlFile, enter, createKey,
       kopsUpdateCluster, rollingUpdateCluster, updateCluster, CommandFails, unlockCluster,
       checkDeleteDockerConfigFile
  <2>3. docker'[Dashed(d)] = docker[Dashed(d)]
    BY <1>1, <1>t, DirectoriesDiffer DEF JobStep, checkWriteDockerConfigFile, writeKopsYamlFile,
       NothingWritten, enter, createKey, kopsUpdateCluster, rollingUpdateCluster, updateCluster,
       CommandFails, unlockCluster, checkDeleteDockerConfigFile
  <2> QED
    BY <2>1, <2>2, <2>3 DEF Docker
<1>2. CASE d = c
  <2>1. CASE checkWriteDockerConfigFile(c)
    <3>1. c \notin Dockerless /\ job[c].kind = "create" /\ ~Fail(c) => docker'[Dashed(c)]
      BY <2>1, <1>t DEF checkWriteDockerConfigFile
    <3> QED
      BY <2>1, <1>2, <3>1, DockerKept DEF checkWriteDockerConfigFile
  <2>2. CASE writeKopsYamlFile(c)
    BY <2>2, <1>2, DockerKept DEF writeKopsYamlFile, Docker
  <2>3. CASE \/ \E part \in Part : enter(c, part)
             \/ \E key \in Keypair \cup Secret : createKey(c, key)
             \/ kopsUpdateCluster(c) \/ rollingUpdateCluster(c)
    <3>1. job[c].pc \notin {"none", "docker"} /\ UNCHANGED <<lock, cleanups, docker>>
      BY <2>3 DEF enter, createKey, kopsUpdateCluster, rollingUpdateCluster
    <3>2. job'[c].kind = job[c].kind
      <4>1. CASE \E part \in Part : enter(c, part)
        BY <4>1, <1>t DEF enter, Job
      <4>2. CASE \E key \in Keypair \cup Secret : createKey(c, key)
        BY <4>2, <1>t DEF createKey, Job
      <4>3. CASE kopsUpdateCluster(c)
        BY <4>3, <1>t DEF kopsUpdateCluster, Job
      <4>4. CASE rollingUpdateCluster(c)
        BY <4>4, <1>t DEF rollingUpdateCluster, Job
      <4> QED
        BY <2>3, <4>1, <4>2, <4>3, <4>4
    <3> QED
      BY <1>2, <3>1, <3>2 DEF Docker
  <2>4. CASE updateCluster(c) \/ CommandFails(c)
    BY <2>4, <1>2, <1>t DEF updateCluster, CommandFails, Fail, NoJob, NewJob, Docker, Job
  <2>5. CASE unlockCluster(c)
    BY <2>5, <1>2, <1>t DEF unlockCluster, NoJob, NewJob, Docker
  <2>6. CASE checkDeleteDockerConfigFile(c)
    BY <2>6, <1>2, <1>t DEF checkDeleteDockerConfigFile, Docker
  <2> QED
    BY <2>1, <2>2, <2>3, <2>4, <2>5, <2>6 DEF JobStep
<1> QED
  BY <1>1, <1>2

LEMMA DockerStep ==
    ASSUME DistinctNames, ~EarlyRecreates
    PROVE  TypeOK /\ DockerInv /\ [Next]_vars => DockerInv'
<1> SUFFICES ASSUME TypeOK, DockerInv, [Next]_vars, NEW d \in Cluster
             PROVE  Docker(d)'
  BY DEF DockerInv
<1> USE DEF process, counters
<1>t. /\ Docker(d) /\ job \in [Cluster -> Job]
      /\ lock \in [Cluster -> {"new", "locked", "free"}]
  BY DEF DockerInv, TypeOK
<1>1. ASSUME NEW c \in Cluster, Edit(c) \/ Recreate(c)
      PROVE  Docker(d)'
  BY <1>1, <1>t DEF Edit, Recreate, Docker
<1>2. ASSUME NEW c \in Cluster, Create(c) \/ Update(c)
      PROVE  Docker(d)'
  BY <1>2, <1>t DEF Create, Update, Start, NewJob, Docker
<1>3. ASSUME NEW c \in Cluster, JobStep(c)
      PROVE  Docker(d)'
  BY <1>3, <1>t, DockerJobStep
<1>4. ASSUME NEW c \in Cluster, Recover(c)
      PROVE  Docker(d)'
  BY <1>4, <1>t DEF Recover, Docker
<1>5. CASE Crash
  BY <1>5 DEF Crash, NoJob, NewJob, Docker
<1>6. CASE UNCHANGED vars
  BY <1>6, <1>t DEF vars, Docker
<1> QED
  BY <1>1, <1>2, <1>3, <1>4, <1>5, <1>6 DEF Next

(* No job that has ended removes the docker config of a creation, although *)
(* jobs do so after their unlock and a CR may be deleted and created again *)
(* as often as its user likes, provided that it is not before that.        *)
THEOREM CreationsHaveDockerConfig ==
    ASSUME DistinctNames, ~EarlyRecreates
    PROVE  Spec => []CreationHasDockerConfig
<1>1. Init => DockerInv
  <2> SUFFICES ASSUME Init, NEW c \in Cluster
               PROVE  Docker(c)
    BY DEF DockerInv
  <2>1. lock[c] = "new" /\ cleanups[c] = 0 /\ job[c] = NoJob
    BY DEF Init
  <2> QED
    BY <2>1 DEF Docker, NoJob, NewJob
<1>2. DockerInv => CreationHasDockerConfig
  BY DEF DockerInv, Docker, CreationHasDockerConfig
<1> QED
  BY <1>1, <1>2, DockerStep, TypeCorrect, PTL DEF Spec

-----------------------------------------------------------------------------
(* The locks.                                                              *)

(* A job, from its start to its unlock, has the lock of its cluster: it is *)
(* what keeps a second one from starting.                                  *)
Locked(c) == job[c].pc # "none" => lock[c] = "locked"

LockedInv == \A c \in Cluster : Locked(c)

LockOf(c) == IF lock[c] = "locked" THEN "held" ELSE "free"
Busy(c)   == IF job[c].pc \in {"none", "unlock"} THEN {} ELSE {c}

(* The steps of KopsLock that occur, by the two mapped variables. *)
LockStep(c) ==
    \/ LockOf(c)' = LockOf(c) /\ Busy(c)' \in {Busy(c), {}}
    \/ LockOf(c) = "free" /\ Busy(c) = {} /\ LockOf(c)' = "held" /\ Busy(c)' = {c}
    \/ LockOf(c) = "held" /\ Busy(c) = {} /\ LockOf(c)' = "free" /\ Busy(c)' = {}

LEMMA LockStepIsNext ==
    ASSUME NEW c \in Cluster, LockStep(c)
    PROVE  [Lock(c)!Next]_(Lock(c)!vars)
<1>1. Busy(c) \in {{}, {c}}
  BY DEF Busy
<1> QED
  BY <1>1 DEF LockStep, LockOf, Busy, Lock!Next, Lock!vars, Lock!Acquire, Lock!Finish, Lock!Release

(* A step of a job leaves the locks of the others alone, and releases its  *)
(* own only as its last step.                                              *)
LEMMA JobStepLock ==
    ASSUME TypeOK, NEW c \in Cluster, JobStep(c), Locked(c)
    PROVE  Locked(c)' /\ LockStep(c)
<1> USE DEF process
<1>t. /\ job[c] \in Job /\ job \in [Cluster -> Job]
      /\ lock \in [Cluster -> {"new", "locked", "free"}]
  BY DEF TypeOK
<1>1. ASSUME UNCHANGED lock, job[c].pc \notin {"none", "unlock"},
             \/ Fail(c)
             \/ job' = [job EXCEPT ![c] = NewJob("update", "unlock", job[c].value, {})]
             \/ job'[c].pc \in Phase
      PROVE  Locked(c)' /\ LockStep(c)
  BY <1>1, <1>t DEF Fail, NoJob, NewJob, Locked, LockStep, LockOf, Busy
<1>2. CASE checkWriteDockerConfigFile(c)
  <2>1. Fail(c) \/ job'[c].pc \in Phase
    BY <1>2, <1>t DEF checkWriteDockerConfigFile, Job
  <2> QED
    BY <1>1, <1>2, <2>1 DEF checkWriteDockerConfigFile
<1>3. CASE writeKopsYamlFile(c)
  <2>1. Fail(c) \/ job'[c].pc \in Phase
    BY <1>3, <1>t DEF writeKopsYamlFile, Job
  <2> QED
    BY <1>1, <1>3, <2>1 DEF writeKopsYamlFile
<1>4. CASE \E part \in Part : enter(c, part)
  BY <1>1, <1>4, <1>t DEF enter, Job
<1>5. CASE \E key \in Keypair \cup Secret : createKey(c, key)
  BY <1>1, <1>5, <1>t DEF createKey, Job
<1>6. CASE kopsUpdateCluster(c)
  <2>1. job'[c].pc \in Phase
    BY <1>6, <1>t DEF kopsUpdateCluster, Job
  <2> QED
    BY <1>1, <1>6, <2>1 DEF kopsUpdateCluster
<1>7. CASE rollingUpdateCluster(c)
  <2>1. job'[c].pc \in Phase
    BY <1>7, <1>t DEF rollingUpdateCluster, Job
  <2> QED
    BY <1>1, <1>7, <2>1 DEF rollingUpdateCluster
<1>8. CASE updateCluster(c) \/ CommandFails(c)
  BY <1>1, <1>8 DEF updateCluster, CommandFails
<1>9. CASE unlockCluster(c)
  BY <1>9, <1>t DEF unlockCluster, NoJob, NewJob, Locked, LockStep, LockOf, Busy
<1>10. CASE checkDeleteDockerConfigFile(c)
  BY <1>10 DEF checkDeleteDockerConfigFile, Locked, LockStep, LockOf, Busy
<1> QED
  BY <1>2, <1>3, <1>4, <1>5, <1>6, <1>7, <1>8, <1>9, <1>10 DEF JobStep

LEMMA JobStepOtherLocks ==
    ASSUME TypeOK, NEW c \in Cluster, JobStep(c), NEW d \in Cluster, d # c
    PROVE  job'[d] = job[d] /\ lock'[d] = lock[d]
<1>1. job'[d] = job[d]
  BY OthersKeepTheirJobs
<1>2. lock'[d] = lock[d]
  BY DEF JobStep, checkWriteDockerConfigFile, writeKopsYamlFile, enter, createKey,
         kopsUpdateCluster, rollingUpdateCluster, updateCluster, CommandFails, unlockCluster,
         checkDeleteDockerConfigFile, TypeOK
<1> QED
  BY <1>1, <1>2

LEMMA LockedStep ==
    ASSUME TypeOK, LockedInv, [Next]_vars, NEW d \in Cluster
    PROVE  Locked(d)' /\ LockStep(d)
<1> USE DEF process, counters
<1>t. /\ Locked(d) /\ job \in [Cluster -> Job]
      /\ lock \in [Cluster -> {"new", "locked", "free"}]
  BY DEF LockedInv, TypeOK
<1>1. ASSUME job'[d] = job[d], lock'[d] = lock[d]
      PROVE  Locked(d)' /\ LockStep(d)
  BY <1>1, <1>t DEF Locked, LockStep, LockOf, Busy
<1>2. ASSUME NEW c \in Cluster, Edit(c)
      PROVE  Locked(d)' /\ LockStep(d)
  BY <1>1, <1>2 DEF Edit
<1>3. ASSUME NEW c \in Cluster, Create(c) \/ Update(c)
      PROVE  Locked(d)' /\ LockStep(d)
  <2>1. PICK kind, value, todo : Start(c, NewJob(kind, "docker", value, todo))
    BY <1>3 DEF Create, Update
  <2>2. lock[c] # "locked"
    BY <1>3 DEF Create, Update
  <2>3. CASE d = c
    BY <2>1, <2>2, <2>3, <1>t DEF Start, NewJob, Locked, LockStep, LockOf, Busy
  <2>4. CASE d # c
    BY <2>1, <2>4, <1>1, <1>t DEF Start
  <2> QED
    BY <2>3, <2>4
<1>4. ASSUME NEW c \in Cluster, JobStep(c)
      PROVE  Locked(d)' /\ LockStep(d)
  BY <1>1, <1>4, <1>t, JobStepLock, JobStepOtherLocks
<1>5. ASSUME NEW c \in Cluster, Recover(c) \/ Recreate(c)
      PROVE  Locked(d)' /\ LockStep(d)
  <2>1. CASE d = c
    BY <2>1, <1>5, <1>t DEF Recover, Recreate, Locked, LockStep, LockOf, Busy
  <2>2. CASE d # c
    BY <2>2, <1>1, <1>5, <1>t DEF Recover, Recreate
  <2> QED
    BY <2>1, <2>2
<1>6. CASE Crash
  BY <1>6 DEF Crash, NoJob, NewJob, Locked, LockStep, LockOf, Busy
<1>7. CASE UNCHANGED vars
  BY <1>1, <1>7 DEF vars
<1> QED
  BY <1>2, <1>3, <1>4, <1>5, <1>6, <1>7 DEF Next

(* Every cluster's lock is a KopsLock, for any number of clusters in the   *)
(* process: that one job per cluster is enough of a model is what the lock *)
(* provides, and the crash that ends them all is one step of each.         *)
THEOREM Implementation == Spec => ImplementsKopsLock
<1>1. Init => LockedInv /\ \A c \in Cluster : Lock(c)!Init
  BY DEF Init, LockedInv, Locked, NoJob, NewJob, Lock!Init
<1>2. TypeOK /\ LockedInv /\ [Next]_vars => LockedInv'
  <2> SUFFICES ASSUME TypeOK, LockedInv, [Next]_vars, NEW c \in Cluster
               PROVE  Locked(c)'
    BY DEF LockedInv
  <2> QED
    BY LockedStep
<1>3. TypeOK /\ LockedInv /\ [Next]_vars
      => [\A c \in Cluster : [Lock(c)!Next]_(Lock(c)!vars)]_vars
  <2> SUFFICES ASSUME TypeOK, LockedInv, [Next]_vars, NEW c \in Cluster
               PROVE  [Lock(c)!Next]_(Lock(c)!vars)
    OBVIOUS
  <2> QED
    BY LockedStep, LockStepIsNext
<1> QED
  BY <1>1, <1>2, <1>3, TypeCorrect, PTL DEF Spec, ImplementsKopsLock
=============================================================================
