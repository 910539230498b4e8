SPECIFICATION Spec

CONSTANTS
    c1 = c1
    c2 = c2
    workers = workers
    ca = ca
    dockerconfig = dockerconfig
    Cluster = {c1, c2}
    Group = {workers}
    Keypair = {ca}
    Secret = {dockerconfig}
    Dockerless = {c2}
    TwinClusters = {}
    TwinGroups = {}
    EarlyRecreates = FALSE
    MaxEdits = 1
    MaxJobs = 3
    MaxCleanups = 1
    MaxCrashes = 1

INVARIANTS
    TypeOK
    ReadsOwnFiles
    CreatedCompletely
    CreationHasDockerConfig

PROPERTIES
    ImplementsKopsLock
