SPECIFICATION Spec

CONSTANTS
    control = control
    workers = workers
    dockerconfig = dockerconfig
    Group = {control, workers}
    ControlPlane = {control}
    Secret = {dockerconfig}
    MaxEdits = 2
    MaxDrifts = 0
    MaxFaults = 1

INVARIANTS
    TypeOK
    PendingDeltasApply
    CompleteIsApplied

PROPERTIES
    DeltasShrink
    JobsAreNeeded
    ImplementsKopsLock
