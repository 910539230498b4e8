SPECIFICATION Spec

CONSTANTS
    control = control
    workers = workers
    dockerconfig = dockerconfig
    Group = {control, workers}
    ControlPlane = {control}
    Secret = {dockerconfig}
    MaxEdits = 0
    MaxDrifts = 0
    MaxFaults = 0

INVARIANTS
    UpToDateMeansApplied
