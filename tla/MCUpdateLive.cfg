SPECIFICATION FairSpec

CONSTANTS
    control = control
    dockerconfig = dockerconfig
    Group = {control}
    ControlPlane = {control}
    Secret = {dockerconfig}
    MaxEdits = 1
    MaxDrifts = 1
    MaxFaults = 0

PROPERTIES
    Converges
