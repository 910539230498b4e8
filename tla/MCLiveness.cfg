SPECIFICATION FairSpec

CONSTANTS
    j1 = j1
    j2 = j2
    Job = {j1, j2}
    StaleReads = FALSE
    NotFoundErrors = FALSE
    APIErrors = FALSE
    EarlyRecreates = FALSE
    MaxUid = 1
    MaxEdits = 1
    MaxCrashes = 0

PROPERTIES
    UpdateLockReleased
    CreationConcludes

CHECK_DEADLOCK FALSE
