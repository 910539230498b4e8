SPECIFICATION FairSpec

CONSTANTS
    j1 = j1
    j2 = j2
    Job = {j1, j2}
    StaleReads = FALSE
    NotFoundErrors = FALSE
    APIErrors = FALSE
    EarlyRecreates = FALSE
    MaxUid = 2
    MaxEdits = 0
    MaxCrashes = 0

PROPERTIES
    RecreatingRetries

CHECK_DEADLOCK FALSE
