SPECIFICATION Spec

CONSTANTS
    j1 = j1
    j2 = j2
    j3 = j3
    Job = {j1, j2, j3}
    StaleReads = FALSE
    NotFoundErrors = FALSE
    APIErrors = TRUE
    EarlyRecreates = FALSE
    MaxUid = 2
    MaxEdits = 2
    MaxCrashes = 1

SYMMETRY JobSymmetry

INVARIANTS
    OneKopsAtATime
    RunningJobHoldsLock

PROPERTIES
    ImplementsKopsLock

CHECK_DEADLOCK FALSE
