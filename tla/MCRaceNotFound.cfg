SPECIFICATION Spec

CONSTANTS
    j1 = j1
    j2 = j2
    Job = {j1, j2}
    StaleReads = FALSE
    NotFoundErrors = TRUE
    APIErrors = FALSE
    EarlyRecreates = FALSE
    MaxUid = 1
    MaxEdits = 0
    MaxCrashes = 0

SYMMETRY JobSymmetry

INVARIANTS
    OneKopsAtATime

CHECK_DEADLOCK FALSE
