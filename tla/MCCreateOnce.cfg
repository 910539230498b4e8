SPECIFICATION Spec

CONSTANTS
    j1 = j1
    j2 = j2
    Job = {j1, j2}
    StaleReads = TRUE
    NotFoundErrors = TRUE
    APIErrors = TRUE
    EarlyRecreates = TRUE
    MaxUid = 2
    MaxEdits = 1
    MaxCrashes = 1

SYMMETRY JobSymmetry

INVARIANTS
    TypeOK
    CreateOnce
    CreationIsMarked
    CompleteImpliesBuilt

PROPERTIES
    AnnotationsKept

CHECK_DEADLOCK FALSE
