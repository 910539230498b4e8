SPECIFICATION FairSpec

CONSTANTS
    MaxFaults = 3

INVARIANTS
    TypeOK
    FailuresBlockUpdates
    UpdatesAreCalledFor

PROPERTIES
    ImplementsObservation
    Recovers
    NoticesFailures
