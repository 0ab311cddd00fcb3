SPECIFICATION Spec
CONSTANTS
    MaxAttempts = 2
    LateArrivals = TRUE
    MaxSnapshots = 3
    MaxSessions = 2
INVARIANTS
    TypeOK
    RunningWorkerIsKnown
    NewestIsKept
    PendingIsPickedUp
PROPERTIES
    NewestIsTried
