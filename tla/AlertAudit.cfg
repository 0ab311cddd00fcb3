SPECIFICATION AuditSpec
CONSTANTS
    k1 = k1
    k2 = k2
    s1 = s1
    Keys <- KeysDef
    Sessions <- SessionsDef
    NoSession = NoSession
    StartedAt <- StartedAtDef
    MinimumConsecutive = 2
    MinimumPersistence = 1
    ResolutionConsecutive = 2
    Cooldown = 3
    CriticalAfter = 2
    MaxTime = 5
    MaxStreak = 3
    MaxObservations = 6
SYMMETRY KeySymmetry
INVARIANTS
    TypeOK
    RaisedExactlyWhenDue
    ResolvedExactlyWhenRecovered
    CriticalExactlyWhenOld
PROPERTIES
    ImplementsLifecycle
