SPECIFICATION Spec
CONSTANTS
    ppe = ppe
    posture = posture
    s1 = s1
    s2 = s2
    PpeKeys <- PpeKeysDef
    ErgonomicKeys <- ErgonomicKeysDef
    RiskAreaKeys = {}
    Sessions <- SessionsDef
    NoSession = NoSession
    MinimumConsecutive = 2
    MinimumPersistence = 0
    ResolutionConsecutive = 2
    LocalCooldown = 1
    CriticalAfter = 1
    SyncInterval = 1
    MaxTime = 1
    MaxStreak = 2
    MaxSignals = 2
INVARIANTS
    TypeOK
    LocalAlertsAreSignalled
    SnapshotIsCurrent
    EndedSessionsAreSafe
    EnginesFollowTheSession
    RestartIsPending
PROPERTIES
    RestartHappens
