SPECIFICATION Spec
CONSTANTS
    ppe = ppe
    posture = posture
    s1 = s1
    s2 = s2
    PpeKeys <- PpeKeysDef
    ErgonomicKeys <- ErgonomicKeysDef
    RiskAreaKeys = {}
    Sessions <- SessionsDef
    NoSession = NoSession
    MinimumConsecutive = 2
    MinimumPersistence = 0
    ResolutionConsecutive = 2
    LocalCooldown = 1
    CriticalAfter = 2
    SyncInterval = 2
    MaxTime = 2
    MaxStreak = 2
    MaxSignals = 2
PROPERTIES
    PpeAlertResolvedOnPpeEvidence
