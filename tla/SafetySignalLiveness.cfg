SPECIFICATION Spec
CONSTANTS
    helmet = helmet
    posture = posture
    o1 = o1
    c1 = c1
    c2 = c2
    Sources <- SourcesDef
    Conditions <- TwoConditions
    Level <- LevelsDef
    Reason <- ReasonsDef
    Conns <- OneConnection
    Owner <- OwnerDef
    Messages <- MessagesDef
    NoMessage = NoMessage
    CloseFrame = CloseFrame
    NoOwner = NoOwner
    NoConn = NoConn
    QueueCapacity = 2
    MaxConnections = 1
    MaxConnectionsPerOwner = 1
    MaxWire = 1
    TcpOutlivesWifi = FALSE
INVARIANTS
    EffectiveStateIsMerged
PROPERTIES
    StaleColourEnds
    ConnectedDeviceCatchesUp
