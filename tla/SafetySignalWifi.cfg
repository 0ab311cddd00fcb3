SPECIFICATION Spec
CONSTANTS
    helmet = helmet
    posture = posture
    o1 = o1
    c1 = c1
    c2 = c2
    Sources <- SourcesDef
    Conditions <- OneCondition
    Level <- LevelDef
    Reason <- ReasonDef
    Conns <- OneConnection
    Owner <- OwnerDef
    Messages <- MessagesDef
    NoMessage = NoMessage
    CloseFrame = CloseFrame
    NoOwner = NoOwner
    NoConn = NoConn
    QueueCapacity = 1
    MaxConnections = 1
    MaxConnectionsPerOwner = 1
    MaxWire = 1
    TcpOutlivesWifi = TRUE
PROPERTIES
    ConnectedDeviceCatchesUp
