--------------------------- MODULE MCSafetySignal ---------------------------
\* One operator station and one device.  With two connections the device may
\* reconnect while the server still keeps the old one; with two conditions of
\* different levels all the colours occur.
EXTENDS SafetySignal, TLC

CONSTANTS helmet, posture, o1, c1, c2

OneCondition == {helmet}
TwoConditions == {helmet, posture}
LevelDef == helmet :> "critical"
LevelsDef == helmet :> "critical" @@ posture :> "medium"
ReasonDef == helmet :> 2
ReasonsDef == helmet :> 2 @@ posture :> 4
SourcesDef == {o1}
OneConnection == {c1}
TwoConnections == {c1, c2}
OwnerDef == [c \in {c1, c2} |-> NoOwner]
MessagesDef == {calculateMessage([s \in Sources |-> reported]) :
                    reported \in SUBSET Conditions}
=============================================================================
