\* One alert; two attempts per delivery; the connection holds one envelope;
\* the API restarts once.  The system may stop: every alert delivered, nobody
\* clicks.
CONSTANTS
    e1 = e1
    Events = {e1}
    MaxAttempts = 2
    MaxWire = 1
    MaxRestarts = 1
    MaxRequests = 2
SPECIFICATION Spec
CHECK_DEADLOCK FALSE
INVARIANTS
    TypeOK
    StoredOnce
    EscalationIsTried
    RegisteredIsStored
    EveryChangeIsPublished
    InboxFollowsBanner
PROPERTY
    InboxNeverGoesBack
