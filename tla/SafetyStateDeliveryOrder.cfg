SPECIFICATION Spec
CONSTANTS
    MaxAttempts = 1
    LateArrivals = FALSE
    MaxSnapshots = 4
    MaxSessions = 1
PROPERTIES
    NeverReplacedByOlder
