\* Three request threads at a time.
CONSTANT MaxThreads = 3
SPECIFICATION Spec
INVARIANTS
    LoginIsClean
    RealtimeKeepsTrying
PROPERTY
    ReturnCompletes
