CONSTANTS
    s1 = s1
    s2 = s2
    Kinds <- EarlyThenCall
    Stoppers = {s1}
    Modes = {"deferred", "eager"}
    Reinit = TRUE
SPECIFICATION FairSpec
INVARIANTS
    ShutdownOnceAlone
    StoppedIsOver
PROPERTIES
    OrdinaryStopStays
    QueuedServed
CHECK_DEADLOCK FALSE
