SPECIFICATION FairSpec
CONSTANTS
    f1 = f1
    f2 = f2
    c1 = c1
    c2 = c2
    Files = {f1, f2}
    Callers = {c1, c2}
    Scenarios <- MCScenarios
    MaxLoads = 1
INVARIANTS
    LifecycleExclusive
    ListedStoppedIsOver
PROPERTIES
    DecisionsStick
    StopAnnounced
CHECK_DEADLOCK FALSE
