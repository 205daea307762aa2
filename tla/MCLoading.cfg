SPECIFICATION LoadingSpec
CONSTANTS
    a1 = a1
    a2 = a2
    Askers = {a1, a2}
    Scenes <- MCScenes
    MaxAsks = 1
    MaxTries = 2
    Interfaces = {"i", "j"}
    Batches <- MCBatches
    MaxAssets = 2
    Places = {"unbuildable", "absent", "admitted", "placement", "refused"}
INVARIANTS
    ReadyIsSettled
    AdmittedAsDeclared
PROPERTIES
    FaultReported
    BindingHeld
    NoneStranded
    OrderIsComplete
CHECK_DEADLOCK FALSE
