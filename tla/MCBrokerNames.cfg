CONSTANTS
    None = None
    BUS = BUS
    n1 = n1
    m1 = m1
    WellKnown = {n1}
    Rules <- NameRules
    Manifests = {}
    MaxCallbacks = 1
    Inputs <- NameInputs
    QueueCap = 1
    MaxMsgs = 3
    MaxPeers = 2
    HostTasks = {}
    HostConns = {}
    ModuleNames = {}
    RuntimeNames = {}
    MaxChanges = 2
SPECIFICATION BrokerSpec
INVARIANTS
    HeardAsSubscribed
CHECK_DEADLOCK FALSE
