CONSTANTS
    None = None
    BUS = BUS
    n1 = n1
    m1 = m1
    WellKnown = {n1}
    Rules = {}
    Manifests = {m1}
    MaxCallbacks = 1
    Inputs <- CallInputs
    QueueCap = 1
    MaxMsgs = 3
    MaxPeers = 2
    HostTasks = {}
    HostConns = {}
    ModuleNames = {}
    RuntimeNames = {}
    MaxChanges = 2
SPECIFICATION FairBrokerSpec
INVARIANTS
    EveryCallSettledOnce
    ReachesTheNamedPeer
PROPERTIES
    CallsSettle
    RouterSpec
CHECK_DEADLOCK FALSE
