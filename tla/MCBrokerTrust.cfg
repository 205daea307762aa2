CONSTANTS
    None = None
    BUS = BUS
    n1 = n1
    m1 = m1
    WellKnown = {n1}
    Rules = {}
    Manifests = {}
    MaxCallbacks = 1
    Inputs <- TrustInputs
    QueueCap = 1
    MaxMsgs = 1
    MaxPeers = 2
    HostTasks = {h1}
    HostConns = {2}
    ModuleNames = {n1}
    RuntimeNames = {n1}
    MaxChanges = 2
SPECIFICATION BrokerSpec
INVARIANTS
    DeliveredAsAuthorised
    TableLive
PROPERTIES
    ChangesAnnounced
CHECK_DEADLOCK FALSE
