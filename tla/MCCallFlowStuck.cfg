CONSTANTS
    None = None
    kernel = kernel
    service = service
    client = client
    stuck = stuck
    Peers = {kernel, stuck}
    Wedged = {stuck}
    Topologies <- Stuck
    Cap = 1
    MaxCalls = 4
    Patient = {}
SPECIFICATION FairSpec
PROPERTIES
    EveryCallReturns
CHECK_DEADLOCK FALSE
