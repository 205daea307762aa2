CONSTANTS
    None = None
    kernel = kernel
    service = service
    client = client
    stuck = stuck
    Peers = {kernel, service, client, stuck}
    Wedged = {stuck}
    Topologies <- Flows
    Cap = 1
    MaxCalls = 3
    Patient = {client, service}
SPECIFICATION FairSpec
PROPERTIES
    EveryCallReplied
CHECK_DEADLOCK FALSE
