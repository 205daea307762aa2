SPECIFICATION HostSpec
CONSTANTS
    Leases = {k}
    Objects = {o1, o2}
    Paths = {p}
    PathOf <- MCPathOf
    MaxAttempts = 2
    MaxUsers = 2
    Users = {u1, u2}
    SlotKeys = {k1, k2}
    MaxServices = 3
    MaxUses = 3
    Callers = {u1, u2}
    Configs = {c1, c2}
    Strategies = {"lifecycle", "member"}
    RetryAttempts = 2
    MaxCalls = 2
    Clients = {h}
    Peers = {p1, p2, p3}
    Released = {p2, p3}
    MaxBinds = 2
    MaxSends = 2
    None = None
    Clauses <- MCClauses
    MaxClauses = 5
INVARIANTS
    RoundTrip
    BoundToOnePeer
    NameFollowsUse
    ServicesKept
    ConfigurationHeld
PROPERTIES
    CallbackKept
    CloseAnswered
CHECK_DEADLOCK FALSE
