CONSTANTS
    p = p
    q = q
    NoPeer = NoPeer
    NoLen = NoLen
    Peers = {p, q}
    MaxStreams = 2
    MaxCalls = 5
    Strangers = {q}
    MaxStreamLen = 3
    StreamCap = 1
    Window = 1
    Declared = {2}
    Pipelining = TRUE
SPECIFICATION FairSpec
INVARIANTS
    ReadAsWritten
    SlotsBounded
PROPERTIES
    PipeSpec
    WritesAnswered
CHECK_DEADLOCK FALSE
