CONSTANTS
    None = None
    BUS = BUS
    n1 = n1
    WellKnown = {n1}
    Callers = {c1}
    Outgoing <- MCOutgoing
    Published <- MCPublished
    Answers <- MCAnswers
    Inbound <- MCInbound
    OutboxCap = 1
    MaxSerial = 4
    LastBegin = 2
    MaxSignals = 1
    MaxInbound = 1
SPECIFICATION FairSpec
INVARIANTS
    AnsweredAsCaptured
    WaitersServed
PROPERTIES
    CallsReturn
CHECK_DEADLOCK FALSE
