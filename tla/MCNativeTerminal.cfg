SPECIFICATION FairSpec
CONSTANTS
    Instances = {1}
    Slots = {k}
    MaxReinits = 2
    MaxFaults = 1
INVARIANTS
    HooksAlone
    EndIsTrue
PROPERTIES
    TerminalCompletes
CHECK_DEADLOCK FALSE
