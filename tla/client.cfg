SPECIFICATION FairSpec

CONSTANTS
    a = a
    b = b
    Minions = {a, b}
    Timeout = 2
    GatherTimeout = 4
    CheckLimit = 2
    ShowTimeout = TRUE
    MaxFaults = 2

INVARIANTS
    TypeOK
    GivesUpInTime

PROPERTIES
    ImplementsFairFanOut
