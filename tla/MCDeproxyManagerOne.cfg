CONSTANTS
    Clients = {c1}
    RstClients = {}
    KeepClients = {c1}
    MaxPend = 2
SPECIFICATION FairSpec
INVARIANTS
    MapIsExact
    CleanupClosesAll
    IndInv
PROPERTIES
    CleanupTerminates
    HandshakeIsNoticed
CHECK_DEADLOCK FALSE
