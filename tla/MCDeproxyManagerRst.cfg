CONSTANTS
    Clients = {c1}
    RstClients = {c1}
    KeepClients = {}
    MaxPend = 0
SPECIFICATION FairSpec
PROPERTIES
    CleanupTerminates
CHECK_DEADLOCK FALSE
