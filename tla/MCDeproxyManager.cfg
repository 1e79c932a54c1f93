CONSTANTS
    Clients = {c1, c2}
    RstClients = {c1}
    KeepClients = {}
    MaxPend = 0
SPECIFICATION Spec
INVARIANTS
    NoHalfMadeSocketPolled
    StartsClean
    CrashIsReported
CHECK_DEADLOCK FALSE
