CONSTANTS
    Configs <- AllConfigs
    MaxReq = 3
SPECIFICATION FairSpec
INVARIANTS
    NothingLost
    KeepAliveBound
PROPERTIES
    CloseEndsTasks
    FlushedIsSent
    KeepsPromise
CHECK_DEADLOCK FALSE
