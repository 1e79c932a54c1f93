CONSTANTS
    docker = docker
    deproxy = deproxy
    tempesta = tempesta
    manager = manager
    Servers <- MCServers
    Clients <- MCClients
    DeproxyClients <- MCClients
    Docker <- MCServers
    StopProcs <- MCStopProcs
    MaxOps = 2

    CacheOn = TRUE
    MaxExchanges = 3
    MaxSeconds = 1
    Segments = {1, 2, 3, 7}
    MaxUri = 2
    MaxTests = 2
    MaxRecords = 3
    Threshold = 1
    MaxMem = 3
    Wrap = 5
    ISN = {2}
    MaxPackets = 5
    ListNames = {"disabled", "remote"}
    Always = "disabled"
    MaxLines = 2

SPECIFICATION SpecAll

INVARIANTS
    SurvivorIsReported
    IndInv
    VerdictRight
    StreamParsed
    BlameExact
    SearchRight
    
    LeakVerdictRight
    RegularClose
    SelectionRight
CHECK_DEADLOCK FALSE
