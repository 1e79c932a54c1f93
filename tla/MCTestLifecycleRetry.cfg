CONSTANTS
    docker = docker
    deproxy = deproxy
    tempesta = tempesta
    manager = manager
    Servers <- MCServers
    Clients <- MCClients
    DeproxyClients <- MCClients
    Docker <- MCServers
    StopProcs <- MCStopProcs
    MaxOps = 0

SPECIFICATION Spec

INVARIANTS
    RetryStartsFromStopped

CHECK_DEADLOCK FALSE
