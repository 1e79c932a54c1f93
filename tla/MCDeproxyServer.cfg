CONSTANTS
    Conns = {c1, c2}
    Waiters = {w1, w2}
    MaxReq = 1
    MaxRuns = 2
SPECIFICATION FairSpec
INVARIANTS
    NoLostWakeup
    ConnectionsApart
PROPERTIES
    StopEndsUnlessLate
CHECK_DEADLOCK FALSE
