SPECIFICATION FairSpec
CONSTANTS
    MaxItems = 3
    MaxStarts = 2
INVARIANTS
    RequestsInOrder
    ResponsesRight
PROPERTIES
    WaitEnds
CHECK_DEADLOCK FALSE
