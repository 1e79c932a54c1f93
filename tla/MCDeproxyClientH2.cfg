CONSTANTS
    MaxStreams = 2
    Bodies = {0, 2}
    MaxItems = 2
    MaxWire = 1
    MaxRecords = 3
    MaxUpsets = 1
    Window = 1
    MaxFrame = 2
SPECIFICATION FairSpec
INVARIANTS
    FramesRight
    ResponsesRight
    WaitMeansAnswered
    AckIsOfLast
PROPERTIES
    QueueDrains
CHECK_DEADLOCK FALSE
