CONSTANTS
  Nodes <- TwoNodes
  Finders = {f1, f2}
  MaxDepth = 3
  MaxEvents = 3
  MaxCfg = 2
  MaxStarts = 3
  MaxFaults = 2
  MaxReqs = 2
  MaxRuns = 3
SPECIFICATION SpecAll
INVARIANTS
    LimitRestored
    RunsAsAsked
    CleanStop
    OwnResults
    NoProcessLeft
PROPERTIES
    ContextRestores
CHECK_DEADLOCK FALSE
