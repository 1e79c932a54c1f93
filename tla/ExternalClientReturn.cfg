CONSTANTS
  MaxRuns = 2
SPECIFICATION ClientSpec
INVARIANTS ReturnCodeTells
CHECK_DEADLOCK FALSE
