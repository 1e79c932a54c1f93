SPECIFICATION Spec
CONSTANTS
  Sent <- MCSent
  MaxUri = 2
  MaxTests = 1
  MaxRecords = 2
INVARIANT AllEntriesFound
CHECK_DEADLOCK FALSE
