SPECIFICATION Spec
CONSTANTS
  Messages = 2
  Calls = 3
  Epochs = 2
  Group = TRUE
  Limit = 2
  Overlap = 1
  MaxRepeats = 1
  MaxRevokes = 1
  MaxFaults = 1
INVARIANTS NothingAstray
CHECK_DEADLOCK FALSE
