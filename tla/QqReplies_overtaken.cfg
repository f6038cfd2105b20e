SPECIFICATION Spec
CONSTANTS
  Messages = 2
  Calls = 3
  Epochs = 2
  Group = FALSE
  Limit = 1
  Overlap = 1
  MaxRepeats = 1
  MaxRevokes = 1
  MaxFaults = 1
INVARIANTS NumbersAreNeverReset
CHECK_DEADLOCK FALSE
