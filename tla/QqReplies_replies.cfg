SPECIFICATION Spec
CONSTANTS
  Messages = 2
  Calls = 3
  Epochs = 1
  Group = FALSE
  Limit = 1
  Overlap = 2
  MaxRepeats = 1
  MaxRevokes = 1
  MaxFaults = 1
INVARIANTS NumbersAreOwn LimitKept
CHECK_DEADLOCK FALSE
