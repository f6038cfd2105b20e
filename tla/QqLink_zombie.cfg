SPECIFICATION Spec
CONSTANTS
  Transports = 2
  MaxFaults = 2
  MaxCancels = 2
  Hasty = FALSE
INVARIANTS NothingLeftOpen
CHECK_DEADLOCK FALSE
