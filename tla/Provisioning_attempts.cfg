SPECIFICATION Spec
CONSTANTS
  r1 = r1
  r2 = r2
  Requests = {r1, r2}
  MaxAttempts = 2
  MaxSessions = 2
  MaxInstances = 2
  MaxFaults = 1
SYMMETRY Symmetry
INVARIANTS NoHalves OneInstancePerAttempt OneAttempt
PROPERTIES EndIsFinal
CHECK_DEADLOCK FALSE
