SPECIFICATION Spec
CONSTANTS
  Turns = {t1, t2}
  Readers = {r1}
  Aborts = {}
  MaxEvents = 1
  MaxFaults = 0
  History = {}
  Serial = FALSE
  None = None
INVARIANTS NobodyWaitsForNothing NoRepeats
SYMMETRY Symmetry
CHECK_DEADLOCK FALSE
