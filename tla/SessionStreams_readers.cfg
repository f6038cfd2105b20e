SPECIFICATION Spec
CONSTANTS
  Turns = {t1}
  Readers = {r1}
  Aborts = {}
  MaxEvents = 2
  MaxFaults = 0
  History = {}
  Serial = FALSE
  None = None
INVARIANTS NothingMissed NoReaderIsStranded
SYMMETRY Symmetry
CHECK_DEADLOCK FALSE
