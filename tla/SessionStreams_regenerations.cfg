SPECIFICATION Spec
CONSTANTS
  Turns = {t1, t2, t3}
  Readers = {}
  Aborts = {}
  MaxEvents = 0
  MaxFaults = 0
  History = {h1}
  Serial = FALSE
  None = None
INVARIANTS OneRegeneration
SYMMETRY Symmetry
CHECK_DEADLOCK FALSE
