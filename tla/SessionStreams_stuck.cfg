SPECIFICATION Spec
CONSTANTS
  Turns = {t1}
  Readers = {}
  Aborts = {a1}
  MaxEvents = 1
  MaxFaults = 1
  History = {}
  Serial = TRUE
  None = None
INVARIANTS NoMessageStuckGenerating
CHECK_DEADLOCK FALSE
