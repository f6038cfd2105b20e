SPECIFICATION Spec
CONSTANTS
  QueueDepth = 2
  ReplyLimit = 3
  MaxMessages = 2
  MaxSessions = 2
  MaxReconnects = 1
  Commands = {k1, k2}
  None = None
SYMMETRY CommandSymmetry
INVARIANTS NewTakesEffect OwnAnswer
CHECK_DEADLOCK FALSE
