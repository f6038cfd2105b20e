SPECIFICATION FairSpec
CONSTANTS
  Turns = {t1, t2}
  Readers = {}
  Aborts = {a1}
  MaxEvents = 1
  MaxFaults = 1
  History = {}
  Serial = TRUE
  None = None
INVARIANTS EndIsExplained
PROPERTIES RepliesAreWhole ReplyEnds
CHECK_DEADLOCK FALSE
