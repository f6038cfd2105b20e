SPECIFICATION FairSpec
CONSTANTS
  QueueDepth = 1
  ReplyLimit = 3
  MaxMessages = 2
  MaxSessions = 2
  MaxReconnects = 1
  Commands = {k1, k2}
  None = None
INVARIANTS NothingFallsThrough StoppedStaysSilent GateHolds
PROPERTIES SettledForGood EveryMessageSettles
CHECK_DEADLOCK FALSE
