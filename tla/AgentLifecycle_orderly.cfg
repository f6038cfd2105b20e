SPECIFICATION FairSpec
CONSTANTS
  q1 = q1
  q2 = q2
  Requests = {q1, q2}
  Boot = Boot
  Together <- TamePairs
  MaxBoxes = 3
  MaxFaults = 2
  MaxStops = 1
INVARIANTS NoOrphans EveryBoxIsWithinReach RecoveredOrError
PROPERTIES StartUpEnds
CHECK_DEADLOCK FALSE
