SPECIFICATION FairSpec
CONSTANTS
  q1 = q1
  q2 = q2
  Requests = {q1, q2}
  Boot = Boot
  Together <- NoPairs
  MaxBoxes = 2
  MaxFaults = 0
  MaxStops = 1
PROPERTIES DeletedIsFinal
CHECK_DEADLOCK FALSE
