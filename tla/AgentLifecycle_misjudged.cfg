SPECIFICATION FairSpec
CONSTANTS
  q1 = q1
  q2 = q2
  Requests = {q1, q2}
  Boot = Boot
  Together <- AllPairs
  MaxBoxes = 2
  MaxFaults = 0
  MaxStops = 0
PROPERTIES LiveIsNotMisjudged
CHECK_DEADLOCK FALSE
