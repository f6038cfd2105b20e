SPECIFICATION Spec
CONSTANTS
  q1 = q1
  q2 = q2
  Requests = {q1, q2}
  Boot = Boot
  Together <- AllPairs
  MaxBoxes = 3
  MaxFaults = 1
  MaxStops = 2
SYMMETRY Symmetry
INVARIANTS EveryBoxIsWithinReach
CHECK_DEADLOCK FALSE
