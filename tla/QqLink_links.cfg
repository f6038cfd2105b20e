SPECIFICATION FairSpec
CONSTANTS
  Transports = 2
  MaxFaults = 2
  MaxCancels = 2
  Hasty = FALSE
INVARIANTS LiveLinksAreWatched
PROPERTIES SilenceIsNoticed GivenUpCloses
CHECK_DEADLOCK FALSE
