SPECIFICATION FairSpec
CONSTANTS
  Conns = {c1}
  MaxTurns = 2
  MaxEvents = 1
  NoConn = NoConn
  NoTurn = NoTurn
INVARIANTS SerialUntilEarlyRelease
PROPERTIES AbortCutsStream SessionFreed
CHECK_DEADLOCK FALSE
