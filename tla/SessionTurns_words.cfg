SPECIFICATION Spec
CONSTANTS
  Conns = {c1}
  MaxTurns = 3
  MaxEvents = 1
  NoConn = NoConn
  NoTurn = NoTurn
INVARIANTS SerialPerSession RoundsSettle
CHECK_DEADLOCK FALSE
