SPECIFICATION FairSpec
CONSTANTS
  Clients = {c1}
  Supervisor = Supervisor
  Adapters = {1, 2, 3, 4}
  Sockets = {1, 2, 3, 4}
  MaxCalls = 1
  MaxFaults = 2
INVARIANTS OneConnection
PROPERTIES Converges Recovers
CHECK_DEADLOCK FALSE
