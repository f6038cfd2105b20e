SPECIFICATION Spec
CONSTANTS
  Clients = {c1}
  Supervisor = Supervisor
  Adapters = {1, 2, 3, 4}
  Sockets = {1, 2, 3, 4}
  MaxCalls = 2
  MaxFaults = 0
INVARIANT SupervisorLives
CHECK_DEADLOCK FALSE
