SPECIFICATION Spec
CONSTANTS
  t1 = t1
  t2 = t2
  a1 = a1
  Tasks = {t1, t2}
  Agents = {a1}
  AgentOf <- MCAgentOf
  Workers = {w1}
  Keep = 1
  MaxRuns = 2
  MaxCalls = 0
  MaxDeletes = 0
  MaxBoots = 1
  NoTask = NoTask
  NoRun = NoRun
PROPERTIES PruneSparesRunning
CHECK_DEADLOCK FALSE
