SPECIFICATION FairSpec
CONSTANTS
  t1 = t1
  t2 = t2
  a1 = a1
  Tasks = {t1}
  Agents = {a1}
  AgentOf <- MCAgentOf
  Workers = {w1}
  Keep = 1
  MaxRuns = 2
  MaxCalls = 1
  MaxDeletes = 1
  MaxBoots = 2
  NoTask = NoTask
  NoRun = NoRun
INVARIANTS JobsFollowRows OneRunAtATime NoLeakedSlot
PROPERTIES VerdictIsFinal SlotReleased
CHECK_DEADLOCK FALSE
