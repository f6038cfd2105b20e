SPECIFICATION Spec
CONSTANTS
  Tasks = {"t1"}
  Workers = {1}
  Readers = {"r1"}
  Rows = 2
  MaxRuns = 2
  MaxSteps = 3
  MaxStops = 1
  MaxFaults = 1
  MaxOthers = 0
INVARIANTS FailuresAreCounted CutRunGoesOn TimeoutIsRetryable LiveRunIsRunning
