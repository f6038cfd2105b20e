SPECIFICATION FairSpec
CONSTANTS
  Tasks = {"t1"}
  Workers = {1}
  Readers = {"r1"}
  Rows = 1
  MaxRuns = 2
  MaxSteps = 3
  MaxStops = 1
  MaxFaults = 1
  MaxOthers = 0
INVARIANTS AppliedOnce VerdictIsTrue FilesAgree
PROPERTIES EndIsFinal RunEnds
