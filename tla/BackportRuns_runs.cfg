SPECIFICATION FairSpec
CONSTANTS
  Tasks = {"t1"}
  Workers = {1}
  Readers = {"r1"}
  Rows = 2
  MaxRuns = 1
  MaxSteps = 3
  MaxStops = 1
  MaxFaults = 1
  MaxOthers = 0
INVARIANTS AppliedOnce VerdictIsTrue FilesAgree
PROPERTIES EndIsFinal RunEnds
