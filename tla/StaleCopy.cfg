SPECIFICATION Spec
CONSTANTS
  j1 = j1
  s1 = s1
  NoTarget = NoTarget
  Targets <- MCJobs
  MaxOps = 4
  Jobs <- MCJobs
  Sources <- MCSources
  SourceOf <- MCSourceOf
  Workers = {w1, w2}
  MaxTime = 2
  MaxRuns = 2
  Events = {}
PROPERTY LaterRunsIncremental
CHECK_DEADLOCK FALSE
