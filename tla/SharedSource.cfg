SPECIFICATION Spec
CONSTANTS
  j1 = j1
  j2 = j2
  s1 = s1
  w1 = w1
  w2 = w2
  NoTarget = NoTarget
  Targets <- MCJobs
  MaxOps = 6
  Jobs <- MCJobs
  Sources <- MCSources
  SourceOf <- MCSourceOf
  Workers <- MCWorkers
  MaxTime = 2
  MaxRuns = 2
  Events = {}
INVARIANT RecordedIsBookmark
CHECK_DEADLOCK FALSE
