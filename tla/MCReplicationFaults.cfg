SPECIFICATION FairSpec
CONSTANTS
  j1 = j1
  s1 = s1
  NoTarget = NoTarget
  Targets <- MCJobs
  MaxOps = 4
  Jobs <- MCJobs
  Sources <- MCSources
  SourceOf <- MCSourceOf
  Workers = {w1, w2}
  MaxTime = 3
  MaxRuns = 2
  Events = {"command", "transfer", "cancel", "diverge", "restart", "db", "patch", "delete", "purge"}
INVARIANTS
  TypeOK
  SlotExclusive
  RegistryMatchesRuns
  BookmarkReached
  TruthfulStatus
PROPERTIES
  FinalIsFinal
  DestroyedOnlyOnFailure
  SlotFreed
CHECK_DEADLOCK FALSE
