SPECIFICATION Spec
CONSTANTS
  tank = tank
  sda = sda
  Absent = Absent
  Never = Never
  Pools <- OnePool
  Devs <- OneDev
  PoolReadings <- Filling
  DiskReadings <- Cold
  Events <- NoEvents
  MissingAfter = 1
  MaxChanges = 1
  MaxEvents = 0
  MaxAcks = 0
  MaxMishaps = 0
INVARIANTS
  CriticalHeard
CHECK_DEADLOCK FALSE
