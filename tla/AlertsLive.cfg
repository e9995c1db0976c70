SPECIFICATION FairSpec
CONSTANTS
  tank = tank
  sda = sda
  Absent = Absent
  Never = Never
  Pools <- OnePool
  Devs <- OneDev
  PoolReadings <- FillingOrGone
  DiskReadings <- Failing
  Events <- NoEvents
  MissingAfter = 1
  MaxChanges = 1
  MaxEvents = 0
  MaxAcks = 1
  MaxMishaps = 1
PROPERTIES
  ConditionAlerted
  MissingAlerted
CHECK_DEADLOCK FALSE
