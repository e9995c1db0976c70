SPECIFICATION Spec
CONSTANTS
  tank = tank
  sda = sda
  Absent = Absent
  Never = Never
  Pools <- OnePool
  Devs <- OneDev
  PoolReadings <- Scrubbed
  DiskReadings <- Failing
  Events <- ScrubFinish
  MissingAfter = 1
  MaxChanges = 1
  MaxEvents = 1
  MaxAcks = 1
  MaxMishaps = 1
INVARIANTS
  TypeOK
  OneActive
  NoStorm
  NoFalseMissing
CHECK_DEADLOCK FALSE
