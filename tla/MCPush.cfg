SPECIFICATION FairSpec
CONSTANTS
  u1 = u1
  d1 = d1
  d2 = d2
  a1 = a1
  a2 = a2
  k1 = k1
  Nobody = Nobody
  NoSub = NoSub
  NoRow = NoRow
  Users = {u1}
  Subs <- MCSubs
  Alerts <- MCAlerts
  Critical <- MCCritical
  Kinds <- MCKinds
  KindOf <- MCKindOf
  Hours = 2
  Windows <- MCWindows
  maxIntentos = 2
  MaxChanges = 2
  Events = {"db", "restart", "subscribe", "prefs", "quiet", "window", "gone", "busy"}
INVARIANTS
  TypeOK
  OneFate
  CritReachesAll
PROPERTIES
  ReadThenProcessed
  QueueDrains
CHECK_DEADLOCK FALSE
