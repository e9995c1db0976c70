SPECIFICATION Spec
CONSTANTS
  u1 = u1
  d1 = d1
  d2 = d2
  a1 = a1
  a2 = a2
  k1 = k1
  Nobody = Nobody
  NoSub = NoSub
  NoRow = NoRow
  Users = {u1}
  Subs <- MCSubs
  Alerts <- MCAlerts
  Critical = {}
  Kinds <- MCKinds
  KindOf <- MCKindOf
  Hours = 2
  Windows <- MCWindows
  maxIntentos = 3
  MaxChanges = 0
  Events = {}
PROPERTY OnlyProcessedCleared
CHECK_DEADLOCK FALSE
