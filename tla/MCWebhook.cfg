SPECIFICATION FairSpec
CONSTANTS
  e1 = e1
  e2 = e2
  e3 = e3
  NoEvent = NoEvent
  Events <- MCEvents
  queueCap = 2
  Retries = 2
INVARIANTS
  TypeOK
  QuietAfterClose
  DeadForAReason
PROPERTIES
  OutboxImplemented
  AcceptedSettled
  CloseReturns
CHECK_DEADLOCK FALSE
