SPECIFICATION FairSpec
CONSTANTS
  None = None
  IsAdmin = TRUE
  Watched <- EachKind
  Causes <- AllEvents
  MaxChanges = 1
  MaxAsks = 3
  MaxCalls = 2
  MaxMishaps = 1
  MaxGestures = 3
INVARIANTS
  TypeOK
  StaleIsOnItsWay
  ChartIsChosen
  OneSubmitPending
PROPERTIES
  NoGoingBack
  FinallyCurrent
  NoDialogStuck
CHECK_DEADLOCK FALSE
