SPECIFICATION Spec
CONSTANTS
  Full = 2
  MaxWaits = 2
  MaxCalls <- Session
INVARIANTS
  TypeOK
  
PROPERTIES
  Operations
CHECK_DEADLOCK FALSE
