SPECIFICATION FairSpec
CONSTANTS
  None = None
  Streams <- TwoStreams
  Slots <- OfEach
  MaxIssued = 2
  MaxMishaps = 2
  MaxGestures = 3
INVARIANTS
  TypeOK
  NeverSilent
PROPERTIES
  ExpiredSeen
  StreamBack
CHECK_DEADLOCK FALSE
