SPECIFICATION FairSpec
CONSTANTS
  Handle = {h1}
  Instance = {p}
  None = None
  Encoding = {"zstd"}
  MaxEvent = 3
  MaxFailure = 2
  MaxCrash = 0
  LateProducer = FALSE
  LateTimer = TRUE
  SetupRace = FALSE
  LeftBytes = FALSE
INVARIANTS EveryEventHeld
PROPERTIES HandleSettles
CHECK_DEADLOCK FALSE
