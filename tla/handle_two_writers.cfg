SPECIFICATION Spec
CONSTANTS
  Handle = {h1, h2}
  Instance = {p, q}
  None = None
  Encoding = {"zstd"}
  MaxEvent = 3
  MaxFailure = 1
  MaxCrash = 0
  LateProducer = FALSE
  LateTimer = TRUE
  SetupRace = FALSE
  LeftBytes = FALSE
INVARIANTS StoredContiguous
CHECK_DEADLOCK FALSE
