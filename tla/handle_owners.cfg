SPECIFICATION Spec
CONSTANTS
  Handle = {h1, h2}
  Instance = {p, q}
  None = None
  Encoding = {"zstd", "raw"}
  MaxEvent = 3
  MaxFailure = 1
  MaxCrash = 2
  LateProducer = FALSE
  LateTimer = FALSE
  SetupRace = FALSE
  LeftBytes = FALSE
SYMMETRY Symmetry
INVARIANTS TypeOK StoredContiguous WriterKnowsLog
PROPERTIES LogIsDurable
CHECK_DEADLOCK FALSE
