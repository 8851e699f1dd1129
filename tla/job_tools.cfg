SPECIFICATION FairSpec
CONSTANTS
  Job = {j1}
  Owner = {o1}
  NoOwner = NoOwner
  Waiter = {w1, w2}
  NoJob = NoJob
  CancelThrows = {j1}
  MaxActive = 1
  RetainBytes = 2
  SettledRetainBytes = 1
  ChunkSizes = {1}
  MaxBytes = 0
INVARIANTS TypeOK NoSilentCompletion TeardownLeavesNothing
PROPERTIES TeardownEnds
CHECK_DEADLOCK FALSE
