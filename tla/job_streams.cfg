SPECIFICATION FairSpec
CONSTANTS
  Job = {j1}
  Owner = {o1}
  NoOwner = NoOwner
  Waiter = {}
  NoJob = NoJob
  CancelThrows = {j1}
  MaxActive = 1
  RetainBytes = 2
  SettledRetainBytes = 1
  ChunkSizes = {1, 2}
  MaxBytes = 2
  Follower = {f1}
  Viewer = {o1}
INVARIANTS FollowIsComplete
PROPERTIES SettlementIsFinal NoWakeLost
CHECK_DEADLOCK FALSE
