SPECIFICATION Spec
CONSTANTS
  Message = {m1, m2}
  MaxCall = 1
  Cause = {"user"}
  MaxStep = 1
  MaxAttempt = 1
  MaxCrash = 0
  ReentrantDisposal = TRUE
SYMMETRY Symmetry
INVARIANT TeardownDrainsDriver
CHECK_DEADLOCK FALSE
