SPECIFICATION FairSpec
CONSTANTS
  Message = {m1, m2}
  MaxCall = 1
  Cause = {"user"}
  MaxStep = 1
  MaxAttempt = 1
  MaxCrash = 0
  ReentrantDisposal = FALSE
PROPERTIES DriverComesToRest WakesAreServed
CHECK_DEADLOCK FALSE
