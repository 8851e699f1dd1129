SPECIFICATION CrashSpec
CONSTANTS
  Message = {m1, m2}
  MaxCall = 2
  Cause = {"user"}
  MaxStep = 1
  MaxAttempt = 1
  MaxCrash = 1
  ReentrantDisposal = FALSE
SYMMETRY Symmetry
INVARIANTS LogWellFormed EveryCallAnswered LogAgreesWithDriver
PROPERTY RecoverableAtEveryPrefix
CHECK_DEADLOCK FALSE
