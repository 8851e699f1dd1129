SPECIFICATION Spec
CONSTANTS
  Message = {m1, m2}
  MaxCall = 1
  Cause = {"user"}
  MaxStep = 1
  MaxAttempt = 2
  MaxCrash = 0
  ReentrantDisposal = FALSE
SYMMETRY Symmetry
INVARIANTS TypeOK InputDeliveredOnce
PROPERTIES AbortSilencesTurn TurnEndIsHonest DisposalOpensNothing
CHECK_DEADLOCK FALSE
