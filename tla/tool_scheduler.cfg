SPECIFICATION FairSpec
CONSTANTS
  MaxCall = 4
  MaxParallel = 2
INVARIANTS TypeOK ResultsInModelOrder ExclusiveRunsAlone
PROPERTIES ImplementsToolBatch BatchEnds
CHECK_DEADLOCK FALSE
