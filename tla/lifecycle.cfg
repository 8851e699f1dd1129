SPECIFICATION FairSpec
CONSTANTS
  Op = {p1, p2}
  NoOp = NoOp
  Id = {i1}
  Owner = {w1}
  Loop = Loop
INVARIANTS TypeOK RegistryOutlivesHandle ListenersSeeLiveAgent NothingLeftBehind
PROPERTIES LifecycleSettles
CHECK_DEADLOCK FALSE
