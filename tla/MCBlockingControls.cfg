SPECIFICATION Spec
CONSTANTS
  RespTimeout = 2
  IdleTimeout = 2
  Window = 4
  Cap = 4
  RateMin = 2
  SlowRate = 1
  MaxAddrs = 3
  Siblings = {"sibling"}
INVARIANT
  ControlsDecide
CHECK_DEADLOCK FALSE
