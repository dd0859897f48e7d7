SPECIFICATION FairSpec
CONSTANTS
  N = 4
  Wanted = 2
INVARIANTS
  FirstAlive
  EarlyExit
PROPERTY
  ReturnsClean
CHECK_DEADLOCK FALSE
