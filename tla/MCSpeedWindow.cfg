SPECIFICATION FairSpec
CONSTANTS
  Streams = {s1, s2}
  Warmup = 1
  Length = 2
  Grace = 1
  Chunk = 2
  PerStream = 2
  Least = 2
  Jump = 2
INVARIANTS
  CountsTransfers
  BudgetBounded
  SpeedFromData
  EndIsNoError
PROPERTY
  WindowEnds
CHECK_DEADLOCK FALSE
