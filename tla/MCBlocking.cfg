SPECIFICATION FairSpec
CONSTANTS
  RespTimeout = 2
  IdleTimeout = 2
  Window = 4
  Cap = 4
  RateMin = 2
  SlowRate = 1
  MaxAddrs = 3
  Siblings = {"sibling"}
INVARIANTS
  TableTellsTruth
  FairVote
  StallIsCaught
PROPERTY
  JudgementComes
CHECK_DEADLOCK FALSE
