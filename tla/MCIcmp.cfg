SPECIFICATION FairSpec
CONSTANTS
  Anchors = {"a1", "a2"}
  Targets <- MCTargets
  Path <- MCPath
  Private = {"gw"}
  Count = 2
  MaxHops = 3
  ReplyTimeout = 1
  HopTimeout = 1
  Noise <- MCNoise
  Delays = {0, 1}
INVARIANTS
  OwnReplies
  TruthfulHops
PROPERTY
  ProbesEnd
CHECK_DEADLOCK FALSE
