SPECIFICATION FairSpec
CONSTANTS
  N = 3
  Limit = 2
  Values = {"listed", "cut", "clean"}
  Cut = "cut"
  Rank <- MCRank
INVARIANTS
  Bounded
  NoStragglers
PROPERTIES
  ImplementsMap
  PoolEnds
CHECK_DEADLOCK FALSE
