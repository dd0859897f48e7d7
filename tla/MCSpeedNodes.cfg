SPECIFICATION Spec
CONSTANTS
  NodeSets <- MCNodeSets
  IDs = {"7"}
  Flags <- MCFlags
  Lists <- MCLists
  TestTimeout = 6
  NodeTimeout = 2
  Gap = 1
  Retry = 1
  Attempts = 2
  Limit <- MCLimit
  Want <- MCWant
  Tries = 2
INVARIANTS
  WholeTable
PROPERTIES
  ListGapKept
  FailedAfterAll
CHECK_DEADLOCK FALSE
