SPECIFICATION Spec
CONSTANTS
  Tests <- MCTests
  Registry <- MCRegistry
  Rows = {"speedtest"}
  Unfailing = {"unblock"}
  Noted = {"ip"}
  Configs <- MCConfigs
  MaxRuns = 2
  MaxPick = 2
  MaxSignals = 2
INVARIANTS
  NoneSilent
CHECK_DEADLOCK FALSE
