SPECIFICATION FairSpec
CONSTANTS
  Tests <- MCTests
  Registry <- MCRegistry
  Rows = {"speedtest"}
  Unfailing = {"unblock"}
  Noted = {"ip"}
  Configs <- MCConfigs
  MaxRuns = 2
  MaxPick = 2
  MaxSignals = 2
INVARIANTS
  SessionTypeOK
  Accounted
  LateStarts
  PromptsKillable
  OneSignalKeepsReport
  EndsOnRequestOnly
  OwnAnswers
PROPERTIES
  RunnerSpec
  SecondSignalKills
  RunEnds
CHECK_DEADLOCK FALSE
