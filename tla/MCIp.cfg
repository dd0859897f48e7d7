SPECIFICATION Spec
CONSTANTS
  Says <- MCSays
  Providers = 2
  Endpoints = 2
  Answers <- MCAnswers
  WhoisTexts <- MCWhoisTexts
  Days <- MCDays
  Registries <- MCRegistries
  Zones = {"z1", "z2"}
  Runs = 2
INVARIANTS
  AskedOnce
  OneMachine
  NoFalseVerdict
CHECK_DEADLOCK FALSE
