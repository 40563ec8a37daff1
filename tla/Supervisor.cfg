SPECIFICATION SupervisorSpec
CONSTANTS
  Config = {a, b, bad, worse}
  Valid = {a, b}
  NoFile = noFile
  Torn = torn
  NoConfig = noConfig
  SpawnMayFail = TRUE
  Flaky = TRUE
INVARIANTS RunsValidated CoherentAtRest
PROPERTY SwapTakesEffect
