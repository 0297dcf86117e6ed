SPECIFICATION Spec
CONSTANTS
  Platform = "macos"
  HumanOnly = TRUE
  Resolvconf = FALSE
  MayFail <- AllSteps
  MaxConnects = 2
  MaxStarts = 2
  MaxPolls = 2
  MaxDeaths = 1
INVARIANTS ConnectedIsConfigured ShownAsItIs
CHECK_DEADLOCK FALSE
