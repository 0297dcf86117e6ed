SPECIFICATION Spec
CONSTANTS
  Platform = "linux"
  HumanOnly = TRUE
  Resolvconf = FALSE
  MayFail <- AllSteps
  MaxConnects = 2
  MaxStarts = 1
  MaxPolls = 1
  MaxDeaths = 1
INVARIANT NothingIsLeft
CHECK_DEADLOCK FALSE
