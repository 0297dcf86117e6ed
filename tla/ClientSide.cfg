SPECIFICATION SideSpec
CONSTANTS
  Platform = "linux"
  HumanOnly = FALSE
  Resolvconf = FALSE
  MayFail <- AllSteps
  MaxConnects = 2
  MaxStarts = 0
  MaxPolls = 0
  MaxDeaths = 1
  MaxConnections = 2
  MaxUp = 2
  MaxDown = 2
  UdpBuffer = 2
INVARIANTS TunnelIsGone RelayedOnceInOrder
PROPERTIES BusyEnds DeathIsShown NothingStalls SessionsEnd
CHECK_DEADLOCK FALSE
