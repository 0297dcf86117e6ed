CONSTANTS
  Threads = {t1, t2}
  k1 = k1
  k2 = k2
  Keys = {k1, k2}
  None = None
  MaxFd = 2
  Requests <- MCRequests
  use_connected_socket = TRUE
  AddrBits = 1
  IndexBits = 2
  LfsrPoly <- MCLfsrPoly
  Seed <- MCSeed
  Mask <- MCMask
SPECIFICATION FairSpec
INVARIANTS GuardsAreLive PollMatchesEvents ConnectedIsServed TablesAgree
PROPERTY ShutSocketsClose
CHECK_DEADLOCK FALSE
