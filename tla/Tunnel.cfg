SPECIFICATION Spec
CONSTANTS
  a = a
  b = b
  p = p
  Ends = {a, b}
  None = None
  Expired = Expired
  N_SESSIONS = 2
  IndexCount = 2
  MAX_QUEUE_DEPTH = 1
  Payloads = {p}
  MaxStamp <- TwoAndOne
  MaxTime <- OneAndZero
INVARIANTS SessionsMatch KeysUsedOnce PacketsConserved WaitingIsInProgress
PROPERTY ConfirmedBeforeCurrent
CHECK_DEADLOCK FALSE
