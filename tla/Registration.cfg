CONSTANTS
  Keys = {k1, k2}
  Octets = {o1, o2}
  Humans = {h1}
  None = None
  human_only = TRUE
  WorldIdConfigured = TRUE
  Backlog = 2
  MaxLate = 1
SPECIFICATION FairSpec
INVARIANTS PoolPartition RegistryMatchesDevice NoPanicInTime
PROPERTY AbandonedPeersLeave
CHECK_DEADLOCK FALSE
