CONSTANTS
  Keys = {k1, k2}
  Octets = {o1, o2}
  Humans = {h1}
  None = None
  human_only = TRUE
  WorldIdConfigured = TRUE
  Backlog = 3
  MaxLate = 1
SPECIFICATION Spec
INVARIANT NoPanic
