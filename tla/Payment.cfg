CONSTANTS
  Peers = {p1, p2}
  V4Peers = {p1}
  Nonces = {n1, n2}
  NoNonce = NoNonce
  DefaultQuota = 2
  QuotaBytes = 1
  Sizes = {2}
  Paths = {"in_v4", "in_v6", "out"}
  AddedEndpoints = {FALSE}
  Faults = {"sig", "to"}
  Outcomes = {"success", "rejected", "error", "late"}
  Lossy = TRUE
SPECIFICATION FairSpec
INVARIANTS QuotaConserved ForwardedIsFunded CreditedOnce BlockedHasLiveRound
PROPERTY ServedAgain
