\* Scopes by peer and by type, expiry, and a wall clock stepped forward.
SPECIFICATION Spec
CONSTANTS
  a = a
  b = b
  general = general
  NoType = NoType
  Forever = Forever
  Agents <- MCAgents
  PayloadTypes <- MCTypes
  Grants <- TrustGrants
  Batches <- TrustBatches
  Pairs <- TrustPairs
  MaxRequests = 1
  Minute = 1
  DefaultAllow = FALSE
  MaxMono = 3
  WallSteps = {2}
INVARIANTS TypeOK BlockedNeverTrusted
PROPERTIES PolicySpec RejectedLeavesNoTrace
