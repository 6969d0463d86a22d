\* Both directions of one pair; the limiter and its eviction over six minutes.
SPECIFICATION Spec
CONSTANTS
  a = a
  b = b
  general = general
  NoType = NoType
  Forever = Forever
  Agents <- MCAgents
  PayloadTypes <- MCTypes
  Grants = {}
  Batches = {}
  Pairs <- RatePairs
  MaxRequests = 2
  Minute = 2
  DefaultAllow = TRUE
  MaxMono = 13
  WallSteps = {}
PROPERTIES PolicySpec ColdBucketsGo
