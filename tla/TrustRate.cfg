\* Two ticks in a minute, a burst of one call: half tokens, refills and an
\* eviction (after ten idle ticks) all happen within thirteen ticks.
SPECIFICATION RateSpec
CONSTANTS
  a = a
  b = b
  NoType = NoType
  Forever = Forever
  Agents <- MCAgents
  PayloadTypes <- MCTypes
  Grants = {}
  Batches = {}
  Pairs <- MCPairs
  MaxRequests = 1
  Minute = 2
  DefaultAllow = TRUE
  MaxMono = 13
  WallSteps = {}
INVARIANTS WindowBound
