\* Two requests, one key that changes hands and is revoked, two interceptors of different limits.
SPECIFICATION Spec
CONSTANTS
  r1 = r1
  r2 = r2
  Requests = {r1, r2}
  a = a
  b = b
  Agents = {a, b}
  key = key
  ApiKeys = {key}
  s1 = s1
  s2 = s2
  SigningKeys = {s1, s2}
  KeyMaps <- MCKeyMaps
  TrustLists <- MCTrustLists
  Unloadable = Unloadable
  DefaultConfig <- MCDefaultConfig
  Configs <- MCConfigs
  Sizes = {2, 4}
  Allowance = 1
  Outcomes = {"verified", "blocked", "unverifiable", "raised"}
  Slots = 1
  MaxInterceptors = 2
  None = None
INVARIANTS TypeOK SenderOwnedKey AdmittedByHandler UnsignedIffUnverifiable
  OneKeyPerInterceptor FreshInterceptor MetricsAreVerdicts
SYMMETRY MCSymmetry
\* Every request may have been answered.
CHECK_DEADLOCK FALSE
