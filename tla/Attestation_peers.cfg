\* A service with two peers, a rotated key and a key under two identities.
SPECIFICATION Spec
CONSTANTS
  w1 = w1
  w2 = w2
  c1 = c1
  c2 = c2
  NoKey = NoKey
  NoKid = NoKid
  NoJti = NoJti
  NoSession = NoSession
  Services = {w1}
  Config <- MCPeered
  Retention <- MCOwn
  Foreign <- MCForeign
  Traces = {"j"}
  Subjects = {"m"}
  Sessions = {"s1"}
  Calls = {c1}
  Validity = 1
  MaxClock = 2
  Stall = 1
INVARIANTS KeyHasOneIdentity
PROPERTIES ReplayMeansAccepted
