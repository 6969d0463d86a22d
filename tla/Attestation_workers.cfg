\* Two workers, one registry; tokens live two ticks and calls stall one.
SPECIFICATION Spec
CONSTANTS
  w1 = w1
  w2 = w2
  c1 = c1
  c2 = c2
  NoKey = NoKey
  NoKid = NoKid
  NoJti = NoJti
  NoSession = NoSession
  Services = {w1, w2}
  Config <- MCWorkers
  Retention <- MCShared
  Foreign = {}
  Traces = {"j"}
  Subjects = {"m"}
  Sessions = {}
  Calls = {c1, c2}
  Validity = 2
  MaxClock = 3
  Stall = 1
SYMMETRY WorkerSymmetry
INVARIANTS TypeOK
PROPERTIES UniqueLiveJti AcceptedOnce ReplayMeansAccepted NoPhantomDuplicate
