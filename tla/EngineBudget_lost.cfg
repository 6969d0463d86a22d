\* A thread start fails after its job was enqueued.
SPECIFICATION Spec
CONSTANTS
  r1 = r1
  r2 = r2
  r3 = r3
  Runs <- MCRuns3
  Workers = 1
  Queue = 1
  EngineOutcomes = {"verdict", "timeout_error", "raised"}
  ThreadStartFails = TRUE
SYMMETRY Symmetry3
INVARIANTS InFlightBound
CHECK_DEADLOCK FALSE
