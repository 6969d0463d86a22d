\* The budget runs out between the end of the job and the resumption of its caller.
SPECIFICATION Spec
CONSTANTS
  r1 = r1
  r2 = r2
  r3 = r3
  Runs <- MCRuns3
  Workers = 1
  Queue = 1
  EngineOutcomes = {"verdict", "timeout_error", "raised"}
  ThreadStartFails = FALSE
SYMMETRY Symmetry3
INVARIANTS TimeoutErrorIsTheEngines
CHECK_DEADLOCK FALSE
