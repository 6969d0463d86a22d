\* Two threads, no waiting place, three runs: the third finds the pool full, or
\* takes a slot that a job has just freed.
SPECIFICATION Spec
CONSTANTS
  r1 = r1
  r2 = r2
  r3 = r3
  Runs <- MCRuns3
  Workers = 2
  Queue = 0
  EngineOutcomes = {"verdict", "timeout_error", "raised"}
  ThreadStartFails = FALSE
SYMMETRY Symmetry3
INVARIANTS SlotAccounting CallerNeverGetsNone
PROPERTIES AbandonedNeverRuns GateSpec
\* Every run is one call: when all are answered and worked off, nothing happens.
CHECK_DEADLOCK FALSE
