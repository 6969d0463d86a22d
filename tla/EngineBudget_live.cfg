\* One thread, one waiting place, and thread starts that may fail.  The event
\* loop is fair, the worker threads are not: engines may never return, except
\* where a property assumes that they do.
SPECIFICATION LiveSpec
CONSTANTS
  r1 = r1
  r2 = r2
  r3 = r3
  Runs <- MCRuns3
  Workers = 1
  Queue = 1
  EngineOutcomes = {"raised"}
  ThreadStartFails = TRUE
INVARIANTS TypeOK SlotAccounting
PROPERTIES EveryCallAnswered SlotsComeBack PendingRunsFinish
CHECK_DEADLOCK FALSE
