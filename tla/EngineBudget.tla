---------------------------- MODULE EngineBudget ----------------------------
(***************************************************************************)
(* A2AVerificationInterceptor._run_engine: verification engines run on a   *)
(* private thread pool, under a counting semaphore (a run is refused at    *)
(* once when no slot is free), while the caller waits on the event loop    *)
(* under a wall-clock budget.  A member of Runs is one call of             *)
(* _run_engine.  Three parties move independently:                         *)
(*   - the caller's coroutine        Acquire, Submit*, Resume, Expire,     *)
(*                                   GiveUp, Cancel                        *)
(*   - the pool's worker threads     Job*                                  *)
(*   - the event loop                Deliver                               *)
(* and the owner may Close the interceptor at any time.                    *)
(***************************************************************************)
EXTENDS Integers, Sequences, FiniteSets

CONSTANTS Runs,              \* the calls of _run_engine
          Workers,           \* _ENGINE_WORKERS: threads of the pool
          Queue,             \* _ENGINE_QUEUE: runs allowed to wait
          EngineOutcomes,    \* what an engine can end with
          ThreadStartFails   \* may the operating system refuse a thread?

\* An engine returns a verdict, raises a TimeoutError of its own, or raises
\* something else.
ASSUME EngineAssumption == /\ Workers \in Nat \ {0}
                           /\ Queue \in Nat
                           /\ EngineOutcomes \subseteq {"verdict", "timeout_error", "raised"}
                           /\ ThreadStartFails \in BOOLEAN

Capacity == Workers + Queue

\* What a job can end with: the engine's outcome, or None for a skipped run.
Outcomes == {"verdict", "timeout_error", "raised", "none"}

\* What the caller of _run_engine can be told: an outcome of the job, or the
\* refusals of _run_engine itself.
FailClosed == {"busy", "refused", "engine_timeout", "cancelled"}
Answers == Outcomes \cup FailClosed

VARIABLES
  slots,       \* the semaphore's counter
  queue,       \* the executor's work queue, first in first out
  closed,      \* has the executor been shut down?
  caller,      \* the coroutine of each run: a program point or its answer
  job,         \* the job of each run, as the worker threads see it
  outcome,     \* what the job computed, once it has
  seen,        \* is the loop-side future (result) done?
  abandoned    \* the run's threading.Event

vars == <<slots, queue, closed, caller, job, outcome, seen, abandoned>>

-----------------------------------------------------------------------------
\* The jobs that occupy a thread of the pool.
OnThread == {r \in Runs : job[r] \in {"started", "engine", "finishing", "released"}}

\* The runs between their acquire and their release of a slot.
Holders == {r \in Runs : \/ caller[r] = "acquired"
                         \/ job[r] \in {"queued", "started", "engine", "finishing"}}

Answered(r) == caller[r] \in Answers

TypeOK ==
  /\ slots \in 0..Capacity
  /\ queue \in Seq(Runs)
  /\ closed \in BOOLEAN
  /\ caller \in [Runs -> {"idle", "acquired", "waiting", "expired"} \cup Answers]
  /\ job \in [Runs -> {"none", "queued", "started", "engine", "finishing",
                       "released", "done"}]
  /\ outcome \in [Runs -> Outcomes \cup {"pending"}]
  /\ seen \in [Runs -> BOOLEAN]
  /\ abandoned \in [Runs -> BOOLEAN]

Init ==
  /\ slots = Capacity
  /\ queue = <<>>
  /\ closed = FALSE
  /\ caller = [r \in Runs |-> "idle"]
  /\ job = [r \in Runs |-> "none"]
  /\ outcome = [r \in Runs |-> "pending"]
  /\ seen = [r \in Runs |-> FALSE]
  /\ abandoned = [r \in Runs |-> FALSE]

-----------------------------------------------------------------------------
(* The caller, up to the first await. *)

\* Mutation: a semaphore without the bound.
ReleaseUnbounded == slots' = slots + 1

\* The semaphore is bounded: a release over its initial value raises
\* ValueError and leaves the counter as it is.
Release == slots' = IF slots < Capacity THEN slots + 1 ELSE slots

\* Non-blocking acquire; without a slot the run is refused at once.
Acquire(r) ==
  /\ caller[r] = "idle"
  /\ \/ /\ slots > 0
        /\ slots' = slots - 1
        /\ caller' = [caller EXCEPT ![r] = "acquired"]
     \/ /\ slots = 0
        /\ caller' = [caller EXCEPT ![r] = "busy"]
        /\ UNCHANGED slots
  /\ UNCHANGED <<queue, closed, job, outcome, seen, abandoned>>

SubmitAccepted(r) ==
  /\ caller[r] = "acquired"
  /\ ~closed
  /\ queue' = Append(queue, r)
  /\ job' = [job EXCEPT ![r] = "queued"]
  /\ caller' = [caller EXCEPT ![r] = "waiting"]
  /\ UNCHANGED <<slots, closed, outcome, seen, abandoned>>

\* Mutation: the failed submit keeps its slot.
SubmitRefusedLeaks(r) ==
  /\ caller[r] = "acquired"
  /\ closed
  /\ caller' = [caller EXCEPT ![r] = "refused"]
  /\ UNCHANGED <<slots, queue, closed, job, outcome, seen, abandoned>>

\* submit raises on an executor that was shut down: the slot is given back.
SubmitRefused(r) ==
  /\ caller[r] = "acquired"
  /\ closed
  /\ Release
  /\ caller' = [caller EXCEPT ![r] = "refused"]
  /\ UNCHANGED <<queue, closed, job, outcome, seen, abandoned>>

\* submit enqueues the job before it starts a thread for it.  When that start
\* fails it raises all the same: the caller gives the slot back, and the job
\* stays in the queue with its event unset.
SubmitLost(r) ==
  /\ ThreadStartFails
  /\ caller[r] = "acquired"
  /\ ~closed
  /\ queue' = Append(queue, r)
  /\ job' = [job EXCEPT ![r] = "queued"]
  /\ Release
  /\ caller' = [caller EXCEPT ![r] = "refused"]
  /\ UNCHANGED <<closed, outcome, seen, abandoned>>

-----------------------------------------------------------------------------
(* The worker threads. *)

JobStart(r) ==
  /\ queue # <<>>
  /\ r = Head(queue)
  /\ Cardinality(OnThread) < Workers
  /\ queue' = Tail(queue)
  /\ job' = [job EXCEPT ![r] = "started"]
  /\ UNCHANGED <<slots, closed, caller, outcome, seen, abandoned>>

\* The first statement of job(): an abandoned run returns None.
JobCheck(r) ==
  /\ job[r] = "started"
  /\ \/ /\ abandoned[r]
        /\ job' = [job EXCEPT ![r] = "finishing"]
        /\ outcome' = [outcome EXCEPT ![r] = "none"]
     \/ /\ ~abandoned[r]
        /\ job' = [job EXCEPT ![r] = "engine"]
        /\ UNCHANGED outcome
  /\ UNCHANGED <<slots, queue, closed, caller, seen, abandoned>>

EngineEnds(r) ==
  /\ job[r] = "engine"
  /\ job' = [job EXCEPT ![r] = "finishing"]
  /\ \E o \in EngineOutcomes : outcome' = [outcome EXCEPT ![r] = o]
  /\ UNCHANGED <<slots, queue, closed, caller, seen, abandoned>>

\* Mutation: the release stands after the engine call, not in a finally.
JobReleaseNotFinally(r) ==
  /\ job[r] = "finishing"
  /\ job' = [job EXCEPT ![r] = "released"]
  /\ IF outcome[r] \in {"verdict", "none"} THEN Release ELSE UNCHANGED slots
  /\ UNCHANGED <<queue, closed, caller, outcome, seen, abandoned>>

\* The finally of job().  One release too many raises ValueError, which
\* replaces whatever the job was about to return.
JobRelease(r) ==
  /\ job[r] = "finishing"
  /\ job' = [job EXCEPT ![r] = "released"]
  /\ Release
  /\ outcome' = [outcome EXCEPT ![r] = IF slots < Capacity THEN @ ELSE "raised"]
  /\ UNCHANGED <<queue, closed, caller, seen, abandoned>>

\* The pool's future gets the outcome and the thread takes its next job.
JobDone(r) ==
  /\ job[r] = "released"
  /\ job' = [job EXCEPT ![r] = "done"]
  /\ UNCHANGED <<slots, queue, closed, caller, outcome, seen, abandoned>>

-----------------------------------------------------------------------------
(* The event loop, and the caller after the await. *)

\* The pool's future is copied to the loop's (wrap_future), which exists only
\* for a run whose submit returned; consume_late_error reads its exception.
Deliver(r) ==
  /\ job[r] = "done"
  /\ ~seen[r]
  /\ caller[r] # "refused"
  /\ seen' = [seen EXCEPT ![r] = TRUE]
  /\ UNCHANGED <<slots, queue, closed, caller, job, outcome, abandoned>>

\* The coroutine resumes with the job's outcome, within the budget.
Resume(r) ==
  /\ caller[r] = "waiting"
  /\ seen[r]
  /\ caller' = [caller EXCEPT ![r] = outcome[r]]
  /\ abandoned' = [abandoned EXCEPT ![r] = TRUE]
  /\ UNCHANGED <<slots, queue, closed, job, outcome, seen>>

\* Mutation: on a timeout the caller marks the run and goes on waiting.
ExpireKeepsWaiting(r) ==
  /\ caller[r] = "waiting"
  /\ abandoned' = [abandoned EXCEPT ![r] = TRUE]
  /\ UNCHANGED <<slots, queue, closed, caller, job, outcome, seen>>

\* Mutation: the budget counts from the start of the engine.
ExpireOnceRunning(r) ==
  /\ caller[r] = "waiting"
  /\ job[r] \notin {"queued", "started"}
  /\ caller' = [caller EXCEPT ![r] = "expired"]
  /\ UNCHANGED <<slots, queue, closed, job, outcome, seen, abandoned>>

\* The budget runs out: wait_for cancels the shield, never the pool's future.
\* It may do so in the loop turns between "result is done" and Resume.
Expire(r) ==
  /\ caller[r] = "waiting"
  /\ caller' = [caller EXCEPT ![r] = "expired"]
  /\ UNCHANGED <<slots, queue, closed, job, outcome, seen, abandoned>>

\* Mutation: the caller gives the slot back when its budget runs out.
GiveUpReleases(r) ==
  /\ caller[r] = "expired"
  /\ caller' = [caller EXCEPT ![r] = "engine_timeout"]
  /\ abandoned' = [abandoned EXCEPT ![r] = TRUE]
  /\ Release
  /\ UNCHANGED <<queue, closed, job, outcome, seen>>

\* except asyncio.TimeoutError: when result is done with an exception the
\* TimeoutError is raised again, otherwise it becomes _EngineTimeoutError.
GiveUp(r) ==
  /\ caller[r] = "expired"
  /\ caller' = [caller EXCEPT ![r] =
       IF seen[r] /\ outcome[r] \in {"timeout_error", "raised"}
       THEN "timeout_error" ELSE "engine_timeout"]
  /\ abandoned' = [abandoned EXCEPT ![r] = TRUE]
  /\ UNCHANGED <<slots, queue, closed, job, outcome, seen>>

\* Mutation: the event is set on a timeout only.
CancelForgets(r) ==
  /\ caller[r] \in {"waiting", "expired"}
  /\ caller' = [caller EXCEPT ![r] = "cancelled"]
  /\ UNCHANGED <<slots, queue, closed, job, outcome, seen, abandoned>>

\* The task that awaits the run is cancelled, e.g. its client went away.
Cancel(r) ==
  /\ caller[r] \in {"waiting", "expired"}
  /\ caller' = [caller EXCEPT ![r] = "cancelled"]
  /\ abandoned' = [abandoned EXCEPT ![r] = TRUE]
  /\ UNCHANGED <<slots, queue, closed, job, outcome, seen>>

\* Mutation: shutdown(wait=False, cancel_futures=True).
CloseCancels ==
  /\ ~closed
  /\ closed' = TRUE
  /\ queue' = << >>
  /\ UNCHANGED <<slots, caller, job, outcome, seen, abandoned>>

\* shutdown(wait=False): what is queued still runs, nothing new is accepted.
Close ==
  /\ ~closed
  /\ closed' = TRUE
  /\ UNCHANGED <<slots, queue, caller, job, outcome, seen, abandoned>>

-----------------------------------------------------------------------------
Submit(r) == SubmitAccepted(r) \/ SubmitRefused(r) \/ SubmitLost(r)
CallerStep(r) == \/ Acquire(r) \/ Submit(r) \/ Deliver(r) \/ Resume(r)
                 \/ Expire(r) \/ GiveUp(r) \/ Cancel(r)
JobStep(r) == \/ JobStart(r) \/ JobCheck(r) \/ EngineEnds(r)
              \/ JobRelease(r) \/ JobDone(r)

Next == Close \/ \E r \in Runs : CallerStep(r) \/ JobStep(r)

Spec == Init /\ [][Next]_vars

\* The event loop runs: a coroutine that can proceed does, and the timer of
\* wait_for fires.  Nothing is assumed of the worker threads or the engines:
\* an engine may never return.
LoopFairness == \A r \in Runs : /\ WF_vars(Submit(r))
                                /\ WF_vars(Resume(r))
                                /\ WF_vars(Expire(r))
                                /\ WF_vars(GiveUp(r))
                                /\ WF_vars(Deliver(r))

LiveSpec == Spec /\ LoopFairness

\* The threads run and every engine terminates: the premise of the properties
\* that promise something of the threads.
WorkersTerminate == \A r \in Runs : WF_vars(JobStep(r))

-----------------------------------------------------------------------------
(* Properties. *)

\* The runs whose submit raised although their job had been enqueued.
Lost == {r \in Runs : caller[r] = "refused" /\ job[r] # "none"}

\* Slots are neither leaked nor invented: the free slots and the runs that
\* hold one always add up to the capacity, whatever the order in which jobs
\* finish, callers give up and the pool is closed ("a slot is freed only when
\* a worker is done with the job", _run_engine).  Every lost submit may add
\* one slot too many, and nothing else may.
SlotAccounting ==
  LET total == slots + Cardinality(Holders)
  IN  Capacity <= total /\ total <= Capacity + Cardinality(Lost)

\* "At most _ENGINE_WORKERS + _ENGINE_QUEUE runs are in flight" (_run_engine).
InFlightBound == Cardinality(Holders) <= Capacity

\* A skipped job returns None into a future; no caller of _run_engine may ever
\* receive it, since intercept would call None.get outside its try block.
CallerNeverGetsNone == \A r \in Runs : caller[r] # "none"

\* A run whose caller has its answer and that has not reached the engine yet
\* never will: an abandoned run costs a thread nothing but the check.
AbandonedNeverRuns ==
  [][\A r \in Runs : (Answered(r) /\ job[r] \in {"queued", "started"})
                        => job'[r] # "engine"]_vars

\* A TimeoutError leaves _run_engine only when the engine raised one: the
\* comment on its except clause ("report that as the engine error it is").
TimeoutErrorIsTheEngines ==
  \A r \in Runs : caller[r] = "timeout_error" => outcome[r] = "timeout_error"

\* With the event loop alone running, every call is answered, even when all
\* the worker threads are stuck in an engine that never returns.
EveryCallAnswered == \A r \in Runs : caller[r] # "idle" ~> Answered(r)

\* With terminating engines every slot comes back, whoever timed out, was
\* cancelled or closed the pool meanwhile.
SlotsComeBack == WorkersTerminate => <>[](slots = Capacity)

\* close() cancels no pending run: what was queued is worked off.  A lost
\* submit may have left no thread behind, so nothing is promised of its job.
PendingRunsFinish ==
  WorkersTerminate =>
    \A r \in Runs : (job[r] = "queued" /\ caller[r] # "refused")
                        ~> job[r] = "done"

\* The abstract specification this one implements (unless a thread start
\* fails): the runs in flight are those that hold a slot, and a caller that
\* has no answer yet waits.
Said(r) == CASE caller[r] = "idle" -> "nothing"
             [] caller[r] \in {"acquired", "waiting", "expired"} -> "wait"
             [] OTHER -> caller[r]

Gate == INSTANCE EngineGate WITH
          inflight <- Holders,
          said <- [r \in Runs |-> Said(r)]

GateSpec == Gate!GateSpec

=============================================================================
