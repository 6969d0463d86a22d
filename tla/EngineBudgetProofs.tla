------------------------- MODULE EngineBudgetProofs -------------------------
(***************************************************************************)
(* Proofs about EngineBudget, for any number of runs, threads and waiting  *)
(* places.  The inductive invariant IInv relates the three parties: what a *)
(* caller's program point says about its job (RunOK), what the queue says  *)
(* about the jobs in it (QueueOK), and the accounting of slots.            *)
(***************************************************************************)
EXTENDS EngineBudget, FiniteSetTheorems, SequenceTheorems, TLAPS

\* The caller, the job, the future and the event of one run agree.
RunOK(r) ==
  /\ caller[r] \in {"idle", "acquired", "busy"} => job[r] = "none"
  /\ job[r] \in {"finishing", "released", "done"} => outcome[r] # "pending"
  /\ seen[r] => job[r] = "done"
  /\ outcome[r] = "none" => abandoned[r]
  /\ abandoned[r] => Answered(r)
  /\ Answered(r) /\ job[r] \in {"queued", "started"}
       => abandoned[r] \/ caller[r] = "refused"
  /\ ~ThreadStartFails /\ caller[r] = "refused" => job[r] = "none"
  /\ caller[r] # "none"

QueueOK ==
  /\ \A i \in 1..Len(queue) : job[queue[i]] = "queued"
  /\ \A i, j \in 1..Len(queue) : queue[i] = queue[j] => i = j

Accounting ==
  /\ IsFiniteSet(Holders)
  /\ IsFiniteSet(Lost)
  /\ SlotAccounting

IInv == /\ TypeOK
        /\ \A r \in Runs : RunOK(r)
        /\ QueueOK
        /\ Accounting

LEMMA CapacityType == Capacity \in Nat \ {0}
  BY EngineAssumption DEF Capacity

-----------------------------------------------------------------------------
LEMMA InitIInv == Init => IInv
<1> SUFFICES ASSUME Init PROVE IInv
  OBVIOUS
<1>1. TypeOK
  <2>1. slots \in 0..Capacity
    BY CapacityType DEF Init
  <2>2. queue \in Seq(Runs) /\ closed \in BOOLEAN
    BY EmptySeq DEF Init
  <2>3. QED
    BY <2>1, <2>2 DEF Init, TypeOK
<1>2. \A r \in Runs : RunOK(r)
  BY DEF Init, RunOK, Answered, Answers, Outcomes, FailClosed
<1>3. QueueOK
  BY DEF Init, QueueOK
<1>4. Holders = {} /\ Lost = {}
  BY DEF Init, Holders, Lost
<1>5. Accounting
  BY <1>4, FS_EmptySet, CapacityType DEF Accounting, SlotAccounting, Init
<1>6. QED
  BY <1>1, <1>2, <1>3, <1>5 DEF IInv

-----------------------------------------------------------------------------
(* The accounting of slots, one lemma per way a step can change it. *)

LEMMA AccountingSame ==
  ASSUME Accounting, slots' = slots, Holders' = Holders, Lost' = Lost
  PROVE  Accounting'
BY DEF Accounting, SlotAccounting, Capacity

LEMMA AccountingAcquire ==
  ASSUME TypeOK, Accounting, NEW r, r \notin Holders,
         slots' = slots - 1, Holders' = Holders \cup {r}, Lost' = Lost
  PROVE  Accounting'
<1>1. /\ IsFiniteSet(Holders')
      /\ Cardinality(Holders') = Cardinality(Holders) + 1
  BY FS_AddElement DEF Accounting
<1>2. Cardinality(Holders) \in Nat /\ Cardinality(Lost) \in Nat
  BY FS_CardinalityType DEF Accounting
<1>3. SlotAccounting'
  <2>1. slots' + Cardinality(Holders') = slots + Cardinality(Holders)
    BY <1>1, <1>2, CapacityType DEF TypeOK
  <2>2. QED
    BY <2>1 DEF Accounting, SlotAccounting, Capacity
<1>4. QED
  BY <1>1, <1>3 DEF Accounting

LEMMA AccountingRelease ==
  ASSUME TypeOK, Accounting, Release, NEW r \in Holders,
         Holders' = Holders \ {r}, Lost' = Lost
  PROVE  Accounting'
<1>1. /\ IsFiniteSet(Holders')
      /\ Cardinality(Holders') = Cardinality(Holders) - 1
  BY FS_RemoveElement DEF Accounting
<1>2. /\ Cardinality(Holders) \in Nat /\ Cardinality(Holders') \in Nat
      /\ Cardinality(Lost) \in Nat
  BY <1>1, FS_CardinalityType DEF Accounting
<1>3. SlotAccounting'
  BY <1>1, <1>2, CapacityType DEF Accounting, SlotAccounting, Release, TypeOK, Capacity
<1>4. QED
  BY <1>1, <1>3 DEF Accounting

LEMMA AccountingLost ==
  ASSUME TypeOK, Accounting, Release, NEW r, r \notin Lost,
         Holders' = Holders, Lost' = Lost \cup {r}
  PROVE  Accounting'
<1>1. /\ IsFiniteSet(Lost')
      /\ Cardinality(Lost') = Cardinality(Lost) + 1
  BY FS_AddElement DEF Accounting
<1>2. Cardinality(Holders) \in Nat /\ Cardinality(Lost) \in Nat
  BY FS_CardinalityType DEF Accounting
<1>3. SlotAccounting'
  BY <1>1, <1>2, CapacityType DEF Accounting, SlotAccounting, Release, TypeOK, Capacity
<1>4. QED
  BY <1>1, <1>3 DEF Accounting

-----------------------------------------------------------------------------
(* Every action preserves the invariant. *)

LEMMA AcquireIInv ==
  ASSUME IInv, NEW r \in Runs, Acquire(r)
  PROVE  IInv'
<1> USE DEF IInv
<1>1. TypeOK'
  BY CapacityType DEF TypeOK, Acquire, Answers, Outcomes, FailClosed
<1>2. \A q \in Runs : RunOK(q)'
  BY DEF TypeOK, Acquire, RunOK, Answered, Answers, Outcomes, FailClosed
<1>3. QueueOK'
  BY DEF Acquire, QueueOK
<1>4. Accounting'
  <2>1. Lost' = Lost
    BY DEF TypeOK, Acquire, Lost
  <2>2. r \notin Holders
    BY DEF Acquire, Holders, RunOK
  <2>3. CASE slots > 0
    <3>1. slots' = slots - 1 /\ Holders' = Holders \cup {r}
      BY <2>3, CapacityType DEF TypeOK, Acquire, Holders, RunOK
    <3>2. QED
      BY <2>1, <2>2, <3>1, AccountingAcquire
  <2>4. CASE slots = 0
    <3>1. slots' = slots /\ Holders' = Holders
      BY <2>4 DEF TypeOK, Acquire, Holders, RunOK
    <3>2. QED
      BY <2>1, <3>1, AccountingSame
  <2>5. QED
    BY <2>3, <2>4, CapacityType DEF TypeOK
<1>5. QED
  BY <1>1, <1>2, <1>3, <1>4

LEMMA SubmitIInv ==
  ASSUME IInv, NEW r \in Runs, Submit(r)
  PROVE  IInv'
<1> USE DEF IInv
<1>1. caller[r] = "acquired" /\ job[r] = "none" /\ r \in Holders /\ r \notin Lost
  BY DEF Submit, SubmitAccepted, SubmitRefused, SubmitLost, RunOK, Holders, Lost
<1>2. CASE SubmitRefused(r)
  <2>1. TypeOK'
    BY <1>2, CapacityType DEF TypeOK, SubmitRefused, Release, Answers, Outcomes, FailClosed
  <2>2. \A q \in Runs : RunOK(q)'
    BY <1>1, <1>2 DEF TypeOK, SubmitRefused, RunOK, Answered, Answers, Outcomes, FailClosed
  <2>3. QueueOK'
    BY <1>2 DEF SubmitRefused, QueueOK
  <2>4. Lost' = Lost /\ Holders' = Holders \ {r}
    BY <1>1, <1>2 DEF TypeOK, SubmitRefused, Lost, Holders
  <2>5. Accounting'
    BY <1>1, <1>2, <2>4, AccountingRelease DEF SubmitRefused
  <2>6. QED
    BY <2>1, <2>2, <2>3, <2>5
<1>3. ASSUME queue' = Append(queue, r), job' = [job EXCEPT ![r] = "queued"]
      PROVE  QueueOK'
  <2>1. /\ Len(queue') = Len(queue) + 1 /\ Len(queue) \in Nat
        /\ \A i \in 1..Len(queue) : queue'[i] = queue[i]
        /\ queue'[Len(queue) + 1] = r
    BY <1>3, AppendProperties, LenProperties DEF TypeOK
  <2>2. \A i \in 1..Len(queue) : queue[i] # r /\ queue[i] \in Runs
    BY <1>1, ElementOfSeq DEF QueueOK, TypeOK
  <2>3. QED
    BY <1>3, <2>1, <2>2 DEF QueueOK, TypeOK
<1>4. CASE SubmitAccepted(r)
  <2>1. TypeOK'
    BY <1>4, AppendProperties DEF TypeOK, SubmitAccepted, Answers, Outcomes, FailClosed
  <2>2. \A q \in Runs : RunOK(q)'
    BY <1>1, <1>4 DEF TypeOK, SubmitAccepted, RunOK, Answered, Answers, Outcomes, FailClosed
  <2>3. QueueOK'
    BY <1>3, <1>4 DEF SubmitAccepted
  <2>4. Lost' = Lost /\ Holders' = Holders
    BY <1>1, <1>4 DEF TypeOK, SubmitAccepted, Lost, Holders
  <2>5. Accounting'
    BY <1>4, <2>4, AccountingSame DEF SubmitAccepted
  <2>6. QED
    BY <2>1, <2>2, <2>3, <2>5
<1>5. CASE SubmitLost(r)
  <2>1. TypeOK'
    BY <1>5, CapacityType, AppendProperties
       DEF TypeOK, SubmitLost, Release, Answers, Outcomes, FailClosed
  <2>2. \A q \in Runs : RunOK(q)'
    BY <1>1, <1>5 DEF TypeOK, SubmitLost, RunOK, Answered, Answers, Outcomes, FailClosed
  <2>3. QueueOK'
    BY <1>3, <1>5 DEF SubmitLost
  <2>4. Lost' = Lost \cup {r} /\ Holders' = Holders
    BY <1>1, <1>5 DEF TypeOK, SubmitLost, Lost, Holders
  <2>5. Accounting'
    BY <1>1, <1>5, <2>4, AccountingLost DEF SubmitLost
  <2>6. QED
    BY <2>1, <2>2, <2>3, <2>5
<1>6. QED
  BY <1>2, <1>4, <1>5 DEF Submit

LEMMA JobStartIInv ==
  ASSUME IInv, NEW r \in Runs, JobStart(r)
  PROVE  IInv'
<1> USE DEF IInv
<1>1. /\ queue' = Tail(queue) /\ Len(queue') = Len(queue) - 1
      /\ Len(queue) \in Nat \ {0} /\ queue' \in Seq(Runs)
      /\ \A i \in 1..Len(queue') : queue'[i] = queue[i + 1]
  BY HeadTailProperties, EmptySeq, LenProperties DEF JobStart, TypeOK
<1>2. r = queue[1] /\ job[r] = "queued"
  BY <1>1, HeadTailProperties DEF JobStart, TypeOK, QueueOK
<1>3. TypeOK'
  BY <1>1 DEF TypeOK, JobStart
<1>4. \A q \in Runs : RunOK(q)'
  BY <1>2 DEF TypeOK, JobStart, RunOK, Answered
<1>5. QueueOK'
  <2>1. \A i \in 1..Len(queue') : /\ i + 1 \in 1..Len(queue) /\ i + 1 # 1
                                  /\ queue'[i] # r /\ queue'[i] \in Runs
    BY <1>1, <1>2, ElementOfSeq DEF QueueOK, TypeOK
  <2>2. \A i \in 1..Len(queue') : job'[queue'[i]] = "queued"
    BY <1>1, <2>1 DEF QueueOK, JobStart, TypeOK
  <2>3. \A i, j \in 1..Len(queue') : queue'[i] = queue'[j] => i = j
    BY <1>1, <2>1 DEF QueueOK
  <2>4. QED
    BY <2>2, <2>3 DEF QueueOK
<1>6. Lost' = Lost /\ Holders' = Holders
  BY <1>2 DEF TypeOK, JobStart, Lost, Holders
<1>7. Accounting'
  BY <1>6, AccountingSame DEF JobStart
<1>8. QED
  BY <1>3, <1>4, <1>5, <1>7

\* A job that is not queued is not in the queue.
LEMMA QueueUntouched ==
  ASSUME QueueOK, TypeOK, NEW r \in Runs, job[r] # "queued", queue' = queue,
         NEW s, job' = [job EXCEPT ![r] = s]
  PROVE  QueueOK'
<1>1. \A i \in 1..Len(queue) : queue[i] # r /\ queue[i] \in Runs
  BY ElementOfSeq DEF QueueOK, TypeOK
<1>2. QED
  BY <1>1 DEF QueueOK, TypeOK

LEMMA JobOnThreadIInv ==
  ASSUME IInv, NEW r \in Runs,
         JobCheck(r) \/ EngineEnds(r) \/ JobRelease(r) \/ JobDone(r)
  PROVE  IInv'
<1> USE DEF IInv
<1>1. TypeOK'
  BY EngineAssumption, CapacityType
     DEF TypeOK, JobCheck, EngineEnds, JobRelease, JobDone, Release, Outcomes
<1>2. \A q \in Runs : RunOK(q)'
  <2>1. CASE JobCheck(r)
    BY <2>1 DEF TypeOK, JobCheck, RunOK, Answered
  <2>2. CASE EngineEnds(r)
    BY <2>2, EngineAssumption DEF TypeOK, EngineEnds, RunOK, Answered
  <2>3. CASE JobRelease(r)
    BY <2>3 DEF TypeOK, JobRelease, RunOK, Answered
  <2>4. CASE JobDone(r)
    BY <2>4 DEF TypeOK, JobDone, RunOK, Answered
  <2>5. QED
    BY <2>1, <2>2, <2>3, <2>4
<1>3. QueueOK'
  BY QueueUntouched DEF JobCheck, EngineEnds, JobRelease, JobDone
<1>4. Accounting'
  <2>1. Lost' = Lost
    BY DEF TypeOK, JobCheck, EngineEnds, JobRelease, JobDone, Lost
  <2>2. CASE JobRelease(r)
    <3>1. r \in Holders /\ Holders' = Holders \ {r}
      BY <2>2 DEF TypeOK, JobRelease, Holders, RunOK
    <3>2. QED
      BY <2>1, <2>2, <3>1, AccountingRelease DEF JobRelease
  <2>3. CASE JobCheck(r) \/ EngineEnds(r) \/ JobDone(r)
    <3>1. Holders' = Holders /\ slots' = slots
      BY <2>3 DEF TypeOK, JobCheck, EngineEnds, JobDone, Holders
    <3>2. QED
      BY <2>1, <3>1, AccountingSame
  <2>4. QED
    BY <2>2, <2>3
<1>5. QED
  BY <1>1, <1>2, <1>3, <1>4

LEMMA CallerAfterSubmitIInv ==
  ASSUME IInv, NEW r \in Runs,
         Deliver(r) \/ Resume(r) \/ Expire(r) \/ GiveUp(r) \/ Cancel(r)
  PROVE  IInv'
<1> USE DEF IInv
<1>1. TypeOK'
  BY DEF TypeOK, Deliver, Resume, Expire, GiveUp, Cancel, RunOK, Answers,
         Outcomes, FailClosed
<1>2. \A q \in Runs : RunOK(q)'
  <2>1. CASE Deliver(r)
    BY <2>1 DEF TypeOK, Deliver, RunOK, Answered
  <2>2. CASE Resume(r)
    BY <2>2 DEF TypeOK, Resume, RunOK, Answered, Answers, Outcomes, FailClosed
  <2>3. CASE Expire(r)
    BY <2>3 DEF TypeOK, Expire, RunOK, Answered, Answers, Outcomes, FailClosed
  <2>4. CASE GiveUp(r)
    BY <2>4 DEF TypeOK, GiveUp, RunOK, Answered, Answers, Outcomes, FailClosed
  <2>5. CASE Cancel(r)
    BY <2>5 DEF TypeOK, Cancel, RunOK, Answered, Answers, Outcomes, FailClosed
  <2>6. QED
    BY <2>1, <2>2, <2>3, <2>4, <2>5
<1>3. QueueOK'
  BY DEF QueueOK, Deliver, Resume, Expire, GiveUp, Cancel
<1>4. Lost' = Lost /\ Holders' = Holders /\ slots' = slots
  BY DEF TypeOK, Deliver, Resume, Expire, GiveUp, Cancel, RunOK, Lost, Holders,
         Outcomes
<1>5. Accounting'
  BY <1>4, AccountingSame
<1>6. QED
  BY <1>1, <1>2, <1>3, <1>5

LEMMA StutterIInv ==
  ASSUME IInv, Close \/ UNCHANGED vars
  PROVE  IInv'
<1> USE DEF IInv
<1>1. /\ UNCHANGED <<slots, queue, caller, job, outcome, seen, abandoned>>
      /\ closed' \in BOOLEAN
  BY DEF Close, vars, TypeOK
<1>2. TypeOK'
  BY <1>1 DEF TypeOK
<1>3. \A q \in Runs : RunOK(q)'
  BY <1>1 DEF RunOK, Answered
<1>4. QueueOK'
  BY <1>1 DEF QueueOK
<1>5. Lost' = Lost /\ Holders' = Holders
  BY <1>1 DEF Lost, Holders
<1>6. Accounting'
  BY <1>1, <1>5, AccountingSame
<1>7. QED
  BY <1>2, <1>3, <1>4, <1>6

LEMMA NextIInv == IInv /\ [Next]_vars => IInv'
<1> SUFFICES ASSUME IInv, [Next]_vars PROVE IInv'
  OBVIOUS
<1>1. CASE Close \/ UNCHANGED vars
  BY <1>1, StutterIInv
<1>2. ASSUME NEW r \in Runs, CallerStep(r) PROVE IInv'
  BY <1>2, AcquireIInv, SubmitIInv, CallerAfterSubmitIInv DEF CallerStep
<1>3. ASSUME NEW r \in Runs, JobStep(r) PROVE IInv'
  BY <1>3, JobStartIInv, JobOnThreadIInv DEF JobStep
<1>4. QED
  BY <1>1, <1>2, <1>3 DEF Next

-----------------------------------------------------------------------------
(* Theorems. *)

LEMMA Invariance == Spec => []IInv
<1>1. QED
  BY InitIInv, NextIInv, PTL DEF Spec

\* Every variable keeps its type; in particular the semaphore's counter stays
\* between 0 and its initial value although three places release it.
THEOREM TypeCorrect == Spec => []TypeOK
<1>1. IInv => TypeOK
  BY DEF IInv
<1>2. QED
  BY <1>1, Invariance, PTL

\* Slots are neither leaked nor invented, except one per lost submit.
THEOREM SlotsAccounted == Spec => []SlotAccounting
<1>1. IInv => SlotAccounting
  BY DEF IInv, Accounting
<1>2. QED
  BY <1>1, Invariance, PTL

\* Without thread-start failures no submit is lost, so the pool never holds
\* more runs than its workers and its queue allow.
LEMMA NoneLost ==
  ASSUME IInv, ~ThreadStartFails
  PROVE  Lost = {} /\ slots + Cardinality(Holders) = Capacity
<1>1. Lost = {}
  BY DEF IInv, RunOK, Lost
<1>2. Cardinality(Lost) = 0
  BY <1>1, FS_EmptySet
<1>3. Cardinality(Holders) \in Nat
  BY FS_CardinalityType DEF IInv, Accounting
<1>4. slots \in Nat
  BY CapacityType DEF IInv, TypeOK
<1>5. QED
  BY <1>1, <1>2, <1>3, <1>4, CapacityType DEF IInv, Accounting, SlotAccounting

\* "At most _ENGINE_WORKERS + _ENGINE_QUEUE runs are in flight" holds as long
\* as the operating system never refuses a thread.
THEOREM InFlightBounded == ~ThreadStartFails => (Spec => []InFlightBound)
<1> SUFFICES ASSUME ~ThreadStartFails PROVE Spec => []InFlightBound
  OBVIOUS
<1>1. IInv => InFlightBound
  <2> SUFFICES ASSUME IInv PROVE InFlightBound
    OBVIOUS
  <2>1. Cardinality(Holders) \in Nat /\ slots \in Nat
    BY FS_CardinalityType, CapacityType DEF IInv, Accounting, TypeOK
  <2>2. QED
    BY <2>1, NoneLost, CapacityType DEF InFlightBound
<1>2. QED
  BY <1>1, Invariance, PTL

\* No caller of _run_engine ever receives the None of a skipped run.
THEOREM NoNoneAnswer == Spec => []CallerNeverGetsNone
<1>1. IInv => CallerNeverGetsNone
  BY DEF IInv, RunOK, CallerNeverGetsNone
<1>2. QED
  BY <1>1, Invariance, PTL

\* A run whose caller was answered before it reached the engine never reaches
\* it: its event is set by the very step that answers the caller.
THEOREM AbandonedSkipped == ~ThreadStartFails => (Spec => AbandonedNeverRuns)
<1> DEFINE NoEngine == \A r \in Runs :
             (Answered(r) /\ job[r] \in {"queued", "started"}) => job'[r] # "engine"
<1> SUFFICES ASSUME ~ThreadStartFails PROVE Spec => AbandonedNeverRuns
  OBVIOUS
<1>1. IInv /\ [Next]_vars => [NoEngine]_vars
  <2> SUFFICES ASSUME IInv, Next, NEW r \in Runs, Answered(r),
                      job[r] \in {"queued", "started"}
               PROVE  job'[r] # "engine"
    OBVIOUS
  <2>1. abandoned[r]
    BY DEF IInv, RunOK
  <2>2. job[r] # "engine" /\ job \in [Runs -> {"none", "queued", "started",
          "engine", "finishing", "released", "done"}]
    BY DEF IInv, TypeOK
  <2>3. CASE Close
    BY <2>2, <2>3 DEF Close
  <2>4. ASSUME NEW q \in Runs, CallerStep(q) PROVE job'[r] # "engine"
    BY <2>2, <2>4 DEF CallerStep, Acquire, Submit, SubmitAccepted, SubmitRefused,
       SubmitLost, Deliver, Resume, Expire, GiveUp, Cancel
  <2>5. ASSUME NEW q \in Runs, JobStep(q) PROVE job'[r] # "engine"
    BY <2>1, <2>2, <2>5 DEF JobStep, JobStart, JobCheck, EngineEnds, JobRelease, JobDone
  <2>6. QED
    BY <2>3, <2>4, <2>5 DEF Next
<1>2. QED
  BY <1>1, Invariance, PTL DEF Spec, AbandonedNeverRuns

-----------------------------------------------------------------------------
(* Refinement: every step of EngineBudget is a step of EngineGate or leaves *)
(* the mapped variables alone.                                              *)

SaidMap == [r \in Runs |-> Said(r)]

LEMMA SaidStep ==
  ASSUME TypeOK, NEW r \in Runs, NEW a, caller' = [caller EXCEPT ![r] = a]
  PROVE  SaidMap' = [SaidMap EXCEPT ![r] =
           CASE a = "idle" -> "nothing"
             [] a \in {"acquired", "waiting", "expired"} -> "wait"
             [] OTHER -> a]
BY DEF SaidMap, Said, TypeOK

\* EngineGate counts with its own instance of FiniteSets.
LEMMA SameCardinality == Gate!Cardinality(Holders) = Cardinality(Holders)
  BY DEF Cardinality, Gate!Cardinality

LEMMA AcquireImplements ==
  ASSUME IInv, ~ThreadStartFails, NEW r \in Runs, Acquire(r)
  PROVE  Gate!GateNext
<1> USE DEF IInv
<1>1. Cardinality(Holders) \in Nat /\ slots \in Nat
  BY FS_CardinalityType, CapacityType DEF Accounting, TypeOK
<1>2. slots + Cardinality(Holders) = Capacity
  BY NoneLost
<1>3. SaidMap[r] = "nothing"
  BY DEF SaidMap, Said, Acquire
<1>4. CASE slots > 0
  <2>1. SaidMap' = [SaidMap EXCEPT ![r] = "wait"]
    BY <1>4, SaidStep DEF Acquire
  <2>2. Holders' = Holders \cup {r}
    BY <1>4 DEF TypeOK, Acquire, Holders, RunOK
  <2>3. Cardinality(Holders) < Capacity
    BY <1>1, <1>2, <1>4, CapacityType
  <2>4. Gate!Admit(r)
    BY <1>3, <2>1, <2>2, <2>3, SameCardinality DEF Gate!Admit, SaidMap
  <2>5. QED
    BY <2>4 DEF Gate!GateNext
<1>5. CASE slots = 0
  <2>1. SaidMap' = [SaidMap EXCEPT ![r] = "busy"]
    BY <1>5, SaidStep DEF Acquire
  <2>2. Holders' = Holders
    BY <1>5 DEF TypeOK, Acquire, Holders, RunOK
  <2>3. Cardinality(Holders) = Capacity
    BY <1>1, <1>2, <1>5, CapacityType
  <2>4. Gate!Refuse(r)
    BY <1>3, <2>1, <2>2, <2>3, SameCardinality DEF Gate!Refuse, SaidMap
  <2>5. QED
    BY <2>4 DEF Gate!GateNext
<1>6. QED
  BY <1>1, <1>4, <1>5

LEMMA SubmitImplements ==
  ASSUME IInv, ~ThreadStartFails, NEW r \in Runs, Submit(r)
  PROVE  [Gate!GateNext]_<<Holders, SaidMap>>
<1> USE DEF IInv
<1>1. caller[r] = "acquired" /\ job[r] = "none" /\ r \in Holders /\ SaidMap[r] = "wait"
  BY DEF Submit, SubmitAccepted, SubmitRefused, SubmitLost, RunOK, Holders, SaidMap, Said
<1>2. CASE SubmitAccepted(r)
  <2>1. Holders' = Holders
    BY <1>1, <1>2 DEF TypeOK, SubmitAccepted, Holders
  <2>2. SaidMap' = [SaidMap EXCEPT ![r] = "wait"]
    BY <1>2, SaidStep DEF SubmitAccepted
  <2>3. SaidMap' = SaidMap
    BY <1>1, <2>2 DEF SaidMap
  <2>4. QED
    BY <2>1, <2>3
<1>3. CASE SubmitRefused(r)
  <2>1. Holders' = Holders \ {r}
    BY <1>1, <1>3 DEF TypeOK, SubmitRefused, Holders
  <2>2. SaidMap' = [SaidMap EXCEPT ![r] = "refused"]
    BY <1>3, SaidStep DEF SubmitRefused
  <2>3. Gate!TurnAway(r)
    BY <1>1, <2>1, <2>2 DEF Gate!TurnAway, SaidMap
  <2>4. QED
    BY <2>3 DEF Gate!GateNext
<1>4. QED
  BY <1>2, <1>3 DEF Submit, SubmitLost

LEMMA JobImplements ==
  ASSUME IInv, NEW r \in Runs, JobStep(r)
  PROVE  [Gate!GateNext]_<<Holders, SaidMap>>
<1> USE DEF IInv
<1>1. SaidMap' = SaidMap
  BY DEF JobStep, JobStart, JobCheck, EngineEnds, JobRelease, JobDone, SaidMap, Said
<1>2. CASE JobRelease(r)
  <2>1. r \in Holders /\ Holders' = Holders \ {r}
    BY <1>2 DEF TypeOK, JobRelease, Holders, RunOK
  <2>2. SaidMap[r] # "nothing"
    BY <1>2 DEF JobRelease, RunOK, SaidMap, Said, TypeOK, Answers, Outcomes, FailClosed
  <2>3. Gate!Leave(r)
    BY <1>1, <2>1, <2>2 DEF Gate!Leave, SaidMap
  <2>4. QED
    BY <2>3 DEF Gate!GateNext
<1>3. CASE JobCheck(r) \/ EngineEnds(r) \/ JobDone(r)
  <2>1. Holders' = Holders
    BY <1>3 DEF TypeOK, JobCheck, EngineEnds, JobDone, Holders
  <2>2. QED
    BY <1>1, <2>1
<1>4. CASE JobStart(r)
  <2>1. Len(queue) \in Nat \ {0} /\ r = queue[1]
    BY <1>4, HeadTailProperties, EmptySeq, LenProperties DEF JobStart, TypeOK
  <2>2. job[r] = "queued"
    BY <2>1 DEF QueueOK
  <2>3. Holders' = Holders
    BY <1>4, <2>2 DEF TypeOK, JobStart, Holders
  <2>4. QED
    BY <1>1, <2>3
<1>5. QED
  BY <1>2, <1>3, <1>4 DEF JobStep

LEMMA CallerImplements ==
  ASSUME IInv, NEW r \in Runs,
         Deliver(r) \/ Resume(r) \/ Expire(r) \/ GiveUp(r) \/ Cancel(r)
  PROVE  [Gate!GateNext]_<<Holders, SaidMap>>
<1> USE DEF IInv
<1>1. Holders' = Holders
  BY DEF TypeOK, Deliver, Resume, Expire, GiveUp, Cancel, RunOK, Holders, Outcomes
<1>2. CASE Deliver(r)
  <2>1. SaidMap' = SaidMap
    BY <1>2 DEF Deliver, SaidMap, Said
  <2>2. QED
    BY <1>1, <2>1
<1>3. CASE Expire(r)
  <2>1. SaidMap[r] = "wait"
    BY <1>3 DEF Expire, SaidMap, Said
  <2>2. SaidMap' = [SaidMap EXCEPT ![r] = "wait"]
    BY <1>3, SaidStep DEF Expire
  <2>3. SaidMap' = SaidMap
    BY <2>1, <2>2 DEF SaidMap
  <2>4. QED
    BY <1>1, <2>3
<1>4. CASE Resume(r)
  <2>1. SaidMap[r] = "wait" /\ r \notin Holders
    BY <1>4 DEF Resume, RunOK, SaidMap, Said, Holders
  <2>2. outcome[r] \in Gate!FromEngine
    BY <1>4 DEF Resume, RunOK, TypeOK, Outcomes, Answered, Answers, FailClosed,
                Gate!FromEngine
  <2>3. SaidMap' = [SaidMap EXCEPT ![r] = outcome[r]]
    BY <1>4, <2>2, SaidStep DEF Resume, Gate!FromEngine
  <2>4. Gate!AnswerFromEngine(r)
    BY <1>1, <2>1, <2>2, <2>3 DEF Gate!AnswerFromEngine, SaidMap
  <2>5. QED
    BY <2>4 DEF Gate!GateNext
<1>5. CASE GiveUp(r) /\ caller'[r] = "timeout_error"
  <2>1. SaidMap[r] = "wait" /\ r \notin Holders
    BY <1>5 DEF GiveUp, RunOK, SaidMap, Said, Holders, TypeOK
  <2>2. SaidMap' = [SaidMap EXCEPT ![r] = "timeout_error"]
    <3>1. caller' = [caller EXCEPT ![r] = "timeout_error"]
      BY <1>5 DEF GiveUp, TypeOK
    <3>2. QED
      BY <3>1, SaidStep
  <2>3. Gate!AnswerFromEngine(r)
    BY <1>1, <2>1, <2>2 DEF Gate!AnswerFromEngine, Gate!FromEngine, SaidMap
  <2>4. QED
    BY <2>3 DEF Gate!GateNext
<1>6. CASE Cancel(r) \/ (GiveUp(r) /\ caller'[r] # "timeout_error")
  <2>1. SaidMap[r] = "wait"
    BY <1>6 DEF GiveUp, Cancel, SaidMap, Said
  <2>2. PICK a \in {"cancelled", "engine_timeout"} : caller' = [caller EXCEPT ![r] = a]
    BY <1>6 DEF GiveUp, Cancel, TypeOK
  <2>3. SaidMap' = [SaidMap EXCEPT ![r] = a]
    BY <2>2, SaidStep
  <2>4. Gate!AnswerFromGate(r)
    BY <1>1, <2>1, <2>2, <2>3 DEF Gate!AnswerFromGate, Gate!FromGate, SaidMap
  <2>5. QED
    BY <2>4 DEF Gate!GateNext
<1>7. QED
  BY <1>2, <1>3, <1>4, <1>5, <1>6

\* _run_engine implements the gate: refused as busy exactly when Capacity runs
\* are in flight, one answer per call, the engine's answer only for a run that
\* gave its slot back.
THEOREM ImplementsGate == ~ThreadStartFails => (Spec => GateSpec)
<1> SUFFICES ASSUME ~ThreadStartFails PROVE Spec => GateSpec
  OBVIOUS
<1>1. Init => Gate!GateInit
  BY DEF Init, Gate!GateInit, Holders, Said
<1>2. IInv /\ [Next]_vars => [Gate!GateNext]_<<Holders, SaidMap>>
  <2> SUFFICES ASSUME IInv, [Next]_vars
               PROVE  [Gate!GateNext]_<<Holders, SaidMap>>
    OBVIOUS
  <2>1. CASE Close \/ UNCHANGED vars
    BY <2>1 DEF Close, vars, Holders, SaidMap, Said
  <2>2. ASSUME NEW r \in Runs, CallerStep(r)
        PROVE  [Gate!GateNext]_<<Holders, SaidMap>>
    BY <2>2, AcquireImplements, SubmitImplements, CallerImplements DEF CallerStep
  <2>3. ASSUME NEW r \in Runs, JobStep(r)
        PROVE  [Gate!GateNext]_<<Holders, SaidMap>>
    BY <2>3, JobImplements
  <2>4. QED
    BY <2>1, <2>2, <2>3 DEF Next
<1>3. IInv /\ [Next]_vars => [Gate!GateNext]_Gate!gateVars
  BY <1>2 DEF Gate!gateVars, SaidMap
<1>4. QED
  BY <1>1, <1>3, Invariance, PTL DEF Spec, GateSpec, Gate!GateSpec

=============================================================================
