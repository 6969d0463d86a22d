----------------------------- MODULE TrustRate -----------------------------
(***************************************************************************)
(* TrustBoundary with a history: the times at which each pair was allowed  *)
(* to send.  "max_requests_per_minute" is a claim about that history: the  *)
(* bucket, its lazy refill, its creation and its eviction are only means.  *)
(***************************************************************************)
EXTENDS TrustBoundary, Sequences

VARIABLE passed    \* per pair, the monotonic times of its allowed calls

rateVars == <<vars, passed>>

RateInit == Init /\ passed = [p \in Pairs |-> << >>]

RateEvaluate(pair) ==
  /\ EvaluatePair(pair)
  /\ passed' = IF reply' = "allowed"
               THEN [passed EXCEPT ![pair] = Append(@, mono)] ELSE passed

RateNext ==
  \/ (Administer \/ Tick \/ StepWall) /\ UNCHANGED passed
  \/ \E pair \in Pairs : RateEvaluate(pair)

RateSpec == RateInit /\ [][RateNext]_rateVars

-----------------------------------------------------------------------------
\* No window lets a pair send more than the burst and the steady rate allow:
\* MaxRequests calls, and MaxRequests more per minute of the window's length.
\* Stepping the wall clock, blocking, granting, and the eviction and
\* re-creation of buckets must not change that.
WindowBound ==
  \A p \in Pairs : \A i, j \in 1..Len(passed[p]) :
    i <= j => (j - i + 1) * Minute
                <= Capacity + (passed[p][j] - passed[p][i]) * MaxRequests

=============================================================================
