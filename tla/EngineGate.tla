----------------------------- MODULE EngineGate -----------------------------
(***************************************************************************)
(* What _run_engine promises, without threads, queue or futures: at most   *)
(* Capacity runs are in flight, a run is refused as busy exactly when that *)
(* many are, every run gets at most one answer, and the engine's own       *)
(* answer is given only for a run that is no longer in flight.  A caller   *)
(* may be answered before its run leaves: that is the budget running out.  *)
(***************************************************************************)
EXTENDS Naturals, FiniteSets

CONSTANTS Runs, Capacity

\* What ends a run from inside the engine, and what ends it from outside.
FromEngine == {"verdict", "raised", "timeout_error"}
FromGate == {"refused", "engine_timeout", "cancelled"}

VARIABLES inflight, said

gateVars == <<inflight, said>>

GateInit == /\ inflight = {}
            /\ said = [r \in Runs |-> "nothing"]

Admit(r) == /\ said[r] = "nothing"
            /\ Cardinality(inflight) < Capacity
            /\ inflight' = inflight \cup {r}
            /\ said' = [said EXCEPT ![r] = "wait"]

Refuse(r) == /\ said[r] = "nothing"
             /\ Cardinality(inflight) = Capacity
             /\ said' = [said EXCEPT ![r] = "busy"]
             /\ UNCHANGED inflight

\* The pool is shut down: admitted, and sent away before anything ran.
TurnAway(r) == /\ said[r] = "wait"
               /\ r \in inflight
               /\ inflight' = inflight \ {r}
               /\ said' = [said EXCEPT ![r] = "refused"]

Leave(r) == /\ r \in inflight
            /\ said[r] # "nothing"
            /\ inflight' = inflight \ {r}
            /\ UNCHANGED said

AnswerFromEngine(r) == /\ said[r] = "wait"
                       /\ r \notin inflight
                       /\ \E a \in FromEngine : said' = [said EXCEPT ![r] = a]
                       /\ UNCHANGED inflight

AnswerFromGate(r) == /\ said[r] = "wait"
                     /\ \E a \in FromGate : said' = [said EXCEPT ![r] = a]
                     /\ UNCHANGED inflight

GateNext == \E r \in Runs : \/ Admit(r) \/ Refuse(r) \/ TurnAway(r)
                            \/ Leave(r) \/ AnswerFromEngine(r)
                            \/ AnswerFromGate(r)

GateSpec == GateInit /\ [][GateNext]_gateVars

=============================================================================
