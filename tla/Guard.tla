------------------------------- MODULE Guard -------------------------------
(***************************************************************************)
(* What the verification engines share: the payload of one message, and    *)
(* the status of the dictionary _route_to_engine returns for it.           *)
(***************************************************************************)

CONSTANT Malformed     \* any JSON value of the wrong type for its place

VARIABLES payload, result

\* "verified" is the only status with verified=True; "blocked" is the result
\* without a status; "raised" is an exception that leaves the engine.
Results == {"pending", "verified", "heuristic_pass", "unverifiable",
            "blocked", "raised"}

Decide(status) == /\ result' = status
                  /\ UNCHANGED payload

=============================================================================
