--------------------------- MODULE MCEngineBudget ---------------------------
(* Instances of EngineBudget for TLC. *)
EXTENDS EngineBudget, TLC

CONSTANTS r1, r2, r3

MCRuns3 == {r1, r2, r3}

\* Runs are interchangeable: no action or safety property names one.
Symmetry3 == Permutations(MCRuns3)

=============================================================================
