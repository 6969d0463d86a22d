-------------------------- MODULE MCTrustBoundary --------------------------
(* Instances of TrustBoundary for TLC. *)
EXTENDS TrustBoundary, TLC

CONSTANTS a, b, general

MCAgents == {a, b}
MCTypes == {general, "code"}

Anyone == [receivers |-> MCAgents, types |-> MCTypes, until |-> Forever]

\* For the rate limiter: one kind of grant, both directions of one pair.
RateGrants == {Anyone}
RateBatches == {(a :> Anyone) @@ (b :> Anyone)}
RatePairs == {<<a, b>>, <<b, a>>}

\* For the trust decision: scopes by peer and by type, and an expiry.
TrustGrants == {Anyone,
                [Anyone EXCEPT !.until = 1],
                [Anyone EXCEPT !.receivers = {b}, !.until = 2],
                [Anyone EXCEPT !.types = {general}]}
TrustBatches == {(a :> [Anyone EXCEPT !.until = 1]) @@ (b :> Anyone)}
TrustPairs == {<<a, b>>, <<a, a>>}

=============================================================================
