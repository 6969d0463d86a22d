----------------------------- MODULE MCGateway -----------------------------
(* Environments and configurations for TLC. *)
EXTENDS Gateway, TLC

CONSTANTS a, b, key, r1, r2, s1, s2

\* The key changes hands, and is revoked.
MCKeyMaps == {(key :> a), (key :> b), << >>}

\* All agents, none, and one that cannot be loaded to its end.
MCTrustLists == {<<a>>, <<a, Unloadable, b>>}

MCDefaultConfig == [limit |-> 4, trusted |-> {}]
MCConfigs == {[limit |-> 2, trusted |-> {b}]}

MCSymmetry == Permutations(Requests) \cup Permutations(SigningKeys)

=============================================================================
