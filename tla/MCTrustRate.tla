---------------------------- MODULE MCTrustRate ----------------------------
(* One pair of agents with default_allow: the limiter alone decides. *)
EXTENDS TrustRate, TLC

CONSTANTS a, b

MCAgents == {a, b}
MCPairs == {<<a, b>>}
MCTypes == {"general"}

=============================================================================
