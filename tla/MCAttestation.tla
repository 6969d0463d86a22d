--------------------------- MODULE MCAttestation ---------------------------
(* Instances of Attestation for TLC. *)
EXTENDS Attestation, TLC

CONSTANTS w1, w2, c1, c2

\* Two workers of one issuer behind one registry.
Worker == [issuer |-> "A", key |-> "ka", kid |-> "A#1", deployment |-> "da",
           registry |-> "shared", peers |-> << >>]
MCWorkers == (w1 :> Worker) @@ (w2 :> Worker)
MCShared == [g \in {"shared"} |-> Validity]

\* Workers and calls are interchangeable.
WorkerSymmetry == Permutations({w1, w2}) \cup Permutations({c1, c2})

\* A service with two peers.  Peer P has rotated its key's kid; Q is
\* configured with P's key as well as one of its own, which has no kid.
MCPeered == w1 :> [issuer |-> "A", key |-> "ka", kid |-> "A#1", deployment |-> "da",
                   registry |-> "own",
                   peers |-> <<[iss |-> "P", key |-> "kp", kid |-> "P#1", deployment |-> "dp"],
                               [iss |-> "P", key |-> "kp", kid |-> "P#2", deployment |-> "dp"],
                               [iss |-> "Q", key |-> "kp", kid |-> "Q#1", deployment |-> "dq"],
                               [iss |-> "Q", key |-> "kq", kid |-> NoKid, deployment |-> "dq"]>>]
MCOwn == [g \in {"own"} |-> Validity + 1]

\* Tokens of the peers: P's under its new kid, two of Q (one under P's key),
\* one without kid, one that a third deployment issued, one that lives long.
PToken == [iss |-> "P", key |-> "kp", kid |-> "P#2", deployment |-> "dp", jti |-> "j",
           exp |-> 2, subject |-> "m", session |-> "s1", block |-> TRUE]
MCForeign == {PToken,
              [PToken EXCEPT !.iss = "Q", !.kid = "Q#1", !.deployment = "dq"],
              [PToken EXCEPT !.iss = "Q", !.key = "kq", !.kid = NoKid, !.deployment = "dq"],
              [PToken EXCEPT !.kid = "P#0"],
              [PToken EXCEPT !.deployment = "d3"],
              [PToken EXCEPT !.kid = NoKid, !.exp = 4]}

=============================================================================
