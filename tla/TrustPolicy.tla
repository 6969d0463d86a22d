---------------------------- MODULE TrustPolicy ----------------------------
(***************************************************************************)
(* What TrustBoundary.evaluate promises, with perfect memory: every pair   *)
(* has a bucket that refills as time passes, and a grant is gone the       *)
(* moment the wall clock passes its expiry.  Nothing is evicted, because   *)
(* nothing stale is kept.                                                  *)
(***************************************************************************)
EXTENDS Integers, Functions

CONSTANTS Agents, PayloadTypes, NoType, Forever, Grants, Pairs,
          MaxRequests, Minute, DefaultAllow

Full == MaxRequests * Minute

VARIABLES wall, blocked, grants, blocked_pairs, level, answer

policyVars == <<wall, blocked, grants, blocked_pairs, level, answer>>

PolicyInit ==
  /\ wall \in Int
  /\ blocked = {}
  /\ grants = << >>
  /\ blocked_pairs = {}
  /\ level = [p \in Pairs |-> Full]
  /\ answer = "none"

Unexpired(grant, now) == grant.until = Forever \/ now <= grant.until

Without(a) == Restrict(grants, DOMAIN grants \ {a})

Ban(a) ==
  /\ blocked' = blocked \cup {a}
  /\ grants' = Without(a)
  /\ answer' = "none"
  /\ UNCHANGED <<wall, blocked_pairs, level>>

Withdraw(a) ==
  /\ grants' = Without(a)
  /\ answer' = "none"
  /\ UNCHANGED <<wall, blocked, blocked_pairs, level>>

\* A new grant replaces the old one, even when it is expired from the start.
Permit(batch) ==
  LET kept == DOMAIN grants \ DOMAIN batch
      live == {a \in DOMAIN batch : Unexpired(batch[a], wall)}
  IN  /\ grants' = [a \in kept \cup live |->
                      IF a \in live THEN batch[a] ELSE grants[a]]
      /\ blocked' = blocked \ DOMAIN batch
      /\ answer' = "none"
      /\ UNCHANGED <<wall, blocked_pairs, level>>

SetPair(pair) ==
  /\ blocked_pairs' \in {blocked_pairs \cup {pair}, blocked_pairs \ {pair}}
  /\ answer' = "none"
  /\ UNCHANGED <<wall, blocked, grants, level>>

Scoped(a, peer, type) ==
  a \in DOMAIN grants => /\ peer \in grants[a].receivers
                         /\ type = NoType \/ type \in grants[a].types

MaySend(s, r, type) ==
  /\ {s, r} \cap blocked = {}
  /\ <<s, r>> \notin blocked_pairs
  /\ DefaultAllow \/ s \in DOMAIN grants
  /\ Scoped(s, r, type)
  /\ Scoped(r, s, type)

Decide(s, r, type) ==
  /\ \/ /\ ~MaySend(s, r, type)
        /\ answer' = "rejected"
        /\ UNCHANGED level
     \/ /\ MaySend(s, r, type)
        /\ level[<<s, r>>] < Minute
        /\ answer' = "rate_limited"
        /\ UNCHANGED level
     \/ /\ MaySend(s, r, type)
        /\ level[<<s, r>>] >= Minute
        /\ answer' = "allowed"
        /\ level' = [level EXCEPT ![<<s, r>>] = @ - Minute]
  /\ UNCHANGED <<wall, blocked, grants, blocked_pairs>>

Expire == grants' = Restrict(grants, {a \in DOMAIN grants : Unexpired(grants[a], wall')})

Pass ==
  /\ wall' = wall + 1
  /\ level' = [p \in Pairs |-> IF level[p] + MaxRequests < Full
                               THEN level[p] + MaxRequests ELSE Full]
  /\ Expire
  /\ answer' = "none"
  /\ UNCHANGED <<blocked, blocked_pairs>>

\* The wall clock is stepped forward.
Leap ==
  /\ wall' \in Int /\ wall' > wall
  /\ Expire
  /\ answer' = "none"
  /\ UNCHANGED <<blocked, blocked_pairs, level>>

PolicyNext ==
  \/ \E a \in Agents : Ban(a) \/ Withdraw(a)
  \/ \E S \in SUBSET Agents : \E batch \in [S -> Grants] : Permit(batch)
  \/ \E pair \in Pairs : SetPair(pair)
  \/ Pass \/ Leap
  \/ \E p \in Pairs, type \in PayloadTypes \cup {NoType} : Decide(p[1], p[2], type)

PolicySpec == PolicyInit /\ [][PolicyNext]_policyVars

=============================================================================
