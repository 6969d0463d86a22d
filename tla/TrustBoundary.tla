--------------------------- MODULE TrustBoundary ---------------------------
(***************************************************************************)
(* TrustBoundary: who may send to whom, and how often.  Every public       *)
(* method runs under one re-entrant lock and reads the clocks inside it,   *)
(* so a method is one action.  Two clocks matter: grants expire on the     *)
(* wall clock, which an operator or NTP may step, while token buckets and  *)
(* both eviction throttles use the monotonic one.                          *)
(*                                                                         *)
(* Time is counted in ticks, Minute of them in 60 s, and tokens in parts   *)
(* of 1/Minute, so that a tick refills exactly MaxRequests parts.          *)
(***************************************************************************)
EXTENDS Integers, FiniteSets, Functions

CONSTANTS Agents, PayloadTypes,
          NoType,         \* payload_type=None: the caller names no type
          Forever,        \* valid_until=None
          Grants,         \* the grants an operator may give
          Batches,        \* what load_from_env may find: agents to grants
          Pairs,          \* the (sender, receiver) pairs that are used
          MaxRequests,    \* max_requests_per_minute
          Minute,         \* ticks in 60 s
          DefaultAllow,   \* default_allow
          MaxMono,        \* bound: ticks of the monotonic clock
          WallSteps       \* bound: by how much the wall clock may be stepped

\* A scope of None is the full set of agents or payload types.
Grant == [receivers : SUBSET Agents, types : SUBSET PayloadTypes,
          until : Int \cup {Forever}]

ASSUME TrustAssumption ==
  /\ Grants \subseteq Grant
  /\ \A b \in Batches : DOMAIN b \subseteq Agents /\ b \in [DOMAIN b -> Grants]
  /\ Pairs \subseteq Agents \X Agents
  /\ MaxRequests \in Nat
  /\ Minute \in Nat \ {0}
  /\ DefaultAllow \in BOOLEAN
  /\ MaxMono \in Nat
  /\ WallSteps \subseteq Int
  /\ NoType \notin PayloadTypes
  /\ Forever \notin Int

Capacity == MaxRequests * Minute

\* Mutation: a bucket is evicted before it can have refilled.
EvictionAtOnce == 0

EvictionTTL == 5 * Minute
Throttle == Minute

Bucket == [tokens : Nat, last_refill : Nat]

Rejections == {"sender_blocked", "receiver_blocked", "pair_blocked",
               "sender_scope", "untrusted", "receiver_scope"}
Replies == Rejections \cup {"none", "rate_limited", "allowed"}

VARIABLES
  wall, mono,             \* time.time() and time.monotonic()
  blocked_agents,         \* a set of agents
  trusted_agents,         \* a dictionary: agent to grant
  blocked_pairs,          \* a set of pairs
  rate_limits,            \* a dictionary: pair to bucket
  last_eviction,          \* when cold buckets were last looked for
  last_trust_eviction,    \* when expired grants were last looked for
  reply                   \* the answer of evaluate, when the step was one

vars == <<wall, mono, blocked_agents, trusted_agents, blocked_pairs,
          rate_limits, last_eviction, last_trust_eviction, reply>>
clocks == <<wall, mono>>
limiter == <<rate_limits, last_eviction, last_trust_eviction>>

TypeOK ==
  /\ wall \in Int
  /\ mono \in Nat
  /\ blocked_agents \subseteq Agents
  /\ DOMAIN trusted_agents \subseteq Agents
  /\ trusted_agents \in [DOMAIN trusted_agents -> Grants]
  /\ blocked_pairs \subseteq Pairs
  /\ DOMAIN rate_limits \subseteq Pairs
  /\ rate_limits \in [DOMAIN rate_limits -> Bucket]
  /\ last_eviction \in Int
  /\ last_trust_eviction \in Int
  /\ reply \in Replies

\* The throttles start at minus infinity: the first look is never throttled.
Init ==
  /\ wall = 0
  /\ mono = 0
  /\ blocked_agents = {}
  /\ trusted_agents = << >>
  /\ blocked_pairs = {}
  /\ rate_limits = << >>
  /\ last_eviction = -Throttle
  /\ last_trust_eviction = -Throttle
  /\ reply = "none"

-----------------------------------------------------------------------------
(* Grants. *)

IsValid(grant, now) == grant.until = Forever \/ now <= grant.until

IsTrusted(a) == a \in DOMAIN trusted_agents /\ IsValid(trusted_agents[a], wall)

\* Mutation: an expired grant still scopes its agent.
ScopeBlocksExpired(a, peer, type) ==
  /\ a \in DOMAIN trusted_agents
  /\ \/ peer \notin trusted_agents[a].receivers
     \/ type # NoType /\ type \notin trusted_agents[a].types

\* A grant on a sender scopes whom it may reach, a grant on a receiver scopes
\* who may reach it; an expired grant scopes nothing.
ScopeBlocks(a, peer, type) ==
  /\ IsTrusted(a)
  /\ \/ peer \notin trusted_agents[a].receivers
     \/ type # NoType /\ type \notin trusted_agents[a].types

\* The reasons for which evaluate rejects before the rate limiter, in order.
TrustRejection(s, r, type) ==
  IF s \in blocked_agents THEN "sender_blocked"
  ELSE IF r \in blocked_agents THEN "receiver_blocked"
  ELSE IF <<s, r>> \in blocked_pairs THEN "pair_blocked"
  ELSE IF ScopeBlocks(s, r, type) THEN "sender_scope"
  ELSE IF ~DefaultAllow /\ ~IsTrusted(s) THEN "untrusted"
  ELSE IF ScopeBlocks(r, s, type) THEN "receiver_scope"
  ELSE "none"

\* Mutation: the block leaves the agent's grant in place.
BlockAgentKeepsGrant(a) ==
  /\ blocked_agents' = blocked_agents \cup {a}
  /\ reply' = "none"
  /\ UNCHANGED <<clocks, trusted_agents, blocked_pairs, limiter>>

BlockAgent(a) ==
  /\ blocked_agents' = blocked_agents \cup {a}
  /\ trusted_agents' = Restrict(trusted_agents, DOMAIN trusted_agents \ {a})
  /\ reply' = "none"
  /\ UNCHANGED <<clocks, blocked_pairs, limiter>>

\* Grants of a whole batch under one lock; a later grant replaces an earlier
\* one and lifts the agent's block.
GrantAll(batch) ==
  /\ trusted_agents' = [a \in DOMAIN trusted_agents \cup DOMAIN batch |->
                          IF a \in DOMAIN batch THEN batch[a] ELSE trusted_agents[a]]
  /\ blocked_agents' = blocked_agents \ DOMAIN batch
  /\ reply' = "none"
  /\ UNCHANGED <<clocks, blocked_pairs, limiter>>

TrustAgent(a, grant) == GrantAll([x \in {a} |-> grant])
LoadFromEnv(batch) == GrantAll(batch)

RevokeAgent(a) ==
  /\ a \in DOMAIN trusted_agents
  /\ trusted_agents' = Restrict(trusted_agents, DOMAIN trusted_agents \ {a})
  /\ reply' = "none"
  /\ UNCHANGED <<clocks, blocked_agents, blocked_pairs, limiter>>

BlockPair(pair) ==
  /\ blocked_pairs' = blocked_pairs \cup {pair}
  /\ reply' = "none"
  /\ UNCHANGED <<clocks, blocked_agents, trusted_agents, limiter>>

UnblockPair(pair) ==
  /\ blocked_pairs' = blocked_pairs \ {pair}
  /\ reply' = "none"
  /\ UNCHANGED <<clocks, blocked_agents, trusted_agents, limiter>>

-----------------------------------------------------------------------------
(* Rate limiting and eviction. *)

\* Mutation: the refill is not capped.
RefilledUncapped(bucket) == bucket.tokens + (mono - bucket.last_refill) * MaxRequests

\* TokenBucket.consume, up to the decision: the refilled tokens.
Refilled(bucket) ==
  LET tokens == bucket.tokens + (mono - bucket.last_refill) * MaxRequests
  IN  IF tokens < Capacity THEN tokens ELSE Capacity

\* The buckets that survive _evict_cold_buckets.
WarmPairs ==
  IF mono - last_eviction < Throttle THEN DOMAIN rate_limits
  ELSE {p \in DOMAIN rate_limits : mono - rate_limits[p].last_refill <= EvictionTTL}

\* The grants that survive _evict_expired_trust.
LiveGrants ==
  IF mono - last_trust_eviction < Throttle THEN DOMAIN trusted_agents
  ELSE {a \in DOMAIN trusted_agents : IsValid(trusted_agents[a], wall)}

\* Mutation: a throttled look postpones the next one.
EvictionPostponed(last) == mono

EvictionDone(last) == IF mono - last < Throttle THEN last ELSE mono

\* A new pair starts with a full bucket.
TokensFor(pair) ==
  IF pair \in WarmPairs THEN Refilled(rate_limits[pair]) ELSE Capacity

\* Mutation: buckets are evicted before the trust decision.
RejectAfterEviction(s, r, type) ==
  /\ TrustRejection(s, r, type) # "none"
  /\ reply' = TrustRejection(s, r, type)
  /\ rate_limits' = Restrict(rate_limits, WarmPairs)
  /\ last_eviction' = EvictionDone(last_eviction)
  /\ UNCHANGED <<clocks, blocked_agents, trusted_agents, blocked_pairs,
                 last_trust_eviction>>

Reject(s, r, type) ==
  /\ TrustRejection(s, r, type) # "none"
  /\ reply' = TrustRejection(s, r, type)
  /\ UNCHANGED <<clocks, blocked_agents, trusted_agents, blocked_pairs, limiter>>

\* Mutation: a token is taken whether or not there is one.
AdmitOverdraws(s, r, type) ==
  /\ TrustRejection(s, r, type) = "none"
  /\ rate_limits' = [p \in WarmPairs \cup {<<s, r>>} |->
       IF p = <<s, r>>
       THEN [tokens |-> TokensFor(p) - Minute, last_refill |-> mono]
       ELSE rate_limits[p]]
  /\ reply' = IF TokensFor(<<s, r>>) >= Minute THEN "allowed" ELSE "rate_limited"
  /\ UNCHANGED <<clocks, blocked_agents, trusted_agents, blocked_pairs,
                 last_eviction, last_trust_eviction>>

Admit(s, r, type) ==
  LET pair == <<s, r>>
      pass == TokensFor(pair) >= Minute
  IN  /\ TrustRejection(s, r, type) = "none"
      /\ trusted_agents' = Restrict(trusted_agents, LiveGrants)
      /\ last_trust_eviction' = EvictionDone(last_trust_eviction)
      /\ last_eviction' = EvictionDone(last_eviction)
      /\ rate_limits' = [p \in WarmPairs \cup {pair} |->
           IF p = pair
           THEN [tokens |-> IF pass THEN TokensFor(pair) - Minute ELSE TokensFor(pair),
                 last_refill |-> mono]
           ELSE rate_limits[p]]
      /\ reply' = IF pass THEN "allowed" ELSE "rate_limited"
      /\ UNCHANGED <<clocks, blocked_agents, blocked_pairs>>

Evaluate(s, r, type) == Reject(s, r, type) \/ Admit(s, r, type)

-----------------------------------------------------------------------------
(* Time. *)

Tick ==
  /\ mono < MaxMono
  /\ mono' = mono + 1
  /\ wall' = wall + 1
  /\ reply' = "none"
  /\ UNCHANGED <<blocked_agents, trusted_agents, blocked_pairs, limiter>>

\* The wall clock is stepped; the monotonic one never is.
StepWall ==
  /\ \E d \in WallSteps : wall' = wall + d
  /\ wall' \in -MaxMono..2 * MaxMono
  /\ reply' = "none"
  /\ UNCHANGED <<mono, blocked_agents, trusted_agents, blocked_pairs, limiter>>

Administer ==
  \/ \E a \in Agents : BlockAgent(a) \/ RevokeAgent(a)
  \/ \E a \in Agents, grant \in Grants : TrustAgent(a, grant)
  \/ \E batch \in Batches : LoadFromEnv(batch)
  \/ \E pair \in Pairs : BlockPair(pair) \/ UnblockPair(pair)

EvaluatePair(pair) ==
  \E type \in PayloadTypes \cup {NoType} : Evaluate(pair[1], pair[2], type)

Next == Administer \/ Tick \/ StepWall \/ \E pair \in Pairs : EvaluatePair(pair)

Spec == Init /\ [][Next]_vars

-----------------------------------------------------------------------------
(* Properties. *)

\* is_trusted looks at the grants alone, so no order of block, grant, revoke,
\* batch load and eviction may leave a blocked agent with a valid grant.
BlockedNeverTrusted == \A a \in blocked_agents : ~IsTrusted(a)

\* A rejected call leaves no trace: callers whom trust turns away cannot make
\* the boundary allocate buckets ("prevents map spray") or run its evictions.
RejectedLeavesNoTrace ==
  [][reply' \in Rejections => UNCHANGED <<trusted_agents, limiter>>]_vars

\* The dictionary of buckets stays bounded by recent traffic: once a call has
\* been admitted to the limiter, no bucket is left that has been idle for more
\* than the eviction TTL and the throttle together.
ColdBucketsGo ==
  [][reply' \in {"allowed", "rate_limited"} =>
       \A p \in DOMAIN rate_limits' :
          mono - rate_limits'[p].last_refill <= EvictionTTL + Throttle]_vars

\* The abstract specification this one implements: a boundary that keeps an
\* up-to-date bucket for every pair and forgets a grant the moment it expires.
\* Lazily refilled, created and evicted buckets, and lazily evicted grants,
\* make no difference to any answer.  A wall clock that is stepped back may
\* revive a grant, so the runs that check this step it forward only.
Level(p) == IF p \in DOMAIN rate_limits THEN Refilled(rate_limits[p]) ELSE Capacity

Policy == INSTANCE TrustPolicy WITH
            blocked <- blocked_agents,
            grants <- [a \in {x \in Agents : IsTrusted(x)} |-> trusted_agents[a]],
            level <- [p \in Pairs |-> Level(p)],
            answer <- IF reply \in Rejections THEN "rejected" ELSE reply

PolicySpec == Policy!PolicySpec

=============================================================================
