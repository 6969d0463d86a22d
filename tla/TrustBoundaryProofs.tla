------------------------ MODULE TrustBoundaryProofs ------------------------
(***************************************************************************)
(* Proofs about TrustBoundary, for any agents, grants, pairs, rates and    *)
(* clocks: its dictionaries keep their types, a blocked agent never holds  *)
(* a valid grant, and eviction is invisible to the rate limiter.           *)
(***************************************************************************)
EXTENDS TrustBoundary, TLAPS

\* The dictionaries of agents are disjoint, and a bucket holds no more than
\* its capacity and was last refilled in the past.
TrustInv ==
  /\ TypeOK
  /\ blocked_agents \cap DOMAIN trusted_agents = {}
  /\ \A p \in DOMAIN rate_limits : /\ rate_limits[p].tokens <= Capacity
                                   /\ rate_limits[p].last_refill <= mono

LEMMA CapacityType == Capacity \in Nat
  BY TrustAssumption DEF Capacity

LEMMA InitTrustInv == Init => TrustInv
<1> SUFFICES ASSUME Init PROVE TrustInv
  OBVIOUS
<1>1. DOMAIN trusted_agents = {} /\ DOMAIN rate_limits = {}
  BY DEF Init
<1>2. Throttle \in Int
  BY TrustAssumption DEF Throttle
<1>3. /\ trusted_agents \in [DOMAIN trusted_agents -> Grants]
      /\ rate_limits \in [DOMAIN rate_limits -> Bucket]
  BY <1>1 DEF Init
<1>4. TypeOK
  BY <1>1, <1>2, <1>3 DEF Init, TypeOK, Replies
<1>5. QED
  BY <1>1, <1>4 DEF TrustInv, Init

LEMMA ProductNat == \A x, y \in Nat : x * y \in Nat
  OBVIOUS

\* What a bucket holds after its refill.
LEMMA RefilledRange ==
  ASSUME TrustInv, NEW p \in DOMAIN rate_limits
  PROVE  /\ Refilled(rate_limits[p]) \in 0..Capacity
         /\ rate_limits[p].tokens \in Nat
         /\ mono - rate_limits[p].last_refill \in Nat
<1>1. /\ rate_limits[p].tokens \in Nat /\ rate_limits[p].last_refill \in Nat
      /\ rate_limits[p].last_refill <= mono /\ mono \in Nat
  BY DEF TrustInv, TypeOK, Bucket
<1>2. mono - rate_limits[p].last_refill \in Nat
  BY <1>1
<1>3. (mono - rate_limits[p].last_refill) * MaxRequests \in Nat
  BY <1>2, ProductNat, TrustAssumption
<1>4. QED
  BY <1>1, <1>2, <1>3, CapacityType DEF Refilled

LEMMA GrantAllTrustInv ==
  ASSUME TrustInv, NEW batch, DOMAIN batch \subseteq Agents,
         \A a \in DOMAIN batch : batch[a] \in Grants, GrantAll(batch)
  PROVE  TrustInv'
BY DEF TrustInv, TypeOK, GrantAll, clocks, limiter, Replies

LEMMA AdministerTrustInv ==
  ASSUME TrustInv, Administer
  PROVE  TrustInv'
<1>1. ASSUME NEW a \in Agents, BlockAgent(a) \/ RevokeAgent(a) PROVE TrustInv'
  BY <1>1 DEF TrustInv, TypeOK, BlockAgent, RevokeAgent, Restrict, clocks, limiter, Replies
<1>2. ASSUME NEW a \in Agents, NEW grant \in Grants, TrustAgent(a, grant)
      PROVE  TrustInv'
  BY <1>2, GrantAllTrustInv DEF TrustAgent
<1>3. ASSUME NEW batch \in Batches, LoadFromEnv(batch) PROVE TrustInv'
  <2>1. DOMAIN batch \subseteq Agents /\ \A a \in DOMAIN batch : batch[a] \in Grants
    BY TrustAssumption
  <2>2. QED
    BY <1>3, <2>1, GrantAllTrustInv DEF LoadFromEnv
<1>4. ASSUME NEW pair \in Pairs, BlockPair(pair) \/ UnblockPair(pair) PROVE TrustInv'
  BY <1>4 DEF TrustInv, TypeOK, BlockPair, UnblockPair, clocks, limiter, Replies
<1>5. QED
  BY <1>1, <1>2, <1>3, <1>4 DEF Administer

LEMMA TimeTrustInv ==
  ASSUME TrustInv, Tick \/ StepWall
  PROVE  TrustInv'
<1>1. /\ wall' \in Int /\ mono' \in Nat /\ mono <= mono' /\ reply' \in Replies
      /\ UNCHANGED <<blocked_agents, trusted_agents, blocked_pairs, limiter>>
  BY TrustAssumption DEF TrustInv, TypeOK, Tick, StepWall, Replies
<1>2. TypeOK'
  BY <1>1 DEF TrustInv, TypeOK, limiter
<1>3. \A p \in DOMAIN rate_limits : rate_limits[p].last_refill \in Nat
  BY DEF TrustInv, TypeOK, Bucket
<1>4. QED
  BY <1>1, <1>2, <1>3 DEF TrustInv, TypeOK, limiter

LEMMA RejectTrustInv ==
  ASSUME TrustInv, NEW pair \in Pairs, NEW type, Reject(pair[1], pair[2], type)
  PROVE  TrustInv'
BY DEF TrustInv, TypeOK, Reject, TrustRejection, clocks, limiter, Replies, Rejections

LEMMA WarmPairsSubset == WarmPairs \subseteq DOMAIN rate_limits
  BY DEF WarmPairs

LEMMA TokensForRange ==
  ASSUME TrustInv, NEW pair
  PROVE  TokensFor(pair) \in 0..Capacity
BY RefilledRange, WarmPairsSubset, CapacityType DEF TokensFor

LEMMA AdmitTrustInv ==
  ASSUME TrustInv, NEW pair \in Pairs, NEW type, Admit(pair[1], pair[2], type)
  PROVE  TrustInv'
<1>1. pair = <<pair[1], pair[2]>>
  BY TrustAssumption
<1>2. PICK bucket :
        /\ bucket.tokens \in 0..Capacity /\ bucket.last_refill = mono
        /\ bucket \in Bucket
        /\ rate_limits' = [p \in WarmPairs \cup {pair} |->
                             IF p = pair THEN bucket ELSE rate_limits[p]]
  <2> DEFINE pass == TokensFor(pair) >= Minute
             bucket == [tokens |-> IF pass THEN TokensFor(pair) - Minute
                                   ELSE TokensFor(pair),
                        last_refill |-> mono]
  <2>1. bucket.tokens \in 0..Capacity
    BY TokensForRange, CapacityType, TrustAssumption
  <2>2. bucket \in Bucket
    BY <2>1, CapacityType DEF Bucket, TrustInv, TypeOK
  <2>3. rate_limits' = [p \in WarmPairs \cup {pair} |->
                          IF p = pair THEN bucket ELSE rate_limits[p]]
    BY <1>1 DEF Admit
  <2>4. QED
    BY <2>1, <2>2, <2>3
<1>3. /\ DOMAIN rate_limits' \subseteq Pairs
      /\ rate_limits' \in [DOMAIN rate_limits' -> Bucket]
      /\ \A p \in DOMAIN rate_limits' : /\ rate_limits'[p].tokens <= Capacity
                                        /\ rate_limits'[p].last_refill <= mono
  <2>1. \A p \in WarmPairs : /\ p \in Pairs
                             /\ rate_limits[p] \in Bucket
                             /\ rate_limits[p].tokens <= Capacity
                             /\ rate_limits[p].last_refill <= mono
    BY WarmPairsSubset DEF TrustInv, TypeOK
  <2>2. mono <= mono
    BY DEF TrustInv, TypeOK
  <2>3. QED
    BY <1>2, <2>1, <2>2, CapacityType
<1>4. /\ DOMAIN trusted_agents' \subseteq DOMAIN trusted_agents
      /\ trusted_agents' \in [DOMAIN trusted_agents' -> Grants]
  BY DEF Admit, Restrict, LiveGrants, TrustInv, TypeOK
<1>5. last_eviction' \in Int /\ last_trust_eviction' \in Int /\ reply' \in Replies
  BY DEF Admit, EvictionDone, Replies, TrustInv, TypeOK
<1>6. UNCHANGED <<wall, mono, blocked_agents, blocked_pairs>>
  BY DEF Admit, clocks
<1>7. QED
  BY <1>3, <1>4, <1>5, <1>6, CapacityType DEF TrustInv, TypeOK, Capacity

LEMMA NextTrustInv == TrustInv /\ [Next]_vars => TrustInv'
<1> SUFFICES ASSUME TrustInv, [Next]_vars PROVE TrustInv'
  OBVIOUS
<1>1. CASE UNCHANGED vars
  BY <1>1 DEF vars, TrustInv, TypeOK
<1>2. ASSUME NEW pair \in Pairs, EvaluatePair(pair) PROVE TrustInv'
  BY <1>2, RejectTrustInv, AdmitTrustInv DEF EvaluatePair, Evaluate
<1>3. QED
  BY <1>1, <1>2, AdministerTrustInv, TimeTrustInv DEF Next

LEMMA TrustInvariance == Spec => []TrustInv
<1>1. QED
  BY InitTrustInv, NextTrustInv, PTL DEF Spec

-----------------------------------------------------------------------------
(* Theorems. *)

\* The lists and dictionaries keep their types whatever is called when.
THEOREM TrustTypeCorrect == Spec => []TypeOK
<1>1. TrustInv => TypeOK
  BY DEF TrustInv
<1>2. QED
  BY <1>1, TrustInvariance, PTL

\* is_trusted never holds for a blocked agent, on any two clocks.
THEOREM BlockedAreUntrusted == Spec => []BlockedNeverTrusted
<1>1. TrustInv => BlockedNeverTrusted
  BY DEF TrustInv, BlockedNeverTrusted, IsTrusted
<1>2. QED
  BY <1>1, TrustInvariance, PTL

-----------------------------------------------------------------------------
(* The dictionary of buckets stays bounded by recent traffic. *)

\* The last look for cold buckets left none older than the TTL.
ColdInv ==
  /\ last_eviction <= mono
  /\ \A p \in DOMAIN rate_limits :
       last_eviction - rate_limits[p].last_refill <= EvictionTTL

LEMMA AdmitCold ==
  ASSUME TrustInv, ColdInv, NEW pair \in Pairs, NEW type,
         Admit(pair[1], pair[2], type)
  PROVE  /\ ColdInv'
         /\ \A p \in DOMAIN rate_limits' :
              mono - rate_limits'[p].last_refill <= EvictionTTL + Throttle
<1>1. /\ \A p \in DOMAIN rate_limits' :
           \/ rate_limits'[p].last_refill = mono
           \/ p \in WarmPairs /\ rate_limits'[p] = rate_limits[p]
      /\ mono' = mono
      /\ last_eviction' = EvictionDone(last_eviction)
  BY DEF Admit, clocks
<1>2. \A p \in DOMAIN rate_limits : rate_limits[p].last_refill \in Nat
  BY DEF TrustInv, TypeOK, Bucket
<1>3. /\ mono \in Nat /\ last_eviction \in Int /\ Throttle \in Nat
      /\ EvictionTTL \in Nat
  BY TrustAssumption DEF TrustInv, TypeOK, Throttle, EvictionTTL
<1>4. CASE mono - last_eviction < Throttle
  BY <1>1, <1>2, <1>3, <1>4 DEF ColdInv, WarmPairs, EvictionDone, EvictionTTL
<1>5. CASE ~(mono - last_eviction < Throttle)
  BY <1>1, <1>2, <1>3, <1>5 DEF ColdInv, WarmPairs, EvictionDone, EvictionTTL
<1>6. QED
  BY <1>4, <1>5

\* Only Admit touches the limiter; the clock only moves on.
LEMMA OthersCold ==
  ASSUME TrustInv, ColdInv,
         \/ Administer \/ Tick \/ StepWall \/ UNCHANGED vars
         \/ \E pair \in Pairs, type \in PayloadTypes \cup {NoType} :
              Reject(pair[1], pair[2], type)
  PROVE  ColdInv'
<1>1. UNCHANGED limiter /\ mono <= mono' /\ mono \in Nat /\ mono' \in Nat
  <2>1. mono \in Nat
    BY DEF TrustInv, TypeOK
  <2>2. Administer => UNCHANGED limiter /\ UNCHANGED clocks
    BY DEF Administer, BlockAgent, RevokeAgent, TrustAgent, LoadFromEnv,
       GrantAll, BlockPair, UnblockPair
  <2>3. CASE Tick \/ StepWall
    BY <2>1, <2>3 DEF Tick, StepWall
  <2>4. ASSUME NEW s, NEW r, NEW type, Reject(s, r, type)
        PROVE  UNCHANGED limiter /\ mono' = mono
    BY <2>4 DEF Reject, clocks
  <2>5. CASE UNCHANGED vars
    BY <2>1, <2>5 DEF vars, limiter
  <2>6. QED
    BY <2>1, <2>2, <2>3, <2>4, <2>5 DEF clocks
<1>2. last_eviction \in Int
  BY DEF TrustInv, TypeOK
<1>3. QED
  BY <1>1, <1>2 DEF ColdInv, limiter, EvictionTTL

LEMMA ColdInvariance == Spec => [](TrustInv /\ ColdInv)
<1>1. Init => ColdInv
  BY TrustAssumption DEF Init, ColdInv, Throttle
<1>2. TrustInv /\ ColdInv /\ [Next]_vars => ColdInv'
  BY AdmitCold, OthersCold DEF Next, EvaluatePair, Evaluate
<1>3. QED
  BY <1>1, <1>2, TrustInvariance, PTL DEF Spec

\* Every call that reaches the limiter leaves only recently used buckets.
THEOREM OnlyWarmBuckets == Spec => ColdBucketsGo
<1> DEFINE Warm == \A p \in DOMAIN rate_limits' :
                     mono - rate_limits'[p].last_refill <= EvictionTTL + Throttle
<1>1. TrustInv /\ ColdInv /\ [Next]_vars
        => [reply' \in {"allowed", "rate_limited"} => Warm]_vars
  <2> SUFFICES ASSUME TrustInv, ColdInv, Next, reply' \in {"allowed", "rate_limited"}
               PROVE  Warm
    OBVIOUS
  <2>1. \E pair \in Pairs, type \in PayloadTypes \cup {NoType} :
          Admit(pair[1], pair[2], type)
    <3>1. ~(Administer \/ Tick \/ StepWall)
      BY DEF Administer, BlockAgent, RevokeAgent, TrustAgent, LoadFromEnv, GrantAll,
             BlockPair, UnblockPair, Tick, StepWall
    <3>2. \A s, r, type : ~Reject(s, r, type)
      BY DEF Reject, TrustRejection
    <3>3. QED
      BY <3>1, <3>2 DEF Next, EvaluatePair, Evaluate
  <2>2. QED
    BY <2>1, AdmitCold
<1>2. QED
  BY <1>1, ColdInvariance, PTL DEF Spec, ColdBucketsGo

-----------------------------------------------------------------------------
(* Eviction is invisible to the limiter: a bucket idle for longer than the  *)
(* TTL is full again, and a pair without a bucket starts with a full one.   *)

LEMMA ProductMonotonic ==
  \A x, y, m \in Nat : x <= y => x * m <= y * m
  OBVIOUS

LEMMA EvictedWereFull ==
  ASSUME TrustInv, NEW p \in DOMAIN rate_limits \ WarmPairs
  PROVE  Refilled(rate_limits[p]) = Capacity
<1>1. /\ rate_limits[p].tokens \in Nat
      /\ mono - rate_limits[p].last_refill \in Nat
  BY RefilledRange
<1>2. Minute <= mono - rate_limits[p].last_refill
  BY <1>1, TrustAssumption DEF WarmPairs, EvictionTTL
<1>3. Minute * MaxRequests <= (mono - rate_limits[p].last_refill) * MaxRequests
  BY <1>1, <1>2, ProductMonotonic, TrustAssumption
<1>4. (mono - rate_limits[p].last_refill) * MaxRequests \in Nat
  BY <1>1, ProductNat, TrustAssumption
<1>5. Minute * MaxRequests = Capacity
  BY TrustAssumption DEF Capacity
<1>6. QED
  BY <1>1, <1>3, <1>4, <1>5, CapacityType DEF Refilled

\* A new pair or an evicted one gets what its bucket would hold anyway.
LEMMA TokensForLevel ==
  ASSUME TrustInv, NEW pair
  PROVE  TokensFor(pair) = Level(pair)
BY EvictedWereFull, WarmPairsSubset DEF TokensFor, Level

LEMMA LevelRange ==
  ASSUME TrustInv, NEW p
  PROVE  Level(p) \in 0..Capacity
BY RefilledRange, CapacityType DEF Level

\* An admitted call changes the level of its own pair, by one token or not at
\* all, and of no other pair.
LEMMA AdmitLevel ==
  ASSUME TrustInv, NEW pair \in Pairs, NEW type, Admit(pair[1], pair[2], type)
  PROVE  /\ Level(pair)' = IF Level(pair) >= Minute THEN Level(pair) - Minute
                           ELSE Level(pair)
         /\ reply' = IF Level(pair) >= Minute THEN "allowed" ELSE "rate_limited"
         /\ \A q \in Pairs \ {pair} : Level(q)' = Level(q)
<1>1. pair = <<pair[1], pair[2]>>
  BY TrustAssumption
<1> DEFINE left == IF Level(pair) >= Minute THEN Level(pair) - Minute
                   ELSE Level(pair)
<1>2. left \in 0..Capacity
  BY LevelRange, CapacityType, TrustAssumption
<1>3. /\ rate_limits' = [p \in WarmPairs \cup {pair} |->
           IF p = pair THEN [tokens |-> left, last_refill |-> mono]
           ELSE rate_limits[p]]
      /\ reply' = IF Level(pair) >= Minute THEN "allowed" ELSE "rate_limited"
      /\ mono' = mono /\ mono \in Nat
  BY <1>1, TokensForLevel DEF Admit, clocks, TrustInv, TypeOK
<1>4. Level(pair)' = left
  <2> HIDE DEF left
  <2>1. pair \in DOMAIN rate_limits' /\ rate_limits'[pair].tokens = left
        /\ rate_limits'[pair].last_refill = mono
    BY <1>3
  <2>2. (mono' - mono) * MaxRequests = 0
    BY <1>3, TrustAssumption
  <2>3. QED
    BY <1>2, <1>3, <2>1, <2>2, CapacityType DEF Level, Refilled, Capacity
<1>5. ASSUME NEW q \in Pairs \ {pair} PROVE Level(q)' = Level(q)
  <2>1. CASE q \in WarmPairs
    <3>1. q \in DOMAIN rate_limits' /\ rate_limits'[q] = rate_limits[q]
      BY <1>3, <2>1
    <3>2. q \in DOMAIN rate_limits
      BY <2>1, WarmPairsSubset
    <3>3. QED
      BY <1>3, <3>1, <3>2 DEF Level, Refilled, Capacity
  <2>2. CASE q \notin WarmPairs
    <3>1. q \notin DOMAIN rate_limits'
      BY <1>3, <2>2
    <3>2. Level(q) = Capacity
      BY <2>2, EvictedWereFull DEF Level
    <3>3. QED
      BY <3>1, <3>2 DEF Level, Capacity
  <2>3. QED
    BY <2>1, <2>2
<1>6. QED
  BY <1>3, <1>4, <1>5

\* A tick refills every bucket by MaxRequests parts, up to its capacity.
LEMMA TickLevel ==
  ASSUME TrustInv, Tick, NEW p
  PROVE  Level(p)' = IF Level(p) + MaxRequests < Capacity
                     THEN Level(p) + MaxRequests ELSE Capacity
<1>1. rate_limits' = rate_limits /\ mono' = mono + 1 /\ mono \in Nat
  BY DEF Tick, limiter, TrustInv, TypeOK
<1>2. MaxRequests \in Nat /\ Capacity' = Capacity
  BY TrustAssumption DEF Capacity
<1>3. CASE p \in DOMAIN rate_limits
  <2> DEFINE tokens == rate_limits[p].tokens
             idle == mono - rate_limits[p].last_refill
  <2>1. tokens \in Nat /\ idle \in Nat
    BY <1>3, RefilledRange
  <2>2. mono' - rate_limits[p].last_refill = idle + 1
    BY <1>1, <1>3 DEF TrustInv, TypeOK, Bucket
  <2>3. (idle + 1) * MaxRequests = idle * MaxRequests + MaxRequests
    BY <1>2, <2>1
  <2>4. idle * MaxRequests \in Nat
    BY <1>2, <2>1, ProductNat
  <2>5. Level(p) = IF tokens + idle * MaxRequests < Capacity
                   THEN tokens + idle * MaxRequests ELSE Capacity
    BY <1>3 DEF Level, Refilled
  <2>6. Level(p)' = IF tokens + (idle + 1) * MaxRequests < Capacity
                    THEN tokens + (idle + 1) * MaxRequests ELSE Capacity
    BY <1>1, <1>2, <1>3, <2>2 DEF Level, Refilled
  <2> HIDE DEF tokens, idle
  <2>7. QED
    BY <1>2, <2>1, <2>3, <2>4, <2>5, <2>6, CapacityType
<1>4. CASE p \notin DOMAIN rate_limits
  BY <1>1, <1>2, <1>4, CapacityType DEF Level
<1>5. QED
  BY <1>3, <1>4

-----------------------------------------------------------------------------
(* A rejected call leaves no trace. *)

\* Whom trust turns away changes neither a grant nor a bucket nor a throttle,
\* whatever the clocks read: the decision comes before every eviction.
THEOREM RejectionsAreSilent == Spec => RejectedLeavesNoTrace
<1>1. [Next]_vars => [reply' \in Rejections => UNCHANGED <<trusted_agents, limiter>>]_vars
  <2> SUFFICES ASSUME Next, reply' \in Rejections
               PROVE  UNCHANGED <<trusted_agents, limiter>>
    OBVIOUS
  <2>1. ~(Administer \/ Tick \/ StepWall)
    BY DEF Administer, BlockAgent, RevokeAgent, TrustAgent, LoadFromEnv, GrantAll,
           BlockPair, UnblockPair, Tick, StepWall, Rejections
  <2>2. \A s, r, type : ~Admit(s, r, type)
    BY DEF Admit, Rejections
  <2>3. PICK pair \in Pairs, type \in PayloadTypes \cup {NoType} :
          Reject(pair[1], pair[2], type)
    BY <2>1, <2>2 DEF Next, EvaluatePair, Evaluate
  <2>4. QED
    BY <2>3 DEF Reject
<1>2. QED
  BY <1>1, PTL DEF Spec, RejectedLeavesNoTrace

-----------------------------------------------------------------------------
(* The boundary implements the policy with perfect memory, as long as the   *)
(* wall clock is only ever stepped forward.                                  *)

ForwardOnly == \A d \in WallSteps : d > 0

\* The grants the policy sees: those that have not expired.
LiveNow == {x \in Agents : IsTrusted(x)}
GrantsNow == [x \in LiveNow |-> trusted_agents[x]]
LevelsNow == [p \in Pairs |-> Level(p)]
AnswerNow == IF reply \in Rejections THEN "rejected" ELSE reply

LEMMA InitPolicy == Init => Policy!PolicyInit
<1> SUFFICES ASSUME Init PROVE Policy!PolicyInit
  OBVIOUS
<1>1. DOMAIN trusted_agents = {} /\ DOMAIN rate_limits = {} /\ wall = 0
  BY DEF Init
<1>2. {x \in Agents : IsTrusted(x)} = {}
  BY <1>1 DEF IsTrusted
<1>3. GrantsNow = << >>
  BY <1>2 DEF GrantsNow, LiveNow
<1>4. LevelsNow = [p \in Pairs |-> Policy!Full]
  BY <1>1 DEF LevelsNow, Level, Capacity, Policy!Full
<1>5. AnswerNow = "none"
  BY DEF Init, AnswerNow, Rejections
<1>6. QED
  BY <1>1, <1>3, <1>4, <1>5 DEF Init, Policy!PolicyInit, GrantsNow, LiveNow,
     LevelsNow, AnswerNow

\* What the policy sees changes only with what it is made of.
LEMMA GrantsFrame == UNCHANGED <<wall, trusted_agents>> => GrantsNow' = GrantsNow
  BY DEF GrantsNow, LiveNow, IsTrusted, IsValid

LEMMA LevelsFrame == UNCHANGED <<mono, rate_limits>> => LevelsNow' = LevelsNow
  BY DEF LevelsNow, Level, Refilled, Capacity

LEMMA SilentAnswer == reply = "none" => AnswerNow = "none"
  BY DEF AnswerNow, Rejections

\* Dropping an agent's grant drops what the policy sees of it.
LEMMA DroppedGrant ==
  ASSUME NEW a, UNCHANGED wall,
         trusted_agents' = Restrict(trusted_agents, DOMAIN trusted_agents \ {a})
  PROVE  GrantsNow' = Policy!Restrict(GrantsNow, DOMAIN GrantsNow \ {a})
<1>1. DOMAIN trusted_agents' = DOMAIN trusted_agents \ {a}
      /\ \A x \in DOMAIN trusted_agents \ {a} : trusted_agents'[x] = trusted_agents[x]
  BY DEF Restrict
<1>2. LiveNow' = LiveNow \ {a}
  BY <1>1 DEF LiveNow, IsTrusted, IsValid
<1>3. \A x \in LiveNow : x \in DOMAIN trusted_agents
  BY DEF LiveNow, IsTrusted
<1>4. QED
  BY <1>1, <1>2, <1>3 DEF GrantsNow, Policy!Restrict

LEMMA BlockAgentPolicy ==
  ASSUME NEW a \in Agents, BlockAgent(a)
  PROVE  Policy!Ban(a)
<1>1. GrantsNow' = Policy!Restrict(GrantsNow, DOMAIN GrantsNow \ {a})
  BY DroppedGrant DEF BlockAgent, clocks
<1>2. LevelsNow' = LevelsNow
  BY LevelsFrame DEF BlockAgent, clocks, limiter
<1>3. AnswerNow' = "none"
  BY DEF AnswerNow, Rejections, BlockAgent
<1>4. QED
  BY <1>1, <1>2, <1>3 DEF BlockAgent, clocks, Policy!Ban, Policy!Without,
     GrantsNow, LiveNow, LevelsNow, AnswerNow

LEMMA RevokeAgentPolicy ==
  ASSUME NEW a \in Agents, RevokeAgent(a)
  PROVE  Policy!Withdraw(a)
<1>1. GrantsNow' = Policy!Restrict(GrantsNow, DOMAIN GrantsNow \ {a})
  BY DroppedGrant DEF RevokeAgent, clocks
<1>2. LevelsNow' = LevelsNow
  BY LevelsFrame DEF RevokeAgent, clocks, limiter
<1>3. AnswerNow' = "none"
  BY DEF AnswerNow, Rejections, RevokeAgent
<1>4. QED
  BY <1>1, <1>2, <1>3 DEF RevokeAgent, clocks, Policy!Withdraw, Policy!Without,
     GrantsNow, LiveNow, LevelsNow, AnswerNow

\* A batch of grants: an agent of the batch has exactly its new grant, if that
\* one has not expired; any other keeps what it had.
LEMMA GrantAllPolicy ==
  ASSUME NEW batch, DOMAIN batch \subseteq Agents, GrantAll(batch)
  PROVE  Policy!Permit(batch)
<1> DEFINE kept == DOMAIN GrantsNow \ DOMAIN batch
           live == {a \in DOMAIN batch : Policy!Unexpired(batch[a], wall)}
<1>1. /\ DOMAIN trusted_agents' = DOMAIN trusted_agents \cup DOMAIN batch
      /\ \A x \in DOMAIN batch : trusted_agents'[x] = batch[x]
      /\ \A x \in DOMAIN trusted_agents \ DOMAIN batch :
           trusted_agents'[x] = trusted_agents[x]
      /\ wall' = wall
  BY DEF GrantAll, clocks
<1>2. LiveNow' = kept \cup live
  BY <1>1 DEF LiveNow, IsTrusted, IsValid, GrantsNow, Policy!Unexpired
<1>3. \A x \in LiveNow : x \in DOMAIN trusted_agents
  BY DEF LiveNow, IsTrusted
<1>4. GrantsNow' = [a \in kept \cup live |-> IF a \in live THEN batch[a] ELSE GrantsNow[a]]
  <2>1. \A a \in live : trusted_agents'[a] = batch[a]
    BY <1>1
  <2>2. \A a \in kept \ live : trusted_agents'[a] = GrantsNow[a]
    BY <1>1, <1>3 DEF GrantsNow
  <2>3. GrantsNow' = [a \in LiveNow' |-> trusted_agents'[a]]
    BY DEF GrantsNow
  <2> HIDE DEF kept, live
  <2>4. QED
    BY <1>2, <2>1, <2>2, <2>3
<1>5. LevelsNow' = LevelsNow
  BY LevelsFrame DEF GrantAll, clocks, limiter
<1>6. AnswerNow' = "none"
  BY DEF AnswerNow, Rejections, GrantAll
<1>7. QED
  BY <1>1, <1>4, <1>5, <1>6 DEF GrantAll, Policy!Permit,
     GrantsNow, LiveNow, LevelsNow, AnswerNow

LEMMA PairPolicy ==
  ASSUME NEW pair \in Pairs, BlockPair(pair) \/ UnblockPair(pair)
  PROVE  Policy!SetPair(pair)
<1>1. UNCHANGED <<clocks, blocked_agents, trusted_agents, limiter>> /\ reply' = "none"
  BY DEF BlockPair, UnblockPair
<1>2. GrantsNow' = GrantsNow /\ LevelsNow' = LevelsNow
  BY <1>1, GrantsFrame, LevelsFrame DEF clocks, limiter
<1>3. AnswerNow' = "none"
  BY <1>1 DEF AnswerNow, Rejections
<1>4. blocked_pairs' \in {blocked_pairs \cup {pair}, blocked_pairs \ {pair}}
  BY DEF BlockPair, UnblockPair
<1>5. QED
  BY <1>1, <1>2, <1>3, <1>4 DEF clocks, Policy!SetPair,
     GrantsNow, LiveNow, LevelsNow, AnswerNow

LEMMA AdministerPolicy ==
  ASSUME TrustInv, Administer
  PROVE  Policy!PolicyNext
<1>1. ASSUME NEW a \in Agents, BlockAgent(a) \/ RevokeAgent(a)
      PROVE  Policy!PolicyNext
  BY <1>1, BlockAgentPolicy, RevokeAgentPolicy DEF Policy!PolicyNext
<1>2. ASSUME NEW batch, DOMAIN batch \subseteq Agents,
             batch \in [DOMAIN batch -> Grants], GrantAll(batch)
      PROVE  Policy!PolicyNext
  BY <1>2, GrantAllPolicy DEF Policy!PolicyNext
<1>3. ASSUME NEW a \in Agents, NEW grant \in Grants, TrustAgent(a, grant)
      PROVE  Policy!PolicyNext
  <2>1. /\ DOMAIN [x \in {a} |-> grant] \subseteq Agents
        /\ [x \in {a} |-> grant] \in [DOMAIN [x \in {a} |-> grant] -> Grants]
        /\ GrantAll([x \in {a} |-> grant])
    BY <1>3 DEF TrustAgent
  <2>2. QED
    BY <1>2, <2>1
<1>4. ASSUME NEW batch \in Batches, LoadFromEnv(batch) PROVE Policy!PolicyNext
  BY <1>2, <1>4, TrustAssumption DEF LoadFromEnv
<1>5. ASSUME NEW pair \in Pairs, BlockPair(pair) \/ UnblockPair(pair)
      PROVE  Policy!PolicyNext
  BY <1>5, PairPolicy DEF Policy!PolicyNext
<1>6. QED
  BY <1>1, <1>3, <1>4, <1>5 DEF Administer

\* As time passes, grants only expire.
LEMMA ExpiredGrants ==
  ASSUME TrustInv, UNCHANGED trusted_agents, wall' \in Int, wall <= wall'
  PROVE  Policy!Expire
<1>1. \A x \in DOMAIN trusted_agents : trusted_agents[x].until \in Int \cup {Forever}
  BY TrustAssumption DEF TrustInv, TypeOK, Grant
<1>2. wall \in Int /\ Forever \notin Int
  BY TrustAssumption DEF TrustInv, TypeOK
<1>3. \A x \in LiveNow : x \in DOMAIN trusted_agents
  BY DEF LiveNow, IsTrusted
<1>4. LiveNow' = {x \in LiveNow : Policy!Unexpired(trusted_agents[x], wall')}
  BY <1>1, <1>2 DEF LiveNow, IsTrusted, IsValid, Policy!Unexpired
<1>5. LiveNow' = {x \in DOMAIN GrantsNow : Policy!Unexpired(GrantsNow[x], wall')}
  BY <1>4 DEF GrantsNow
<1>6. GrantsNow' = Policy!Restrict(GrantsNow, LiveNow')
  BY <1>4 DEF GrantsNow, Policy!Restrict
<1>7. QED
  BY <1>5, <1>6 DEF Policy!Expire, GrantsNow, LiveNow

LEMMA TickPolicy ==
  ASSUME TrustInv, Tick
  PROVE  Policy!Pass
<1>1. /\ wall' = wall + 1 /\ wall \in Int /\ reply' = "none"
      /\ UNCHANGED <<blocked_agents, trusted_agents, blocked_pairs, limiter>>
  BY DEF Tick, TrustInv, TypeOK
<1>2. Policy!Expire
  BY <1>1, ExpiredGrants
<1>3. Policy!Full = Capacity
  BY DEF Policy!Full, Capacity
<1>4. LevelsNow' = [p \in Pairs |-> IF LevelsNow[p] + MaxRequests < Policy!Full
                                    THEN LevelsNow[p] + MaxRequests ELSE Policy!Full]
  BY <1>3, TickLevel DEF LevelsNow
<1>5. AnswerNow' = "none"
  BY <1>1 DEF AnswerNow, Rejections
<1>6. QED
  BY <1>1, <1>2, <1>4, <1>5 DEF Policy!Pass, LevelsNow, AnswerNow

LEMMA StepWallPolicy ==
  ASSUME TrustInv, ForwardOnly, StepWall
  PROVE  Policy!Leap
<1>1. /\ wall' \in Int /\ wall' > wall /\ wall \in Int /\ reply' = "none"
      /\ UNCHANGED <<mono, blocked_agents, trusted_agents, blocked_pairs, limiter>>
  BY TrustAssumption DEF StepWall, ForwardOnly, TrustInv, TypeOK
<1>2. Policy!Expire
  BY <1>1, ExpiredGrants
<1>3. LevelsNow' = LevelsNow
  BY <1>1, LevelsFrame DEF limiter
<1>4. AnswerNow' = "none"
  BY <1>1 DEF AnswerNow, Rejections
<1>5. QED
  BY <1>1, <1>2, <1>3, <1>4 DEF Policy!Leap, LevelsNow, AnswerNow

\* The order of the checks does not matter to the policy.
LEMMA MaySendIsNoRejection ==
  ASSUME TrustInv, NEW s \in Agents, NEW r \in Agents, NEW type
  PROVE  Policy!MaySend(s, r, type) <=> TrustRejection(s, r, type) = "none"
<1>1. \A a, peer \in Agents : Policy!Scoped(a, peer, type) <=> ~ScopeBlocks(a, peer, type)
  BY DEF Policy!Scoped, ScopeBlocks
<1>2. DefaultAllow \in BOOLEAN
  BY TrustAssumption
<1>3. {s, r} \cap blocked_agents = {} <=> s \notin blocked_agents /\ r \notin blocked_agents
  OBVIOUS
<1>4. Policy!MaySend(s, r, type) <=> /\ s \notin blocked_agents /\ r \notin blocked_agents
                                     /\ <<s, r>> \notin blocked_pairs
                                     /\ DefaultAllow \/ IsTrusted(s)
                                     /\ ~ScopeBlocks(s, r, type)
                                     /\ ~ScopeBlocks(r, s, type)
  BY <1>1, <1>3 DEF Policy!MaySend
<1>5. QED
  BY <1>2, <1>4 DEF TrustRejection

LEMMA RejectPolicy ==
  ASSUME TrustInv, NEW pair \in Pairs, NEW type, Reject(pair[1], pair[2], type)
  PROVE  Policy!Decide(pair[1], pair[2], type)
<1>1. pair[1] \in Agents /\ pair[2] \in Agents
  BY TrustAssumption
<1>2. ~Policy!MaySend(pair[1], pair[2], type)
  BY <1>1, MaySendIsNoRejection DEF Reject
<1>3. GrantsNow' = GrantsNow /\ LevelsNow' = LevelsNow
  BY GrantsFrame, LevelsFrame DEF Reject, clocks, limiter
<1>4. reply' \in Rejections
  BY DEF Reject, TrustRejection, Rejections
<1>5. AnswerNow' = "rejected"
  BY <1>4 DEF AnswerNow
<1>6. QED
  BY <1>2, <1>3, <1>5 DEF Policy!Decide, Reject, clocks, GrantsNow, LiveNow,
     LevelsNow, AnswerNow

LEMMA AdmitPolicy ==
  ASSUME TrustInv, NEW pair \in Pairs, NEW type, Admit(pair[1], pair[2], type)
  PROVE  Policy!Decide(pair[1], pair[2], type)
<1>1. pair[1] \in Agents /\ pair[2] \in Agents /\ pair = <<pair[1], pair[2]>>
  BY TrustAssumption
<1>2. Policy!MaySend(pair[1], pair[2], type)
  BY <1>1, MaySendIsNoRejection DEF Admit
<1>3. GrantsNow' = GrantsNow
  <2>1. /\ DOMAIN trusted_agents' = LiveGrants /\ wall' = wall
        /\ \A x \in LiveGrants : trusted_agents'[x] = trusted_agents[x]
    BY DEF Admit, Restrict, clocks, LiveGrants
  <2>2. LiveNow' = LiveNow /\ LiveNow \subseteq LiveGrants
    BY <2>1 DEF LiveNow, IsTrusted, IsValid, LiveGrants
  <2>3. QED
    BY <2>1, <2>2 DEF GrantsNow
<1>4. UNCHANGED <<wall, blocked_agents, blocked_pairs>>
  BY DEF Admit, clocks
<1>5. LevelsNow[pair] = Level(pair)
  BY DEF LevelsNow
<1>6. CASE Level(pair) >= Minute
  <2>1. LevelsNow' = [LevelsNow EXCEPT ![pair] = @ - Minute] /\ AnswerNow' = "allowed"
    BY <1>6, AdmitLevel DEF LevelsNow, AnswerNow, Rejections
  <2>2. QED
    BY <1>1, <1>2, <1>3, <1>4, <1>5, <1>6, <2>1
    DEF Policy!Decide, GrantsNow, LiveNow, LevelsNow, AnswerNow
<1>7. CASE ~(Level(pair) >= Minute)
  <2>1. LevelsNow' = LevelsNow /\ AnswerNow' = "rate_limited"
    BY <1>7, AdmitLevel DEF LevelsNow, AnswerNow, Rejections
  <2>2. LevelsNow[pair] < Minute
    BY <1>5, <1>7, LevelRange, CapacityType, TrustAssumption
  <2>3. QED
    BY <1>1, <1>2, <1>3, <1>4, <2>1, <2>2
    DEF Policy!Decide, GrantsNow, LiveNow, LevelsNow, AnswerNow
<1>8. QED
  BY <1>6, <1>7

LEMMA NextPolicy ==
  TrustInv /\ ForwardOnly /\ [Next]_vars => [Policy!PolicyNext]_(Policy!policyVars)
<1> SUFFICES ASSUME TrustInv, ForwardOnly, [Next]_vars
             PROVE  Policy!PolicyNext \/ UNCHANGED Policy!policyVars
  OBVIOUS
<1>1. CASE UNCHANGED vars
  <2>1. GrantsNow' = GrantsNow /\ LevelsNow' = LevelsNow /\ AnswerNow' = AnswerNow
    BY <1>1, GrantsFrame, LevelsFrame DEF vars, AnswerNow
  <2>2. QED
    BY <1>1, <2>1 DEF vars, Policy!policyVars, GrantsNow, LiveNow, LevelsNow, AnswerNow
<1>2. CASE Tick
  BY <1>2, TickPolicy DEF Policy!PolicyNext
<1>3. CASE StepWall
  BY <1>3, StepWallPolicy DEF Policy!PolicyNext
<1>4. ASSUME NEW pair \in Pairs, EvaluatePair(pair) PROVE Policy!PolicyNext
  BY <1>4, RejectPolicy, AdmitPolicy DEF EvaluatePair, Evaluate, Policy!PolicyNext
<1>5. QED
  BY <1>1, <1>2, <1>3, <1>4, AdministerPolicy DEF Next

\* Lazy refills, lazily created and evicted buckets and lazily evicted grants
\* make no difference to any answer: with a wall clock that never goes back,
\* the boundary is the one that keeps every bucket and forgets every grant on
\* time.
THEOREM BoundaryKeepsPolicy ==
  ASSUME ForwardOnly
  PROVE  Spec => PolicySpec
<1>1. TrustInv /\ [Next]_vars => [Policy!PolicyNext]_(Policy!policyVars)
  BY NextPolicy
<1>2. QED
  BY <1>1, InitPolicy, TrustInvariance, PTL DEF Spec, PolicySpec, Policy!PolicySpec

=============================================================================
