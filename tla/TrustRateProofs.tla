-------------------------- MODULE TrustRateProofs --------------------------
(***************************************************************************)
(* The proof that max_requests_per_minute bounds what a pair may send in   *)
(* any window of time.  The inductive invariant weighs, for every allowed  *)
(* call, the calls since then and the tokens left now against what the     *)
(* burst and the time since then can have paid for.                        *)
(***************************************************************************)
EXTENDS TrustRate, TrustBoundaryProofs, SequenceTheorems

HistoryOK ==
  /\ passed \in [Pairs -> Seq(Nat)]
  /\ \A p \in Pairs : \A i \in 1..Len(passed[p]) : passed[p][i] <= mono

Paid(p, i) == (Len(passed[p]) - i + 1) * Minute + Level(p)
Earned(p, i) == Capacity + (mono - passed[p][i]) * MaxRequests

Balance == \A p \in Pairs : \A i \in 1..Len(passed[p]) : Paid(p, i) <= Earned(p, i)

RateInv == TrustInv /\ HistoryOK /\ Balance /\ WindowBound

LEMMA InitRateInv == RateInit => RateInv
<1> SUFFICES ASSUME RateInit PROVE RateInv
  OBVIOUS
<1>1. TrustInv
  BY InitTrustInv DEF RateInit
<1>2. \A p \in Pairs : Len(passed[p]) = 0
  BY EmptySeq DEF RateInit
<1>3. HistoryOK
  BY <1>2, EmptySeq DEF RateInit, HistoryOK
<1>4. QED
  BY <1>1, <1>2, <1>3 DEF RateInv, Balance, WindowBound

\* The numbers a call's balance is made of.
LEMMA BalanceTypes ==
  ASSUME TrustInv, HistoryOK, NEW p \in Pairs, NEW i \in 1..Len(passed[p])
  PROVE  /\ Len(passed[p]) \in Nat /\ passed[p][i] \in Nat
         /\ mono - passed[p][i] \in Nat /\ mono \in Nat
         /\ (Len(passed[p]) - i + 1) * Minute \in Nat
         /\ (mono - passed[p][i]) * MaxRequests \in Nat
         /\ Level(p) \in Nat /\ Minute \in Nat /\ MaxRequests \in Nat
<1>1. passed[p] \in Seq(Nat)
  BY DEF HistoryOK
<1>2. Len(passed[p]) \in Nat /\ passed[p][i] \in Nat
  BY <1>1, LenProperties, ElementOfSeq
<1>3. mono - passed[p][i] \in Nat /\ mono \in Nat
  BY <1>2 DEF HistoryOK, TrustInv, TypeOK
<1>4. Minute \in Nat /\ MaxRequests \in Nat
  BY TrustAssumption
<1>5. Len(passed[p]) - i + 1 \in Nat
  BY <1>2
<1>6. Level(p) \in Nat
  BY LevelRange, CapacityType
<1>7. QED
  BY <1>2, <1>3, <1>4, <1>5, <1>6, ProductNat

\* Steps in which no time passes and no call is allowed.
LEMMA QuietRateInv ==
  ASSUME RateInv, TrustInv', passed' = passed, mono' = mono,
         \A p \in Pairs : Level(p)' = Level(p)
  PROVE  RateInv'
<1>1. HistoryOK' /\ WindowBound'
  BY DEF RateInv, HistoryOK, WindowBound, Capacity
<1>2. Balance'
  BY DEF RateInv, Balance, Paid, Earned, Capacity
<1>3. QED
  BY <1>1, <1>2 DEF RateInv

\* A tick pays for MaxRequests parts, and refills at most as many.
LEMMA TickRateInv ==
  ASSUME RateInv, TrustInv', Tick, passed' = passed
  PROVE  RateInv'
<1> USE DEF RateInv
<1>1. mono' = mono + 1 /\ mono \in Nat /\ MaxRequests \in Nat
  BY TrustAssumption DEF Tick, TrustInv, TypeOK
<1>2. HistoryOK'
  <2>1. \A p \in Pairs : \A i \in 1..Len(passed[p]) : passed[p][i] \in Nat
    BY BalanceTypes
  <2>2. QED
    BY <1>1, <2>1 DEF HistoryOK
<1>3. WindowBound'
  BY DEF WindowBound, Capacity
<1>4. Balance'
  <2> SUFFICES ASSUME NEW p \in Pairs, NEW i \in 1..Len(passed[p])
               PROVE  (Paid(p, i) <= Earned(p, i))'
    BY DEF Balance
  <2> DEFINE spent == (Len(passed[p]) - i + 1) * Minute
             since == mono - passed[p][i]
  <2>1. /\ spent \in Nat /\ since \in Nat /\ Level(p) \in Nat
        /\ since * MaxRequests \in Nat
    BY BalanceTypes
  <2>2. spent + Level(p) <= Capacity + since * MaxRequests
    BY DEF Balance, Paid, Earned
  <2>3. Level(p)' <= Level(p) + MaxRequests /\ Level(p)' \in Nat
    BY <1>1, <2>1, TickLevel, CapacityType
  <2>4. mono' - passed[p][i] = since + 1
    <3>1. passed[p][i] \in Nat
      BY BalanceTypes
    <3>2. QED
      BY <1>1, <3>1
  <2>5. (since + 1) * MaxRequests = since * MaxRequests + MaxRequests
    BY <1>1, <2>1
  <2>6. Paid(p, i)' = spent + Level(p)'
    BY DEF Paid
  <2>7. Earned(p, i)' = Capacity + (since + 1) * MaxRequests
    BY <2>4 DEF Earned, Capacity
  <2> HIDE DEF spent, since
  <2>8. QED
    BY <1>1, <2>1, <2>2, <2>3, <2>5, <2>6, <2>7, CapacityType
<1>5. QED
  BY <1>2, <1>3, <1>4

\* An allowed call costs its pair one token, which is one call's worth.
LEMMA AllowedRateInv ==
  ASSUME RateInv, TrustInv', NEW pair \in Pairs, NEW type,
         Admit(pair[1], pair[2], type), Level(pair) >= Minute,
         passed' = [passed EXCEPT ![pair] = Append(@, mono)]
  PROVE  RateInv'
<1> USE DEF RateInv
<1> DEFINE n == Len(passed[pair])
<1>1. /\ Level(pair)' = Level(pair) - Minute
      /\ \A q \in Pairs \ {pair} : Level(q)' = Level(q)
  BY AdmitLevel
<1>2. mono' = mono /\ mono \in Nat /\ Minute \in Nat /\ MaxRequests \in Nat
      /\ Level(pair) \in 0..Capacity
  BY LevelRange, TrustAssumption DEF Admit, clocks, TrustInv, TypeOK
<1>3. passed[pair] \in Seq(Nat) /\ n \in Nat
  BY LenProperties DEF HistoryOK
<1>4. /\ passed'[pair] = Append(passed[pair], mono)
      /\ \A q \in Pairs \ {pair} : passed'[q] = passed[q]
      /\ passed' \in [Pairs -> Seq(Nat)]
  BY <1>2, <1>3, AppendProperties DEF HistoryOK
<1>5. /\ Len(passed'[pair]) = n + 1
      /\ passed'[pair][n + 1] = mono
      /\ \A i \in 1..n : passed'[pair][i] = passed[pair][i]
  BY <1>2, <1>3, <1>4, AppendProperties
<1>6. HistoryOK'
  <2>1. mono <= mono
    BY <1>2
  <2>2. \A q \in Pairs : \A i \in 1..Len(passed'[q]) : passed'[q][i] <= mono
    BY <1>3, <1>4, <1>5, <2>1 DEF HistoryOK
  <2>3. QED
    BY <1>2, <1>4, <2>2 DEF HistoryOK
<1>7. \A i \in 1..(n + 1) :
        (n + 1 - i + 1) * Minute + Level(pair)'
           <= Capacity + (mono - passed'[pair][i]) * MaxRequests
  <2> SUFFICES ASSUME NEW i \in 1..(n + 1)
               PROVE  (n + 1 - i + 1) * Minute + Level(pair)'
                         <= Capacity + (mono - passed'[pair][i]) * MaxRequests
    OBVIOUS
  <2>1. CASE i = n + 1
    <3>1. (n + 1 - i + 1) * Minute = Minute
      BY <1>2, <1>3, <2>1
    <3>2. (mono - passed'[pair][i]) * MaxRequests = 0
      BY <1>2, <1>5, <2>1
    <3>3. Minute + Level(pair)' <= Capacity
      BY <1>1, <1>2, CapacityType
    <3>4. QED
      BY <1>2, <3>1, <3>2, <3>3, CapacityType
  <2>2. CASE i \in 1..n
    <3> DEFINE spent == (n - i + 1) * Minute
               gained == (mono - passed[pair][i]) * MaxRequests
    <3>1. spent \in Nat /\ gained \in Nat
      BY <2>2, BalanceTypes
    <3>2. spent + Level(pair) <= Capacity + gained
      BY <2>2 DEF Balance, Paid, Earned
    <3>3. (n + 1 - i + 1) * Minute = spent + Minute
      BY <1>2, <1>3
    <3>4. (mono - passed'[pair][i]) * MaxRequests = gained
      BY <1>5, <2>2
    <3> HIDE DEF spent, gained
    <3>5. QED
      BY <1>1, <1>2, <3>1, <3>2, <3>3, <3>4, CapacityType
  <2>3. QED
    BY <1>3, <2>1, <2>2
<1>8. Balance'
  <2>1. ASSUME NEW i \in 1..Len(passed'[pair]) PROVE (Paid(pair, i) <= Earned(pair, i))'
    BY <1>2, <1>5, <1>7 DEF Paid, Earned, Capacity
  <2>2. ASSUME NEW q \in Pairs \ {pair}, NEW i \in 1..Len(passed'[q])
        PROVE  (Paid(q, i) <= Earned(q, i))'
    BY <1>1, <1>2, <1>4 DEF Balance, Paid, Earned, Capacity
  <2>3. QED
    BY <2>1, <2>2 DEF Balance
<1>9. WindowBound'
  <2>1. ASSUME NEW q \in Pairs \ {pair}, NEW i \in 1..Len(passed'[q]),
               NEW j \in 1..Len(passed'[q]), i <= j
        PROVE  (j - i + 1) * Minute
                  <= Capacity + (passed'[q][j] - passed'[q][i]) * MaxRequests
    BY <1>4, <2>1 DEF WindowBound
  <2>2. ASSUME NEW i \in 1..(n + 1), NEW j \in 1..(n + 1), i <= j
        PROVE  (j - i + 1) * Minute
                  <= Capacity + (passed'[pair][j] - passed'[pair][i]) * MaxRequests
    <3>1. CASE j = n + 1
      <4>1. /\ (n + 1 - i + 1) * Minute + Level(pair)'
                 <= Capacity + (mono - passed'[pair][i]) * MaxRequests
            /\ Level(pair)' \in Nat
        BY <1>1, <1>2, <1>7, CapacityType
      <4>2. /\ (n + 1 - i + 1) * Minute \in Int
            /\ (mono - passed'[pair][i]) * MaxRequests \in Int
        <5>1. passed'[pair][i] \in Nat
          BY <1>2, <1>3, <1>5, BalanceTypes
        <5>2. QED
          BY <1>2, <1>3, <5>1
      <4>3. QED
        BY <1>5, <3>1, <4>1, <4>2, CapacityType
    <3>2. CASE j # n + 1
      <4>1. i \in 1..n /\ j \in 1..n
        BY <1>3, <2>2, <3>2
      <4>2. QED
        BY <1>5, <2>2, <4>1 DEF WindowBound
    <3>3. QED
      BY <3>1, <3>2
  <2>3. QED
    BY <1>5, <2>1, <2>2 DEF WindowBound, Capacity
<1>10. QED
  BY <1>6, <1>8, <1>9

LEMMA SameLevel ==
  ASSUME rate_limits' = rate_limits, mono' = mono
  PROVE  \A p \in Pairs : Level(p)' = Level(p)
BY DEF Level, Refilled, Capacity

LEMMA NextRateInv == RateInv /\ [RateNext]_rateVars => RateInv'
<1> SUFFICES ASSUME RateInv, [RateNext]_rateVars PROVE RateInv'
  OBVIOUS
<1>1. TrustInv'
  <2>1. [Next]_vars
    BY DEF RateNext, RateEvaluate, Next, rateVars
  <2>2. QED
    BY <2>1, NextTrustInv DEF RateInv
<1>2. CASE UNCHANGED rateVars
  <2>1. rate_limits' = rate_limits /\ mono' = mono /\ passed' = passed
    BY <1>2 DEF rateVars, vars
  <2>2. QED
    BY <1>1, <2>1, SameLevel, QuietRateInv
<1>3. CASE Administer /\ UNCHANGED passed
  <2>1. UNCHANGED limiter /\ UNCHANGED clocks
    BY <1>3 DEF Administer, BlockAgent, RevokeAgent, TrustAgent, LoadFromEnv,
       GrantAll, BlockPair, UnblockPair
  <2>2. rate_limits' = rate_limits /\ mono' = mono
    BY <2>1 DEF limiter, clocks
  <2>3. QED
    BY <1>1, <1>3, <2>2, SameLevel, QuietRateInv
<1>4. CASE StepWall /\ UNCHANGED passed
  <2>1. rate_limits' = rate_limits /\ mono' = mono
    BY <1>4 DEF StepWall, limiter
  <2>2. QED
    BY <1>1, <1>4, <2>1, SameLevel, QuietRateInv
<1>5. CASE Tick /\ UNCHANGED passed
  BY <1>1, <1>5, TickRateInv
<1>6. ASSUME NEW pair \in Pairs, NEW type, Reject(pair[1], pair[2], type),
             RateEvaluate(pair)
      PROVE  RateInv'
  <2>1. rate_limits' = rate_limits /\ mono' = mono
    BY <1>6 DEF Reject, limiter, clocks
  <2>2. reply' # "allowed"
    BY <1>6 DEF Reject, TrustRejection
  <2>3. passed' = passed
    BY <1>6, <2>2 DEF RateEvaluate
  <2>4. QED
    BY <1>1, <2>1, <2>3, SameLevel, QuietRateInv
<1>7. ASSUME NEW pair \in Pairs, NEW type, Admit(pair[1], pair[2], type),
             RateEvaluate(pair)
      PROVE  RateInv'
  <2>1. CASE Level(pair) >= Minute
    <3>1. reply' = "allowed"
      BY <1>7, <2>1, AdmitLevel DEF RateInv
    <3>2. passed' = [passed EXCEPT ![pair] = Append(@, mono)]
      BY <1>7, <3>1 DEF RateEvaluate
    <3>3. QED
      BY <1>1, <1>7, <2>1, <3>2, AllowedRateInv
  <2>2. CASE ~(Level(pair) >= Minute)
    <3>1. /\ reply' = "rate_limited"
          /\ \A p \in Pairs : Level(p)' = Level(p)
      BY <1>7, <2>2, AdmitLevel DEF RateInv
    <3>2. passed' = passed /\ mono' = mono
      BY <1>7, <3>1 DEF RateEvaluate, Admit, clocks
    <3>3. QED
      BY <1>1, <3>1, <3>2, QuietRateInv
  <2>3. QED
    BY <2>1, <2>2
<1>8. QED
  BY <1>2, <1>3, <1>4, <1>5, <1>6, <1>7
     DEF RateNext, RateEvaluate, EvaluatePair, Evaluate

\* In every window of time a pair is allowed at most MaxRequests calls, and
\* MaxRequests more per minute of the window, although buckets are refilled
\* lazily, evicted when idle and created anew.
THEOREM RateLimited == RateSpec => []WindowBound
<1>1. RateInv => WindowBound
  BY DEF RateInv
<1>2. QED
  BY <1>1, InitRateInv, NextRateInv, PTL DEF RateSpec

=============================================================================
