---------------------------- MODULE GuardProofs ----------------------------
(***************************************************************************)
(* What the operators of the finance and the logic guard compute: Decimal  *)
(* arithmetic - powers of ten, the last significant digit, rounding and    *)
(* quantization - for every precision and every amount; and the            *)
(* normalization of claims for texts of any length.                        *)
(***************************************************************************)
EXTENDS Finance, Logic, NaturalFacts, SequenceTheorems

-----------------------------------------------------------------------------
(* Finance: powers of ten. *)

\* The recursive definition of TenTo has a solution.
LEMMA TenToDefined ==
  TenTo = [k \in Nat |-> IF k = 0 THEN 1 ELSE 10 * TenTo[k - 1]]
PROOF
<1> DEFINE Tenfold == [v \in Nat |-> 10 * v]
<1>1. \E g : Iterated(Nat, 1, Tenfold, g)
  <2>1. Tenfold \in [Nat -> Nat] /\ 1 \in Nat
    OBVIOUS
  <2> HIDE DEF Tenfold
  <2>2. QED
    BY <2>1, Iteration
<1>2. PICK g \in [Nat -> Nat] : g[0] = 1 /\ \A k \in Nat : g[k + 1] = 10 * g[k]
  BY <1>1 DEF Iterated
<1>3. \A k \in Nat : k # 0 => k - 1 \in Nat /\ (k - 1) + 1 = k
  OBVIOUS
<1>4. \A k \in Nat : g[k] = IF k = 0 THEN 1 ELSE 10 * g[k - 1]
  BY <1>2, <1>3
<1>5. g = [k \in Nat |-> IF k = 0 THEN 1 ELSE 10 * g[k - 1]]
  BY <1>4
<1>6. QED
  BY <1>5 DEF TenTo

LEMMA TenToStep ==
  /\ TenTo[0] = 1
  /\ \A k \in Nat : TenTo[k + 1] = 10 * TenTo[k]
PROOF
<1>1. \A k \in Nat : TenTo[k] = IF k = 0 THEN 1 ELSE 10 * TenTo[k - 1]
  BY TenToDefined
<1>2. \A k \in Nat : k + 1 \in Nat /\ k + 1 # 0 /\ (k + 1) - 1 = k
  OBVIOUS
<1>3. QED
  BY <1>1, <1>2

LEMMA TenToPositive ==
  ASSUME NEW n \in Nat
  PROVE  TenTo[n] \in Nat /\ n < TenTo[n]
PROOF
<1> DEFINE T == {k \in Nat : ~(TenTo[k] \in Nat /\ k < TenTo[k])}
<1> SUFFICES ASSUME T # {}
             PROVE  FALSE
  OBVIOUS
<1>1. PICK k \in T : \A j \in T : k <= j
  <2>1. T \subseteq Nat
    OBVIOUS
  <2> HIDE DEF T
  <2>2. QED
    BY <2>1, LeastNatural
<1>2. CASE k = 0
  BY <1>2, TenToStep
<1>3. CASE k # 0
  <2>1. k - 1 \in Nat /\ k - 1 \notin T /\ (k - 1) + 1 = k
    BY <1>1, <1>3
  <2>2. TenTo[k - 1] \in Nat /\ k - 1 < TenTo[k - 1]
    BY <2>1
  <2>3. TenTo[k] = 10 * TenTo[k - 1]
    BY <2>1, TenToStep
  <2>4. k \in Nat /\ TenTo[k] \in Nat /\ k < TenTo[k]
    BY <2>1, <2>2, <2>3
  <2>5. QED
    BY <2>4
<1>4. QED
  BY <1>2, <1>3

LEMMA TenToSum ==
  ASSUME NEW n \in Nat, NEW m \in Nat
  PROVE  TenTo[n + m] = TenTo[m] * TenTo[n]
PROOF
<1> DEFINE T == {k \in Nat : TenTo[n + k] # TenTo[k] * TenTo[n]}
<1> SUFFICES ASSUME T # {}
             PROVE  FALSE
  OBVIOUS
<1>1. PICK k \in T : \A j \in T : k <= j
  <2>1. T \subseteq Nat
    OBVIOUS
  <2> HIDE DEF T
  <2>2. QED
    BY <2>1, LeastNatural
<1>2. TenTo[n] \in Nat
  BY TenToPositive
<1>3. CASE k = 0
  BY <1>2, <1>3, TenToStep
<1>4. CASE k # 0
  <2>1. k - 1 \in Nat /\ k - 1 \notin T /\ (k - 1) + 1 = k
    BY <1>1, <1>4
  <2>2. TenTo[n + (k - 1)] = TenTo[k - 1] * TenTo[n]
    BY <2>1
  <2>3. TenTo[k] = 10 * TenTo[k - 1] /\ TenTo[k - 1] \in Nat
    BY <2>1, TenToStep, TenToPositive
  <2>4. n + (k - 1) \in Nat /\ (n + (k - 1)) + 1 = n + k
    BY <2>1
  <2>5. TenTo[n + k] = 10 * TenTo[n + (k - 1)]
    BY <2>4, TenToStep
  <2>6. QED
    BY <1>2, <2>2, <2>3, <2>5
<1>5. QED
  BY <1>3, <1>4

LEMMA TenToGrows ==
  ASSUME NEW n \in Nat, NEW m \in Nat, n <= m
  PROVE  TenTo[n] <= TenTo[m] /\ TenTo[m] = TenTo[m - n] * TenTo[n]
PROOF
<1>1. m - n \in Nat /\ n + (m - n) = m
  OBVIOUS
<1>2. TenTo[m] = TenTo[m - n] * TenTo[n]
  BY <1>1, TenToSum
<1>3. TenTo[m - n] \in Nat /\ TenTo[m - n] >= 1 /\ TenTo[n] \in Nat
  BY <1>1, TenToPositive
<1>4. \A a, b \in Nat : a >= 1 => b <= a * b
  OBVIOUS
<1>5. QED
  BY <1>2, <1>3, <1>4

-----------------------------------------------------------------------------
(* Rounding. *)

LEMMA Division ==
  ASSUME NEW v \in Nat, NEW u \in Nat, u > 0
  PROVE  /\ v \div u \in Nat /\ v % u \in 0..(u - 1)
         /\ v = (v \div u) * u + (v % u)
OBVIOUS

LEMMA DivisionOfMultiple ==
  ASSUME NEW m \in Nat, NEW u \in Nat, u > 0
  PROVE  (m * u) \div u = m /\ (m * u) % u = 0
PROOF
<1> DEFINE q == (m * u) \div u
           r == (m * u) % u
<1>1. q \in Nat /\ r \in 0..(u - 1) /\ m * u = q * u + r
  BY Division
<1> HIDE DEF q, r
<1>2. (m - q) * u = r
  BY <1>1
<1>3. ~(m - q >= 1)
  BY <1>1, <1>2
<1>4. ~(m - q <= -1)
  BY <1>1, <1>2
<1>5. QED
  BY <1>1, <1>2, <1>3, <1>4 DEF q, r

\* Rounding gives a multiple of the unit, next to the value, and is off by
\* half a unit at most.
LEMMA HalfEvenClose ==
  ASSUME NEW v \in Nat, NEW u \in Nat, u > 0
  PROVE  /\ HalfEven(v, u) \in {(v \div u) * u, (v \div u + 1) * u}
         /\ HalfEven(v, u) \in Nat
         /\ 2 * (HalfEven(v, u) - v) <= u
         /\ 2 * (v - HalfEven(v, u)) <= u
PROOF
<1> DEFINE q == v \div u
           r == v % u
<1>1. q \in Nat /\ r \in 0..(u - 1) /\ v = q * u + r
  BY Division
<1>2. HalfEven(v, u) = IF 2 * r > u \/ (2 * r = u /\ q % 2 = 1)
                       THEN (q + 1) * u ELSE q * u
  BY DEF HalfEven
<1> HIDE DEF q, r
<1>3. (q + 1) * u = q * u + u /\ q * u \in Nat
  BY <1>1
<1>4. QED
  BY <1>1, <1>2, <1>3 DEF q

LEMMA HalfEvenExact ==
  ASSUME NEW m \in Nat, NEW u \in Nat, u > 0
  PROVE  HalfEven(m * u, u) = m * u
BY DivisionOfMultiple DEF HalfEven

\* The last significant digit of a value stands where it leaves Precision
\* digits before it, or at the unit.
LEMMA UlpDigits ==
  ASSUME NEW v \in Nat
  PROVE  \E k \in Nat : /\ Ulp(v) = TenTo[k]
                        /\ v < TenTo[Precision + k]
                        /\ k = 0 \/ v >= TenTo[Precision + k - 1]
PROOF
<1> DEFINE LastDigit(k) == v < TenTo[Precision + k] /\ (k = 0 \/ v >= TenTo[Precision + k - 1])
           T == {k \in Nat : v < TenTo[Precision + k]}
<1>1. Precision \in Nat
  BY FinanceAssumption
<1>2. v \in T
  <2>1. v < TenTo[v] /\ TenTo[v] \in Nat
    BY TenToPositive
  <2>2. Precision + v \in Nat /\ v <= Precision + v
    BY <1>1
  <2>3. TenTo[v] <= TenTo[Precision + v] /\ TenTo[Precision + v] \in Nat
    BY <2>2, TenToGrows, TenToPositive
  <2>4. QED
    BY <2>1, <2>3
<1>3. PICK k \in T : \A j \in T : k <= j
  <2>1. T \subseteq Nat /\ T # {}
    BY <1>2
  <2> HIDE DEF T
  <2>2. QED
    BY <2>1, LeastNatural
<1>4. k \in 0..v
  BY <1>2, <1>3
<1>5. LastDigit(k)
  <2>1. SUFFICES ASSUME k # 0
                 PROVE  v >= TenTo[Precision + k - 1]
    OBVIOUS
  <2>2. k - 1 \in Nat /\ k - 1 \notin T
    BY <1>3, <2>1
  <2>3. ~(v < TenTo[Precision + (k - 1)])
    BY <2>2
  <2>4. Precision + (k - 1) \in Nat /\ Precision + (k - 1) = Precision + k - 1
    BY <1>1, <2>2
  <2>5. TenTo[Precision + k - 1] \in Nat
    BY <2>4, TenToPositive
  <2>6. QED
    BY <2>3, <2>4, <2>5
<1>6. Ulp(v) = TenTo[CHOOSE j \in 0..v : LastDigit(j)]
  BY DEF Ulp
<1>7. \E j \in 0..v : LastDigit(j)
  BY <1>4, <1>5
<1> HIDE DEF LastDigit
<1>8. PICK j \in 0..v : j = (CHOOSE i \in 0..v : LastDigit(i)) /\ LastDigit(j)
  BY <1>7
<1>9. Ulp(v) = TenTo[j]
  BY <1>6, <1>8
<1>10. j \in Nat /\ v < TenTo[Precision + j] /\ (j = 0 \/ v >= TenTo[Precision + j - 1])
  BY <1>8 DEF LastDigit
<1>11. QED
  BY <1>9, <1>10

LEMMA UlpPositive ==
  ASSUME NEW v \in Nat
  PROVE  Ulp(v) \in Nat /\ Ulp(v) > 0
BY UlpDigits, TenToPositive

LEMMA RoundedClose ==
  ASSUME NEW v \in Nat
  PROVE  /\ Rounded(v) \in Nat
         /\ 2 * (Rounded(v) - v) <= Ulp(v)
         /\ 2 * (v - Rounded(v)) <= Ulp(v)
BY UlpPositive, HalfEvenClose DEF Rounded

\* Where the last digit stands decides nothing but how large the value is.
LEMMA UlpBelow ==
  ASSUME NEW v \in Nat, NEW k \in Nat, v < TenTo[Precision + k]
  PROVE  \E j \in Nat : j <= k /\ Ulp(v) = TenTo[j]
PROOF
<1>1. PICK j \in Nat : /\ Ulp(v) = TenTo[j]
                       /\ j = 0 \/ v >= TenTo[Precision + j - 1]
  BY UlpDigits
<1>2. SUFFICES ASSUME ~(j <= k)
               PROVE  FALSE
  BY <1>1
<1>3. /\ Precision + k \in Nat /\ Precision + j - 1 \in Nat
      /\ Precision + k <= Precision + j - 1
  BY <1>2, FinanceAssumption
<1>4. TenTo[Precision + k] <= TenTo[Precision + j - 1]
  BY <1>3, TenToGrows
<1>5. TenTo[Precision + k] \in Nat /\ TenTo[Precision + j - 1] \in Nat
  BY <1>3, TenToPositive
<1>6. QED
  BY <1>1, <1>2, <1>4, <1>5

\* A value that has few enough digits before the k-th place, and none behind
\* it, is what it was.
LEMMA RoundedExact ==
  ASSUME NEW m \in Nat, NEW k \in Nat, m * TenTo[k] < TenTo[Precision + k]
  PROVE  Rounded(m * TenTo[k]) = m * TenTo[k]
PROOF
<1> DEFINE v == m * TenTo[k]
<1>1. v \in Nat
  BY TenToPositive
<1>2. PICK j \in Nat : j <= k /\ Ulp(v) = TenTo[j]
  BY <1>1, UlpBelow
<1>3. TenTo[k] = TenTo[k - j] * TenTo[j] /\ k - j \in Nat
  BY <1>2, TenToGrows
<1>4. TenTo[j] \in Nat /\ TenTo[j] > 0 /\ TenTo[k - j] \in Nat
  BY <1>3, TenToPositive
<1>5. v = (m * TenTo[k - j]) * TenTo[j] /\ m * TenTo[k - j] \in Nat
  BY <1>3, <1>4
<1> HIDE DEF v
<1>6. HalfEven(v, TenTo[j]) = v
  BY <1>4, <1>5, HalfEvenExact
<1>7. QED
  BY <1>2, <1>6 DEF Rounded, v

\* What fits into the digits of the context is not rounded at all.
LEMMA RoundedFits ==
  ASSUME NEW v \in Nat, v < TenTo[Precision]
  PROVE  Rounded(v) = v
PROOF
<1>1. v * TenTo[0] = v /\ Precision + 0 = Precision
  BY TenToStep, FinanceAssumption
<1>2. v * TenTo[0] < TenTo[Precision + 0]
  BY <1>1
<1>3. Rounded(v * TenTo[0]) = v * TenTo[0]
  BY <1>2, RoundedExact
<1>4. QED
  BY <1>1, <1>3

LEMMA RoundedMultiple ==
  ASSUME NEW v \in Nat, NEW k \in Nat, Ulp(v) = TenTo[k]
  PROVE  \E q \in Nat : /\ Rounded(v) = q * TenTo[k]
                        /\ (v \div TenTo[k]) <= q /\ q <= (v \div TenTo[k]) + 1
PROOF
<1>1. TenTo[k] \in Nat /\ TenTo[k] > 0
  BY TenToPositive
<1>2. v \div TenTo[k] \in Nat
  BY <1>1, Division
<1>3. \/ Rounded(v) = (v \div TenTo[k]) * TenTo[k]
      \/ Rounded(v) = (v \div TenTo[k] + 1) * TenTo[k]
  BY <1>1, HalfEvenClose DEF Rounded
<1>4. QED
  BY <1>2, <1>3

\* What was rounded once needs no rounding.
LEMMA RoundedTwice ==
  ASSUME NEW v \in Nat
  PROVE  Rounded(Rounded(v)) = Rounded(v)
PROOF
<1>1. PICK k \in Nat : Ulp(v) = TenTo[k] /\ v < TenTo[Precision + k]
  BY UlpDigits
<1> DEFINE u == TenTo[k]
           full == TenTo[Precision]
<1>2. PICK q \in Nat : Rounded(v) = q * u /\ q <= (v \div u) + 1
  BY <1>1, RoundedMultiple
<1>3. Precision \in Nat /\ Precision - 1 \in Nat
  BY FinanceAssumption
<1>4. u \in Nat /\ u > 0 /\ full \in Nat
  BY <1>3, TenToPositive
<1>5. TenTo[Precision + k] = full * u
  <2>1. TenTo[k + Precision] = full * u
    BY <1>3, TenToSum
  <2>2. k + Precision = Precision + k
    BY <1>3
  <2>3. QED
    BY <2>1, <2>2
<1>6. q <= full
  <2>1. v \div u \in Nat /\ v % u \in 0..(u - 1) /\ v = (v \div u) * u + (v % u)
    BY <1>4, Division
  <2>2. \A a, b, c, d \in Nat : d > 0 /\ a * d <= b /\ b < c * d => a + 1 <= c
    OBVIOUS
  <2>3. (v \div u) * u <= v /\ v < full * u
    BY <1>1, <1>4, <1>5, <2>1
  <2>4. (v \div u) + 1 <= full
    BY <1>4, <2>1, <2>2, <2>3
  <2>5. QED
    BY <1>2, <1>4, <2>1, <2>4
<1>7. CASE q < full
  <2>1. \A a, b, c \in Nat : c > 0 /\ a < b => a * c < b * c
    OBVIOUS
  <2>2. q * u < TenTo[Precision + k]
    BY <1>4, <1>5, <1>7, <2>1
  <2>3. QED
    BY <1>2, <2>2, RoundedExact
<1>8. CASE q = full
  <2>1. k + 1 \in Nat /\ TenTo[k + 1] = 10 * u
    BY TenToStep
  <2>2. full = 10 * TenTo[Precision - 1] /\ TenTo[Precision - 1] \in Nat
    BY <1>3, TenToStep, TenToPositive
  <2>3. q * u = TenTo[Precision - 1] * TenTo[k + 1]
    BY <1>4, <1>8, <2>1, <2>2
  <2>4. TenTo[Precision + (k + 1)] = 10 * TenTo[Precision + k]
    <3>1. Precision + k \in Nat /\ (Precision + k) + 1 = Precision + (k + 1)
      BY <1>3
    <3>2. QED
      BY <3>1, TenToStep
  <2>5. TenTo[Precision + k] \in Nat /\ TenTo[Precision + k] > 0
    BY <1>3, TenToPositive
  <2>6. q * u < TenTo[Precision + (k + 1)]
    BY <1>5, <1>8, <2>4, <2>5
  <2>7. Rounded(TenTo[Precision - 1] * TenTo[k + 1]) = TenTo[Precision - 1] * TenTo[k + 1]
    BY <2>1, <2>2, <2>3, <2>6, RoundedExact
  <2>8. QED
    BY <1>2, <2>3, <2>7
<1>9. QED
  BY <1>2, <1>4, <1>6, <1>7, <1>8

\* Rounding takes no value below a power of ten that it had reached.
LEMMA RoundedKeepsSize ==
  ASSUME NEW v \in Nat, NEW k \in Nat, v >= TenTo[Precision + k]
  PROVE  Rounded(v) >= TenTo[Precision + k]
PROOF
<1>1. PICK j \in Nat : /\ Ulp(v) = TenTo[j]
                       /\ v < TenTo[Precision + j]
                       /\ j = 0 \/ v >= TenTo[Precision + j - 1]
  BY UlpDigits
<1> DEFINE u == TenTo[j]
           least == TenTo[Precision - 1]
<1>2. Precision - 1 \in Nat /\ Precision + k \in Nat /\ Precision + j \in Nat
  BY FinanceAssumption
<1>3. u \in Nat /\ u > 0 /\ least \in Nat
  BY <1>2, TenToPositive
<1>4. TenTo[Precision + k] \in Nat /\ TenTo[Precision + j] \in Nat
  BY <1>2, TenToPositive
<1>5. j > k
  <2>1. SUFFICES ASSUME j <= k
                 PROVE  FALSE
    OBVIOUS
  <2>2. Precision + j <= Precision + k
    BY <1>2, <2>1, FinanceAssumption
  <2>3. TenTo[Precision + j] <= TenTo[Precision + k]
    BY <1>2, <2>2, TenToGrows
  <2>4. QED
    BY <1>1, <1>4, <2>3
<1>6. /\ Precision + j - 1 \in Nat
      /\ Precision + k <= Precision + j - 1
      /\ (Precision - 1) + j = Precision + j - 1
      /\ j + (Precision - 1) = Precision + j - 1
  BY <1>2, <1>5, FinanceAssumption
<1>7. TenTo[Precision + j - 1] = least * u
  BY <1>2, <1>6, TenToSum
<1>8. v >= least * u
  BY <1>1, <1>5, <1>7
<1>9. PICK q \in Nat : Rounded(v) = q * u /\ (v \div u) <= q
  BY <1>1, RoundedMultiple
<1>10. v \div u \in Nat /\ v % u \in 0..(u - 1) /\ v = (v \div u) * u + (v % u)
  BY <1>3, Division
<1>11. least <= v \div u
  <2>1. \A a, b, c, d \in Nat : c * d <= b /\ b < (a + 1) * d => c <= a
    OBVIOUS
  <2>2. v < ((v \div u) + 1) * u
    BY <1>3, <1>10
  <2>3. QED
    BY <1>3, <1>8, <1>10, <2>1, <2>2
<1>12. least * u <= q * u
  <2>1. \A a, b, c \in Nat : a <= b => a * c <= b * c
    OBVIOUS
  <2>2. least <= q
    BY <1>3, <1>9, <1>10, <1>11
  <2>3. QED
    BY <1>3, <2>1, <2>2
<1>13. TenTo[Precision + k] <= TenTo[Precision + j - 1]
  BY <1>2, <1>6, TenToGrows
<1>14. TenTo[Precision + j - 1] \in Nat
  BY <1>6, TenToPositive
<1>15. QED
  BY <1>3, <1>4, <1>7, <1>9, <1>12, <1>13, <1>14

-----------------------------------------------------------------------------
(* Cents. *)

LEMMA CentPower ==
  \E k \in Nat : Cent = TenTo[k] /\ Cent \in Nat /\ Cent > 0
                   /\ TenTo[Precision + k] = TenTo[Precision] * Cent
PROOF
<1>1. PICK k \in Nat : Cent = TenTo[k]
  BY FinanceAssumption
<1>2. Precision \in Nat /\ k + Precision = Precision + k
  BY FinanceAssumption
<1>3. TenTo[k + Precision] = TenTo[Precision] * TenTo[k]
  BY <1>2, TenToSum
<1>4. Cent \in Nat /\ Cent > 0
  BY <1>1, TenToPositive
<1>5. QED
  BY <1>1, <1>2, <1>3, <1>4

\* The largest amount whose cents have no more digits than the context.
Cap == TenTo[Precision] * Cent

LEMMA CapNatural == Cap \in Nat /\ Cent \in Nat /\ Cent > 0 /\ TenTo[Precision] \in Nat
PROOF
<1>1. TenTo[Precision] \in Nat
  BY FinanceAssumption, TenToPositive
<1>2. QED
  BY <1>1, CentPower DEF Cap

\* Below the cap a rounding is off by half a cent at most, and none takes a
\* value from above the cap to below it.
LEMMA RoundedBelowCap ==
  ASSUME NEW v \in Nat
  PROVE  /\ v < Cap => /\ 2 * (Rounded(v) - v) <= Cent
                       /\ 2 * (v - Rounded(v)) <= Cent
         /\ Rounded(v) < Cap => v < Cap
PROOF
<1>1. PICK k \in Nat : Cent = TenTo[k] /\ TenTo[Precision + k] = Cap
  BY CentPower DEF Cap
<1>2. ASSUME v < Cap
      PROVE  Ulp(v) <= Cent
  <2>1. PICK j \in Nat : j <= k /\ Ulp(v) = TenTo[j]
    BY <1>1, <1>2, UlpBelow
  <2>2. QED
    BY <1>1, <2>1, TenToGrows
<1>3. ASSUME v >= Cap
      PROVE  Rounded(v) >= Cap
  BY <1>1, <1>3, RoundedKeepsSize
<1>4. QED
  BY <1>2, <1>3, RoundedClose, UlpPositive, CapNatural

LEMMA CentsClose ==
  ASSUME NEW v \in Nat
  PROVE  /\ Cents(v) \in Nat
         /\ 2 * (Cents(v) * Cent) <= 2 * v + Cent
         /\ 2 * v < 2 * (Cents(v) * Cent) + Cent
PROOF
<1> DEFINE n == 2 * v + Cent
           u == 2 * Cent
           c == n \div u
<1>1. n \in Nat /\ u \in Nat /\ u > 0
  BY CapNatural
<1>2. c \in Nat /\ n % u \in 0..(u - 1) /\ n = c * u + (n % u)
  BY <1>1, Division
<1>3. c * u = 2 * (c * Cent)
  BY <1>2, CapNatural
<1> HIDE DEF c
<1>4. 2 * (c * Cent) <= 2 * v + Cent /\ 2 * v < 2 * (c * Cent) + Cent
  <2>1. c * Cent \in Nat
    BY <1>2, CapNatural
  <2>2. QED
    BY <1>1, <1>2, <1>3, <2>1, CapNatural
<1>5. QED
  BY <1>2, <1>4 DEF Cents, c

LEMMA QuantizesBelowCap ==
  ASSUME NEW v \in Nat, Quantizes(v)
  PROVE  v < Cap
PROOF
<1>1. Cents(v) \in Nat /\ 2 * v < 2 * (Cents(v) * Cent) + Cent
  BY CentsClose
<1>2. Cents(v) + 1 <= TenTo[Precision]
  BY <1>1, CapNatural DEF Quantizes
<1>3. \A a, b, c \in Nat : a <= b => a * c <= b * c
  OBVIOUS
<1>4. (Cents(v) + 1) * Cent <= Cap
  BY <1>1, <1>2, <1>3, CapNatural DEF Cap
<1>5. (Cents(v) + 1) * Cent = Cents(v) * Cent + Cent /\ Cents(v) * Cent \in Nat
  BY <1>1, CapNatural
<1>6. QED
  BY <1>1, <1>4, <1>5, CapNatural

\* Amounts that agree to within a cent differ by less than two.
LEMMA AgreeingAmounts ==
  ASSUME NEW v \in Nat, NEW w \in Nat, Cents(v) - Cents(w) \in -1..1
  PROVE  2 * (v - w) < 4 * Cent /\ 2 * (w - v) < 4 * Cent
PROOF
<1> DEFINE a == Cents(v)
           b == Cents(w)
<1>1. a \in Nat /\ 2 * (a * Cent) <= 2 * v + Cent /\ 2 * v < 2 * (a * Cent) + Cent
  BY CentsClose
<1>2. b \in Nat /\ 2 * (b * Cent) <= 2 * w + Cent /\ 2 * w < 2 * (b * Cent) + Cent
  BY CentsClose
<1>3. a - b \in -1..1
  OBVIOUS
<1> HIDE DEF a, b
<1>4. a * Cent - b * Cent \in {-Cent, 0, Cent}
  <2>1. a = b - 1 \/ a = b \/ a = b + 1
    BY <1>1, <1>2, <1>3
  <2>2. a * Cent \in Nat /\ b * Cent \in Nat
    BY <1>1, <1>2, CapNatural
  <2>3. (b - 1) * Cent = b * Cent - Cent /\ (b + 1) * Cent = b * Cent + Cent
    BY <1>2, CapNatural
  <2>4. QED
    BY <2>1, <2>2, <2>3, CapNatural
<1>5. a * Cent \in Nat /\ b * Cent \in Nat
  BY <1>1, <1>2, CapNatural
<1>6. QED
  BY <1>1, <1>2, <1>4, <1>5, CapNatural

-----------------------------------------------------------------------------
(* The guard. *)

LEMMA BillNumbers ==
  ASSUME IsBill(payload.data), ValidBill
  PROVE  /\ payload.data.claimed_total \in Nat
         /\ Len(Items) \in Nat /\ Len(Items) # 0
         /\ \A i \in 1..Len(Items) : Items[i].amount * Quantity(Items[i]) \in Nat
PROOF
<1> DEFINE Entry == [amount : Amounts, quantity : Amounts] \cup {Malformed}
<1>1. payload.data.claimed_total \in Amounts /\ Items \in Seq(Entry)
  BY DEF IsBill, ValidBill, Items
<1>2. \A v \in Amounts : IsAmount(v) => v \in Nat
  BY DEF Amounts, IsAmount
<1>3. payload.data.claimed_total \in Nat
  BY <1>1, <1>2 DEF ValidBill
<1> HIDE DEF Entry
<1>4. Len(Items) \in Nat /\ Len(Items) # 0
  <2>1. Items # << >>
    BY DEF ValidBill
  <2>2. QED
    BY <1>1, <2>1
<1>5. ASSUME NEW i \in 1..Len(Items)
      PROVE  Items[i].amount * Quantity(Items[i]) \in Nat
  <2> DEFINE item == Items[i]
  <2>1. item \in Entry
    BY <1>1, <1>5
  <2>2. item # Malformed /\ IsAmount(item.amount) /\ IsAmount(Quantity(item))
    BY DEF ValidBill, ValidItem
  <2>3. item.amount \in Amounts /\ item.quantity \in Amounts
    BY <2>1, <2>2 DEF Entry
  <2>4. Quantity(item) \in Amounts
    BY <2>3 DEF Quantity, Amounts
  <2>5. item.amount \in Nat /\ Quantity(item) \in Nat
    BY <1>2, <2>2, <2>3, <2>4
  <2>6. QED
    BY <2>5
<1>6. QED
  BY <1>3, <1>4, <1>5

\* The sum so far: exact while it fits into the context's digits, and below
\* the cap off by half a cent for every rounding, of which the first item
\* takes one and every other two.
Error(n) == (2 * n - 1) * Cent

SumSound ==
  /\ summed \in Nat /\ total \in Nat /\ exact \in Nat
  /\ summed = 0 => total = 0 /\ exact = 0
  /\ exact < TenTo[Precision] => total = exact
  /\ (summed # 0 /\ total < Cap) =>
       2 * (total - exact) <= Error(summed) /\ 2 * (exact - total) <= Error(summed)

\* The decision is about the whole sum.
BillDecided ==
  (payload.type = "financial_transaction" /\ result \in {"verified", "blocked"}) =>
    /\ ValidBill /\ summed = Len(Items) /\ Quantizes(total)
    /\ result = "verified" <=> Agrees(payload.data.claimed_total)

LEMMA AddItemKeeps ==
  ASSUME IsBill(payload.data), SumSound, AddItem
  PROVE  SumSound'
PROOF
<1> DEFINE product == Items[summed + 1].amount * Quantity(Items[summed + 1])
<1>1. /\ ValidBill /\ summed < Len(Items)
      /\ total' = Rounded(total + Rounded(product))
      /\ exact' = exact + product
      /\ summed' = summed + 1
  BY DEF AddItem
<1>2. summed \in Nat /\ total \in Nat /\ exact \in Nat
  BY DEF SumSound
<1>3. product \in Nat
  <2>1. summed + 1 \in 1..Len(Items)
    BY <1>1, <1>2, BillNumbers
  <2>2. QED
    BY <1>1, <2>1, BillNumbers
<1> HIDE DEF product
<1> DEFINE R == Rounded(product)
           v == total + R
<1>4. R \in Nat /\ v \in Nat /\ Rounded(v) \in Nat
  BY <1>2, <1>3, RoundedClose
<1>5. summed' \in Nat /\ total' \in Nat /\ exact' \in Nat /\ summed' # 0
  BY <1>1, <1>2, <1>3, <1>4
<1>6. ASSUME exact' < TenTo[Precision]
      PROVE  total' = exact'
  <2>1. exact < TenTo[Precision] /\ product < TenTo[Precision]
    BY <1>1, <1>2, <1>3, <1>6, CapNatural
  <2>2. R = product /\ total = exact
    BY <1>3, <2>1, RoundedFits DEF SumSound
  <2>3. v = exact' /\ v < TenTo[Precision]
    BY <1>1, <1>6, <2>2
  <2>4. QED
    BY <1>1, <1>4, <2>3, RoundedFits
<1>7. ASSUME total' < Cap
      PROVE  2 * (total' - exact') <= Error(summed')
               /\ 2 * (exact' - total') <= Error(summed')
  <2>1. v < Cap /\ 2 * (total' - v) <= Cent /\ 2 * (v - total') <= Cent
    BY <1>1, <1>4, <1>7, RoundedBelowCap
  <2>2. total < Cap /\ R < Cap
    BY <1>2, <1>4, <2>1, CapNatural
  <2>3. 2 * (R - product) <= Cent /\ 2 * (product - R) <= Cent
    BY <1>3, <2>2, RoundedBelowCap
  <2>4. CASE summed = 0
    <3>1. total' = R /\ exact' = product
      <4>1. total = 0 /\ exact = 0
        BY <2>4 DEF SumSound
      <4>2. v = R /\ exact' = product
        BY <1>1, <1>3, <1>4, <4>1
      <4>3. QED
        BY <1>1, <1>3, <4>2, RoundedTwice
    <3>2. Error(summed') = Cent
      BY <1>1, <2>4, CapNatural DEF Error
    <3>3. QED
      BY <2>3, <3>1, <3>2
  <2>5. CASE summed # 0
    <3>1. 2 * (total - exact) <= Error(summed) /\ 2 * (exact - total) <= Error(summed)
      BY <2>2, <2>5 DEF SumSound
    <3>2. Error(summed') = Error(summed) + 2 * Cent /\ Error(summed) \in Int
      BY <1>1, <1>2, CapNatural DEF Error
    <3>3. exact' = exact + product /\ v = total + R
      BY <1>1
    <3>4. QED
      BY <1>2, <1>3, <1>4, <1>5, <2>1, <2>3, <3>1, <3>2, <3>3, CapNatural
  <2>6. QED
    BY <2>4, <2>5
<1>8. QED
  BY <1>5, <1>6, <1>7 DEF SumSound, Error, Cap

LEMMA CompareDecides ==
  ASSUME Compare
  PROVE  BillDecided'
PROOF
<1> DEFINE claimed == payload.data.claimed_total
<1>1. /\ ValidBill /\ summed = Len(Items)
      /\ payload' = payload /\ summed' = summed /\ total' = total /\ exact' = exact
      /\ result' = CASE ~Quantizes(total) -> "raised"
                     [] Quantizes(total) /\ ~Quantizes(claimed) -> "unverifiable"
                     [] OTHER -> IF Agrees(claimed) THEN "verified" ELSE "blocked"
  BY DEF Compare, Decide, billing
<1>2. CASE ~Quantizes(total)
  <2>1. result' = "raised"
    BY <1>1, <1>2
  <2>2. QED
    BY <2>1 DEF BillDecided
<1>3. CASE Quantizes(total) /\ ~Quantizes(claimed)
  <2>1. result' = "unverifiable"
    BY <1>1, <1>3
  <2>2. QED
    BY <2>1 DEF BillDecided
<1>4. CASE Quantizes(total) /\ Quantizes(claimed)
  <2>1. result' = IF Agrees(claimed) THEN "verified" ELSE "blocked"
    BY <1>1, <1>4
  <2>2. ValidBill' /\ (Items = Items)' /\ Quantizes(total)'
          /\ (Agrees(claimed) <=> Agrees(claimed)')
    BY <1>1, <1>4 DEF ValidBill, Items, Quantizes, Agrees, Cents
  <2>3. QED
    BY <1>1, <2>1, <2>2 DEF BillDecided, Items
<1>5. QED
  BY <1>2, <1>3, <1>4

LEMMA DecidedIsClose ==
  ASSUME IsBill(payload.data), SumSound, BillDecided,
         payload.type = "financial_transaction"
  PROVE  VerifiedIsClose /\ ExactWhenItFits
PROOF
<1> DEFINE claimed == payload.data.claimed_total
<1>1. ASSUME result = "verified"
      PROVE  /\ 2 * (exact - claimed) < (2 * Len(Items) + 3) * Cent
             /\ 2 * (claimed - exact) < (2 * Len(Items) + 3) * Cent
  <2>1. ValidBill /\ summed = Len(Items) /\ Quantizes(total) /\ Agrees(claimed)
    BY <1>1 DEF BillDecided
  <2>2. claimed \in Nat /\ summed \in Nat /\ summed # 0
    BY <2>1, BillNumbers
  <2>3. total \in Nat /\ exact \in Nat
    BY DEF SumSound
  <2>4. 2 * (total - exact) <= Error(summed) /\ 2 * (exact - total) <= Error(summed)
    BY <2>1, <2>2, <2>3, QuantizesBelowCap DEF SumSound
  <2>5. 2 * (total - claimed) < 4 * Cent /\ 2 * (claimed - total) < 4 * Cent
    BY <2>1, <2>2, <2>3, AgreeingAmounts DEF Agrees
  <2>6. (2 * summed + 3) * Cent = Error(summed) + 4 * Cent /\ Error(summed) \in Int
    BY <2>2, CapNatural DEF Error
  <2>7. \A a, b, c, d, e \in Int :
          2 * (a - b) <= d /\ 2 * (b - c) < 4 * e => 2 * (a - c) < d + 4 * e
    OBVIOUS
  <2>8. /\ 2 * (exact - claimed) < Error(summed) + 4 * Cent
        /\ 2 * (claimed - exact) < Error(summed) + 4 * Cent
    <3> HIDE DEF claimed
    <3>1. QED
      BY <2>2, <2>3, <2>4, <2>5, <2>6, <2>7, CapNatural
  <2>9. QED
    BY <2>1, <2>6, <2>8
<1>2. ASSUME result \in {"verified", "blocked"}, exact < TenTo[Precision]
      PROVE  result = "verified" <=> Cents(exact) - Cents(claimed) \in -1..1
  BY <1>2 DEF SumSound, BillDecided, Agrees
<1>3. QED
  BY <1>1, <1>2 DEF VerifiedIsClose, ExactWhenItFits

-----------------------------------------------------------------------------
(* Logic: texts. *)

LEMMA AppendText ==
  ASSUME NEW t \in Texts, NEW ch \in Characters
  PROVE  /\ Append(t, ch) \in Texts
         /\ Append(t, ch) # << >>
         /\ Len(t) \in Nat /\ Len(Append(t, ch)) = Len(t) + 1
         /\ \A i \in 1..Len(t) : Append(t, ch)[i] = t[i]
         /\ Append(t, ch)[Len(t) + 1] = ch
         /\ Last(Append(t, ch)) = ch
         /\ Front(Append(t, ch)) = t
PROOF
<1>1. /\ Append(t, ch) \in Seq(Characters)
      /\ Append(t, ch) # << >>
      /\ Len(t) \in Nat /\ Len(Append(t, ch)) = Len(t) + 1
      /\ \A i \in 1..Len(t) : Append(t, ch)[i] = t[i]
      /\ Append(t, ch)[Len(t) + 1] = ch
  BY AppendProperties, LenProperties DEF Texts
<1>2. Last(Append(t, ch)) = ch
  BY <1>1 DEF Last
<1> DEFINE f == SubSeq(Append(t, ch), 1, Len(t))
<1>3. /\ f \in Seq(Characters)
      /\ Len(f) = Len(t)
      /\ \A i \in 1..Len(t) : f[i] = t[i]
  <2>1. \A i \in 1..Len(t) : Append(t, ch)[i] \in Characters
    BY <1>1, ElementOfSeq DEF Texts
  <2>2. \A i \in 1..(Len(t) - 1 + 1) : 1 + i - 1 = i /\ i \in 1..Len(t)
    BY <1>1
  <2>3. /\ f \in Seq(Characters)
        /\ Len(f) = IF 1 <= Len(t) THEN Len(t) - 1 + 1 ELSE 0
        /\ \A i \in 1..(Len(t) - 1 + 1) : f[i] = Append(t, ch)[1 + i - 1]
    BY <1>1, <2>1, SubSeqProperties
  <2> HIDE DEF f
  <2>4. QED
    BY <1>1, <2>2, <2>3
<1>4. Front(Append(t, ch)) = f
  <2>1. Len(Append(t, ch)) - 1 = Len(t)
    BY <1>1
  <2>2. QED
    BY <2>1 DEF Front
<1> HIDE DEF f
<1>5. f = t
  BY <1>1, <1>3, SeqEqual DEF Texts
<1>6. QED
  BY <1>1, <1>2, <1>4, <1>5 DEF Texts

LEMMA TextParts ==
  ASSUME NEW t \in Texts, t # << >>
  PROVE  \E s \in Texts, ch \in Characters : t = Append(s, ch)
PROOF
  BY SequenceEmptyOrAppend DEF Texts

\* What holds of the empty text, and of a text with one more character if it
\* holds of the text, holds of every text.
LEMMA TextInduction ==
  ASSUME NEW Q, << >> \in Q,
         \A t \in Texts, ch \in Characters : t \in Q => Append(t, ch) \in Q
  PROVE  Texts \subseteq Q
PROOF
<1> DEFINE T == {n \in Nat : \E t \in Texts : Len(t) = n /\ t \notin Q}
<1>1. SUFFICES ASSUME T # {}
               PROVE  FALSE
  <2>1. \A t \in Texts : Len(t) \in Nat
    BY LenProperties DEF Texts
  <2>2. QED
    BY <2>1
<1>2. PICK n \in T : \A m \in T : n <= m
  <2>1. T \subseteq Nat
    OBVIOUS
  <2> HIDE DEF T
  <2>2. QED
    BY <1>1, <2>1, LeastNatural
<1>3. PICK t \in Texts : Len(t) = n /\ t \notin Q
  OBVIOUS
<1>4. PICK s \in Texts, ch \in Characters : t = Append(s, ch)
  BY <1>3, TextParts
<1>5. Len(s) \in Nat /\ Len(s) < n
  BY <1>3, <1>4, AppendText
<1>6. s \in Q
  BY <1>2, <1>5
<1>7. QED
  BY <1>3, <1>4, <1>6

-----------------------------------------------------------------------------
(* Rules. *)

Rules == [Characters -> [Texts -> Texts]]

\* The texts that a text is rewritten to, one for each of its beginnings.
Beginnings(rule, text, f) ==
  f = [n \in 0..Len(text) |->
         IF n = 0 THEN << >> ELSE rule[text[n]][f[n - 1]]]

LEMMA BeginningsExist ==
  ASSUME NEW rule \in Rules, NEW text \in Texts
  PROVE  \E f : Beginnings(rule, text, f)
PROOF
<1> DEFINE Q == {t \in Texts : \E f : Beginnings(rule, t, f)}
<1>1. << >> \in Q
  <2>1. << >> \in Texts /\ Len(<< >>) = 0
    BY EmptySeq DEF Texts
  <2> DEFINE f == [n \in 0..0 |-> << >>]
  <2>2. f = [n \in 0..0 |-> IF n = 0 THEN << >> ELSE rule[<< >>[n]][f[n - 1]]]
    OBVIOUS
  <2> HIDE DEF f
  <2>3. Beginnings(rule, << >>, f)
    BY <2>1, <2>2 DEF Beginnings
  <2>4. QED
    BY <2>1, <2>3
<1>2. ASSUME NEW t \in Texts, NEW ch \in Characters, t \in Q
      PROVE  Append(t, ch) \in Q
  <2>1. PICK f : Beginnings(rule, t, f)
    BY <1>2
  <2> DEFINE l == Len(t)
             u == Append(t, ch)
             g == [n \in 0..(l + 1) |-> IF n = l + 1 THEN rule[ch][f[l]] ELSE f[n]]
  <2>2. /\ l \in Nat /\ Len(u) = l + 1 /\ u[l + 1] = ch /\ u \in Texts
        /\ \A i \in 1..l : u[i] = t[i]
    BY AppendText
  <2>3. \A n \in 0..l : f[n] = IF n = 0 THEN << >> ELSE rule[t[n]][f[n - 1]]
    BY <2>1 DEF Beginnings
  <2> HIDE DEF l, u
  <2>4. ASSUME NEW n \in 0..(l + 1)
        PROVE  g[n] = IF n = 0 THEN << >> ELSE rule[u[n]][g[n - 1]]
    <3>1. CASE n = l + 1
      <4>1. n # 0 /\ n - 1 \in 0..(l + 1) /\ n - 1 # l + 1 /\ n - 1 = l
        BY <2>2, <3>1
      <4>2. QED
        BY <2>2, <3>1, <4>1
    <3>2. CASE n = 0
      <4>1. n # l + 1 /\ n \in 0..l
        BY <2>2, <3>2
      <4>2. QED
        BY <2>3, <3>2, <4>1
    <3>3. CASE n # 0 /\ n # l + 1
      <4>1. n \in 1..l /\ n \in 0..l /\ n - 1 \in 0..(l + 1) /\ n - 1 # l + 1
        BY <2>2, <3>3
      <4>2. g[n] = f[n] /\ g[n - 1] = f[n - 1]
        BY <3>3, <4>1
      <4>3. QED
        BY <2>2, <2>3, <3>3, <4>1, <4>2
    <3>4. QED
      BY <3>1, <3>2, <3>3
  <2>5. g = [n \in 0..(l + 1) |-> IF n = 0 THEN << >> ELSE rule[u[n]][g[n - 1]]]
    <3>1. g = [n \in 0..(l + 1) |-> g[n]]
      OBVIOUS
    <3> HIDE DEF g
    <3>2. QED
      BY <2>4, <3>1
  <2> HIDE DEF g
  <2>6. Beginnings(rule, u, g)
    BY <2>2, <2>5 DEF Beginnings
  <2>7. QED
    BY <2>2, <2>6 DEF u
<1>3. Texts \subseteq Q
  <2> HIDE DEF Q
  <2>1. QED
    BY <1>1, <1>2, TextInduction
<1>4. QED
  BY <1>3

\* Two texts with a common beginning are rewritten alike that far.
LEMMA BeginningsAgree ==
  ASSUME NEW rule, NEW t \in Texts, NEW u \in Texts, NEW f, NEW g,
         Beginnings(rule, t, f), Beginnings(rule, u, g),
         NEW l \in Nat, l <= Len(t), l <= Len(u),
         \A i \in 1..l : t[i] = u[i]
  PROVE  f[l] = g[l]
PROOF
<1>0. Len(t) \in Nat /\ Len(u) \in Nat
  BY LenProperties DEF Texts
<1> DEFINE T == {k \in 0..l : f[k] # g[k]}
<1> SUFFICES ASSUME T # {}
             PROVE  FALSE
  OBVIOUS
<1>1. PICK k \in T : \A j \in T : k <= j
  <2>1. T \subseteq Nat
    OBVIOUS
  <2> HIDE DEF T
  <2>2. QED
    BY <2>1, LeastNatural
<1>2. k \in 0..Len(t) /\ k \in 0..Len(u)
  BY <1>0, <1>1
<1>3. /\ f[k] = IF k = 0 THEN << >> ELSE rule[t[k]][f[k - 1]]
      /\ g[k] = IF k = 0 THEN << >> ELSE rule[u[k]][g[k - 1]]
  BY <1>2 DEF Beginnings
<1>4. CASE k = 0
  BY <1>1, <1>3, <1>4
<1>5. CASE k # 0
  <2>1. k - 1 \in 0..l /\ k - 1 \notin T /\ k \in 1..l
    BY <1>1, <1>5
  <2>2. f[k - 1] = g[k - 1] /\ t[k] = u[k]
    BY <2>1
  <2>3. QED
    BY <1>1, <1>3, <1>5, <2>2
<1>6. QED
  BY <1>4, <1>5

\* How a rule rewrites a text, one character after the other.
LEMMA RewriteSteps ==
  ASSUME NEW rule \in Rules
  PROVE  /\ Rewrite(rule, << >>) = << >>
         /\ \A t \in Texts : Rewrite(rule, t) \in Texts
         /\ \A t \in Texts, ch \in Characters :
              Rewrite(rule, Append(t, ch)) = rule[ch][Rewrite(rule, t)]
PROOF
<1> DEFINE B(t) == CHOOSE f : Beginnings(rule, t, f)
<1>1. \A t : Rewrite(rule, t) = B(t)[Len(t)]
  BY DEF Rewrite, Beginnings
<1>2. \A t \in Texts : Beginnings(rule, t, B(t))
  BY BeginningsExist
<1> HIDE DEF B
<1>3. << >> \in Texts /\ Len(<< >>) = 0
  BY EmptySeq DEF Texts
<1>4. Rewrite(rule, << >>) = << >>
  <2>1. Beginnings(rule, << >>, B(<< >>))
    BY <1>2, <1>3
  <2>2. B(<< >>)[0] = << >>
    BY <1>3, <2>1 DEF Beginnings
  <2>3. QED
    BY <1>1, <1>3, <2>2
<1>5. ASSUME NEW t \in Texts, NEW ch \in Characters
      PROVE  Rewrite(rule, Append(t, ch)) = rule[ch][Rewrite(rule, t)]
  <2> DEFINE u == Append(t, ch)
             l == Len(t)
  <2>1. /\ u \in Texts /\ l \in Nat /\ Len(u) = l + 1 /\ u[l + 1] = ch
        /\ \A i \in 1..l : t[i] = u[i]
    BY AppendText
  <2> HIDE DEF u
  <2>2. Beginnings(rule, u, B(u)) /\ Beginnings(rule, t, B(t))
    BY <1>2, <2>1
  <2>3. B(t)[l] = B(u)[l]
    <3>1. l <= Len(u) /\ l <= Len(t)
      BY <2>1
    <3>2. QED
      BY <2>1, <2>2, <3>1, BeginningsAgree
  <2>4. B(u)[l + 1] = rule[ch][B(u)[l]]
    <3>1. l + 1 \in 0..Len(u) /\ l + 1 # 0 /\ (l + 1) - 1 = l
      BY <2>1
    <3> HIDE DEF l
    <3>2. QED
      BY <2>1, <2>2, <3>1 DEF Beginnings
  <2>5. Rewrite(rule, u) = rule[ch][Rewrite(rule, t)]
    BY <1>1, <2>1, <2>3, <2>4
  <2>6. QED
    BY <2>5 DEF u
<1>6. ASSUME NEW t \in Texts
      PROVE  Rewrite(rule, t) \in Texts
  <2> DEFINE Q == {s \in Texts : Rewrite(rule, s) \in Texts}
  <2>1. << >> \in Q
    BY <1>3, <1>4
  <2>2. ASSUME NEW s \in Texts, NEW ch \in Characters, s \in Q
        PROVE  Append(s, ch) \in Q
    <3>1. Rewrite(rule, s) \in Texts /\ Append(s, ch) \in Texts
      BY <2>2, AppendText
    <3>2. rule[ch][Rewrite(rule, s)] \in Texts
      BY <3>1 DEF Rules
    <3>3. QED
      BY <1>5, <3>1, <3>2
  <2> HIDE DEF Q
  <2>3. Texts \subseteq Q
    BY <2>1, <2>2, TextInduction
  <2>4. QED
    BY <2>3 DEF Q
<1>7. QED
  BY <1>4, <1>5, <1>6

-----------------------------------------------------------------------------
(* The rules of Normalize, one character at a time. *)

LEMMA FrontText ==
  ASSUME NEW t \in Texts, t # << >>
  PROVE  /\ Front(t) \in Texts /\ Last(t) \in Characters
         /\ t = Append(Front(t), Last(t))
PROOF
<1>1. PICK s \in Texts, ch \in Characters : t = Append(s, ch)
  BY TextParts
<1>2. QED
  BY <1>1, AppendText

LEMMA NoText == << >> \in Texts
PROOF
  BY EmptySeq DEF Texts

LEMMA RulesOfNormalize ==
  /\ Strip \in Rules
  /\ Compose \in Rules
  /\ Separate \in Rules
  /\ See \in Rules
PROOF
<1> USE DEF Rules
<1>1. \A t \in Texts, ch \in Characters : Append(t, ch) \in Texts
  BY AppendText
<1>2. {"e", "'", " ", "e'", "E'"} \subseteq Characters
  BY DEF Characters
<1>3. Strip \in Rules
  BY <1>1 DEF Strip
<1>4. Separate \in Rules
  BY <1>1, <1>2 DEF Separate
<1>5. See \in Rules
  <2>1. ASSUME NEW ch \in Characters, NEW t \in Texts
        PROVE  See[ch][t] \in Texts
    <3>1. Append(Append(t, "e"), "'") \in Texts
      BY <1>1, <1>2
    <3>2. Face(ch) \in Characters
      BY <1>2 DEF Face
    <3>3. QED
      BY <1>1, <3>1, <3>2 DEF See
  <2>2. See = [ch \in Characters |-> [t \in Texts |-> See[ch][t]]]
    BY DEF See
  <2>3. QED
    BY <2>1, <2>2
<1>6. Compose \in Rules
  <2>1. ASSUME NEW ch \in Characters, NEW t \in Texts
        PROVE  Compose[ch][t] \in Texts
    <3>1. CASE ch = "'" /\ t # << >> /\ Last(t) \in {"e", "E"}
      <4>1. Front(t) \in Texts /\ Accented(Last(t)) \in Characters
        BY <1>2, <3>1, FrontText DEF Accented
      <4>2. QED
        BY <1>1, <3>1, <4>1 DEF Compose
    <3>2. CASE ~(ch = "'" /\ t # << >> /\ Last(t) \in {"e", "E"})
      BY <1>1, <3>2 DEF Compose
    <3>3. QED
      BY <3>1, <3>2
  <2>2. Compose = [ch \in Characters |-> [t \in Texts |-> Compose[ch][t]]]
    BY DEF Compose
  <2>3. QED
    BY <2>1, <2>2
<1>7. QED
  BY <1>3, <1>4, <1>5, <1>6

LEMMA VisibleSteps ==
  /\ Visible(<< >>) = << >>
  /\ \A t \in Texts : Visible(t) \in Texts
  /\ \A t \in Texts, ch \in Characters :
       Visible(Append(t, ch)) =
         IF ch \in Invisible THEN Visible(t) ELSE Append(Visible(t), ch)
PROOF
  BY RulesOfNormalize, RewriteSteps DEF Visible, Strip

Composed(text) == Rewrite(Compose, text)

LEMMA ComposedSteps ==
  /\ Composed(<< >>) = << >>
  /\ \A t \in Texts : Composed(t) \in Texts
  /\ \A t \in Texts, ch \in Characters :
       Composed(Append(t, ch)) =
         IF ch = "'" /\ Composed(t) # << >> /\ Last(Composed(t)) \in {"e", "E"}
         THEN Append(Front(Composed(t)), Accented(Last(Composed(t))))
         ELSE Append(Composed(t), ch)
PROOF
  BY RulesOfNormalize, RewriteSteps DEF Composed, Compose

Separated(text) == Rewrite(Separate, text)

LEMMA SeparatedSteps ==
  /\ Separated(<< >>) = << >>
  /\ \A t \in Texts : Separated(t) \in Texts
  /\ \A t \in Texts, ch \in Characters :
       Separated(Append(t, ch)) =
         IF ch \notin Space THEN Append(Separated(t), ch)
         ELSE IF Separated(t) = << >> \/ Last(Separated(t)) = " "
              THEN Separated(t) ELSE Append(Separated(t), " ")
PROOF
  BY RulesOfNormalize, RewriteSteps DEF Separated, Separate

Seen(text) == Rewrite(See, text)

LEMMA SeenSteps ==
  /\ Seen(<< >>) = << >>
  /\ \A t \in Texts : Seen(t) \in Texts
  /\ \A t \in Texts, ch \in Characters :
       Seen(Append(t, ch)) =
         IF ch \in Invisible THEN Seen(t)
         ELSE IF ch \in {"e'", "E'"} THEN Append(Append(Seen(t), "e"), "'")
         ELSE Append(Seen(t), Face(ch))
PROOF
  BY RulesOfNormalize, RewriteSteps DEF Seen, See

-----------------------------------------------------------------------------
(* Forms, character by character. *)

LEMMA EachForm ==
  ASSUME NEW form \in [Characters -> Characters], NEW t \in Texts
  PROVE  /\ Each(form, t) \in Texts
         /\ Len(t) \in Nat
         /\ Len(Each(form, t)) = Len(t)
         /\ \A i \in 1..Len(t) : Each(form, t)[i] = form[t[i]]
PROOF
<1>1. Len(t) \in Nat /\ DOMAIN t = 1..Len(t)
      /\ \A i \in 1..Len(t) : t[i] \in Characters
  BY LenProperties, ElementOfSeq DEF Texts
<1> DEFINE m == [i \in 1..Len(t) |-> form[t[i]]]
<1>2. Each(form, t) = m
  BY <1>1 DEF Each
<1>3. \A i \in 1..Len(t) : m[i] \in Characters /\ m[i] = form[t[i]]
  BY <1>1
<1>4. m \in [1..Len(t) -> Characters]
  BY <1>1
<1> HIDE DEF m
<1>5. m \in Seq(Characters) /\ Len(m) = Len(t)
  BY <1>1, <1>4
<1>6. QED
  BY <1>1, <1>2, <1>3, <1>5 DEF Texts

LEMMA EachSteps ==
  ASSUME NEW form \in [Characters -> Characters]
  PROVE
  /\ Each(form, << >>) = << >>
  /\ \A t \in Texts : Each(form, t) \in Texts
  /\ \A t \in Texts, ch \in Characters :
       Each(form, Append(t, ch)) = Append(Each(form, t), form[ch])
PROOF
<1>1. \A ch \in Characters : form[ch] \in Characters
  OBVIOUS
<1>2. \A t \in Texts :
        /\ Each(form, t) \in Texts
        /\ Len(t) \in Nat
        /\ Len(Each(form, t)) = Len(t)
        /\ \A i \in 1..Len(t) : Each(form, t)[i] = form[t[i]]
  BY EachForm
<1>3. Each(form, << >>) = << >>
  BY NoText, <1>2, EmptySeq DEF Texts
<1>4. ASSUME NEW t \in Texts, NEW ch \in Characters
      PROVE  Each(form, Append(t, ch)) = Append(Each(form, t), form[ch])
  <2> DEFINE u == Append(t, ch)
             l == Len(t)
             m == Each(form, u)
             n == Append(Each(form, t), form[ch])
  <2>1. /\ u \in Texts /\ l \in Nat /\ Len(u) = l + 1 /\ u[l + 1] = ch
        /\ \A i \in 1..l : u[i] = t[i]
    BY AppendText
  <2>2. /\ Each(form, t) \in Texts /\ Len(Each(form, t)) = l
        /\ \A i \in 1..l : Each(form, t)[i] = form[t[i]]
        /\ m \in Texts /\ Len(m) = l + 1
        /\ \A i \in 1..(l + 1) : m[i] = form[u[i]]
    BY <1>2, <2>1
  <2>3. /\ n \in Texts /\ Len(n) = l + 1 /\ n[l + 1] = form[ch]
        /\ \A i \in 1..l : n[i] = Each(form, t)[i]
    <3>1. form[ch] \in Characters
      BY <1>1
    <3> DEFINE k == Each(form, t)
    <3>2. k \in Texts /\ Len(k) = l
      BY <2>2
    <3> HIDE DEF k
    <3>3. /\ Append(k, form[ch]) \in Texts
          /\ Len(Append(k, form[ch])) = Len(k) + 1
          /\ Append(k, form[ch])[Len(k) + 1] = form[ch]
          /\ \A i \in 1..Len(k) : Append(k, form[ch])[i] = k[i]
      BY <3>1, <3>2, AppendText
    <3>4. QED
      BY <3>2, <3>3 DEF k
  <2> HIDE DEF u, l, m, n
  <2>4. \A i \in 1..(l + 1) : m[i] = n[i]
    <3> TAKE i \in 1..(l + 1)
    <3>1. m[i] = form[u[i]]
      BY <2>2
    <3>2. CASE i = l + 1
      BY <2>1, <2>3, <3>1, <3>2
    <3>3. CASE i # l + 1
      <4>1. i \in 1..l
        BY <2>1, <3>3
      <4>2. n[i] = form[t[i]] /\ u[i] = t[i]
        BY <2>1, <2>2, <2>3, <4>1
      <4>3. QED
        BY <3>1, <4>2
    <3>4. QED
      BY <3>2, <3>3
  <2>5. m = n
    BY <2>2, <2>3, <2>4, SeqEqual DEF Texts
  <2>6. QED
    BY <2>5 DEF m, n, u
<1>5. QED
  BY <1>2, <1>3, <1>4

LEMMA Forms ==
  /\ Lower \in [Characters -> Characters]
  /\ CompatibilityForm \in [Characters -> Characters]
  /\ \A ch \in Characters :
       /\ Lower[ch] = IF ch = "E" THEN "e" ELSE IF ch = "E'" THEN "e'" ELSE ch
       /\ CompatibilityForm[ch] = IF ch = "wide E" THEN "E"
                                  ELSE IF ch = "no-break" THEN " " ELSE ch
PROOF
<1>1. {"e", "e'", "E", " "} \subseteq Characters
  BY DEF Characters
<1>2. \A ch \in Characters :
        Lower[ch] = IF ch = "E" THEN "e" ELSE IF ch = "E'" THEN "e'" ELSE ch
  BY DEF Lower, Plain
<1>3. \A ch \in Characters :
        CompatibilityForm[ch] = IF ch = "wide E" THEN "E"
                                ELSE IF ch = "no-break" THEN " " ELSE ch
  BY DEF CompatibilityForm, Plain
<1>4. Lower \in [Characters -> Characters]
  BY <1>1 DEF Lower, Plain
<1>5. CompatibilityForm \in [Characters -> Characters]
  BY <1>1 DEF CompatibilityForm, Plain
<1>6. QED
  BY <1>2, <1>3, <1>4, <1>5

LEMMA LowerSteps ==
  /\ Each(Lower, << >>) = << >>
  /\ \A t \in Texts : Each(Lower, t) \in Texts
  /\ \A t \in Texts, ch \in Characters :
       Each(Lower, Append(t, ch)) = Append(Each(Lower, t), Lower[ch])
PROOF
  BY EachSteps, Forms

LEMMA CompatibilitySteps ==
  /\ Each(CompatibilityForm, << >>) = << >>
  /\ \A t \in Texts : Each(CompatibilityForm, t) \in Texts
  /\ \A t \in Texts, ch \in Characters :
       Each(CompatibilityForm, Append(t, ch)) =
         Append(Each(CompatibilityForm, t), CompatibilityForm[ch])
PROOF
  BY EachSteps, Forms

-----------------------------------------------------------------------------
(* What texts are made of. *)

Over(S) == {t \in Texts : \A i \in 1..Len(t) : t[i] \in S}

\* No character of A stands right before one of B.
Avoids(t, A, B) == \A i \in 1..(Len(t) - 1) : ~(t[i] \in A /\ t[i + 1] \in B)

LEMMA OverSteps ==
  ASSUME NEW S
  PROVE  /\ << >> \in Over(S)
         /\ \A t \in Texts, ch \in Characters :
              Append(t, ch) \in Over(S) <=> t \in Over(S) /\ ch \in S
PROOF
<1>1. << >> \in Over(S)
  BY NoText DEF Over
<1>2. ASSUME NEW t \in Texts, NEW ch \in Characters
      PROVE  Append(t, ch) \in Over(S) <=> t \in Over(S) /\ ch \in S
  <2> DEFINE u == Append(t, ch)
             l == Len(t)
  <2>1. /\ u \in Texts /\ l \in Nat /\ Len(u) = l + 1 /\ u[l + 1] = ch
        /\ \A i \in 1..l : u[i] = t[i]
    BY AppendText
  <2>2. \A i \in 1..(l + 1) : i = l + 1 \/ i \in 1..l
    BY <2>1
  <2>3. /\ \A i \in 1..l : i \in 1..(l + 1)
        /\ l + 1 \in 1..(l + 1)
    BY <2>1
  <2>4. u \in Over(S) <=> \A i \in 1..(l + 1) : u[i] \in S
    <3> HIDE DEF u, l
    <3>1. QED
      BY <2>1 DEF Over
  <2>5. t \in Over(S) <=> \A i \in 1..l : t[i] \in S
    BY DEF Over
  <2> HIDE DEF u, l
  <2>6. (\A i \in 1..(l + 1) : u[i] \in S) <=> (\A i \in 1..l : u[i] \in S) /\ u[l + 1] \in S
    BY <2>2, <2>3
  <2>7. (\A i \in 1..l : u[i] \in S) <=> (\A i \in 1..l : t[i] \in S)
    BY <2>1
  <2>8. u \in Over(S) <=> t \in Over(S) /\ ch \in S
    BY <2>1, <2>4, <2>5, <2>6, <2>7
  <2>9. QED
    BY <2>8 DEF u
<1>3. QED
  BY <1>1, <1>2

LEMMA AvoidsSteps ==
  ASSUME NEW A, NEW B
  PROVE  /\ Avoids(<< >>, A, B)
         /\ \A t \in Texts, ch \in Characters :
              Avoids(Append(t, ch), A, B) <=>
                /\ Avoids(t, A, B)
                /\ t # << >> /\ Last(t) \in A => ch \notin B
PROOF
<1>1. Avoids(<< >>, A, B)
  <2>1. Len(<< >>) = 0
    BY NoText, EmptySeq
  <2>2. 1..(Len(<< >>) - 1) = {}
    BY <2>1
  <2>3. QED
    BY <2>2 DEF Avoids
<1>2. ASSUME NEW t \in Texts, NEW ch \in Characters
      PROVE  Avoids(Append(t, ch), A, B) <=>
                /\ Avoids(t, A, B)
                /\ t # << >> /\ Last(t) \in A => ch \notin B
  <2> DEFINE u == Append(t, ch)
             l == Len(t)
             bad(i) == u[i] \in A /\ u[i + 1] \in B
  <2>1. /\ u \in Texts /\ l \in Nat /\ Len(u) = l + 1 /\ u[l + 1] = ch
        /\ \A i \in 1..l : u[i] = t[i]
    BY AppendText
  <2>2. t # << >> <=> l # 0
    BY <2>1, EmptySeq DEF Texts
  <2>3. Last(t) = t[l]
    BY DEF Last
  <2>4. Avoids(u, A, B) <=> \A i \in 1..l : ~bad(i)
    <3>1. Len(u) - 1 = l
      BY <2>1
    <3> HIDE DEF u, l
    <3>2. QED
      BY <3>1 DEF Avoids
  <2>5. Avoids(t, A, B) <=> \A i \in 1..(l - 1) : ~bad(i)
    <3>1. \A i \in 1..(l - 1) : i \in 1..l /\ i + 1 \in 1..l
      BY <2>1
    <3>2. \A i \in 1..(l - 1) : bad(i) <=> t[i] \in A /\ t[i + 1] \in B
      <4> HIDE DEF u, l
      <4>1. QED
        BY <2>1, <3>1
    <3> HIDE DEF u, bad
    <3>3. QED
      BY <3>2 DEF Avoids
  <2>6. l # 0 => (bad(l) <=> t[l] \in A /\ ch \in B)
    <3>1. l # 0 => l \in 1..l
      BY <2>1
    <3> HIDE DEF u, l
    <3>2. QED
      BY <2>1, <3>1
  <2>7. (\A i \in 1..l : ~bad(i)) <=> (\A i \in 1..(l - 1) : ~bad(i)) /\ (l # 0 => ~bad(l))
    <3>1. /\ \A i \in 1..(l - 1) : i \in 1..l
          /\ \A i \in 1..l : i \in 1..(l - 1) \/ i = l
          /\ l # 0 => l \in 1..l
          /\ l = 0 => 1..l = {}
      BY <2>1
    <3> HIDE DEF bad, l
    <3>2. QED
      BY <3>1
  <2> HIDE DEF bad, u, l
  <2>8. Avoids(u, A, B) <=> Avoids(t, A, B) /\ (t # << >> /\ Last(t) \in A => ch \notin B)
    BY <2>2, <2>3, <2>4, <2>5, <2>6, <2>7
  <2>9. QED
    BY <2>8 DEF u
<1>3. QED
  BY <1>1, <1>2

LEMMA FrontKeeps ==
  ASSUME NEW t \in Texts, t # << >>
  PROVE  /\ \A S : t \in Over(S) => Front(t) \in Over(S) /\ Last(t) \in S
         /\ \A A, B : Avoids(t, A, B) => Avoids(Front(t), A, B)
PROOF
<1>1. PICK f \in Texts, ch \in Characters : t = Append(f, ch)
  BY TextParts
<1>2. Front(t) = f /\ Last(t) = ch
  BY <1>1, AppendText
<1>3. \A S : t \in Over(S) => f \in Over(S) /\ ch \in S
  BY <1>1, OverSteps
<1>4. \A A, B : Avoids(t, A, B) => Avoids(f, A, B)
  BY <1>1, AvoidsSteps
<1>5. QED
  BY <1>2, <1>3, <1>4

-----------------------------------------------------------------------------
(* No step of Normalize but the separation of words changes what is seen. *)

\* What is seen of the next character does not depend on its form.
LEMMA SeenAppend ==
  ASSUME NEW s \in Texts, NEW t \in Texts, Seen(s) = Seen(t),
         NEW c \in Characters, NEW d \in Characters,
         c \in Invisible <=> d \in Invisible,
         c \in {"e'", "E'"} <=> d \in {"e'", "E'"},
         c \notin {"e'", "E'"} => Face(c) = Face(d)
  PROVE  Seen(Append(s, c)) = Seen(Append(t, d))
PROOF
<1>1. CASE c \in Invisible
  BY <1>1, SeenSteps
<1>2. CASE c \notin Invisible /\ c \in {"e'", "E'"}
  <2>1. Seen(Append(s, c)) = Append(Append(Seen(s), "e"), "'")
    BY <1>2, SeenSteps
  <2>2. Seen(Append(t, d)) = Append(Append(Seen(t), "e"), "'")
    BY <1>2, SeenSteps
  <2>3. QED
    BY <2>1, <2>2
<1>3. CASE c \notin Invisible /\ c \notin {"e'", "E'"}
  <2>1. Seen(Append(s, c)) = Append(Seen(s), Face(c))
    BY <1>3, SeenSteps
  <2>2. Seen(Append(t, d)) = Append(Seen(t), Face(d))
    BY <1>3, SeenSteps
  <2>3. QED
    BY <1>3, <2>1, <2>2
<1>4. QED
  BY <1>1, <1>2, <1>3

LEMMA SeenVisible == \A t \in Texts : Seen(Visible(t)) = Seen(t)
PROOF
<1> DEFINE Q == {t \in Texts : Seen(Visible(t)) = Seen(t)}
<1>1. << >> \in Q
  BY NoText, VisibleSteps
<1>2. ASSUME NEW t \in Texts, NEW ch \in Characters, t \in Q
      PROVE  Append(t, ch) \in Q
  <2>1. Append(t, ch) \in Texts /\ Visible(t) \in Texts
        /\ Seen(Visible(t)) = Seen(t)
    BY <1>2, AppendText, VisibleSteps
  <2>2. CASE ch \in Invisible
    BY <2>1, <2>2, VisibleSteps, SeenSteps
  <2>3. CASE ch \notin Invisible
    <3>1. Visible(Append(t, ch)) = Append(Visible(t), ch)
      BY <2>3, VisibleSteps
    <3>2. Seen(Append(Visible(t), ch)) = Seen(Append(t, ch))
      BY <2>1, SeenAppend
    <3>3. QED
      BY <2>1, <3>1, <3>2
  <2>4. QED
    BY <2>2, <2>3
<1> HIDE DEF Q
<1>3. Texts \subseteq Q
  BY <1>1, <1>2, TextInduction
<1>4. QED
  BY <1>3 DEF Q

\* A form that keeps what a character looks like keeps what is seen of a text.
LEMMA SeenEach ==
  ASSUME NEW form \in [Characters -> Characters],
         \A ch \in Characters :
           /\ form[ch] \in Invisible <=> ch \in Invisible
           /\ form[ch] \in {"e'", "E'"} <=> ch \in {"e'", "E'"}
           /\ ch \notin {"e'", "E'"} => Face(form[ch]) = Face(ch)
  PROVE  \A t \in Texts : Seen(Each(form, t)) = Seen(t)
PROOF
<1> DEFINE Q == {t \in Texts : Seen(Each(form, t)) = Seen(t)}
<1>1. << >> \in Q
  BY NoText, EachSteps
<1>2. ASSUME NEW t \in Texts, NEW ch \in Characters, t \in Q
      PROVE  Append(t, ch) \in Q
  <2>1. /\ Append(t, ch) \in Texts /\ Each(form, t) \in Texts
        /\ Seen(Each(form, t)) = Seen(t)
        /\ form[ch] \in Characters
    BY <1>2, AppendText, EachSteps
  <2>2. Each(form, Append(t, ch)) = Append(Each(form, t), form[ch])
    BY EachSteps
  <2>3. Seen(Append(Each(form, t), form[ch])) = Seen(Append(t, ch))
    BY <2>1, SeenAppend
  <2>4. QED
    BY <2>1, <2>2, <2>3
<1> HIDE DEF Q
<1>3. Texts \subseteq Q
  BY <1>1, <1>2, TextInduction
<1>4. QED
  BY <1>3 DEF Q

LEMMA SeenLower == \A t \in Texts : Seen(Each(Lower, t)) = Seen(t)
PROOF
<1>1. \A ch \in Characters :
           /\ Lower[ch] \in Invisible <=> ch \in Invisible
           /\ Lower[ch] \in {"e'", "E'"} <=> ch \in {"e'", "E'"}
           /\ ch \notin {"e'", "E'"} => Face(Lower[ch]) = Face(ch)
  BY Forms DEF Invisible, Face, Space
<1>2. QED
  BY <1>1, Forms, SeenEach

LEMMA SeenCompatibility ==
  \A t \in Texts : Seen(Each(CompatibilityForm, t)) = Seen(t)
PROOF
<1>1. \A ch \in Characters :
        LET f == CompatibilityForm[ch]
        IN  /\ f \in Invisible <=> ch \in Invisible
            /\ f \in {"e'", "E'"} <=> ch \in {"e'", "E'"}
            /\ ch \notin {"e'", "E'"} => Face(f) = Face(ch)
  BY Forms DEF Invisible, Face, Space
<1>2. QED
  BY <1>1, Forms, SeenEach

LEMMA SeenComposed == \A t \in Texts : Seen(Composed(t)) = Seen(t)
PROOF
<1> DEFINE Q == {t \in Texts : Seen(Composed(t)) = Seen(t)}
<1>1. << >> \in Q
  BY NoText, ComposedSteps
<1>2. ASSUME NEW t \in Texts, NEW ch \in Characters, t \in Q
      PROVE  Append(t, ch) \in Q
  <2>1. /\ Append(t, ch) \in Texts /\ Composed(t) \in Texts
        /\ Seen(Composed(t)) = Seen(t)
    BY <1>2, AppendText, ComposedSteps
  <2>2. CASE ch = "'" /\ Composed(t) # << >> /\ Last(Composed(t)) \in {"e", "E"}
    <3> DEFINE f == Front(Composed(t))
               l == Last(Composed(t))
    <3>1. f \in Texts /\ l \in Characters /\ Composed(t) = Append(f, l)
      BY <2>1, <2>2, FrontText
    <3>2. Composed(Append(t, ch)) = Append(f, Accented(l))
      BY <2>2, ComposedSteps
    <3>3. l \in {"e", "E"}
      BY <2>2
    <3> HIDE DEF f, l
    <3>4. Seen(Append(f, Accented(l))) = Append(Append(Seen(f), "e"), "'")
      <4>1. Accented(l) \in {"e'", "E'"} /\ Accented(l) \in Characters
            /\ Accented(l) \notin Invisible
        BY DEF Accented, Characters, Invisible
      <4>2. QED
        BY <3>1, <4>1, SeenSteps
    <3>5. Seen(Composed(t)) = Append(Seen(f), "e")
      <4>1. l \notin Invisible /\ l \notin {"e'", "E'"} /\ Face(l) = "e"
        BY <3>3 DEF Face, Space, Invisible
      <4>2. QED
        BY <3>1, <4>1, SeenSteps
    <3>6. Seen(Append(t, ch)) = Append(Seen(t), "'")
      <4>1. ch \notin Invisible /\ ch \notin {"e'", "E'"} /\ Face(ch) = "'"
        BY <2>2 DEF Face, Space, Invisible
      <4>2. QED
        BY <4>1, SeenSteps
    <3>7. QED
      BY <2>1, <3>2, <3>4, <3>5, <3>6
  <2>3. CASE ~(ch = "'" /\ Composed(t) # << >> /\ Last(Composed(t)) \in {"e", "E"})
    <3>1. Composed(Append(t, ch)) = Append(Composed(t), ch)
      BY <2>3, ComposedSteps
    <3>2. Seen(Append(Composed(t), ch)) = Seen(Append(t, ch))
      BY <2>1, SeenAppend
    <3>3. QED
      BY <2>1, <3>1, <3>2
  <2>4. QED
    BY <2>2, <2>3
<1> HIDE DEF Q
<1>3. Texts \subseteq Q
  BY <1>1, <1>2, TextInduction
<1>4. QED
  BY <1>3 DEF Q

-----------------------------------------------------------------------------
(* What Normalize leaves of a text before it separates the words. *)

LEMMA VisibleOver ==
  ASSUME NEW S
  PROVE  \A t \in Over(S) : Visible(t) \in Over(S \ Invisible)
PROOF
<1> DEFINE Q == {t \in Texts : t \in Over(S) => Visible(t) \in Over(S \ Invisible)}
<1>1. << >> \in Q
  BY NoText, VisibleSteps, OverSteps
<1>2. ASSUME NEW t \in Texts, NEW ch \in Characters, t \in Q,
             Append(t, ch) \in Over(S)
      PROVE  Visible(Append(t, ch)) \in Over(S \ Invisible)
  <2>1. t \in Over(S) /\ ch \in S
    BY <1>2, OverSteps
  <2>2. Visible(t) \in Over(S \ Invisible) /\ Visible(t) \in Texts
    BY <1>2, <2>1, VisibleSteps
  <2>3. CASE ch \in Invisible
    BY <2>2, <2>3, VisibleSteps
  <2>4. CASE ch \notin Invisible
    <3>1. Append(Visible(t), ch) \in Over(S \ Invisible)
      BY <2>1, <2>2, <2>4, OverSteps
    <3>2. QED
      BY <2>4, <3>1, VisibleSteps
  <2>5. QED
    BY <2>3, <2>4
<1>3. \A t \in Texts, ch \in Characters : t \in Q => Append(t, ch) \in Q
  BY <1>2, AppendText
<1> HIDE DEF Q
<1>4. Texts \subseteq Q
  BY <1>1, <1>3, TextInduction
<1>5. QED
  BY <1>4 DEF Q, Over

LEMMA VisibleKeeps ==
  ASSUME NEW S, S \cap Invisible = {}
  PROVE  \A t \in Over(S) : Visible(t) = t
PROOF
<1> DEFINE Q == {t \in Texts : t \in Over(S) => Visible(t) = t}
<1>1. << >> \in Q
  BY NoText, VisibleSteps
<1>2. ASSUME NEW t \in Texts, NEW ch \in Characters, t \in Q,
             Append(t, ch) \in Over(S)
      PROVE  Visible(Append(t, ch)) = Append(t, ch)
  <2>1. t \in Over(S) /\ ch \in S
    BY <1>2, OverSteps
  <2>2. Visible(t) = t /\ ch \notin Invisible
    BY <1>2, <2>1
  <2>3. QED
    BY <2>2, VisibleSteps
<1>3. \A t \in Texts, ch \in Characters : t \in Q => Append(t, ch) \in Q
  BY <1>2, AppendText
<1> HIDE DEF Q
<1>4. Texts \subseteq Q
  BY <1>1, <1>3, TextInduction
<1>5. QED
  BY <1>4 DEF Q, Over

\* The characters that have one compatibility form, their own.
Canonical == {"e", "E", "e'", "E'", "'", " ", "tab"}

LEMMA ComposedTight ==
  \A t \in Texts : Avoids(t, {"e", "E"}, {"'"}) => Composed(t) = t
PROOF
<1> DEFINE Q == {t \in Texts : Avoids(t, {"e", "E"}, {"'"}) => Composed(t) = t}
<1>1. << >> \in Q
  BY NoText, ComposedSteps
<1>2. ASSUME NEW t \in Texts, NEW ch \in Characters, t \in Q,
             Avoids(Append(t, ch), {"e", "E"}, {"'"})
      PROVE  Composed(Append(t, ch)) = Append(t, ch)
  <2>1. /\ Avoids(t, {"e", "E"}, {"'"})
        /\ t # << >> /\ Last(t) \in {"e", "E"} => ch \notin {"'"}
    BY <1>2, AvoidsSteps
  <2>2. Composed(t) = t
    BY <1>2, <2>1
  <2>3. ~(ch = "'" /\ Composed(t) # << >> /\ Last(Composed(t)) \in {"e", "E"})
    BY <2>1, <2>2
  <2>4. QED
    BY <2>2, <2>3, ComposedSteps
<1>3. \A t \in Texts, ch \in Characters : t \in Q => Append(t, ch) \in Q
  BY <1>2, AppendText
<1> HIDE DEF Q
<1>4. Texts \subseteq Q
  BY <1>1, <1>3, TextInduction
<1>5. QED
  BY <1>4 DEF Q

LEMMA ComposedOver ==
  \A t \in Over(Canonical) : /\ Composed(t) \in Over(Canonical)
                             /\ Avoids(Composed(t), {"e", "E"}, {"'"})
PROOF
<1> DEFINE Fine(t) == /\ t \in Over(Canonical)
                      /\ Avoids(t, {"e", "E"}, {"'"})
           Q == {t \in Texts : t \in Over(Canonical) => Fine(Composed(t))}
<1>1. << >> \in Q
  BY NoText, ComposedSteps, OverSteps, AvoidsSteps
<1>2. ASSUME NEW t \in Texts, NEW ch \in Characters, t \in Q,
             Append(t, ch) \in Over(Canonical)
      PROVE  Fine(Composed(Append(t, ch)))
  <2> DEFINE k == Composed(t)
  <2>1. t \in Over(Canonical) /\ ch \in Canonical
    BY <1>2, OverSteps
  <2>2. k \in Texts /\ Fine(k)
    BY <1>2, <2>1, ComposedSteps
  <2>3. /\ ch = "'" /\ k # << >> /\ Last(k) \in {"e", "E"} =>
             Composed(Append(t, ch)) = Append(Front(k), Accented(Last(k)))
        /\ ~(ch = "'" /\ k # << >> /\ Last(k) \in {"e", "E"}) =>
             Composed(Append(t, ch)) = Append(k, ch)
    BY ComposedSteps
  <2> HIDE DEF k
  <2>4. CASE ch = "'" /\ k # << >> /\ Last(k) \in {"e", "E"}
    <3>1. Front(k) \in Texts /\ Last(k) \in Characters
          /\ k = Append(Front(k), Last(k))
      BY <2>2, <2>4, FrontText
    <3>2. Fine(Front(k))
      BY <2>2, <2>4, FrontKeeps
    <3>3. /\ Accented(Last(k)) \in Canonical \cap Characters
          /\ Accented(Last(k)) # "'"
      BY DEF Accented, Canonical, Characters
    <3>4. Fine(Append(Front(k), Accented(Last(k))))
      BY <3>1, <3>2, <3>3, OverSteps, AvoidsSteps
    <3>5. QED
      BY <2>3, <2>4, <3>4
  <2>5. CASE ~(ch = "'" /\ k # << >> /\ Last(k) \in {"e", "E"})
    <3>1. Fine(Append(k, ch))
      BY <2>1, <2>2, <2>5, OverSteps, AvoidsSteps
    <3>2. QED
      BY <2>3, <2>5, <3>1
  <2>6. QED
    BY <2>4, <2>5
<1>3. \A t \in Texts, ch \in Characters : t \in Q => Append(t, ch) \in Q
  BY <1>2, AppendText
<1> HIDE DEF Q
<1>4. Texts \subseteq Q
  BY <1>1, <1>3, TextInduction
<1>5. QED
  BY <1>4 DEF Q, Over

LEMMA EachKeeps ==
  ASSUME NEW form \in [Characters -> Characters], NEW S,
         \A ch \in S : form[ch] = ch
  PROVE  \A t \in Over(S) : Each(form, t) = t
PROOF
<1> TAKE t \in Over(S)
<1>1. t \in Texts /\ \A i \in 1..Len(t) : t[i] \in S
  BY DEF Over
<1>2. \A i \in 1..Len(t) : Each(form, t)[i] = t[i]
  BY <1>1, EachForm
<1>3. QED
  BY <1>1, <1>2, EachForm, SeqEqual DEF Texts

LEMMA EachOver ==
  ASSUME NEW form \in [Characters -> Characters], NEW S, NEW R,
         \A ch \in S : form[ch] \in R
  PROVE  \A t \in Over(S) : Each(form, t) \in Over(R)
PROOF
<1> TAKE t \in Over(S)
<1>1. t \in Texts /\ \A i \in 1..Len(t) : t[i] \in S
  BY DEF Over
<1>2. \A i \in 1..Len(t) : Each(form, t)[i] \in R
  BY <1>1, EachForm
<1>3. QED
  BY <1>1, <1>2, EachForm DEF Over

LEMMA LowerAvoids ==
  ASSUME NEW t \in Texts, Avoids(t, {"e", "E"}, {"'"})
  PROVE  Avoids(Each(Lower, t), {"e", "E"}, {"'"})
PROOF
<1> DEFINE m == Each(Lower, t)
<1>1. Len(t) \in Nat /\ Len(m) = Len(t)
      /\ \A i \in 1..Len(t) : m[i] = Lower[t[i]] /\ t[i] \in Characters
  BY Forms, EachForm, ElementOfSeq DEF Texts
<1> HIDE DEF m
<1>2. SUFFICES ASSUME NEW i \in 1..(Len(t) - 1), m[i] \in {"e", "E"}, m[i + 1] = "'"
               PROVE  FALSE
  BY <1>1 DEF Avoids, m
<1>3. i \in 1..Len(t) /\ i + 1 \in 1..Len(t)
  BY <1>1
<1>4. t[i] \in {"e", "E"}
  BY <1>1, <1>2, <1>3, Forms
<1>5. t[i + 1] = "'"
  BY <1>1, <1>2, <1>3, Forms
<1>6. QED
  BY <1>4, <1>5 DEF Avoids

\* Lower case, composed, without what is invisible.
Folded(claim) == Each(Lower, NFKC(Visible(claim)))
FoldedChars == {"e", "e'", "'", " ", "tab"}

LEMMA NFKCShape ==
  ASSUME NEW t \in Over(Characters \ Invisible)
  PROVE  /\ NFKC(t) \in Over(Canonical)
         /\ Avoids(NFKC(t), {"e", "E"}, {"'"})
         /\ Seen(NFKC(t)) = Seen(t)
PROOF
<1> DEFINE m == Each(CompatibilityForm, t)
<1>1. t \in Texts /\ m \in Texts
  BY CompatibilitySteps DEF Over
<1>2. m \in Over(Canonical)
  <2>1. \A ch \in Characters \ Invisible : CompatibilityForm[ch] \in Canonical
    BY Forms DEF Characters, Invisible, Canonical
  <2>2. QED
    BY <2>1, Forms, EachOver
<1>3. Seen(m) = Seen(t)
  BY <1>1, SeenCompatibility
<1>4. NFKC(t) = Composed(m)
  BY DEF NFKC, Composed
<1> HIDE DEF m
<1>5. QED
  BY <1>1, <1>2, <1>3, <1>4, ComposedOver, SeenComposed

LEMMA NFKCKeeps ==
  ASSUME NEW t \in Over(Canonical), Avoids(t, {"e", "E"}, {"'"})
  PROVE  NFKC(t) = t
PROOF
<1>1. t \in Texts
  BY DEF Over
<1>2. \A ch \in Canonical : CompatibilityForm[ch] = ch
  BY Forms DEF Canonical, Characters
<1>3. Each(CompatibilityForm, t) = t
  BY <1>2, Forms, EachKeeps
<1>4. QED
  BY <1>1, <1>3, ComposedTight DEF NFKC, Composed

LEMMA FoldedShape ==
  ASSUME NEW t \in Texts
  PROVE  /\ Folded(t) \in Over(FoldedChars)
         /\ Avoids(Folded(t), {"e", "E"}, {"'"})
         /\ Seen(Folded(t)) = Seen(t)
PROOF
<1> DEFINE v == Visible(t)
           n == NFKC(v)
<1>1. v \in Over(Characters \ Invisible) /\ v \in Texts /\ Seen(v) = Seen(t)
  <2>1. t \in Over(Characters)
    BY ElementOfSeq DEF Over, Texts
  <2>2. QED
    BY <2>1, VisibleOver, VisibleSteps, SeenVisible
<1> HIDE DEF v
<1>2. n \in Over(Canonical) /\ Avoids(n, {"e", "E"}, {"'"}) /\ Seen(n) = Seen(t)
  BY <1>1, NFKCShape
<1> HIDE DEF n
<1>3. n \in Texts
  BY <1>2 DEF Over
<1>4. \A ch \in Canonical : Lower[ch] \in FoldedChars
  BY Forms DEF Canonical, FoldedChars, Characters
<1>5. Each(Lower, n) \in Over(FoldedChars)
  BY <1>2, <1>4, Forms, EachOver
<1>6. Avoids(Each(Lower, n), {"e", "E"}, {"'"}) /\ Seen(Each(Lower, n)) = Seen(t)
  BY <1>2, <1>3, LowerAvoids, SeenLower
<1>7. QED
  BY <1>5, <1>6 DEF Folded, n, v

LEMMA AvoidsAbsent ==
  ASSUME NEW S, NEW t \in Over(S), NEW A, NEW B, S \cap B = {}
  PROVE  Avoids(t, A, B)
PROOF
<1>1. Len(t) \in Nat /\ \A i \in 1..Len(t) : t[i] \notin B
  BY LenProperties DEF Over, Texts
<1>2. \A i \in 1..(Len(t) - 1) : i + 1 \in 1..Len(t)
  BY <1>1
<1>3. QED
  BY <1>1, <1>2 DEF Avoids

\* Both paths of _normalize_claim compute one key: the fast one skips what
\* does nothing.
LEMMA BothPaths ==
  ASSUME NEW t \in Texts
  PROVE  Normalize(t) = Split(Folded(t))
PROOF
<1>1. CASE \A i \in DOMAIN t : t[i] \in Ascii
  <2>1. t \in Over(Ascii)
    BY <1>1, LenProperties DEF Over, Texts
  <2>2. Visible(t) \in Over(Ascii \ Invisible)
    BY <2>1, VisibleOver
  <2>3. Visible(t) \in Over(Canonical)
    BY <2>2 DEF Over, Ascii, Invisible, Canonical
  <2>4. Avoids(Visible(t), {"e", "E"}, {"'"})
    BY <2>2, AvoidsAbsent DEF Ascii, Invisible
  <2>5. NFKC(Visible(t)) = Visible(t)
    BY <2>3, <2>4, NFKCKeeps
  <2>6. QED
    BY <1>1, <2>5 DEF Normalize, Folded
<1>2. CASE ~(\A i \in DOMAIN t : t[i] \in Ascii)
  <2>1. Folded(t) \in Over(FoldedChars) /\ Avoids(Folded(t), {"e", "E"}, {"'"})
    BY FoldedShape
  <2>2. Folded(t) \in Over(Canonical)
    BY <2>1 DEF Over, FoldedChars, Canonical
  <2>3. NFKC(Folded(t)) = Folded(t)
    BY <2>1, <2>2, NFKCKeeps
  <2>4. QED
    BY <1>2, <2>3 DEF Normalize, Folded
<1>3. QED
  BY <1>1, <1>2

-----------------------------------------------------------------------------
(* Words and the spaces between them. *)

\* A key: letters, accents and single spaces between words, all composed.
Neat(t) ==
  /\ t \in Over({"e", "e'", "'", " "})
  /\ Avoids(t, {"e", "E"}, {"'"})
  /\ Avoids(t, {" "}, {" "})
  /\ t # << >> => t[1] # " "

LEMMA FirstOfAppend ==
  ASSUME NEW t \in Texts, NEW ch \in Characters
  PROVE  Append(t, ch)[1] = IF t = << >> THEN ch ELSE t[1]
PROOF
<1>1. CASE t = << >>
  <2>1. Len(t) = 0
    BY <1>1, EmptySeq
  <2>2. Append(t, ch)[Len(t) + 1] = ch
    BY AppendText
  <2>3. QED
    BY <1>1, <2>1, <2>2
<1>2. CASE t # << >>
  <2>1. 1 \in 1..Len(t)
    BY <1>2, EmptySeq DEF Texts
  <2>2. QED
    BY <1>2, <2>1, AppendText
<1>3. QED
  BY <1>1, <1>2

LEMMA NeatSteps ==
  /\ Neat(<< >>)
  /\ \A t \in Texts, ch \in Characters :
       Neat(Append(t, ch)) <=>
         /\ Neat(t)
         /\ ch \in {"e", "e'", "'", " "}
         /\ t # << >> /\ Last(t) \in {"e", "E"} => ch # "'"
         /\ t # << >> /\ Last(t) = " " => ch # " "
         /\ t = << >> => ch # " "
PROOF
<1> DEFINE S == {"e", "e'", "'", " "}
           E == {"e", "E"}
           A == {"'"}
           B == {" "}
<1>1. Neat(<< >>)
  <2>1. << >> \in Over(S) /\ Avoids(<< >>, E, A) /\ Avoids(<< >>, B, B)
    <3> HIDE DEF S, E, A, B
    <3>1. QED
      BY OverSteps, AvoidsSteps
  <2>2. QED
    BY <2>1 DEF Neat
<1>2. ASSUME NEW t \in Texts, NEW ch \in Characters
      PROVE  Neat(Append(t, ch)) <=>
               /\ Neat(t)
               /\ ch \in S
               /\ t # << >> /\ Last(t) \in E => ch # "'"
               /\ t # << >> /\ Last(t) = " " => ch # " "
               /\ t = << >> => ch # " "
  <2> DEFINE u == Append(t, ch)
  <2>1. /\ u \in Over(S) <=> t \in Over(S) /\ ch \in S
        /\ Avoids(u, E, A) <=>
             Avoids(t, E, A) /\ (t # << >> /\ Last(t) \in E => ch \notin A)
        /\ Avoids(u, B, B) <=>
             Avoids(t, B, B) /\ (t # << >> /\ Last(t) \in B => ch \notin B)
    <3> HIDE DEF S, E, A, B
    <3>1. QED
      BY OverSteps, AvoidsSteps
  <2>2. u[1] = (IF t = << >> THEN ch ELSE t[1]) /\ u # << >>
    BY AppendText, FirstOfAppend
  <2>3. Neat(u) <=> /\ u \in Over(S) /\ Avoids(u, E, A) /\ Avoids(u, B, B)
                    /\ u # << >> => u[1] # " "
    BY DEF Neat
  <2>4. Neat(t) <=> /\ t \in Over(S) /\ Avoids(t, E, A) /\ Avoids(t, B, B)
                    /\ t # << >> => t[1] # " "
    BY DEF Neat
  <2> HIDE DEF u, S, E
  <2>5. CASE t = << >>
    <3>1. Neat(t)
      BY <1>1, <2>5
    <3>2. Neat(u) <=> ch \in S /\ ch # " "
      BY <2>1, <2>2, <2>3, <2>4, <2>5, <3>1
    <3>3. QED
      BY <2>5, <3>1, <3>2 DEF u
  <2>6. CASE t # << >>
    <3>1. u[1] = t[1]
      BY <2>2, <2>6
    <3>2. Neat(u) <=> /\ Neat(t) /\ ch \in S
                      /\ Last(t) \in E => ch # "'"
                      /\ Last(t) = " " => ch # " "
      BY <2>1, <2>2, <2>3, <2>4, <2>6, <3>1
    <3>3. QED
      BY <2>6, <3>2 DEF u
  <2>7. QED
    BY <2>5, <2>6
<1>3. QED
  BY <1>1, <1>2

LEMMA SeparatedNeat ==
  \A t \in Over(FoldedChars) :
    Avoids(t, {"e", "E"}, {"'"}) =>
      /\ Neat(Separated(t))
      /\ t # << >> /\ Last(t) \notin Space =>
           Separated(t) # << >> /\ Last(Separated(t)) = Last(t)
      /\ t # << >> /\ Last(t) \in Space =>
           Separated(t) = << >> \/ Last(Separated(t)) = " "
PROOF
<1> DEFINE Fine(t) == /\ t \in Over(FoldedChars)
                      /\ Avoids(t, {"e", "E"}, {"'"})
           Good(t) ==
             /\ Neat(Separated(t))
             /\ t # << >> /\ Last(t) \notin Space =>
                  Separated(t) # << >> /\ Last(Separated(t)) = Last(t)
             /\ t # << >> /\ Last(t) \in Space =>
                  Separated(t) = << >> \/ Last(Separated(t)) = " "
           Q == {t \in Texts : Fine(t) => Good(t)}
<1>1. << >> \in Q
  BY NoText, SeparatedSteps, NeatSteps
<1>2. ASSUME NEW t \in Texts, NEW ch \in Characters, t \in Q,
             Fine(Append(t, ch))
      PROVE  Good(Append(t, ch))
  <2> DEFINE u == Append(t, ch)
             s == Separated(t)
  <2>1. /\ t \in Over(FoldedChars) /\ ch \in FoldedChars
        /\ Avoids(t, {"e", "E"}, {"'"})
        /\ t # << >> /\ Last(t) \in {"e", "E"} => ch \notin {"'"}
    BY <1>2, OverSteps, AvoidsSteps
  <2>2. Good(t) /\ s \in Texts
    BY <1>2, <2>1, SeparatedSteps
  <2>3. u \in Texts /\ u # << >> /\ Last(u) = ch
    BY AppendText
  <2>4. CASE ch \notin Space
    <3>1. Separated(u) = Append(s, ch)
      BY <2>4, SeparatedSteps
    <3>2. s # << >> /\ Last(s) \in {"e", "E"} => ch \notin {"'"}
      <4>1. CASE t = << >>
        BY <4>1, SeparatedSteps
      <4>2. CASE t # << >> /\ Last(t) \in Space
        BY <2>2, <4>2
      <4>3. CASE t # << >> /\ Last(t) \notin Space
        BY <2>1, <2>2, <4>3
      <4>4. QED
        BY <4>1, <4>2, <4>3
    <3>3. /\ Append(s, ch) # << >> /\ Last(Append(s, ch)) = ch
          /\ Append(s, ch)[1] = IF s = << >> THEN ch ELSE s[1]
      BY <2>2, AppendText, FirstOfAppend
    <3>4. Neat(s)
      BY <2>2
    <3>5. ch \in {"e", "e'", "'"}
      BY <2>1, <2>4 DEF FoldedChars, Space
    <3> HIDE DEF s, u
    <3>6. s = << >> => ch # " "
      BY <3>5
    <3>7. Neat(Append(s, ch))
      BY <2>2, <3>2, <3>4, <3>5, <3>6, NeatSteps
    <3>8. Neat(Separated(u))
      BY <3>1, <3>7
    <3>9. QED
      BY <2>3, <2>4, <3>1, <3>3, <3>8 DEF u
  <2>5. CASE ch \in Space /\ (s = << >> \/ Last(s) = " ")
    <3>1. Separated(u) = s
      BY <2>5, SeparatedSteps
    <3>2. QED
      BY <2>2, <2>3, <2>5, <3>1
  <2>6. CASE ch \in Space /\ s # << >> /\ Last(s) # " "
    <3>1. Separated(u) = Append(s, " ")
      BY <2>6, SeparatedSteps
    <3>2. " " \in Characters
      BY DEF Characters
    <3>3. /\ Append(s, " ") # << >> /\ Last(Append(s, " ")) = " "
          /\ Append(s, " ")[1] = s[1]
      BY <2>2, <2>6, <3>2, AppendText, FirstOfAppend
    <3>4. Neat(s)
      BY <2>2
    <3> HIDE DEF s, u
    <3>5. Neat(Append(s, " "))
      BY <2>2, <2>6, <3>2, <3>4, NeatSteps
    <3> HIDE DEF s
    <3>6. Neat(Separated(u))
      BY <3>1, <3>5
    <3>7. QED
      BY <2>3, <2>6, <3>1, <3>3, <3>6 DEF u
  <2>7. QED
    BY <2>4, <2>5, <2>6
<1>3. \A t \in Texts, ch \in Characters : t \in Q => Append(t, ch) \in Q
  <2> HIDE DEF Fine, Good
  <2>1. QED
    BY <1>2, AppendText
<1> HIDE DEF Q
<1>4. Texts \subseteq Q
  BY <1>1, <1>3, TextInduction
<1>5. QED
  BY <1>4 DEF Q, Over

LEMMA SplitNeat ==
  ASSUME NEW t \in Over(FoldedChars), Avoids(t, {"e", "E"}, {"'"})
  PROVE  /\ Neat(Split(t))
         /\ Split(t) # << >> => Last(Split(t)) # " "
PROOF
<1> DEFINE s == Separated(t)
<1>1. t \in Texts
  BY DEF Over
<1>2. Neat(s) /\ s \in Texts
  BY <1>1, SeparatedNeat, SeparatedSteps
<1>3. Split(t) = IF s # << >> /\ Last(s) = " " THEN Front(s) ELSE s
  BY DEF Split, Separated
<1> HIDE DEF s
<1>4. CASE s # << >> /\ Last(s) = " "
  <2>1. PICK f \in Texts, ch \in Characters : s = Append(f, ch)
    BY <1>2, <1>4, TextParts
  <2>2. Front(s) = f /\ Last(s) = ch
    BY <2>1, AppendText
  <2>3. Neat(f) /\ (f # << >> /\ Last(f) = " " => ch # " ")
    BY <1>2, <2>1, NeatSteps
  <2>4. QED
    BY <1>3, <1>4, <2>2, <2>3
<1>5. CASE ~(s # << >> /\ Last(s) = " ")
  BY <1>2, <1>3, <1>5
<1>6. QED
  BY <1>4, <1>5

LEMMA SeparatedKeeps == \A t \in Texts : Neat(t) => Separated(t) = t
PROOF
<1> DEFINE Q == {t \in Texts : Neat(t) => Separated(t) = t}
<1>1. << >> \in Q
  BY NoText, SeparatedSteps
<1>2. ASSUME NEW t \in Texts, NEW ch \in Characters, t \in Q,
             Neat(Append(t, ch))
      PROVE  Separated(Append(t, ch)) = Append(t, ch)
  <2>3. Neat(t) /\ ch \in {"e", "e'", "'", " "}
        /\ (t # << >> /\ Last(t) = " " => ch # " ")
        /\ (t = << >> => ch # " ")
    BY <1>2, NeatSteps
  <2>5. Separated(t) = t
    BY <1>2, <2>3
  <2>6. CASE ch = " "
    <3>1. t # << >> /\ Last(t) # " " /\ ch \in Space
      BY <2>3, <2>6 DEF Space
    <3>2. Separated(Append(t, ch)) = Append(Separated(t), " ")
      BY <2>5, <3>1, SeparatedSteps
    <3>3. QED
      BY <2>5, <2>6, <3>2
  <2>7. CASE ch # " "
    <3>1. ch \notin Space
      BY <2>3, <2>7 DEF Space
    <3>2. QED
      BY <2>5, <3>1, SeparatedSteps
  <2>8. QED
    BY <2>6, <2>7
<1>3. \A t \in Texts, ch \in Characters : t \in Q => Append(t, ch) \in Q
  BY <1>2, AppendText
<1> HIDE DEF Q
<1>4. Texts \subseteq Q
  BY <1>1, <1>3, TextInduction
<1>5. QED
  BY <1>4 DEF Q

\* A key that is normalized again stays what it is.
LEMMA NormalizeKeeps ==
  ASSUME NEW t \in Texts
  PROVE  Normalize(Normalize(t)) = Normalize(t)
PROOF
<1> DEFINE k == Normalize(t)
<1>1. Folded(t) \in Over(FoldedChars) /\ Avoids(Folded(t), {"e", "E"}, {"'"})
  BY FoldedShape
<1>2. k = Split(Folded(t))
  BY BothPaths
<1>3. Neat(k) /\ (k # << >> => Last(k) # " ")
  BY <1>1, <1>2, SplitNeat
<1> HIDE DEF k
<1>4. k \in Over({"e", "e'", "'", " "}) /\ k \in Texts
      /\ Avoids(k, {"e", "E"}, {"'"})
  BY <1>3 DEF Neat, Over
<1>5. Visible(k) = k
  <2>1. {"e", "e'", "'", " "} \cap Invisible = {}
    BY DEF Invisible
  <2>2. QED
    BY <1>4, <2>1, VisibleKeeps
<1>6. NFKC(k) = k
  <2>1. k \in Over(Canonical)
    BY <1>4 DEF Over, Canonical
  <2>2. QED
    BY <1>4, <2>1, NFKCKeeps
<1>7. Each(Lower, k) = k
  <2>1. \A ch \in {"e", "e'", "'", " "} : Lower[ch] = ch
    BY Forms DEF Characters
  <2>2. QED
    BY <1>4, <2>1, Forms, EachKeeps
<1>8. Normalize(k) = Split(k)
  BY <1>4, <1>5, <1>6, <1>7, BothPaths DEF Folded
<1>9. Split(k) = k
  BY <1>3, <1>4, SeparatedKeeps DEF Split, Separated
<1>10. QED
  BY <1>8, <1>9 DEF k

-----------------------------------------------------------------------------
(* A key and what is seen of its claim determine each other. *)

LEMMA SeenEnds ==
  ASSUME NEW t \in Over(FoldedChars)
  PROVE  /\ Seen(t) = << >> <=> t = << >>
         /\ t # << >> => (Last(Seen(t)) = " " <=> Last(t) \in Space)
         /\ t # << >> /\ Last(t) = " " => Seen(Front(t)) = Front(Seen(t))
PROOF
<1>1. CASE t = << >>
  BY <1>1, SeenSteps
<1>2. CASE t # << >>
  <2>1. PICK f \in Texts, ch \in Characters : t = Append(f, ch)
    BY <1>2, TextParts DEF Over
  <2>2. ch \in FoldedChars /\ Front(t) = f /\ Last(t) = ch
    BY <2>1, OverSteps, AppendText
  <2>3. Seen(f) \in Texts /\ Append(Seen(f), "e") \in Texts
        /\ {"e", "'", " "} \subseteq Characters
    <3>1. {"e", "'", " "} \subseteq Characters
      BY DEF Characters
    <3>2. QED
      BY <3>1, SeenSteps, AppendText
  <2>4. ch \notin Invisible
    BY <2>2 DEF FoldedChars, Invisible
  <2>5. CASE ch = "e'"
    <3>1. Seen(t) = Append(Append(Seen(f), "e"), "'")
      BY <2>1, <2>4, <2>5, SeenSteps
    <3> DEFINE g == Append(Seen(f), "e")
    <3>2. Seen(t) # << >> /\ Last(Seen(t)) = "'"
      <4>1. g \in Texts /\ Seen(t) = Append(g, "'")
        BY <2>3, <3>1
      <4>2. Append(g, "'") # << >> /\ Last(Append(g, "'")) = "'"
        <5> HIDE DEF g
        <5>1. QED
          BY <2>3, <4>1, AppendText
      <4>3. QED
        BY <4>1, <4>2
    <3>3. QED
      BY <1>2, <2>2, <2>5, <3>2 DEF Space
  <2>6. CASE ch # "e'"
    <3>1. Seen(t) = Append(Seen(f), Face(ch))
      <4>1. ch \notin {"e'", "E'"}
        BY <2>2, <2>6 DEF FoldedChars
      <4>2. QED
        BY <2>1, <2>4, <4>1, SeenSteps
    <3>2. Face(ch) \in Characters /\ (Face(ch) = " " <=> ch \in Space)
      BY <2>2, <2>3 DEF Face, FoldedChars, Space
    <3>3. Seen(t) # << >> /\ Last(Seen(t)) = Face(ch) /\ Front(Seen(t)) = Seen(f)
      <4> DEFINE c == Face(ch)
                 g == Seen(f)
      <4>1. g \in Texts /\ c \in Characters /\ Seen(t) = Append(g, c)
        BY <2>3, <3>1, <3>2
      <4>2. Append(g, c) # << >> /\ Last(Append(g, c)) = c /\ Front(Append(g, c)) = g
        <5> HIDE DEF g, c
        <5>1. QED
          BY <4>1, AppendText
      <4>3. QED
        BY <4>1, <4>2
    <3>4. QED
      BY <1>2, <2>2, <3>2, <3>3
  <2>7. QED
    BY <2>5, <2>6
<1>3. QED
  BY <1>1, <1>2

\* Single spaces only stand between words.
LEMMA SeparatedBlank ==
  \A t \in Texts : Separated(t) # << >> /\ Last(Separated(t)) \in Space =>
                    Last(Separated(t)) = " "
PROOF
<1> DEFINE Good(t) == Separated(t) # << >> /\ Last(Separated(t)) \in Space =>
                        Last(Separated(t)) = " "
           Q == {t \in Texts : Good(t)}
<1>1. << >> \in Q
  BY NoText, SeparatedSteps
<1>2. ASSUME NEW t \in Texts, NEW ch \in Characters, t \in Q
      PROVE  Good(Append(t, ch))
  <2>1. Good(t) /\ Separated(t) \in Texts /\ " " \in Characters
    BY <1>2, SeparatedSteps DEF Characters
  <2>2. /\ Last(Append(Separated(t), ch)) = ch
        /\ Last(Append(Separated(t), " ")) = " "
    BY <2>1, AppendText
  <2>3. \/ Separated(Append(t, ch)) = Append(Separated(t), ch) /\ ch \notin Space
        \/ Separated(Append(t, ch)) = Separated(t)
        \/ Separated(Append(t, ch)) = Append(Separated(t), " ")
    BY SeparatedSteps
  <2>4. QED
    BY <2>1, <2>2, <2>3
<1>3. \A t \in Texts, ch \in Characters : t \in Q => Append(t, ch) \in Q
  <2> HIDE DEF Good
  <2>1. QED
    BY <1>2, AppendText
<1> HIDE DEF Q
<1>4. Texts \subseteq Q
  BY <1>1, <1>3, TextInduction
<1>5. QED
  BY <1>4 DEF Q

\* Words are separated alike in a text and in what is seen of it.
LEMMA SeenSeparated ==
  \A t \in Over(FoldedChars) :
    /\ Separated(t) \in Over(FoldedChars)
    /\ Seen(Separated(t)) = Separated(Seen(t))
PROOF
<1> DEFINE Good(t) == /\ Separated(t) \in Over(FoldedChars)
                      /\ Seen(Separated(t)) = Separated(Seen(t))
           Q == {t \in Texts : t \in Over(FoldedChars) => Good(t)}
<1>1. << >> \in Q
  BY NoText, SeparatedSteps, SeenSteps, OverSteps
<1>2. ASSUME NEW t \in Texts, NEW ch \in Characters, t \in Q,
             Append(t, ch) \in Over(FoldedChars)
      PROVE  Good(Append(t, ch))
  <2> DEFINE u == Append(t, ch)
             s == Separated(t)
             w == Separated(Seen(t))
  <2>1. t \in Over(FoldedChars) /\ ch \in FoldedChars
    BY <1>2, OverSteps
  <2>2. s \in Over(FoldedChars) /\ s \in Texts /\ Seen(s) = w
        /\ Seen(t) \in Texts /\ w \in Texts
    BY <1>2, <2>1, SeparatedSteps, SeenSteps
  <2>3. /\ w = << >> <=> s = << >>
        /\ s # << >> => (Last(w) = " " <=> Last(s) \in Space)
    BY <2>2, SeenEnds
  <2>4. s # << >> /\ Last(s) \in Space => Last(s) = " "
    BY SeparatedBlank
  <2>5. {"e", "'", " "} \subseteq Characters
    BY DEF Characters
  <2>6. ch \notin Invisible
    BY <2>1 DEF FoldedChars, Invisible
  <2>7. CASE ch \in Space
    <3>1. Seen(u) = Append(Seen(t), " ")
      <4>1. ch \notin {"e'", "E'"} /\ Face(ch) = " "
        BY <2>7 DEF Face, Space
      <4>2. QED
        BY <2>6, <4>1, SeenSteps
    <3>2. Separated(Seen(u)) = IF w = << >> \/ Last(w) = " " THEN w ELSE Append(w, " ")
      <4>1. " " \in Space
        BY DEF Space
      <4> DEFINE r == Seen(t)
      <4>2. r \in Texts /\ " " \in Characters
        BY <2>2, <2>5
      <4> HIDE DEF r
      <4>3. Separated(Append(r, " ")) =
              IF Separated(r) = << >> \/ Last(Separated(r)) = " "
              THEN Separated(r) ELSE Append(Separated(r), " ")
        BY <4>1, <4>2, SeparatedSteps
      <4>4. QED
        BY <3>1, <4>3 DEF r
    <3>3. Separated(u) = IF s = << >> \/ Last(s) = " " THEN s ELSE Append(s, " ")
      BY <2>7, SeparatedSteps
    <3>4. " " \in FoldedChars
      BY DEF FoldedChars
    <3>5. Seen(Append(s, " ")) = Append(w, " ")
      <4>1. " " \notin Invisible /\ " " \notin {"e'", "E'"} /\ Face(" ") = " "
        BY DEF Invisible, Face, Space
      <4>2. QED
        BY <2>2, <2>5, <4>1, SeenSteps
    <3>6. Append(s, " ") \in Over(FoldedChars)
      BY <2>2, <2>5, <3>4, OverSteps
    <3>7. w = << >> \/ Last(w) = " " <=> s = << >> \/ Last(s) = " "
      BY <2>3, <2>4 DEF Space
    <3> HIDE DEF s, w, u
    <3>8. QED
      BY <2>2, <3>2, <3>3, <3>5, <3>6, <3>7 DEF u
  <2>8. CASE ch \notin Space
    <3>1. Separated(u) = Append(s, ch) /\ Append(s, ch) \in Over(FoldedChars)
      BY <2>1, <2>2, <2>8, SeparatedSteps, OverSteps
    <3>2. CASE ch = "e'"
      <4>1. Seen(u) = Append(Append(Seen(t), "e"), "'")
        BY <2>6, <3>2, SeenSteps
      <4>2. "e" \notin Space /\ "'" \notin Space
        BY DEF Space
      <4>3. Append(Seen(t), "e") \in Texts
        BY <2>2, <2>5, AppendText
      <4>4. Separated(Append(Seen(t), "e")) = Append(w, "e")
        BY <2>2, <2>5, <4>2, SeparatedSteps
      <4>5. Separated(Seen(u)) = Append(Append(w, "e"), "'")
        BY <2>5, <4>1, <4>2, <4>3, <4>4, SeparatedSteps
      <4>6. Seen(Append(s, ch)) = Append(Append(w, "e"), "'")
        BY <2>2, <2>6, <3>2, SeenSteps
      <4>7. QED
        BY <3>1, <4>5, <4>6
    <3>3. CASE ch # "e'"
      <4>1. ch \notin {"e'", "E'"} /\ Face(ch) = ch
        BY <2>1, <2>8, <3>3 DEF FoldedChars, Face
      <4>2. Seen(u) = Append(Seen(t), ch)
        BY <2>6, <4>1, SeenSteps
      <4>3. Separated(Seen(u)) = Append(w, ch)
        BY <2>2, <2>8, <4>2, SeparatedSteps
      <4>4. Seen(Append(s, ch)) = Append(w, ch)
        BY <2>2, <2>6, <4>1, SeenSteps
      <4>5. QED
        BY <3>1, <4>3, <4>4
    <3>4. QED
      BY <3>2, <3>3
  <2>9. QED
    BY <2>7, <2>8
<1>3. \A t \in Texts, ch \in Characters : t \in Q => Append(t, ch) \in Q
  <2> HIDE DEF Good
  <2>1. QED
    BY <1>2, AppendText
<1> HIDE DEF Q
<1>4. Texts \subseteq Q
  BY <1>1, <1>3, TextInduction
<1>5. QED
  BY <1>4 DEF Q, Over

\* Composing what is seen of a key gives the key.
LEMMA ComposedSeen == \A t \in Texts : Neat(t) => Composed(Seen(t)) = t
PROOF
<1> DEFINE Q == {t \in Texts : Neat(t) => Composed(Seen(t)) = t}
<1>1. << >> \in Q
  BY NoText, ComposedSteps, SeenSteps
<1>2. ASSUME NEW t \in Texts, NEW ch \in Characters, t \in Q,
             Neat(Append(t, ch))
      PROVE  Composed(Seen(Append(t, ch))) = Append(t, ch)
  <2>1. /\ Neat(t) /\ ch \in {"e", "e'", "'", " "}
        /\ t # << >> /\ Last(t) \in {"e", "E"} => ch # "'"
    BY <1>2, NeatSteps
  <2>2. Composed(Seen(t)) = t /\ Seen(t) \in Texts
    BY <1>2, <2>1, SeenSteps
  <2>3. {"e", "'"} \subseteq Characters
    BY DEF Characters
  <2>4. ch \notin Invisible
    BY <2>1 DEF Invisible
  <2>5. CASE ch = "e'"
    <3>1. Seen(Append(t, ch)) = Append(Append(Seen(t), "e"), "'")
      BY <2>4, <2>5, SeenSteps
    <3>2. Append(Seen(t), "e") \in Texts
      BY <2>2, <2>3, AppendText
    <3>3. Composed(Append(Seen(t), "e")) = Append(t, "e")
      BY <2>2, <2>3, ComposedSteps
    <3>4. Append(t, "e") # << >> /\ Last(Append(t, "e")) = "e"
          /\ Front(Append(t, "e")) = t
      BY <2>3, AppendText
    <3>5. Composed(Append(Append(Seen(t), "e"), "'")) = Append(t, Accented("e"))
      BY <2>3, <3>2, <3>3, <3>4, ComposedSteps
    <3>6. QED
      BY <2>5, <3>1, <3>5 DEF Accented
  <2>6. CASE ch # "e'"
    <3>1. ch \notin {"e'", "E'"} /\ Face(ch) = ch
      BY <2>1, <2>6 DEF Face, Space
    <3>2. Seen(Append(t, ch)) = Append(Seen(t), ch)
      BY <2>4, <3>1, SeenSteps
    <3>3. ~(ch = "'" /\ Composed(Seen(t)) # << >> /\ Last(Composed(Seen(t))) \in {"e", "E"})
      BY <2>1, <2>2
    <3>4. QED
      BY <2>2, <3>2, <3>3, ComposedSteps
  <2>7. QED
    BY <2>5, <2>6
<1>3. \A t \in Texts, ch \in Characters : t \in Q => Append(t, ch) \in Q
  BY <1>2, AppendText
<1> HIDE DEF Q
<1>4. Texts \subseteq Q
  BY <1>1, <1>3, TextInduction
<1>5. QED
  BY <1>4 DEF Q

\* The key of a claim is the composed form of what is seen of it.
LEMMA KeyIsAppearance ==
  ASSUME NEW t \in Texts
  PROVE  /\ Appearance(t) = Seen(Normalize(t))
         /\ Normalize(t) = Composed(Appearance(t))
PROOF
<1> DEFINE f == Folded(t)
           s == Separated(f)
           k == Normalize(t)
<1>1. f \in Over(FoldedChars) /\ Avoids(f, {"e", "E"}, {"'"}) /\ Seen(f) = Seen(t)
  BY FoldedShape
<1> HIDE DEF f
<1>2. s \in Over(FoldedChars) /\ Seen(s) = Separated(Seen(t)) /\ s \in Texts
  BY <1>1, SeenSeparated DEF Over
<1>3. Neat(s) /\ Neat(Split(f))
  BY <1>1, SeparatedNeat, SplitNeat
<1>4. k = Split(f)
  BY BothPaths DEF f
<1>5. Split(f) = IF s # << >> /\ Last(s) = " " THEN Front(s) ELSE s
  BY DEF Split, Separated
<1>6. Appearance(t) = IF Separated(Seen(t)) # << >> /\ Last(Separated(Seen(t))) = " "
                      THEN Front(Separated(Seen(t))) ELSE Separated(Seen(t))
  BY DEF Appearance, Split, Separated, Seen
<1> HIDE DEF s, k
<1>7. s # << >> /\ Last(s) \in Space => Last(s) = " "
  <2>1. s # << >> => Last(s) \in {"e", "e'", "'", " "}
    BY <1>2, <1>3, FrontKeeps DEF Neat
  <2>2. QED
    BY <2>1 DEF Space
<1>8. /\ Seen(s) = << >> <=> s = << >>
      /\ s # << >> => (Last(Seen(s)) = " " <=> Last(s) = " ")
      /\ s # << >> /\ Last(s) = " " => Seen(Front(s)) = Front(Seen(s))
  BY <1>2, <1>7, SeenEnds DEF Space
<1>9. Appearance(t) = Seen(k)
  <2>1. CASE s # << >> /\ Last(s) = " "
    BY <1>2, <1>4, <1>5, <1>6, <1>8, <2>1
  <2>2. CASE ~(s # << >> /\ Last(s) = " ")
    BY <1>2, <1>4, <1>5, <1>6, <1>8, <2>2
  <2>3. QED
    BY <2>1, <2>2
<1>10. Composed(Seen(k)) = k
  BY <1>3, <1>4, ComposedSeen DEF Neat, Over
<1>11. QED
  BY <1>9, <1>10 DEF k

=============================================================================
