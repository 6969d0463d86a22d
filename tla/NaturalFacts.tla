---------------------------- MODULE NaturalFacts ----------------------------
(***************************************************************************)
(* Facts about numbers that the proofs of several modules need.  They rest *)
(* on one: a nonempty set of naturals has a least element, which gives     *)
(* proofs by induction the form of a least counterexample.                 *)
(***************************************************************************)
EXTENDS Integers, FiniteSets, FiniteSetTheorems, TLAPS

\* A nonempty set of naturals has a least element: what the first candidate
\* of a loop, or the least counterexample of a proof, stands on.
LEMMA LeastNatural ==
  ASSUME NEW T, T \subseteq Nat, T # {}
  PROVE  \E n \in T : \A m \in T : n <= m
<1> DEFINE up(n) == 0..n
           family == {up(n) : n \in T}
<1>1. family \subseteq FiniteSubsetsOf(Nat) /\ family # {}
  <2>1. \A n \in T : IsFiniteSet(0..n)
    BY FS_Interval
  <2>2. \A n \in T : 0..n \in SUBSET Nat
    OBVIOUS
  <2>3. \A n \in T : up(n) \in FiniteSubsetsOf(Nat)
    BY <2>1, <2>2 DEF FiniteSubsetsOf
  <2> HIDE DEF up
  <2> QED
    BY <2>3
<1>2. IsWellFoundedOn(StrictSubsetOrdering(Nat), FiniteSubsetsOf(Nat))
  BY FS_StrictSubsetOrderingWellFounded
<1>3. PICK x \in family : \A y \in family : ~ (<<y, x>> \in StrictSubsetOrdering(Nat))
  <2> HIDE DEF family
  <2> QED
    BY <1>1, <1>2, WFMin
<1>4. PICK n \in T : x = 0..n
  OBVIOUS
<1>5. ASSUME NEW m \in T, ~(n <= m) PROVE FALSE
  <2>1. 0..m \subseteq 0..n /\ 0..m # 0..n /\ 0..m \in SUBSET Nat /\ 0..n \in SUBSET Nat
    <3>1. n \in 0..n /\ n \notin 0..m
      BY <1>5
    <3> QED
      BY <1>5, <3>1
  <2>2. <<0..m, x>> \in StrictSubsetOrdering(Nat)
    BY <1>4, <2>1 DEF StrictSubsetOrdering
  <2> QED
    BY <1>3, <2>2
<1> QED
  BY <1>5
-----------------------------------------------------------------------------
(* Functions that are defined by recursion on the naturals. *)

\* The first n steps of an iteration from x.
Iterates(f, x, n, g) ==
  /\ DOMAIN g = 0..n
  /\ g[0] = x
  /\ \A i \in 1..n : g[i] = f[g[i - 1]]

LEMMA IteratesExist ==
  ASSUME NEW f, NEW x, NEW n \in Nat
  PROVE  \E g : Iterates(f, x, n, g)
PROOF
<1> DEFINE T == {m \in Nat : ~\E g : Iterates(f, x, m, g)}
<1> SUFFICES ASSUME T # {}
             PROVE  FALSE
  OBVIOUS
<1>1. PICK m \in T : \A k \in T : m <= k
  <2>1. T \subseteq Nat
    OBVIOUS
  <2> HIDE DEF T
  <2>2. QED
    BY <2>1, LeastNatural
<1>2. CASE m = 0
  <2>1. Iterates(f, x, 0, [i \in 0..0 |-> x])
    BY DEF Iterates
  <2>2. QED
    BY <1>2, <2>1
<1>3. CASE m # 0
  <2>1. m - 1 \in Nat /\ m - 1 \notin T
    BY <1>1, <1>3
  <2>2. PICK g : Iterates(f, x, m - 1, g)
    BY <2>1
  <2> DEFINE h == [i \in 0..m |-> IF i = m THEN f[g[m - 1]] ELSE g[i]]
  <2>3. Iterates(f, x, m, h)
    BY <1>3, <2>2 DEF Iterates
  <2>4. QED
    BY <2>3
<1>4. QED
  BY <1>2, <1>3

LEMMA IteratesAgree ==
  ASSUME NEW f, NEW x, NEW n \in Nat, NEW m \in Nat, NEW g, NEW h,
         Iterates(f, x, n, g), Iterates(f, x, m, h),
         NEW i \in Nat, i <= n, i <= m
  PROVE  g[i] = h[i]
PROOF
<1> DEFINE T == {k \in Nat : k <= n /\ k <= m /\ g[k] # h[k]}
<1> SUFFICES ASSUME T # {}
             PROVE  FALSE
  OBVIOUS
<1>1. PICK k \in T : \A j \in T : k <= j
  <2>1. T \subseteq Nat
    OBVIOUS
  <2> HIDE DEF T
  <2>2. QED
    BY <2>1, LeastNatural
<1>2. CASE k = 0
  BY <1>2 DEF Iterates
<1>3. CASE k # 0
  <2>1. k - 1 \in Nat /\ k - 1 \notin T
    BY <1>1, <1>3
  <2>2. g[k - 1] = h[k - 1]
    BY <2>1
  <2>3. QED
    BY <1>3, <2>2 DEF Iterates
<1>4. QED
  BY <1>2, <1>3

Iterated(S, x, f, g) ==
  g \in [Nat -> S] /\ g[0] = x /\ \A k \in Nat : g[k + 1] = f[g[k]]

\* From every start a function can be iterated for ever: what a definition
\* f[n \in Nat] == IF n = 0 THEN x ELSE step(f[n - 1]) stands on.
LEMMA Iteration ==
  ASSUME NEW S, NEW x \in S, NEW f \in [S -> S]
  PROVE  \E g : Iterated(S, x, f, g)
PROOF
<1> DEFINE P(n) == CHOOSE g : Iterates(f, x, n, g)
           F == [n \in Nat |-> P(n)[n]]
<1>1. \A n \in Nat : Iterates(f, x, n, P(n))
  BY IteratesExist
<1> HIDE DEF P
<1>2. F[0] = x
  BY <1>1 DEF Iterates
<1>3. ASSUME NEW k \in Nat
      PROVE  F[k + 1] = f[F[k]]
  <2>1. k + 1 \in Nat /\ k <= k + 1 /\ k + 1 \in 1..(k + 1) /\ (k + 1) - 1 = k
    OBVIOUS
  <2>2. Iterates(f, x, k + 1, P(k + 1)) /\ Iterates(f, x, k, P(k))
    BY <1>1, <2>1
  <2>3. P(k + 1)[k] = P(k)[k]
    BY <2>1, <2>2, IteratesAgree
  <2>4. P(k + 1)[k + 1] = f[P(k + 1)[k]]
    BY <2>1, <2>2 DEF Iterates
  <2>5. QED
    BY <2>1, <2>3, <2>4
<1>4. \A n \in Nat : F[n] \in S
  <2> DEFINE T == {m \in Nat : F[m] \notin S}
  <2> SUFFICES ASSUME T # {}
               PROVE  FALSE
    OBVIOUS
  <2> HIDE DEF F
  <2>1. PICK m \in T : \A k \in T : m <= k
    <3>1. T \subseteq Nat
      OBVIOUS
    <3> HIDE DEF T
    <3>2. QED
      BY <3>1, LeastNatural
  <2>2. CASE m = 0
    BY <1>2, <2>2
  <2>3. CASE m # 0
    <3>1. m - 1 \in Nat /\ m - 1 \notin T /\ (m - 1) + 1 = m
      BY <2>1, <2>3
    <3>2. F[m - 1] \in S /\ F[m] = f[F[m - 1]]
      BY <1>3, <3>1
    <3>3. QED
      BY <3>2
  <2>4. QED
    BY <2>2, <2>3
<1>5. F \in [Nat -> S]
  <2>1. F = [n \in Nat |-> F[n]]
    OBVIOUS
  <2> HIDE DEF F
  <2>2. QED
    BY <1>4, <2>1
<1> HIDE DEF F
<1>6. QED
  BY <1>2, <1>3, <1>5 DEF Iterated

=============================================================================
