-------------------------- MODULE InductionLemmas ---------------------------
(***************************************************************************)
(* Induction for the proofs about what the model defines by recursion: on  *)
(* the natural numbers and on the subsets of a finite set, as facts about  *)
(* sets, and from the first that functions of primitive recursion exist.   *)
(***************************************************************************)
EXTENDS Integers, FiniteSetTheorems, TLAPS

-----------------------------------------------------------------------------
(* Induction                                                               *)

\* A set that contains 0, and with a number its successor, has every number.
LEMMA Induction ==
  ASSUME NEW X, 0 \in X, \A n \in Nat : n \in X => n + 1 \in X
  PROVE  Nat \subseteq X
  <1> SUFFICES ASSUME Nat \ X # {} PROVE FALSE
    OBVIOUS
  <1>1. PICK m \in Nat \ X :
           \A k \in Nat \ X : <<k, m>> \notin OpToRel(<, Nat)
    BY NatLessThanWellFounded, WFMin
  <1>2. m \in Nat \ {0} /\ m - 1 \in Nat /\ (m - 1) + 1 = m
    OBVIOUS
  <1>3. <<m - 1, m>> \in OpToRel(<, Nat)
    BY <1>2 DEF OpToRel
  <1>4. m - 1 \in X
    BY <1>1, <1>2, <1>3
  <1> QED BY <1>1, <1>2, <1>4

\* A set has every subset of U, if U is finite, when it has each of them of which
\* it has all that lack one element.
LEMMA FiniteInduction ==
  ASSUME NEW U, IsFiniteSet(U), NEW X,
         \A T \in SUBSET U : (\A x \in T : T \ {x} \in X) => T \in X
  PROVE  SUBSET U \subseteq X
  <1> DEFINE Rest == (SUBSET U) \ X
  <1> SUFFICES ASSUME Rest # {} PROVE FALSE
    OBVIOUS
  <1>1. Rest \subseteq FiniteSubsetsOf(U)
    BY FS_Subset DEF FiniteSubsetsOf
  <1>2. IsWellFoundedOn(StrictSubsetOrdering(U), FiniteSubsetsOf(U))
    BY FS_StrictSubsetOrderingWellFounded
  <1> HIDE DEF Rest
  <1>3. PICK T \in Rest :
           \A S \in Rest : <<S, T>> \notin StrictSubsetOrdering(U)
    BY <1>1, <1>2, WFMin
  <1> USE DEF Rest
  <1>4. ASSUME NEW x \in T PROVE T \ {x} \in X
    <2>1. <<T \ {x}, T>> \in StrictSubsetOrdering(U)
      BY <1>3, <1>4 DEF StrictSubsetOrdering
    <2> QED BY <1>3, <2>1
  <1> QED BY <1>3, <1>4

-----------------------------------------------------------------------------
(* Primitive recursion                                                     *)

\* h takes a number and the value before it to a value.
IsStep(h, S) == h \in [Nat \X S -> S]

\* g is the function with first value a and step h, as far as n.
Begins(g, n, a, h, S) ==
  /\ g \in [0..n -> S]
  /\ g[0] = a
  /\ \A k \in 1..n : g[k] = h[<<k, g[k - 1]>>]

\* There is a beginning of every length.
LEMMA BeginningExists ==
  ASSUME NEW S, NEW a \in S, NEW h, IsStep(h, S), NEW n \in Nat
  PROVE  \E g : Begins(g, n, a, h, S)
  <1> DEFINE X == {m \in Nat : \E g : Begins(g, m, a, h, S)}
  <1>1. 0 \in X
    <2>1. Begins([k \in 0..0 |-> a], 0, a, h, S)
      BY DEF Begins
    <2> QED BY <2>1
  <1>2. ASSUME NEW m \in Nat, m \in X PROVE m + 1 \in X
    <2>1. PICK g : Begins(g, m, a, h, S)
      BY <1>2
    <2> DEFINE f == [k \in 0..(m + 1) |->
                       IF k = m + 1 THEN h[<<m + 1, g[m]>>] ELSE g[k]]
    <2>2. g[m] \in S /\ h[<<m + 1, g[m]>>] \in S
      BY <2>1 DEF Begins, IsStep
    <2>3. \A k \in 0..m : f[k] = g[k] /\ g[k] \in S
      BY <2>1 DEF Begins
    <2>4. f[m + 1] = h[<<m + 1, g[m]>>]
      OBVIOUS
    <2>5. f \in [0..(m + 1) -> S]
      <3>1. \A k \in 0..(m + 1) : k \in 0..m \/ k = m + 1
        OBVIOUS
      <3>2. \A k \in 0..(m + 1) : f[k] \in S
        BY <3>1, <2>2, <2>3, <2>4
      <3> QED BY <3>2
    <2>6. f[0] = a
      BY <2>1, <2>3 DEF Begins
    <2>7. ASSUME NEW k \in 1..(m + 1) PROVE f[k] = h[<<k, f[k - 1]>>]
      <3>1. k - 1 \in 0..m /\ f[k - 1] = g[k - 1]
        BY <2>3
      <3>2. CASE k = m + 1
        <4>1. k - 1 = m /\ m \in 0..m
          BY <3>2
        <4>2. f[k - 1] = g[m]
          BY <4>1, <2>3
        <4> HIDE DEF f
        <4> QED BY <3>2, <4>2, <2>4
      <3>3. CASE k \in 1..m
        BY <3>1, <3>3, <2>1, <2>3 DEF Begins
      <3> QED BY <3>2, <3>3
    <2>8. Begins(f, m + 1, a, h, S)
      BY <2>5, <2>6, <2>7 DEF Begins
    <2> QED BY <2>8
  <1> HIDE DEF X
  <1>3. n \in X
    BY <1>1, <1>2, Induction
  <1> QED BY <1>3 DEF X

\* Two beginnings agree as far as both go.
LEMMA BeginningsAgree ==
  ASSUME NEW S, NEW a \in S, NEW h, IsStep(h, S),
         NEW m \in Nat, NEW n \in Nat, m <= n,
         NEW f, Begins(f, m, a, h, S), NEW g, Begins(g, n, a, h, S)
  PROVE  \A k \in 0..m : f[k] = g[k]
  <1> DEFINE X == {k \in Nat : k \in 0..m => f[k] = g[k]}
  <1>1. 0 \in X
    BY DEF Begins
  <1>2. ASSUME NEW k \in Nat, k \in X PROVE k + 1 \in X
    <2> SUFFICES ASSUME k + 1 \in 0..m PROVE f[k + 1] = g[k + 1]
      OBVIOUS
    <2>1. k \in 0..m /\ k + 1 \in 1..m /\ k + 1 \in 1..n /\ (k + 1) - 1 = k
      OBVIOUS
    <2>2. f[k] = g[k]
      BY <1>2, <2>1
    <2>3. f[k + 1] = h[<<k + 1, f[k]>>]
      BY <2>1 DEF Begins
    <2>4. g[k + 1] = h[<<k + 1, g[k]>>]
      BY <2>1 DEF Begins
    <2> QED BY <2>2, <2>3, <2>4
  <1> HIDE DEF X
  <1>3. Nat \subseteq X
    BY <1>1, <1>2, Induction
  <1> QED BY <1>3 DEF X

\* f is what f[n \in Nat] == IF n = 0 THEN a ELSE h[<<n, f[n - 1]>>] defines.
IsRecursion(f, a, h) ==
  f = [n \in Nat |-> IF n = 0 THEN a ELSE h[<<n, f[n - 1]>>]]

\* There is such a function, so that the definition says what it seems to say.
LEMMA RecursiveFunctionExists ==
  ASSUME NEW S, NEW a \in S, NEW h, IsStep(h, S)
  PROVE  \E f \in [Nat -> S] : IsRecursion(f, a, h)
  <1> DEFINE G(n) == CHOOSE g : Begins(g, n, a, h, S)
             f == [n \in Nat |-> G(n)[n]]
  <1>1. \A n \in Nat : Begins(G(n), n, a, h, S)
    BY BeginningExists
  <1> HIDE DEF G
  <1>2. f \in [Nat -> S]
    BY <1>1 DEF Begins
  <1>3. f[0] = a
    BY <1>1 DEF Begins
  <1>4. ASSUME NEW n \in Nat, n # 0 PROVE f[n] = h[<<n, f[n - 1]>>]
    <2>1. n - 1 \in Nat /\ n - 1 <= n /\ n - 1 \in 0..(n - 1) /\ n \in 1..n
      BY <1>4
    <2>2. G(n)[n] = h[<<n, G(n)[n - 1]>>]
      BY <2>1, <1>1 DEF Begins
    <2>3. G(n - 1)[n - 1] = G(n)[n - 1]
      <3>1. Begins(G(n - 1), n - 1, a, h, S) /\ Begins(G(n), n, a, h, S)
        BY <2>1, <1>1
      <3>2. \A k \in 0..(n - 1) : G(n - 1)[k] = G(n)[k]
        BY <2>1, <3>1, BeginningsAgree
      <3> QED BY <2>1, <3>2
    <2> QED BY <2>1, <2>2, <2>3
  <1> HIDE DEF f
  <1>5. \A n \in Nat : f[n] = IF n = 0 THEN a ELSE h[<<n, f[n - 1]>>]
    BY <1>3, <1>4
  <1>6. IsRecursion(f, a, h)
    BY <1>2, <1>5 DEF IsRecursion
  <1> QED BY <1>2, <1>6
=============================================================================
