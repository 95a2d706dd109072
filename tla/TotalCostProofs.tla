-------------------------- MODULE TotalCostProofs ---------------------------
(***************************************************************************)
(* Proofs about TotalCost, for any table, any filter and integers of any   *)
(* width.                                                                  *)
(***************************************************************************)
EXTENDS TotalCost, InductionLemmas

-----------------------------------------------------------------------------
(* The sum                                                                 *)

\* Adding a price to an int64 gives an int64.
LEMMA PlusType ==
  ASSUME NEW a \in Int64, NEW b \in 0..MaxInt64
  PROVE  Plus(a, b) \in Int64
  BY Int64Assumption DEF Plus, Int64, Modulus

\* It gives the sum if that is one.
LEMMA PlusExact ==
  ASSUME NEW a \in Int, NEW b \in Int, a + b <= MaxInt64
  PROVE  Plus(a, b) = a + b
  BY Int64Assumption DEF Plus

-----------------------------------------------------------------------------
(* Types, and what has been read                                           *)

Read == {subs[k] : k \in 1..Len(subs)}

\* Whatever has been read was selected, a row that is still to be read has not
\* been, and no row is read twice; as long as rows.Err() is nil nothing that was
\* selected is missing from both.
ReadInv ==
  /\ pc = "query" => subs = << >> /\ ~rowsErr
  /\ rows \subseteq Selected
  /\ Read \subseteq Selected
  /\ rows \cap Read = {}
  /\ \A j, k \in 1..Len(subs) : subs[j] = subs[k] => j = k
  /\ pc = "next" /\ ~rowsErr => Selected \subseteq Read \cup rows
  /\ pc = "fetched" /\ ~rowsErr => Selected \subseteq Read
  /\ pc = "adding" => Selected \subseteq Read
  /\ answer = 200 => added = Len(subs) /\ Selected \subseteq Read
  /\ pc # "answered" => answer = 0

IInv == TypeOK /\ ReadInv

\* A selected row has a price that an int64 holds.
LEMMA PriceType ==
  ASSUME TypeOK, NEW id \in Selected
  PROVE  table[id].sub.price \in 0..MaxInt64
  <1>1. id \in SubscriptionID /\ table[id] # Nil
    BY DEF Selected
  <1>2. table[id] \in SeedRows
    BY <1>1 DEF TypeOK
  <1> QED BY <1>2, Int64Assumption

LEMMA InvInit == Init => IInv
  <1> SUFFICES ASSUME Init PROVE IInv
    OBVIOUS
  <1>1. TypeOK
    <2>1. 0 \in Int64
      BY Int64Assumption DEF Int64
    <2>2. subs \in Seq(SubscriptionID) /\ added \in 0..Len(subs)
      BY DEF Init
    <2>3. total \in Int64 /\ exact \in Nat
      BY <2>1 DEF Init
    <2>4. table \in [SubscriptionID -> SeedRows \cup {Nil}] /\ filter \in CostQueries
      BY Zenon DEF Init
    <2>5. pc = "query" /\ rows = {} /\ rowsErr = FALSE /\ answer = 0
      BY Zenon DEF Init
    <2>6. rowsErr \in BOOLEAN
      BY <2>5, Zenon
    <2> QED BY <2>2, <2>3, <2>4, <2>5, <2>6 DEF TypeOK
  <1>2. ReadInv
    BY DEF Init, ReadInv, Read
  <1> QED BY <1>1, <1>2 DEF IInv

\* The filter and the snapshot stay, so what they select does.
LEMMA SelectedStays ==
  ASSUME UNCHANGED <<table, filter>>
  PROVE  Selected' = Selected
  BY DEF Selected

\* A row is read.
LEMMA InvRowScanned == IInv /\ RowScanned => IInv'
  <1> SUFFICES ASSUME IInv, RowScanned PROVE IInv'
    OBVIOUS
  <1> USE DEF IInv
  <1>0. pc = "next" /\ pc' = "next" /\ rowsErr' = rowsErr /\ answer' = answer
        /\ added' = added /\ Selected' = Selected
    BY SelectedStays DEF RowScanned
  <1>1. PICK id \in rows : subs' = Append(subs, id) /\ rows' = rows \ {id}
    BY DEF RowScanned
  <1>2. id \in SubscriptionID /\ id \in Selected /\ id \notin Read
    BY <1>1 DEF TypeOK, ReadInv
  <1>3. subs \in Seq(SubscriptionID)
    BY DEF TypeOK
  <1>4. Len(subs') = Len(subs) + 1 /\ Len(subs) \in Nat
    BY <1>1, <1>2, <1>3
  <1>5. \A k \in 1..Len(subs) : subs'[k] = subs[k]
    BY <1>1, <1>2, <1>3
  <1>6. subs'[Len(subs) + 1] = id
    BY <1>1, <1>2, <1>3
  <1>7. Read' = Read \cup {id}
    <2>1. 1..Len(subs') = 1..Len(subs) \cup {Len(subs) + 1}
      BY <1>4
    <2> QED BY <2>1, <1>5, <1>6 DEF Read
  <1>8. TypeOK'
    <2>1. subs' \in Seq(SubscriptionID)
      BY <1>1, <1>2, <1>3
    <2>2. added' \in 0..Len(subs')
      BY <1>0, <1>4 DEF TypeOK
    <2> QED BY <2>1, <2>2, <1>1 DEF TypeOK, RowScanned
  <1>9. \A j, k \in 1..Len(subs') : subs'[j] = subs'[k] => j = k
    <2> SUFFICES ASSUME NEW j \in 1..Len(subs'), NEW k \in 1..Len(subs'),
                        subs'[j] = subs'[k]
                 PROVE  j = k
      OBVIOUS
    <2>1. CASE j \in 1..Len(subs) /\ k \in 1..Len(subs)
      BY <2>1, <1>5 DEF ReadInv
    <2>2. CASE j = Len(subs) + 1 /\ k = Len(subs) + 1
      BY <2>2
    <2>3. CASE j \in 1..Len(subs) /\ k = Len(subs) + 1
      BY <2>3, <1>2, <1>5, <1>6 DEF Read
    <2>4. CASE j = Len(subs) + 1 /\ k \in 1..Len(subs)
      BY <2>4, <1>2, <1>5, <1>6 DEF Read
    <2> QED BY <2>1, <2>2, <2>3, <2>4, <1>4
  <1>10. rows' \subseteq Selected' /\ Read' \subseteq Selected'
         /\ rows' \cap Read' = {}
    BY <1>0, <1>1, <1>2, <1>7 DEF ReadInv
  <1>11. ~rowsErr => Selected \subseteq Read' \cup rows'
    BY <1>0, <1>1, <1>7 DEF ReadInv
  <1>12. answer' = 0
    BY <1>0 DEF ReadInv
  <1>13. ReadInv'
    BY <1>0, <1>9, <1>10, <1>11, <1>12 DEF ReadInv
  <1> QED BY <1>8, <1>13

\* The other steps leave what has been read alone.
LEMMA InvNext == IInv /\ [Next]_vars => IInv'
  <1> SUFFICES ASSUME IInv, [Next]_vars PROVE IInv'
    OBVIOUS
  <1> USE DEF IInv
  <1>1. CASE QueryReturns
    <2>1. Selected' = Selected /\ Selected \subseteq SubscriptionID
      BY <1>1, SelectedStays DEF QueryReturns, Selected
    <2>2. Read = {} /\ Read' = Read
      BY <1>1 DEF QueryReturns, ReadInv, Read
    <2>3. TypeOK'
      BY <1>1, <2>1 DEF QueryReturns, TypeOK
    <2>4. ReadInv'
      BY <1>1, <2>1, <2>2 DEF QueryReturns, ReadInv
    <2> QED BY <2>3, <2>4
  <1>2. CASE QueryFails
    BY <1>2, SelectedStays DEF QueryFails, Answers, TypeOK, ReadInv, Read
  <1>3. CASE RowScanned
    BY <1>3, InvRowScanned
  <1>4. CASE ScanFails
    BY <1>4, SelectedStays DEF ScanFails, TypeOK, ReadInv, Read
  <1>5. CASE ResultBreaksOff
    BY <1>5, SelectedStays DEF ResultBreaksOff, TypeOK, ReadInv, Read
  <1>6. CASE RowsEnd
    BY <1>6, SelectedStays DEF RowsEnd, TypeOK, ReadInv, Read
  <1>7. CASE FindReturns
    BY <1>7, SelectedStays DEF FindReturns, Answers, TypeOK, ReadInv, Read
  <1>8. CASE AddsPrice
    <2>1. subs[added + 1] \in Selected /\ added + 1 \in 1..Len(subs)
      BY <1>8 DEF AddsPrice, TypeOK, ReadInv, Read
    <2>2. table[subs[added + 1]].sub.price \in 0..MaxInt64
      BY <2>1, PriceType
    <2>3. total' \in Int64 /\ exact' \in Nat
      BY <1>8, <2>2, PlusType, Int64Assumption DEF AddsPrice, TypeOK
    <2>4. TypeOK'
      BY <1>8, <2>1, <2>3 DEF AddsPrice, TypeOK
    <2>5. ReadInv'
      BY <1>8, SelectedStays DEF AddsPrice, ReadInv, Read
    <2> QED BY <2>4, <2>5
  <1>9. CASE AnswersTotal
    BY <1>9, SelectedStays DEF AnswersTotal, Answers, TypeOK, ReadInv, Read
  <1>10. CASE UNCHANGED vars
    BY <1>10, SelectedStays DEF vars, TypeOK, ReadInv, Read
  <1> QED
    BY <1>1, <1>2, <1>3, <1>4, <1>5, <1>6, <1>7, <1>8, <1>9, <1>10
    DEF Next, Answered

LEMMA InvAlways == Spec => []IInv
  BY InvInit, InvNext, PTL DEF Spec

-----------------------------------------------------------------------------
\* Every variable has its type in every reachable state; the total keeps to its
\* 64 bits.
THEOREM TypeCorrect == Spec => []TypeOK
  <1>1. IInv => TypeOK
    BY DEF IInv
  <1> QED BY <1>1, InvAlways, PTL

\* A total that is answered is that of every selected subscription, each once,
\* wherever results of other requests broke off.
THEOREM EveryRowIsAddedOnce == Spec => []EveryRowOnce
  <1>1. IInv => EveryRowOnce
    BY DEF IInv, ReadInv, EveryRowOnce, Read
  <1> QED BY <1>1, InvAlways, PTL

-----------------------------------------------------------------------------
\* The total is the sum in integers without bound as long as that is an int64:
\* prices are not negative, so a sum that has left the range does not come back.
THEOREM TotalIsExact == Spec => []ExactUntilItWraps
  <1>1. Init => ExactUntilItWraps
    BY DEF Init, ExactUntilItWraps
  <1>2. IInv /\ ExactUntilItWraps /\ [Next]_vars => ExactUntilItWraps'
    <2> SUFFICES ASSUME IInv, ExactUntilItWraps, [Next]_vars
                 PROVE  ExactUntilItWraps'
      OBVIOUS
    <2>1. CASE AddsPrice
      <3> DEFINE price == table[subs[added + 1]].sub.price
      <3>1. subs[added + 1] \in Selected
        BY <2>1 DEF AddsPrice, IInv, TypeOK, ReadInv, Read
      <3>2. price \in 0..MaxInt64
        BY <3>1, PriceType DEF IInv
      <3>3. total' = Plus(total, price) /\ exact' = exact + price
        BY <2>1 DEF AddsPrice
      <3>4. total \in Int /\ exact \in Nat
        BY Int64Assumption DEF IInv, TypeOK, Int64
      <3> HIDE DEF price
      <3>5. ASSUME exact' <= MaxInt64 PROVE total' = exact'
        <4>1. exact <= MaxInt64
          BY <3>2, <3>3, <3>4, <3>5, Int64Assumption
        <4>2. total = exact
          BY <4>1 DEF ExactUntilItWraps
        <4> QED BY <3>2, <3>3, <3>4, <3>5, <4>2, PlusExact
      <3> QED BY <3>5 DEF ExactUntilItWraps
    <2>2. CASE UNCHANGED <<total, exact>>
      BY <2>2 DEF ExactUntilItWraps
    <2>3. Next => AddsPrice \/ UNCHANGED <<total, exact>>
      BY DEF Next, QueryReturns, QueryFails, RowScanned, ScanFails,
             ResultBreaksOff, RowsEnd, FindReturns, AnswersTotal, Answered, vars
    <2> QED BY <2>1, <2>2, <2>3 DEF vars
  <1> QED BY <1>1, <1>2, InvAlways, PTL DEF Spec

-----------------------------------------------------------------------------
(* The total                                                               *)

\* The sum of the prices of the rows of T.
Cost(tab, T) == MapThenSumSet(LAMBDA id : tab[id].sub.price, T)

\* g gives every subset of T the sum of its prices, in whatever order they are
\* added up.
Additive(g, T, tab) ==
  /\ g \in [SUBSET T -> Int]
  /\ g[{}] = 0
  /\ \A S \in SUBSET T : \A x \in S : g[S] = tab[x].sub.price + g[S \ {x}]

LEMMA AdditiveExists ==
  ASSUME NEW U, IsFiniteSet(U), NEW tab,
         \A id \in U : tab[id].sub.price \in Int
  PROVE  \E g : Additive(g, U, tab)
  <1> DEFINE X == {T \in SUBSET U : \E g : Additive(g, T, tab)}
  <1>1. {} \in X
    <2>1. Additive([S \in SUBSET {} |-> 0], {}, tab)
      BY DEF Additive
    <2> QED BY <2>1
  <1>2. ASSUME NEW T \in SUBSET U, NEW x \in T, T \ {x} \in X
        PROVE  T \in X
    <2>1. PICK g : Additive(g, T \ {x}, tab)
      BY <1>2
    <2> DEFINE price == tab[x].sub.price
               f == [S \in SUBSET T |-> IF x \in S THEN price + g[S \ {x}]
                                                   ELSE g[S]]
    <2>2. price \in Int
      BY <1>2
    <2> HIDE DEF price
    <2>3. \A S \in SUBSET T : S \ {x} \in SUBSET (T \ {x})
                              /\ g[S \ {x}] \in Int
      BY <2>1 DEF Additive
    <2>4. \A S \in SUBSET T : x \notin S => S \ {x} = S
      OBVIOUS
    <2>5. f \in [SUBSET T -> Int]
      <3>1. ASSUME NEW S \in SUBSET T PROVE f[S] \in Int
        <4>1. g[S \ {x}] \in Int /\ price + g[S \ {x}] \in Int
          <5>1. g[S \ {x}] \in Int
            BY <2>3, Zenon
          <5> QED BY <2>2, <5>1
        <4>2. CASE x \in S
          BY <4>1, <4>2
        <4>3. CASE x \notin S
          BY <4>1, <4>3, <2>4
        <4> QED BY <4>2, <4>3
      <3> QED BY <3>1
    <2>6. f[{}] = 0
      BY <2>1 DEF Additive
    <2>7. ASSUME NEW S \in SUBSET T, NEW y \in S
          PROVE  f[S] = tab[y].sub.price + f[S \ {y}]
      <3>1. CASE y = x
        BY <3>1 DEF price
      <3>2. CASE y # x /\ x \in S
        <4>1. f[S] = price + g[S \ {x}]
          BY <3>2
        <4>2. (S \ {y}) \ {x} = (S \ {x}) \ {y}
          OBVIOUS
        <4>3. f[S \ {y}] = price + g[(S \ {x}) \ {y}]
          BY <3>2, <4>2
        <4>4. y \in S \ {x} /\ S \ {x} \in SUBSET (T \ {x})
          BY <3>2
        <4>5. g[S \ {x}] = tab[y].sub.price + g[(S \ {x}) \ {y}]
          BY <4>4, <2>1 DEF Additive
        <4>6. g[(S \ {x}) \ {y}] \in Int /\ tab[y].sub.price \in Int
          BY <4>4, <2>1 DEF Additive
        <4> HIDE DEF f
        <4> QED BY <2>2, <4>1, <4>3, <4>5, <4>6
      <3>3. CASE x \notin S
        BY <3>3, <2>1 DEF Additive
      <3> QED BY <3>1, <3>2, <3>3
    <2>8. Additive(f, T, tab)
      BY <2>5, <2>6, <2>7 DEF Additive
    <2> QED BY <2>8
  <1> HIDE DEF X
  <1>3. \A T \in SUBSET U : (\A x \in T : T \ {x} \in X) => T \in X
    BY <1>1, <1>2
  <1>4. U \in X
    BY <1>3, FiniteInduction
  <1> QED BY <1>4 DEF X

\* The fold of MapThenSumSet, which takes its elements in an order of its own,
\* computes that sum.
LEMMA CostIsAdditive ==
  ASSUME NEW U, IsFiniteSet(U), NEW tab, NEW g, Additive(g, U, tab)
  PROVE  Cost(tab, U) = g[U]
  <1> DEFINE First(S) == CHOOSE x \in S : TRUE
             Folds(f) ==
               f = [S \in SUBSET U |->
                      IF S = {} THEN 0
                      ELSE tab[First(S)].sub.price + f[S \ {First(S)}]]
             fold == CHOOSE f : Folds(f)
  <1>1. Cost(tab, U) = fold[U]
    BY DEF Cost, MapThenSumSet, MapThenFoldSet
  <1>2. \A S \in SUBSET U : S # {} => First(S) \in S
    OBVIOUS
  <1> HIDE DEF First
  <1>3. Folds(g)
    BY <1>2 DEF Additive
  <1>4. Folds(fold)
    BY <1>3, Zenon
  <1> HIDE DEF fold
  <1> DEFINE X == {S \in SUBSET U : fold[S] = g[S]}
  <1>5. ASSUME NEW S \in SUBSET U, \A x \in S : S \ {x} \in X PROVE S \in X
    <2>1. CASE S = {}
      BY <2>1, <1>4 DEF Additive
    <2>2. CASE S # {}
      <3>1. fold[S] = tab[First(S)].sub.price + fold[S \ {First(S)}]
        BY <2>2, <1>4
      <3>2. g[S] = tab[First(S)].sub.price + g[S \ {First(S)}]
        BY <2>2, <1>2 DEF Additive
      <3>3. fold[S \ {First(S)}] = g[S \ {First(S)}]
        BY <2>2, <1>2, <1>5
      <3> QED BY <3>1, <3>2, <3>3
    <2> QED BY <2>1, <2>2
  <1> HIDE DEF X
  <1>6. U \in X
    BY <1>5, FiniteInduction
  <1> QED BY <1>1, <1>6 DEF X

\* One more row adds its price.
LEMMA CostOfOneMore ==
  ASSUME NEW T, IsFiniteSet(T), NEW x, x \notin T, NEW tab,
         \A id \in T \cup {x} : tab[id].sub.price \in Int
  PROVE  Cost(tab, T \cup {x}) = Cost(tab, T) + tab[x].sub.price
  <1> DEFINE U == T \cup {x}
  <1>1. IsFiniteSet(U)
    BY FS_AddElement
  <1>2. PICK g : Additive(g, U, tab)
    BY <1>1, AdditiveExists
  <1> DEFINE h == [S \in SUBSET T |-> g[S]]
  <1>3. Additive(h, T, tab)
    BY <1>2 DEF Additive
  <1>4. h[T] = g[T] /\ g[T] \in Int
    BY <1>2 DEF Additive
  <1> HIDE DEF h
  <1>5. Cost(tab, T) = g[T]
    BY <1>3, <1>4, CostIsAdditive
  <1>6. U \ {x} = T /\ x \in U /\ tab[x].sub.price \in Int
    OBVIOUS
  <1>7. g[U] = tab[x].sub.price + g[T]
    BY <1>2, <1>6 DEF Additive
  <1> HIDE DEF U
  <1>8. Cost(tab, U) = g[U]
    BY <1>1, <1>2, CostIsAdditive
  <1> QED BY <1>4, <1>5, <1>6, <1>7, <1>8 DEF U

\* What adding a multiple of the modulus leaves of a number.
LEMMA MultiplesVanish ==
  ASSUME NEW a \in Int, NEW m \in Nat \ {0}, NEW k \in Int
  PROVE  (a + k * m) % m = a % m
  <1> DEFINE q == a \div m
             r == a % m
  <1>1. r \in 0..(m - 1) /\ q \in Int /\ a = (q * m) + r
    OBVIOUS
  <1> HIDE DEF q, r
  <1>2. ASSUME NEW b \in Int, NEW p \in Int, b = (p * m) + r
        PROVE  b % m = r
    BY <1>1, <1>2
  <1>3. a + k * m = ((q + k) * m) + r /\ a + k * m \in Int /\ q + k \in Int
    BY <1>1
  <1>4. (a + k * m) % m = r
    BY <1>2, <1>3
  <1> QED BY <1>4 DEF r

Summed == {subs[k] : k \in 1..added}

\* The sum kept beside the total is that of the rows added so far, and the total
\* is short of it by as many moduli as there were overflows.
SumInv ==
  /\ IsFiniteSet(Summed)
  /\ exact = Cost(table, Summed)
  /\ \E n \in Nat : exact = total + n * Modulus

LEMMA SumInit == Init => SumInv
  <1> SUFFICES ASSUME Init PROVE SumInv
    OBVIOUS
  <1>1. Summed = {} /\ IsFiniteSet({})
    BY FS_EmptySet DEF Init, Summed
  <1>2. Additive([S \in SUBSET {} |-> 0], {}, table)
    BY DEF Additive
  <1>3. Cost(table, {}) = 0
    BY <1>1, <1>2, CostIsAdditive
  <1>4. Modulus \in Nat
    BY Int64Assumption DEF Modulus
  <1>5. exact = total + 0 * Modulus
    BY <1>4 DEF Init
  <1> QED BY <1>1, <1>3, <1>5 DEF SumInv, Init

\* A price is added.
LEMMA SumAddsPrice ==
  ASSUME IInv, SumInv, AddsPrice
  PROVE  SumInv'
  <1> DEFINE id == subs[added + 1]
             price == table[id].sub.price
  <1>1. added \in Nat /\ added + 1 \in 1..Len(subs) /\ Len(subs) \in Nat
        /\ added' = added + 1 /\ subs' = subs /\ table' = table
    BY DEF AddsPrice, IInv, TypeOK
  <1>2. id \notin Summed
    BY <1>1 DEF Summed, IInv, ReadInv
  <1>3. Summed \cup {id} \subseteq Selected
    BY <1>1 DEF Summed, IInv, ReadInv, Read
  <1>4. \A i \in Summed \cup {id} : table[i].sub.price \in 0..MaxInt64
    BY <1>3, PriceType DEF IInv
  <1>5. Summed' = Summed \cup {id}
    <2>1. 1..(added + 1) = 1..added \cup {added + 1}
      BY <1>1
    <2> QED BY <1>1, <2>1 DEF Summed
  <1>6. total' = Plus(total, price) /\ exact' = exact + price
    BY DEF AddsPrice
  <1>7. price \in 0..MaxInt64
    BY <1>4
  <1> HIDE DEF id, price
  <1>8. IsFiniteSet(Summed')
    BY <1>5, FS_AddElement DEF SumInv
  <1>9. exact' = Cost(table, Summed')
    <2>1. \A i \in Summed \cup {id} : table[i].sub.price \in Int
      BY <1>4, Int64Assumption
    <2>2. Cost(table, Summed \cup {id})
            = Cost(table, Summed) + table[id].sub.price
      BY <1>2, <2>1, CostOfOneMore DEF SumInv
    <2> QED BY <1>5, <1>6, <2>2 DEF SumInv, price
  <1>10. \E n \in Nat : exact' = total' + n * Modulus
    <2>1. PICK n \in Nat : exact = total + n * Modulus
      BY DEF SumInv
    <2>2. Modulus \in Nat /\ total \in Int /\ n * Modulus \in Int
          /\ price \in Int
      BY <1>7, Int64Assumption DEF Modulus, IInv, TypeOK, Int64
    <2>3. CASE total + price > MaxInt64
      <3>1. total' = (total + price) - Modulus
        BY <1>6, <2>2, <2>3 DEF Plus
      <3>2. (n + 1) * Modulus = n * Modulus + Modulus
        BY <2>2
      <3>3. exact' = total' + (n + 1) * Modulus
        BY <1>6, <2>1, <2>2, <3>1, <3>2
      <3> QED BY <3>3
    <2>4. CASE ~(total + price > MaxInt64)
      <3>1. exact' = total' + n * Modulus
        BY <1>6, <2>1, <2>2, <2>4 DEF Plus
      <3> QED BY <3>1
    <2> QED BY <2>3, <2>4
  <1> QED BY <1>1, <1>8, <1>9, <1>10 DEF SumInv, Modulus

\* The other steps leave what has been added up alone.
LEMMA SumNext == IInv /\ SumInv /\ [Next]_vars => SumInv'
  <1> SUFFICES ASSUME IInv, SumInv, [Next]_vars PROVE SumInv'
    OBVIOUS
  <1>1. CASE AddsPrice
    BY <1>1, SumAddsPrice
  <1>2. ASSUME UNCHANGED <<table, added, total, exact>>,
               \A k \in 1..added : subs'[k] = subs[k]
        PROVE  SumInv'
    <2>1. Summed' = Summed
      BY <1>2 DEF Summed
    <2> QED BY <1>2, <2>1 DEF SumInv, Modulus
  <1>3. CASE RowScanned
    <2>1. PICK id \in rows : subs' = Append(subs, id)
      BY <1>3 DEF RowScanned
    <2>2. subs \in Seq(SubscriptionID) /\ id \in SubscriptionID
          /\ added \in 0..Len(subs)
      BY DEF IInv, TypeOK
    <2>3. \A k \in 1..added : subs'[k] = subs[k]
      BY <2>1, <2>2
    <2> QED BY <1>2, <1>3, <2>3 DEF RowScanned
  <1>4. CASE UNCHANGED <<table, subs, added, total, exact>>
    BY <1>2, <1>4
  <1>5. Next => AddsPrice \/ RowScanned
                \/ UNCHANGED <<table, subs, added, total, exact>>
    BY DEF Next, QueryReturns, QueryFails, ScanFails, ResultBreaksOff, RowsEnd,
           FindReturns, AnswersTotal, Answered, vars
  <1> QED BY <1>1, <1>3, <1>4, <1>5 DEF vars

\* The number that is answered is the sum of the prices of the subscriptions
\* selected, reduced to an int64, in whatever order their rows came: the order
\* in which the loop adds them up is not that of the sum it is compared with.
THEOREM TotalIsTheSum == Spec => []AnswerIsTheTotal
  <1>1. IInv /\ SumInv => AnswerIsTheTotal
    <2> SUFFICES ASSUME IInv, SumInv, answer = 200
                 PROVE  total % Modulus = Cost(table, Selected) % Modulus
      BY DEF AnswerIsTheTotal, Cost
    <2>1. Summed = Selected
      BY DEF Summed, IInv, ReadInv, Read
    <2>2. PICK n \in Nat : exact = total + n * Modulus
      BY DEF SumInv
    <2>3. Modulus \in Nat \ {0} /\ total \in Int
      BY Int64Assumption DEF Modulus, IInv, TypeOK, Int64
    <2>4. exact % Modulus = total % Modulus
      <3>1. n \in Int
        OBVIOUS
      <3>2. (total + n * Modulus) % Modulus = total % Modulus
        BY <2>3, <3>1, MultiplesVanish, Zenon
      <3> QED BY <2>2, <3>2, Zenon
    <2> QED BY <2>1, <2>4 DEF SumInv
  <1> QED BY <1>1, SumInit, SumNext, InvAlways, PTL DEF Spec
=============================================================================
