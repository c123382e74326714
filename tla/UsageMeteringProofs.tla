------------------------ MODULE UsageMeteringProofs ------------------------
(***************************************************************************)
(* Theorems of UsageMetering for any requests, periods and allowances.     *)
(***************************************************************************)
EXTENDS UsageMetering, FiniteSetTheorems, WellFoundedInduction, TLAPS

----------------------------------------------------------------------------
(* Sums over finite sets.  The sums of the model are those of the community   *)
(* modules, whose recursion is unfolded here once: what fails for some set    *)
(* fails for a least one, from which the recursion takes an element.          *)

Sum(f, S) == MapThenSumSet(LAMBDA d : f[d], S)

\* The recursion of MapThenFoldSet: g is a sum of f on the subsets of S.
First(s) == CHOOSE x \in s : TRUE
Fold(f, g, s) == IF s = {} THEN 0 ELSE f[First(s)] + g[s \ {First(s)}]
Adds(f, S, g) == g = [s \in SUBSET S |-> Fold(f, g, s)]

\* Induction: what fails for some number fails for a least one.
LEMMA LeastNumber ==
    ASSUME NEW T \in SUBSET Nat, T # {}
    PROVE  \E m \in T : \A n \in T : ~(n < m)
<1>1. PICK m \in T : \A n \in T : ~(<<n, m>> \in OpToRel(<, Nat))
  BY NatLessThanWellFounded, WFMin
<1>2. \A n \in T : ~(n < m)  BY <1>1 DEF OpToRel
<1> QED  BY <1>2

\* Among finite sets, what fails for some fails for one of the least size.
LEMMA LeastSet ==
    ASSUME NEW U, NEW B, B # {}, \A s \in B : s \in SUBSET U /\ IsFiniteSet(s)
    PROVE  \E s \in B : \A x \in s : s \ {x} \notin B
<1> DEFINE Sizes == {Cardinality(s) : s \in B}
<1>1. Sizes \in SUBSET Nat /\ Sizes # {}  BY FS_CardinalityType
<1>2. PICK m \in Sizes : \A n \in Sizes : ~(n < m)
  <2> HIDE DEF Sizes
  <2> QED  BY <1>1, LeastNumber
<1>3. PICK s \in B : Cardinality(s) = m  OBVIOUS
<1>4. ASSUME NEW x \in s, s \ {x} \in B PROVE FALSE
  <2>1. IsFiniteSet(s) /\ Cardinality(s) \in Nat  BY FS_CardinalityType
  <2>2. Cardinality(s \ {x}) = m - 1  BY <1>3, <2>1, FS_RemoveElement
  <2>3. m - 1 \in Sizes  BY <1>4, <2>2
  <2>4. m \in Nat /\ m - 1 < m  BY <1>1
  <2> QED  BY <1>2, <2>3, <2>4
<1> QED  BY <1>4

\* The element that the recursion takes first.
LEMMA FirstIsOne == ASSUME NEW s, s # {} PROVE First(s) \in s
BY DEF First

\* A sum is the recursion's value.
LEMMA SumIs == ASSUME NEW f, NEW S PROVE Sum(f, S) = (CHOOSE g : Adds(f, S, g))[S]
BY DEF Sum, MapThenSumSet, MapThenFoldSet, Adds, Fold, First

\* Two functions that add up the same agree.
LEMMA AddsAgree ==
    ASSUME NEW f, NEW S, NEW T \in SUBSET S, IsFiniteSet(T), NEW g, NEW h,
           \A s \in SUBSET T : g[s] = Fold(f, g, s) /\ h[s] = Fold(f, h, s)
    PROVE  g[T] = h[T]
<1> DEFINE B == {s \in SUBSET T : g[s] # h[s]}
<1>1. SUFFICES B = {}  OBVIOUS
<1>2. SUFFICES ASSUME B # {} PROVE FALSE  OBVIOUS
<1>3. \A s \in B : s \in SUBSET T /\ IsFiniteSet(s)  BY FS_Subset
<1>4. PICK s \in B : \A x \in s : s \ {x} \notin B
  <2> HIDE DEF B
  <2> QED  BY <1>2, <1>3, LeastSet
<1>5. CASE s = {}  BY <1>5 DEF Fold
<1>6. CASE s # {}
  <2>1. First(s) \in s  BY <1>6, FirstIsOne
  <2>2. g[s \ {First(s)}] = h[s \ {First(s)}]  BY <1>4, <2>1
  <2>3. g[s] = f[First(s)] + g[s \ {First(s)}] /\ h[s] = f[First(s)] + h[s \ {First(s)}]
    BY <1>6 DEF Fold
  <2> QED  BY <2>2, <2>3
<1> QED  BY <1>5, <1>6

\* The recursion of MapThenFoldSet is well defined on a finite set.
LEMMA AddsExists ==
    ASSUME NEW f, NEW S, IsFiniteSet(S)
    PROVE  \E g : Adds(f, S, g)
<1> DEFINE Small(n) == {s \in SUBSET S : Cardinality(s) <= n}
           Is(g, n) == g = [s \in Small(n) |-> Fold(f, g, s)]
           B == {n \in Nat : ~(\E g : Is(g, n))}
<1>0. \A s \in SUBSET S : IsFiniteSet(s) /\ Cardinality(s) \in Nat
  BY FS_Subset, FS_CardinalityType
<1>1. B = {}
  <2> SUFFICES ASSUME B # {} PROVE FALSE  OBVIOUS
  <2>1. B \in SUBSET Nat  OBVIOUS
  <2>2. PICK m \in B : \A n \in B : ~(n < m)
    <3> HIDE DEF B
    <3> QED  BY <2>1, LeastNumber
  <2>3. CASE m = 0
    <3>1. \A s \in Small(0) : s = {}  BY <1>0, FS_EmptySet
    <3> DEFINE g == [s \in Small(0) |-> 0]
    <3>2. g = [s \in Small(0) |-> Fold(f, g, s)]  BY <3>1 DEF Fold
    <3> QED  BY <2>3, <3>2
  <2>4. CASE m # 0
    <3>1. m \in Nat /\ m - 1 \in Nat /\ m - 1 < m  BY <2>4
    <3>2. PICK g : Is(g, m - 1)  BY <2>2, <3>1
    <3> DEFINE h == [s \in Small(m) |-> Fold(f, g, s)]
    <3>3. ASSUME NEW s \in Small(m) PROVE Fold(f, g, s) = Fold(f, h, s)
      <4>1. CASE s = {}  BY <4>1 DEF Fold
      <4>2. CASE s # {}
        <5> DEFINE t == s \ {First(s)}
        <5>1. First(s) \in s  BY <4>2, FirstIsOne
        <5>2. Cardinality(t) = Cardinality(s) - 1  BY <1>0, <5>1, FS_RemoveElement
        <5>3. t \in Small(m - 1) /\ t \in Small(m)  BY <1>0, <5>2
        <5>4. g[t] = Fold(f, g, t) /\ h[t] = Fold(f, g, t)  BY <3>2, <5>3
        <5> QED  BY <4>2, <5>4 DEF Fold
      <4> QED  BY <4>1, <4>2
    <3>4. h = [s \in Small(m) |-> Fold(f, h, s)]
      <4> HIDE DEF Small
      <4>1. [s \in Small(m) |-> Fold(f, g, s)] = [s \in Small(m) |-> Fold(f, h, s)]
        <5> HIDE DEF h
        <5> QED  BY <3>3
      <4> QED  BY <4>1
    <3> QED  BY <3>4
  <2> QED  BY <2>3, <2>4
<1>2. PICK g : Is(g, Cardinality(S))  BY <1>0, <1>1
<1>3. Small(Cardinality(S)) = SUBSET S  BY <1>0, FS_Subset
<1> QED  BY <1>2, <1>3 DEF Adds

\* The equations of the recursion.
LEMMA SumEmpty == ASSUME NEW f PROVE Sum(f, {}) = 0
<1>1. PICK g : Adds(f, {}, g)  BY AddsExists, FS_EmptySet
<1>2. Adds(f, {}, CHOOSE h : Adds(f, {}, h))  BY <1>1
<1>3. \A h : Adds(f, {}, h) => h[{}] = 0  BY DEF Adds, Fold
<1> QED  BY <1>2, <1>3, SumIs

LEMMA SumFirst ==
    ASSUME NEW f, NEW S, IsFiniteSet(S), S # {}
    PROVE  Sum(f, S) = f[First(S)] + Sum(f, S \ {First(S)})
<1> DEFINE T == S \ {First(S)}
           g == CHOOSE k : Adds(f, S, k)
           h == CHOOSE k : Adds(f, T, k)
<1>1. IsFiniteSet(T)  BY FS_Subset
<1>2. Adds(f, S, g) /\ Adds(f, T, h)  BY <1>1, AddsExists
<1>3. Sum(f, S) = g[S] /\ Sum(f, T) = h[T]  BY SumIs
<1> HIDE DEF g, h
<1>4. \A s \in SUBSET T : g[s] = Fold(f, g, s) /\ h[s] = Fold(f, h, s)
  BY <1>2 DEF Adds
<1>5. g[T] = h[T]  BY <1>1, <1>4, AddsAgree
<1>6. g[S] = f[First(S)] + g[T]  BY <1>2 DEF Adds, Fold
<1> QED  BY <1>3, <1>5, <1>6

\* Sums of integers are integers.
LEMMA SumInt ==
    ASSUME NEW S, IsFiniteSet(S), NEW f, \A x \in S : f[x] \in Int
    PROVE  Sum(f, S) \in Int
<1> DEFINE B == {s \in SUBSET S : Sum(f, s) \notin Int}
<1> SUFFICES ASSUME B # {} PROVE FALSE  OBVIOUS
<1>1. \A s \in B : s \in SUBSET S /\ IsFiniteSet(s)  BY FS_Subset
<1>2. PICK s \in B : \A x \in s : s \ {x} \notin B
  <2> HIDE DEF B
  <2> QED  BY <1>1, LeastSet
<1>3. CASE s = {}  BY <1>3, SumEmpty
<1>4. CASE s # {}
  <2>1. First(s) \in s  BY <1>4, FirstIsOne
  <2>2. Sum(f, s \ {First(s)}) \in Int  BY <1>2, <2>1
  <2>3. Sum(f, s) = f[First(s)] + Sum(f, s \ {First(s)})  BY <1>1, <1>4, SumFirst
  <2>4. f[First(s)] \in Int  BY <2>1
  <2> QED  BY <2>2, <2>3, <2>4
<1> QED  BY <1>3, <1>4

\* Any element can be taken out first.
LEMMA SumRemove ==
    ASSUME NEW S, IsFiniteSet(S), NEW f, \A y \in S : f[y] \in Int, NEW x \in S
    PROVE  Sum(f, S) = f[x] + Sum(f, S \ {x})
<1> DEFINE B == {s \in SUBSET S : \E y \in s : Sum(f, s) # f[y] + Sum(f, s \ {y})}
<1> SUFFICES ASSUME B # {} PROVE FALSE  OBVIOUS
<1>1. \A s \in SUBSET S : IsFiniteSet(s) /\ Sum(f, s) \in Int
  <2> SUFFICES ASSUME NEW s \in SUBSET S PROVE IsFiniteSet(s) /\ Sum(f, s) \in Int
    OBVIOUS
  <2>1. IsFiniteSet(s)  BY FS_Subset
  <2>2. \A y \in s : f[y] \in Int  OBVIOUS
  <2> QED  BY <2>1, <2>2, SumInt
<1>2. PICK s \in B : \A y \in s : s \ {y} \notin B
  <2>1. \A s \in B : s \in SUBSET S /\ IsFiniteSet(s)  BY <1>1
  <2> HIDE DEF B
  <2> QED  BY <2>1, LeastSet
<1>3. PICK y \in s : Sum(f, s) # f[y] + Sum(f, s \ {y})  OBVIOUS
<1> DEFINE z == First(s)
<1>4. z \in s  BY <1>3, FirstIsOne
<1>5. Sum(f, s) = f[z] + Sum(f, s \ {z})  BY <1>1, <1>3, SumFirst
<1> HIDE DEF z
<1>6. y # z  BY <1>3, <1>5
<1>7. Sum(f, s \ {z}) = f[y] + Sum(f, (s \ {z}) \ {y})  BY <1>2, <1>4, <1>6
<1>8. Sum(f, s \ {y}) = f[z] + Sum(f, (s \ {y}) \ {z})  BY <1>2, <1>4, <1>6
<1>9. (s \ {z}) \ {y} = (s \ {y}) \ {z}  OBVIOUS
<1>10. Sum(f, (s \ {y}) \ {z}) \in Int /\ f[y] \in Int /\ f[z] \in Int  BY <1>1, <1>4
<1>11. Sum(f, (s \ {z}) \ {y}) = Sum(f, (s \ {y}) \ {z})  BY <1>9
<1> DEFINE rest == Sum(f, (s \ {y}) \ {z})
<1>12. Sum(f, s) = f[z] + (f[y] + rest)  BY <1>5, <1>7, <1>11
<1>13. f[y] + Sum(f, s \ {y}) = f[y] + (f[z] + rest)  BY <1>8
<1>14. rest \in Int  BY <1>10
<1> HIDE DEF rest
<1>15. f[z] + (f[y] + rest) = f[y] + (f[z] + rest)  BY <1>10, <1>14
<1> QED  BY <1>3, <1>12, <1>13, <1>15

\* An element more adds its number.
LEMMA SumAdd ==
    ASSUME NEW S, IsFiniteSet(S), NEW x, x \notin S, NEW f, f[x] \in Int,
           \A y \in S : f[y] \in Int
    PROVE  Sum(f, S \cup {x}) = f[x] + Sum(f, S)
<1>1. IsFiniteSet(S \cup {x}) /\ (S \cup {x}) \ {x} = S  BY FS_AddElement
<1>2. \A y \in S \cup {x} : f[y] \in Int  OBVIOUS
<1> QED  BY <1>1, <1>2, SumRemove

\* A sum depends on the numbers of its elements only.
LEMMA SumSame ==
    ASSUME NEW S, IsFiniteSet(S), NEW f, NEW g, \A x \in S : f[x] = g[x]
    PROVE  Sum(f, S) = Sum(g, S)
<1> DEFINE B == {s \in SUBSET S : Sum(f, s) # Sum(g, s)}
<1> SUFFICES ASSUME B # {} PROVE FALSE  OBVIOUS
<1>1. \A s \in B : s \in SUBSET S /\ IsFiniteSet(s)  BY FS_Subset
<1>2. PICK s \in B : \A x \in s : s \ {x} \notin B
  <2> HIDE DEF B
  <2> QED  BY <1>1, LeastSet
<1>3. CASE s = {}  BY <1>3, SumEmpty
<1>4. CASE s # {}
  <2>1. First(s) \in s  BY <1>4, FirstIsOne
  <2>2. Sum(f, s \ {First(s)}) = Sum(g, s \ {First(s)})  BY <1>2, <2>1
  <2>3. /\ Sum(f, s) = f[First(s)] + Sum(f, s \ {First(s)})
        /\ Sum(g, s) = g[First(s)] + Sum(g, s \ {First(s)})
    BY <1>1, <1>4, SumFirst
  <2> QED  BY <2>1, <2>2, <2>3
<1> QED  BY <1>3, <1>4

\* A sum is that of a part and that of the rest.
LEMMA SumSplit ==
    ASSUME NEW S, IsFiniteSet(S), NEW R \in SUBSET S, NEW f, \A x \in S : f[x] \in Int
    PROVE  Sum(f, S) = Sum(f, R) + Sum(f, S \ R)
<1> DEFINE B == {s \in SUBSET R : Sum(f, S) # Sum(f, s) + Sum(f, S \ s)}
<1>0. \A s \in SUBSET S : IsFiniteSet(s) /\ Sum(f, s) \in Int
  <2> SUFFICES ASSUME NEW s \in SUBSET S PROVE IsFiniteSet(s) /\ Sum(f, s) \in Int
    OBVIOUS
  <2>1. IsFiniteSet(s)  BY FS_Subset
  <2>2. \A y \in s : f[y] \in Int  OBVIOUS
  <2> QED  BY <2>1, <2>2, SumInt
<1> SUFFICES ASSUME B # {} PROVE FALSE  OBVIOUS
<1>1. \A s \in B : s \in SUBSET R /\ IsFiniteSet(s)  BY <1>0
<1>2. PICK s \in B : \A x \in s : s \ {x} \notin B
  <2> HIDE DEF B
  <2> QED  BY <1>1, LeastSet
<1>3. CASE s = {}  BY <1>0, <1>3, SumEmpty
<1>4. CASE s # {}
  <2>1. PICK x \in s : TRUE  BY <1>4
  <2>2. Sum(f, S) = Sum(f, s \ {x}) + Sum(f, S \ (s \ {x}))  BY <1>2, <2>1
  <2>3. Sum(f, s) = f[x] + Sum(f, s \ {x})
    <3>1. IsFiniteSet(s) /\ \A y \in s : f[y] \in Int  BY <1>1
    <3> QED  BY <3>1, SumRemove
  <2>4. Sum(f, S \ (s \ {x})) = f[x] + Sum(f, S \ s)
    <3>1. S \ (s \ {x}) = (S \ s) \cup {x} /\ x \in S /\ x \notin S \ s
      OBVIOUS
    <3>2. IsFiniteSet(S \ s)  BY <1>0
    <3> QED  BY <3>1, <3>2, SumAdd
  <2>5. /\ Sum(f, s \ {x}) \in Int /\ Sum(f, S \ s) \in Int /\ f[x] \in Int
        /\ Sum(f, s) \in Int
    BY <1>0
  <2> QED  BY <2>2, <2>3, <2>4, <2>5
<1> QED  BY <1>3, <1>4

\* Natural numbers add up to one that none of them exceeds.
LEMMA SumNat ==
    ASSUME NEW S, IsFiniteSet(S), NEW f, \A x \in S : f[x] \in Nat
    PROVE  /\ Sum(f, S) \in Nat
           /\ \A x \in S : f[x] <= Sum(f, S)
<1>1. ASSUME NEW T \in SUBSET S PROVE Sum(f, T) \in Nat
  <2> DEFINE B == {s \in SUBSET S : Sum(f, s) \notin Nat}
  <2> SUFFICES ASSUME B # {} PROVE FALSE  OBVIOUS
  <2>1. \A s \in B : s \in SUBSET S /\ IsFiniteSet(s)  BY FS_Subset
  <2>2. PICK s \in B : \A x \in s : s \ {x} \notin B
    <3> HIDE DEF B
    <3> QED  BY <2>1, LeastSet
  <2>3. CASE s = {}  BY <2>3, SumEmpty
  <2>4. CASE s # {}
    <3>1. First(s) \in s  BY <2>4, FirstIsOne
    <3>2. Sum(f, s \ {First(s)}) \in Nat  BY <2>2, <3>1
    <3>3. Sum(f, s) = f[First(s)] + Sum(f, s \ {First(s)})  BY <2>1, <2>4, SumFirst
    <3>4. f[First(s)] \in Nat  BY <3>1
    <3> QED  BY <3>2, <3>3, <3>4
  <2> QED  BY <2>3, <2>4
<1>2. ASSUME NEW x \in S PROVE f[x] <= Sum(f, S)
  <2>1. Sum(f, S \ {x}) \in Nat /\ f[x] \in Nat  BY <1>1
  <2>2. \A y \in S : f[y] \in Int  OBVIOUS
  <2>3. Sum(f, S) = f[x] + Sum(f, S \ {x})  BY <2>2, SumRemove
  <2> QED  BY <2>1, <2>3
<1> QED  BY <1>1, <1>2

\* Part of the numbers adds up to no more than all of them.
LEMMA SumMonotone ==
    ASSUME NEW S, IsFiniteSet(S), NEW R \in SUBSET S, NEW f, \A x \in S : f[x] \in Nat
    PROVE  Sum(f, R) \in Nat /\ Sum(f, S) \in Nat /\ Sum(f, R) <= Sum(f, S)
<1>1. IsFiniteSet(R) /\ IsFiniteSet(S \ R)  BY FS_Subset
<1>2. Sum(f, R) \in Nat /\ Sum(f, S \ R) \in Nat /\ Sum(f, S) \in Nat  BY <1>1, SumNat
<1>3. \A x \in S : f[x] \in Int  OBVIOUS
<1>4. Sum(f, S) = Sum(f, R) + Sum(f, S \ R)  BY <1>3, SumSplit
<1> QED  BY <1>2, <1>4

----------------------------------------------------------------------------

\* A supplement is never negative, and a positive one fits into the allowance.
LEMMA SupplementFits ==
    ASSUME TypeOK, NEW r \in Requests, NEW actual \in Nat, NEW allowance \in Nat
    PROVE  /\ Supplement(r, actual, allowance) \in Nat
           /\ \/ Supplement(r, actual, allowance) = 0
              \/ used[periodOf[r]] + reserved[periodOf[r]]
                   + Supplement(r, actual, allowance) <= allowance
  <1> DEFINE p == periodOf[r]
             additional == Larger(0, actual - requested[r])
  <1>1. p \in Periods /\ used[p] \in Nat /\ reserved[p] \in Nat
    BY DEF TypeOK
  <1>2. additional \in Nat
    BY DEF TypeOK, Larger
  <1>3. CASE additional <= Remaining(p, allowance)
    <2>1. Supplement(r, actual, allowance) = additional
      BY <1>3 DEF Supplement
    <2>2. additional = 0 \/ additional <= allowance - used[p] - reserved[p]
      BY <1>1, <1>2, <1>3 DEF Remaining, Larger
    <2> QED
      BY <1>1, <1>2, <2>1, <2>2
  <1>4. CASE ~(additional <= Remaining(p, allowance))
    BY <1>4 DEF Supplement
  <1> QED
    BY <1>3, <1>4

\* What is billed is a natural number within the hold.
LEMMA BilledWithinHold ==
    ASSUME NEW actual \in Nat, NEW hold \in Nat
    PROVE  Billed(actual, hold) \in Nat /\ Billed(actual, hold) <= hold
  BY DEF Billed, Smaller

\* The effect of a settlement on the two counters of its period.
LEMMA SettlementEffect ==
    ASSUME TypeOK, NEW r \in Requests, NEW a \in Quantities, NEW l \in Limits,
           SettleUsage(r, a, l)
    PROVE  /\ used' \in [Periods -> Nat]
           /\ reserved' \in [Periods -> Nat]
           /\ requested' \in [Requests -> Nat]
           /\ settled' \in [Requests -> Nat]
           /\ \A p \in Periods :
                 \/ used'[p] + reserved'[p] <= used[p] + reserved[p]
                 \/ used'[p] + reserved'[p] <= l
           /\ settled'[r] <= requested'[r]
  <1> DEFINE extra == Supplement(r, a, l)
             hold == requested[r] + extra
             billed == Billed(a, hold)
             p == periodOf[r]
  <1>1. a \in Nat /\ l \in Nat
    BY QuantityAssumption, LimitsAssumption DEF Quantities
  <1>2. p \in Periods /\ used[p] \in Nat /\ reserved[p] \in Nat /\ requested[r] \in Nat
    BY DEF TypeOK
  <1>3. extra \in Nat /\ (extra = 0 \/ used[p] + reserved[p] + extra <= l)
    BY <1>1, SupplementFits
  <1>4. hold \in Nat
    BY <1>2, <1>3
  <1> HIDE DEF extra
  <1>5. billed \in Nat /\ billed <= hold
    BY <1>1, <1>4, BilledWithinHold
  <1> HIDE DEF billed
  <1>6. /\ reserved[p] >= requested[r]
        /\ used' = [used EXCEPT ![p] = @ + billed]
        /\ reserved' = [reserved EXCEPT ![p] = reserved[p] + extra - hold]
        /\ requested' = [requested EXCEPT ![r] = hold]
        /\ settled' = [settled EXCEPT ![r] = billed]
    BY DEF SettleUsage, Claimable, ReservedAfter, extra, billed
  <1>7. reserved[p] + extra - hold \in Nat
    BY <1>2, <1>3, <1>6
  <1>8. used'[p] + reserved'[p] <= used[p] + reserved[p] + extra
    BY <1>2, <1>3, <1>5, <1>6 DEF TypeOK
  <1>9. used' \in [Periods -> Nat] /\ reserved' \in [Periods -> Nat]
    BY <1>2, <1>5, <1>6, <1>7 DEF TypeOK
  <1>10. requested' \in [Requests -> Nat] /\ settled' \in [Requests -> Nat]
    BY <1>4, <1>5, <1>6 DEF TypeOK
  <1>11. settled'[r] <= requested'[r]
    BY <1>5, <1>6 DEF TypeOK
  <1>12. ASSUME NEW p2 \in Periods
         PROVE  \/ used'[p2] + reserved'[p2] <= used[p2] + reserved[p2]
                \/ used'[p2] + reserved'[p2] <= l
    <2>1. CASE p2 = p
      BY <2>1, <1>2, <1>3, <1>8, <1>9, <1>1
    <2>2. CASE p2 # p
      BY <2>2, <1>6 DEF TypeOK
    <2> QED BY <2>1, <2>2
  <1> QED
    BY <1>9, <1>10, <1>11, <1>12

----------------------------------------------------------------------------
LEMMA InitTypeOK == Init => TypeOK
  BY LimitsAssumption DEF Init, TypeOK

LEMMA StepTypeOK == TypeOK /\ [Next]_vars => TypeOK'
  <1> SUFFICES ASSUME TypeOK, [Next]_vars
               PROVE  TypeOK'
    OBVIOUS
  <1> USE DEF plan, counters, rows, Closed
  <1>1. ASSUME NEW r \in Requests, NEW q \in Quantities, ReserveUsage(r, q)
        PROVE  TypeOK'
    <2>1. q \in Nat
      BY QuantityAssumption DEF Quantities
    <2> QED
      BY <1>1, <2>1 DEF ReserveUsage, TypeOK
  <1>2. ASSUME NEW r \in Requests, NEW a \in Quantities, NEW l \in Limits,
               SettleUsage(r, a, l)
        PROVE  TypeOK'
    <2>1. /\ used' \in [Periods -> Nat]
          /\ reserved' \in [Periods -> Nat]
          /\ requested' \in [Requests -> Nat]
          /\ settled' \in [Requests -> Nat]
      BY <1>2, SettlementEffect
    <2>2. /\ UNCHANGED <<plan, periodOf, planLimit>>
          /\ state' = [state EXCEPT ![r] = "settled"]
          /\ stale' = stale \ {r}
      BY <1>2 DEF SettleUsage
    <2> QED
      BY <2>1, <2>2 DEF TypeOK
  <1>3. ASSUME NEW r \in Requests, NEW t \in Quantities, SupplementReservation(r, t)
        PROVE  TypeOK'
    <2>1. t \in Nat
      BY QuantityAssumption DEF Quantities
    <2> QED
      BY <1>3, <2>1 DEF SupplementReservation, TypeOK
  <1>4. ASSUME NEW r \in Requests, ReleaseUsage(r)
        PROVE  TypeOK'
    BY <1>4 DEF ReleaseUsage, Claimable, TypeOK
  <1>5. ASSUME NEW R \in SUBSET Requests, ExpireStaleReservations(R)
        PROVE  TypeOK'
    <2>1. reserved' \in [Periods -> Nat]
      BY <1>5 DEF ExpireStaleReservations, TypeOK
    <2>2. /\ UNCHANGED <<plan, used, periodOf, requested, settled, planLimit>>
          /\ state' = [r \in Requests |-> IF r \in R THEN "expired" ELSE state[r]]
          /\ stale' = stale \ R
      BY <1>5 DEF ExpireStaleReservations
    <2> QED
      BY <2>1, <2>2 DEF TypeOK
  <1>6. ASSUME NEW R \in SUBSET Requests, TouchActivity(R)
        PROVE  TypeOK'
    BY <1>6 DEF TouchActivity, TypeOK
  <1>7. ASSUME NEW r \in Requests, BecomeStale(r)
        PROVE  TypeOK'
    BY <1>7 DEF BecomeStale, TypeOK
  <1>8. ASSUME NEW l \in Limits, NEW p \in Periods, ChangeSubscription(l, p)
        PROVE  TypeOK'
    BY <1>8, LimitsAssumption DEF ChangeSubscription, TypeOK, Larger
  <1>9. CASE UNCHANGED vars
    BY <1>9 DEF vars, TypeOK
  <1> QED
    <2>1. limit \in Limits /\ \A r \in Requests : planLimit[r] \in Limits
      BY DEF TypeOK
    <2> QED
      BY <2>1, <1>1, <1>2, <1>3, <1>4, <1>5, <1>6, <1>7, <1>8, <1>9 DEF Next

\* The variables keep their types; in particular no counter ever goes negative.
THEOREM Typing == Spec => []TypeOK
  BY InitTypeOK, StepTypeOK, PTL DEF Spec


----------------------------------------------------------------------------
LEMMA InitGrantedInv == Init => GrantedInv
<1> SUFFICES ASSUME Init PROVE GrantedInv  OBVIOUS
<1>1. limit \in Nat /\ period \in Periods  BY LimitsAssumption DEF Init
<1>2. \A r \in Requests : state[r] # "reserved"  BY DEF Init
<1>3. granted[period] = limit /\ \A p \in Periods : granted[p] \in Nat
  BY <1>1 DEF Init
<1>4. \A p \in Periods : used[p] = 0 /\ reserved[p] = 0  BY DEF Init
<1> QED  BY <1>1, <1>2, <1>3, <1>4 DEF GrantedInv, NeverOverGranted, Open

\* While the plan stays, the invariant is kept by a step that opens no
\* reservation and lets no claim of a period grow past what it was granted.
LEMMA PlanStays ==
    ASSUME TypeOK, GrantedInv, UNCHANGED <<plan, periodOf, planLimit>>, Open' \subseteq Open,
           \A p \in Periods : \/ used'[p] + reserved'[p] <= used[p] + reserved[p]
                              \/ used'[p] + reserved'[p] <= granted[p],
           TypeOK'
    PROVE  GrantedInv'
<1>1. \A p \in Periods : /\ used[p] + reserved[p] \in Nat /\ used'[p] + reserved'[p] \in Nat
                         /\ granted[p] \in Nat
  BY DEF TypeOK
<1>2. NeverOverGranted'  BY <1>1 DEF GrantedInv, NeverOverGranted, plan
<1>3. (limit <= granted[period])'  BY DEF GrantedInv, plan
<1>4. (\A r \in Open : limit <= granted[periodOf[r]] /\ planLimit[r] <= granted[periodOf[r]])'
  BY DEF GrantedInv, plan
<1> QED  BY <1>2, <1>3, <1>4 DEF GrantedInv

\* The allowance that comes into force raises what the periods it may be used in
\* were granted, and no other.
LEMMA ChangeGrants ==
    ASSUME TypeOK, GrantedInv, NEW l \in Limits, NEW p \in Periods, ChangeSubscription(l, p)
    PROVE  GrantedInv'
<1>1. /\ limit' = l /\ period' = p /\ UNCHANGED <<counters, rows>>
      /\ \A q \in Periods :
            granted'[q] = IF Concerns(p, q) THEN Larger(granted[q], l) ELSE granted[q]
  BY DEF ChangeSubscription
<1>2. /\ l \in Nat
      /\ \A q \in Periods : granted[q] \in Nat /\ used[q] + reserved[q] \in Nat
      /\ \A r \in Requests : planLimit[r] \in Nat /\ periodOf[r] \in Periods
  <2>1. l \in Nat /\ \A r \in Requests : planLimit[r] \in Limits /\ periodOf[r] \in Periods
    BY LimitsAssumption DEF TypeOK
  <2>2. \A q \in Periods : granted[q] \in Nat /\ used[q] + reserved[q] \in Nat
    BY DEF TypeOK
  <2> QED  BY <2>1, <2>2, LimitsAssumption
<1>3. \A q \in Periods : /\ granted'[q] \in Nat /\ granted'[q] >= granted[q]
                         /\ Concerns(p, q) => granted'[q] >= l
  <2> TAKE q \in Periods
  <2>1. granted[q] \in Nat /\ l \in Nat  BY <1>2
  <2>2. CASE Concerns(p, q)
    <3>1. granted'[q] = Larger(granted[q], l)  BY <1>1, <2>2
    <3> QED  BY <2>1, <3>1 DEF Larger
  <2>3. CASE ~Concerns(p, q)
    <3>1. granted'[q] = granted[q]  BY <1>1, <2>3
    <3> QED  BY <2>1, <2>3, <3>1
  <2> QED  BY <2>2, <2>3
<1>4. NeverOverGranted'
  BY <1>1, <1>2, <1>3 DEF GrantedInv, NeverOverGranted, counters
<1>5. (limit <= granted[period])'
  BY <1>1, <1>2, <1>3 DEF Concerns
<1>6. ASSUME NEW r \in Open'
      PROVE  limit' <= granted'[periodOf'[r]] /\ planLimit'[r] <= granted'[periodOf'[r]]
  <2>1. /\ r \in Open /\ r \in Requests
        /\ periodOf'[r] = periodOf[r] /\ planLimit'[r] = planLimit[r]
    BY <1>1, <1>6 DEF Open, rows
  <2>2. Concerns(p, periodOf[r]) /\ planLimit[r] <= granted[periodOf[r]]
    BY <2>1 DEF Concerns, GrantedInv
  <2> QED  BY <1>1, <1>2, <1>3, <2>1, <2>2
<1> QED  BY <1>4, <1>5, <1>6 DEF GrantedInv

LEMMA StepGrantedInv == TypeOK /\ GrantedInv /\ [Next]_vars => GrantedInv'
  <1> SUFFICES ASSUME TypeOK, GrantedInv, [Next]_vars
               PROVE  GrantedInv'
    OBVIOUS
  <1>t. TypeOK'
    BY StepTypeOK
  <1>1. ASSUME NEW r \in Requests, NEW q \in Quantities, ReserveUsage(r, q)
        PROVE  GrantedInv'
    <2>1. q \in Nat /\ limit \in Nat /\ period \in Periods
      BY QuantityAssumption, LimitsAssumption DEF Quantities, TypeOK
    <2>2. /\ q <= limit - used[period] - reserved[period]
          /\ reserved' = [reserved EXCEPT ![period] = @ + q]
          /\ state' = [state EXCEPT ![r] = "reserved"]
          /\ periodOf' = [periodOf EXCEPT ![r] = period]
          /\ planLimit' = [planLimit EXCEPT ![r] = limit]
          /\ UNCHANGED <<limit, period, granted, used>>
      BY <1>1 DEF ReserveUsage, WithinAllowance, plan
    <2>3. \A p \in Periods : used[p] \in Nat /\ reserved[p] \in Nat /\ granted[p] \in Nat
      BY DEF TypeOK
    <2>4. /\ reserved'[period] = reserved[period] + q
          /\ \A p \in Periods : p # period => reserved'[p] = reserved[p]
      BY <2>2 DEF TypeOK
    <2>5. NeverOverGranted'
      BY <2>1, <2>2, <2>3, <2>4 DEF GrantedInv, NeverOverGranted
    <2>6. ASSUME NEW x \in Open'
          PROVE  limit' <= granted'[periodOf'[x]] /\ planLimit'[x] <= granted'[periodOf'[x]]
      <3>1. CASE x = r
        BY <2>2, <3>1 DEF GrantedInv, TypeOK
      <3>2. CASE x # r
        <4>1. /\ x \in Open
              /\ periodOf'[x] = periodOf[x] /\ planLimit'[x] = planLimit[x]
          BY <2>2, <2>6, <3>2 DEF Open, TypeOK
        <4> QED  BY <2>2, <4>1 DEF GrantedInv
      <3> QED  BY <3>1, <3>2
    <2>7. limit' <= granted'[period']  BY <2>2 DEF GrantedInv
    <2> QED  BY <2>5, <2>6, <2>7 DEF GrantedInv
  <1>2. ASSUME NEW r \in Requests, NEW a \in Quantities, NEW l \in Limits,
               l <= granted[periodOf[r]], SettleUsage(r, a, l)
        PROVE  GrantedInv'
    <2>1. \A p \in Periods : \/ used'[p] + reserved'[p] <= used[p] + reserved[p]
                             \/ used'[p] + reserved'[p] <= l
      BY <1>2, SettlementEffect
    <2>2. /\ l \in Nat
          /\ \A p \in Periods : granted[p] \in Nat /\ used'[p] + reserved'[p] \in Nat
      BY LimitsAssumption, <1>t DEF TypeOK
    <2>3. /\ UNCHANGED <<plan, periodOf, planLimit>>
          /\ \E n : used' = [used EXCEPT ![periodOf[r]] = n]
          /\ \E n : reserved' = [reserved EXCEPT ![periodOf[r]] = n]
          /\ state' = [state EXCEPT ![r] = "settled"]
      BY <1>2 DEF SettleUsage
    <2>4. \A p \in Periods : p # periodOf[r] => used'[p] = used[p] /\ reserved'[p] = reserved[p]
      BY <2>3 DEF TypeOK
    <2>5. \A p \in Periods : \/ used'[p] + reserved'[p] <= used[p] + reserved[p]
                             \/ used'[p] + reserved'[p] <= granted[p]
      <3> TAKE p \in Periods
      <3>1. CASE p = periodOf[r]  BY <1>2, <2>1, <2>2, <3>1
      <3>2. CASE p # periodOf[r]
        <4>1. used[p] + reserved[p] \in Nat  BY DEF TypeOK
        <4> QED  BY <2>4, <3>2, <4>1
      <3> QED  BY <3>1, <3>2
    <2>6. Open' \subseteq Open  BY <2>3 DEF Open, TypeOK
    <2> QED  BY <1>t, <2>3, <2>5, <2>6, PlanStays
  <1>3. ASSUME NEW r \in Requests, NEW t \in Quantities, SupplementReservation(r, t)
        PROVE  GrantedInv'
    <2>a. t \in Nat
      BY QuantityAssumption DEF Quantities
    <2>b. planLimit[r] \in Limits
      BY DEF TypeOK
    <2>1. /\ t \in Nat /\ planLimit[r] \in Nat
          /\ requested[r] \in Nat /\ periodOf[r] \in Periods
          /\ \A p \in Periods : used[p] \in Nat /\ reserved[p] \in Nat /\ granted[p] \in Nat
      BY <2>a, <2>b, LimitsAssumption DEF TypeOK
    <2>2. /\ t - requested[r] > 0
          /\ t - requested[r] <= Remaining(periodOf[r], planLimit[r])
          /\ reserved' = [reserved EXCEPT ![periodOf[r]] = @ + (t - requested[r])]
          /\ UNCHANGED <<plan, used, state, periodOf, planLimit>>
          /\ r \in Open
      BY <1>3 DEF SupplementReservation, Claimable, Open
    <2>3. used[periodOf[r]] + reserved[periodOf[r]] + (t - requested[r]) <= planLimit[r]
      BY <2>1, <2>2 DEF Remaining, Larger
    <2>4. planLimit[r] <= granted[periodOf[r]]
      BY <2>2 DEF GrantedInv
    <2>5. /\ reserved'[periodOf[r]] = reserved[periodOf[r]] + (t - requested[r])
          /\ \A p \in Periods : p # periodOf[r] => reserved'[p] = reserved[p]
      BY <2>1, <2>2 DEF TypeOK
    <2>6. used'[periodOf[r]] + reserved'[periodOf[r]] <= granted[periodOf[r]]
      BY <2>1, <2>2, <2>3, <2>4, <2>5
    <2>7. ASSUME NEW p \in Periods, p # periodOf[r]
          PROVE  used'[p] + reserved'[p] <= used[p] + reserved[p]
      BY <2>1, <2>2, <2>5, <2>7
    <2>8. Open' \subseteq Open  BY <2>2 DEF Open
    <2> QED
      BY <1>t, <2>2, <2>6, <2>7, <2>8, PlanStays
  <1>4. ASSUME NEW r \in Requests, ReleaseUsage(r)
        PROVE  GrantedInv'
    <2>1. requested[r] \in Nat /\ periodOf[r] \in Periods
      BY DEF TypeOK
    <2>2. /\ UNCHANGED <<plan, used, periodOf, planLimit>>
          /\ reserved' = [reserved EXCEPT ![periodOf[r]] = @ - requested[r]]
          /\ state' = [state EXCEPT ![r] = "released"]
      BY <1>4 DEF ReleaseUsage
    <2>3. \A p \in Periods : used'[p] + reserved'[p] <= used[p] + reserved[p]
      BY <2>1, <2>2 DEF TypeOK
    <2>4. Open' \subseteq Open  BY <2>2 DEF Open, TypeOK
    <2> QED
      BY <1>t, <2>2, <2>3, <2>4, PlanStays
  <1>5. ASSUME NEW R \in SUBSET Requests, ExpireStaleReservations(R)
        PROVE  GrantedInv'
    <2>1. /\ \A p \in Periods : reserved'[p] \in 0 .. reserved[p]
          /\ state' = [r \in Requests |-> IF r \in R THEN "expired" ELSE state[r]]
          /\ UNCHANGED <<plan, used, periodOf, planLimit>>
      BY <1>5 DEF ExpireStaleReservations
    <2>2. \A p \in Periods : used'[p] + reserved'[p] <= used[p] + reserved[p]
      BY <2>1 DEF TypeOK
    <2>3. Open' \subseteq Open  BY <2>1 DEF Open
    <2> QED
      BY <1>t, <2>1, <2>2, <2>3, PlanStays
  <1>6. ASSUME NEW l \in Limits, NEW p \in Periods, ChangeSubscription(l, p)
        PROVE  GrantedInv'
    BY <1>6, ChangeGrants
  <1>7. ASSUME UNCHANGED <<plan, counters, rows>>
        PROVE  GrantedInv'
    <2>1. UNCHANGED <<used, reserved, state, periodOf, planLimit>>  BY <1>7 DEF counters, rows
    <2>2. \A p \in Periods : used'[p] + reserved'[p] <= used[p] + reserved[p]
      BY <2>1 DEF TypeOK
    <2> QED
      BY <1>7, <1>t, <2>1, <2>2, PlanStays DEF Open
  <1> QED
    <2>1. /\ limit \in Limits
          /\ \A r \in Requests : planLimit[r] \in Limits
          /\ \A r \in Open : limit <= granted[periodOf[r]] /\ planLimit[r] <= granted[periodOf[r]]
      BY DEF TypeOK, GrantedInv
    <2>2. ASSUME NEW R \in SUBSET Requests, TouchActivity(R)
          PROVE  GrantedInv'
      BY <2>2, <1>7 DEF TouchActivity
    <2>3. ASSUME NEW r \in Requests, BecomeStale(r)
          PROVE  GrantedInv'
      BY <2>3, <1>7 DEF BecomeStale
    <2>4. ASSUME NEW r \in Requests, NEW a \in Quantities,
                 SettleUsage(r, a, limit) \/ SettleUsage(r, a, planLimit[r])
          PROVE  GrantedInv'
      <3>1. r \in Open  BY <2>4 DEF SettleUsage, Claimable, Open
      <3> QED  BY <1>2, <2>1, <2>4, <3>1
    <2> QED
      BY <2>2, <2>3, <2>4, <1>1, <1>3, <1>4, <1>5, <1>6, <1>7 DEF Next, vars

\* Charges and holds of a period together never exceed the largest allowance in
\* force during that period or while one of its reservations was open, whatever
\* plan each operation was checked against.
THEOREM NoOveruse == Spec => []NeverOverGranted
  <1>1. TypeOK /\ GrantedInv /\ [Next]_vars => TypeOK' /\ GrantedInv'
    BY StepTypeOK, StepGrantedInv
  <1>2. GrantedInv => NeverOverGranted
    BY DEF GrantedInv
  <1> QED
    BY <1>1, <1>2, InitTypeOK, InitGrantedInv, PTL DEF Spec

----------------------------------------------------------------------------
\* No request is ever charged more than it holds, and only a settled one is.
THEOREM ChargesStayWithinHolds == Spec => []ChargeWithinHold
  <1>1. Init => ChargeWithinHold
    BY DEF Init, ChargeWithinHold
  <1>2. TypeOK /\ ChargeWithinHold /\ [Next]_vars => ChargeWithinHold'
    <2> SUFFICES ASSUME TypeOK, ChargeWithinHold, [Next]_vars
                 PROVE  ChargeWithinHold'
      OBVIOUS
    <2> USE DEF plan, counters, rows
    <2>1. ASSUME NEW r \in Requests, NEW q \in Quantities, ReserveUsage(r, q)
          PROVE  ChargeWithinHold'
      <3>1. q \in Nat
        BY QuantityAssumption DEF Quantities
      <3>2. settled[r] = 0
        BY <2>1 DEF ReserveUsage, NewRequest, ChargeWithinHold, TypeOK
      <3> QED
        BY <2>1, <3>1, <3>2 DEF ReserveUsage, ChargeWithinHold, TypeOK
    <2>2. ASSUME NEW r \in Requests, NEW a \in Quantities, NEW l \in Limits,
                 SettleUsage(r, a, l)
          PROVE  ChargeWithinHold'
      <3>1. settled'[r] <= requested'[r] /\ state'[r] = "settled"
        BY <2>2, SettlementEffect DEF SettleUsage, TypeOK
      <3>2. ASSUME NEW r2 \in Requests, r2 # r
            PROVE  /\ settled'[r2] = settled[r2]
                   /\ requested'[r2] = requested[r2]
                   /\ state'[r2] = state[r2]
        BY <2>2, <3>2 DEF SettleUsage, TypeOK
      <3> QED
        BY <3>1, <3>2 DEF ChargeWithinHold
    <2>3. ASSUME NEW r \in Requests, NEW t \in Quantities, SupplementReservation(r, t)
          PROVE  ChargeWithinHold'
      <3>1. t \in Nat
        BY QuantityAssumption DEF Quantities
      <3> QED
        BY <2>3, <3>1 DEF SupplementReservation, ChargeWithinHold, TypeOK
    <2>4. ASSUME NEW r \in Requests, ReleaseUsage(r)
          PROVE  ChargeWithinHold'
      BY <2>4 DEF ReleaseUsage, Claimable, ChargeWithinHold, TypeOK
    <2>5. ASSUME NEW R \in SUBSET Requests, ExpireStaleReservations(R)
          PROVE  ChargeWithinHold'
      <3>1. /\ \A r \in R : state[r] = "reserved"
            /\ UNCHANGED <<settled, requested>>
            /\ state' = [r \in Requests |-> IF r \in R THEN "expired" ELSE state[r]]
        BY <2>5 DEF ExpireStaleReservations, Open
      <3> QED
        BY <3>1 DEF ChargeWithinHold
    <2>6. CASE UNCHANGED rows
      BY <2>6 DEF ChargeWithinHold
    <2> QED
      <3>1. ASSUME NEW R \in SUBSET Requests, TouchActivity(R)
            PROVE  ChargeWithinHold'
        BY <3>1, <2>6 DEF TouchActivity
      <3>2. ASSUME NEW r \in Requests, BecomeStale(r)
            PROVE  ChargeWithinHold'
        BY <3>2, <2>6 DEF BecomeStale
      <3>3. ASSUME NEW l \in Limits, NEW p \in Periods, ChangeSubscription(l, p)
            PROVE  ChargeWithinHold'
        BY <3>3, <2>6 DEF ChangeSubscription
      <3>4. limit \in Limits /\ \A r \in Requests : planLimit[r] \in Limits
        BY DEF TypeOK
      <3> QED
        BY <2>1, <2>2, <2>3, <2>4, <2>5, <2>6, <3>1, <3>2, <3>3, <3>4 DEF Next, vars
  <1> QED
    BY <1>1, <1>2, Typing, PTL DEF Spec

\* Settled, released and expired reservations are final.
THEOREM ClosedReservationsAreFinal == Spec => ClosedIsFinal
  <1> DEFINE Final == \A r \in Requests :
                         state[r] \in Closed => /\ state'[r] = state[r]
                                                /\ requested'[r] = requested[r]
                                                /\ settled'[r] = settled[r]
  <1>1. TypeOK /\ [Next]_vars => [Final]_vars
    <2> SUFFICES ASSUME TypeOK, Next
                 PROVE  Final
      OBVIOUS
    <2> USE DEF plan, counters, rows, Closed
    <2>1. ASSUME NEW r \in Requests, NEW q \in Quantities, ReserveUsage(r, q)
          PROVE  Final
      BY <2>1 DEF ReserveUsage, NewRequest, TypeOK
    <2>2. ASSUME NEW r \in Requests, NEW a \in Quantities, NEW l,
                 SettleUsage(r, a, l)
          PROVE  Final
      <3>1. state[r] = "reserved"
        BY <2>2 DEF SettleUsage, Claimable
      <3>2. ASSUME NEW r2 \in Requests, r2 # r
            PROVE  /\ settled'[r2] = settled[r2]
                   /\ requested'[r2] = requested[r2]
                   /\ state'[r2] = state[r2]
        BY <2>2, <3>2 DEF SettleUsage, TypeOK
      <3> QED
        BY <3>1, <3>2
    <2>3. ASSUME NEW r \in Requests, NEW t \in Quantities, SupplementReservation(r, t)
          PROVE  Final
      BY <2>3 DEF SupplementReservation, Claimable, TypeOK
    <2>4. ASSUME NEW r \in Requests, ReleaseUsage(r)
          PROVE  Final
      BY <2>4 DEF ReleaseUsage, Claimable, TypeOK
    <2>5. ASSUME NEW R \in SUBSET Requests, ExpireStaleReservations(R)
          PROVE  Final
      <3>1. /\ \A r \in R : state[r] = "reserved"
            /\ UNCHANGED <<settled, requested>>
            /\ state' = [r \in Requests |-> IF r \in R THEN "expired" ELSE state[r]]
        BY <2>5 DEF ExpireStaleReservations, Open
      <3> QED
        BY <3>1
    <2>6. ASSUME NEW R \in SUBSET Requests, TouchActivity(R)
          PROVE  Final
      BY <2>6 DEF TouchActivity
    <2>7. ASSUME NEW r \in Requests, BecomeStale(r)
          PROVE  Final
      BY <2>7 DEF BecomeStale
    <2>8. ASSUME NEW l \in Limits, NEW p \in Periods, ChangeSubscription(l, p)
          PROVE  Final
      BY <2>8 DEF ChangeSubscription
    <2> QED
      BY <2>1, <2>2, <2>3, <2>4, <2>5, <2>6, <2>7, <2>8 DEF Next
  <1> QED
    BY <1>1, Typing, PTL DEF Spec, ClosedIsFinal

----------------------------------------------------------------------------
(* The counters and the rows.  One operation changes one row, and so each of  *)
(* the sums by what enters and leaves it; the expiry job takes a part away.   *)

\* The open reservations, and all those, of a period.
HeldIn(p) == {r \in Requests : state[r] = "reserved" /\ periodOf[r] = p}
RowsOf(p) == {r \in Requests : periodOf[r] = p}

\* Numbers that are zero can be left out.
LEMMA SumWithout ==
    ASSUME NEW S, IsFiniteSet(S), NEW f, \A y \in S : f[y] \in Int, NEW x, f[x] = 0
    PROVE  Sum(f, S) = Sum(f, S \ {x})
<1>1. CASE x \in S
  <2>1. IsFiniteSet(S \ {x}) /\ \A y \in S \ {x} : f[y] \in Int  BY FS_Subset
  <2>2. Sum(f, S \ {x}) \in Int  BY <2>1, SumInt
  <2> QED  BY <1>1, <2>2, SumRemove
<1>2. CASE x \notin S
  <2>1. S \ {x} = S  BY <1>2
  <2> QED  BY <2>1
<1> QED  BY <1>1, <1>2

\* A number changes.
LEMMA SumChange ==
    ASSUME NEW S, IsFiniteSet(S), NEW x \in S, NEW f, NEW g,
           \A y \in S : f[y] \in Int /\ g[y] \in Int,
           \A y \in S \ {x} : f[y] = g[y]
    PROVE  Sum(g, S) = Sum(f, S) - f[x] + g[x]
<1>1. IsFiniteSet(S \ {x})  BY FS_Subset
<1>2. Sum(f, S \ {x}) = Sum(g, S \ {x})  BY <1>1, SumSame
<1>3. Sum(f, S) = f[x] + Sum(f, S \ {x})
  <2>1. \A y \in S : f[y] \in Int  OBVIOUS
  <2> QED  BY <2>1, SumRemove
<1>4. Sum(g, S) = g[x] + Sum(g, S \ {x})
  <2>1. \A y \in S : g[y] \in Int  OBVIOUS
  <2> QED  BY <2>1, SumRemove
<1>5. Sum(f, S \ {x}) \in Int
  <2>1. \A y \in S \ {x} : f[y] \in Int  OBVIOUS
  <2> QED  BY <1>1, <2>1, SumInt
<1> QED  BY <1>2, <1>3, <1>4, <1>5

\* The rows of a period are finitely many, and their credits are numbers.
LEMMA RowsAreFinite ==
    ASSUME TypeOK, NEW p \in Periods
    PROVE  /\ IsFiniteSet(HeldIn(p)) /\ IsFiniteSet(RowsOf(p))
           /\ HeldIn(p) \subseteq RowsOf(p)
           /\ \A r \in RowsOf(p) : requested[r] \in Nat /\ settled[r] \in Nat
           /\ \A r \in HeldIn(p) : requested[r] \in Nat /\ settled[r] \in Nat
           /\ \A r \in RowsOf(p) : requested[r] \in Int /\ settled[r] \in Int
           /\ \A r \in HeldIn(p) : requested[r] \in Int /\ settled[r] \in Int
<1>1. HeldIn(p) \subseteq Requests /\ RowsOf(p) \subseteq Requests
  BY DEF HeldIn, RowsOf
<1>2. IsFiniteSet(HeldIn(p)) /\ IsFiniteSet(RowsOf(p))
  BY <1>1, RequestsAssumption, FS_Subset
<1>3. HeldIn(p) \subseteq RowsOf(p)  BY DEF HeldIn, RowsOf
<1>4. \A r \in Requests : requested[r] \in Nat /\ settled[r] \in Nat  BY DEF TypeOK
<1>5. \A n \in Nat : n \in Int  OBVIOUS
<1> QED  BY <1>1, <1>2, <1>3, <1>4, <1>5

\* What CountersMatchReservations says of the sums.
RowsMatch ==
    \A p \in Periods : /\ reserved[p] = Sum(requested, HeldIn(p))
                       /\ used[p] = Sum(settled, RowsOf(p))

LEMMA Matching == CountersMatchReservations <=> RowsMatch
<1>1. \A p \in Periods : {r \in Open : periodOf[r] = p} = HeldIn(p)
  BY DEF Open, HeldIn
<1>2. \A p \in Periods : HeldBy(Open, p) = Sum(requested, HeldIn(p))
  BY <1>1 DEF HeldBy, Sum
<1>3. \A p \in Periods : MapThenSumSet(LAMBDA r : settled[r],
                                       {r \in Requests : periodOf[r] = p})
                         = Sum(settled, RowsOf(p))
  BY DEF Sum, RowsOf
<1> QED  BY <1>2, <1>3 DEF CountersMatchReservations, RowsMatch


\* A new row has been charged nothing, so it is moved without a change.
LEMMA ReserveMatches ==
    ASSUME TypeOK, TypeOK', ChargeWithinHold, RowsMatch,
           NEW r \in Requests, NEW q \in Quantities, ReserveUsage(r, q)
    PROVE  RowsMatch'
<1>1. /\ state[r] = "none" /\ settled[r] = 0 /\ q \in Int /\ period \in Periods
      /\ reserved' = [reserved EXCEPT ![period] = @ + q]
      /\ state' = [state EXCEPT ![r] = "reserved"]
      /\ periodOf' = [periodOf EXCEPT ![r] = period]
      /\ requested' = [requested EXCEPT ![r] = q]
      /\ used' = used /\ settled' = settled
  BY DEF ReserveUsage, NewRequest, ChargeWithinHold, TypeOK, Quantities
<1>2. requested'[r] = q /\ \A x \in Requests \ {r} : requested'[x] = requested[x]
  BY <1>1 DEF TypeOK
<1>3. ASSUME NEW p \in Periods
      PROVE  reserved'[p] = Sum(requested', HeldIn(p)') /\ used'[p] = Sum(settled', RowsOf(p)')
  <2>1. /\ IsFiniteSet(HeldIn(p)) /\ \A x \in HeldIn(p) : requested'[x] \in Int
        /\ r \notin HeldIn(p) /\ \A x \in HeldIn(p) : requested'[x] = requested[x]
    <3>1. r \notin HeldIn(p)  BY <1>1 DEF HeldIn
    <3>2. HeldIn(p) \subseteq Requests \ {r}  BY <3>1 DEF HeldIn
    <3> QED  BY <1>2, <3>1, <3>2, RowsAreFinite DEF TypeOK
  <2>2. reserved[p] = Sum(requested, HeldIn(p)) /\ used[p] = Sum(settled, RowsOf(p))
    BY DEF RowsMatch
  <2>3. Sum(requested', HeldIn(p)) = reserved[p]  BY <2>1, <2>2, SumSame
  <2>4. ASSUME p = period PROVE reserved'[p] = Sum(requested', HeldIn(p)')
    <3>1. HeldIn(p)' = HeldIn(p) \cup {r}  BY <1>1, <2>4 DEF HeldIn, TypeOK
    <3>2. Sum(requested', HeldIn(p) \cup {r}) = q + reserved[p]
      <4>1. requested'[r] \in Int  BY <1>1, <1>2
      <4>2. Sum(requested', HeldIn(p) \cup {r}) = requested'[r] + Sum(requested', HeldIn(p))
        BY <2>1, <4>1, SumAdd
      <4> QED  BY <1>2, <2>3, <4>2
    <3>3. reserved'[p] = reserved[p] + q /\ reserved[p] \in Int
      BY <1>1, <2>4 DEF TypeOK
    <3> QED  BY <1>1, <3>1, <3>2, <3>3
  <2>5. ASSUME p # period PROVE reserved'[p] = Sum(requested', HeldIn(p)')
    <3>1. HeldIn(p)' = HeldIn(p)  BY <1>1, <2>5 DEF HeldIn, TypeOK
    <3>2. reserved'[p] = reserved[p]  BY <1>1, <2>5 DEF TypeOK
    <3> QED  BY <2>3, <3>1, <3>2
  <2>6. used'[p] = Sum(settled', RowsOf(p)')
    <3>1. RowsOf(p)' \ {r} = RowsOf(p) \ {r}  BY <1>1 DEF RowsOf, TypeOK
    <3>2. Sum(settled, RowsOf(p)) = Sum(settled, RowsOf(p) \ {r})
      BY <1>1, RowsAreFinite, SumWithout
    <3>3. IsFiniteSet(RowsOf(p)') /\ \A x \in RowsOf(p)' : settled[x] \in Int
      <4>1. RowsOf(p)' \subseteq Requests  BY DEF RowsOf
      <4> QED  BY <4>1, RequestsAssumption, FS_Subset DEF TypeOK
    <3>4. Sum(settled, RowsOf(p)') = Sum(settled, RowsOf(p)' \ {r})
      BY <1>1, <3>3, SumWithout
    <3> QED  BY <1>1, <2>2, <3>1, <3>2, <3>4
  <2> QED  BY <2>4, <2>5, <2>6
<1> QED  BY <1>3 DEF RowsMatch

\* Zeros add up to zero.
LEMMA SumZero ==
    ASSUME NEW S, IsFiniteSet(S), NEW f, \A x \in S : f[x] = 0
    PROVE  Sum(f, S) = 0
<1> DEFINE B == {s \in SUBSET S : Sum(f, s) # 0}
<1> SUFFICES ASSUME B # {} PROVE FALSE  OBVIOUS
<1>1. \A s \in B : s \in SUBSET S /\ IsFiniteSet(s)  BY FS_Subset
<1>2. PICK s \in B : \A x \in s : s \ {x} \notin B
  <2> HIDE DEF B
  <2> QED  BY <1>1, LeastSet
<1>3. CASE s = {}  BY <1>3, SumEmpty
<1>4. CASE s # {}
  <2>1. First(s) \in s  BY <1>4, FirstIsOne
  <2>2. Sum(f, s \ {First(s)}) = 0  BY <1>2, <2>1
  <2>3. Sum(f, s) = f[First(s)] + Sum(f, s \ {First(s)})  BY <1>1, <1>4, SumFirst
  <2>4. f[First(s)] = 0  BY <2>1
  <2> QED  BY <2>2, <2>3, <2>4
<1> QED  BY <1>3, <1>4

\* A row that leaves the held ones takes its hold with it.
LEMMA Leaves ==
    ASSUME TypeOK, RowsMatch, NEW r \in Requests, state[r] = "reserved",
           requested' \in [Requests -> Nat], periodOf' = periodOf,
           \A x \in Requests \ {r} : requested'[x] = requested[x] /\ state'[x] = state[x],
           state'[r] # "reserved",
           NEW p \in Periods
    PROVE  Sum(requested', HeldIn(p)') =
               IF p = periodOf[r] THEN reserved[p] - requested[r] ELSE reserved[p]
<1>1. HeldIn(p)' = HeldIn(p) \ {r}  BY DEF HeldIn, TypeOK
<1>2. HeldIn(p) \subseteq Requests /\ IsFiniteSet(HeldIn(p) \ {r})
  BY RowsAreFinite, FS_Subset DEF HeldIn
<1>3. \A x \in HeldIn(p) \ {r} : requested'[x] = requested[x]  BY <1>2
<1>4. Sum(requested', HeldIn(p) \ {r}) = Sum(requested, HeldIn(p) \ {r})
  BY <1>2, <1>3, SumSame
<1>5. Sum(requested, HeldIn(p)) = reserved[p] /\ reserved[p] \in Int /\ requested[r] \in Int
  BY DEF RowsMatch, TypeOK
<1>6. CASE p = periodOf[r]
  <2>1. r \in HeldIn(p)  BY <1>6 DEF HeldIn
  <2>2. Sum(requested, HeldIn(p)) = requested[r] + Sum(requested, HeldIn(p) \ {r})
    BY <2>1, RowsAreFinite, SumRemove
  <2>3. Sum(requested, HeldIn(p) \ {r}) \in Int
    BY <1>2, RowsAreFinite, SumInt
  <2> QED  BY <1>1, <1>4, <1>5, <1>6, <2>2, <2>3
<1>7. CASE p # periodOf[r]
  <2>1. HeldIn(p) \ {r} = HeldIn(p)  BY <1>7 DEF HeldIn
  <2> QED  BY <1>1, <1>4, <1>5, <1>7, <2>1
<1> QED  BY <1>6, <1>7

LEMMA SettleMatches ==
    ASSUME TypeOK, TypeOK', ChargeWithinHold, RowsMatch,
           NEW r \in Requests, NEW a \in Quantities, NEW l \in Limits,
           SettleUsage(r, a, l)
    PROVE  RowsMatch'
<1> DEFINE extra == Supplement(r, a, l)
           hold == requested[r] + extra
           billed == Billed(a, hold)
           p0 == periodOf[r]
<1>1. a \in Nat /\ l \in Nat
  BY QuantityAssumption, LimitsAssumption DEF Quantities
<1>2. extra \in Nat  BY <1>1, SupplementFits
<1>3. hold \in Nat  BY <1>2 DEF TypeOK
<1>4. billed \in Nat  BY <1>1, <1>3, BilledWithinHold
<1>5. /\ state[r] = "reserved" /\ settled[r] = 0
      /\ used' = [used EXCEPT ![p0] = @ + billed]
      /\ reserved' = [reserved EXCEPT ![p0] = reserved[p0] + extra - hold]
      /\ state' = [state EXCEPT ![r] = "settled"]
      /\ requested' = [requested EXCEPT ![r] = hold]
      /\ settled' = [settled EXCEPT ![r] = billed]
      /\ periodOf' = periodOf
  BY DEF SettleUsage, Claimable, ReservedAfter, ChargeWithinHold, TypeOK
<1> HIDE DEF billed
<1>6. p0 \in Periods /\ requested[r] \in Nat  BY DEF TypeOK
<1>7. ASSUME NEW p \in Periods
      PROVE  reserved'[p] = Sum(requested', HeldIn(p)')
  <2>1. Sum(requested', HeldIn(p)') = IF p = p0 THEN reserved[p] - requested[r] ELSE reserved[p]
    <3>1. requested' \in [Requests -> Nat]  BY DEF TypeOK
    <3>2. \A x \in Requests \ {r} : requested'[x] = requested[x] /\ state'[x] = state[x]
      BY <1>5 DEF TypeOK
    <3>3. state'[r] # "reserved"  BY <1>5 DEF TypeOK
    <3> QED  BY <1>5, <3>1, <3>2, <3>3, Leaves
  <2>2. CASE p = p0
    <3>1. reserved'[p] = reserved[p] + extra - hold  BY <1>5, <2>2 DEF TypeOK
    <3>2. reserved[p] \in Nat  BY DEF TypeOK
    <3> HIDE DEF extra
    <3> QED  BY <1>2, <1>6, <2>1, <2>2, <3>1, <3>2
  <2>3. CASE p # p0  BY <1>5, <2>1, <2>3 DEF TypeOK
  <2> QED  BY <2>2, <2>3
<1>8. ASSUME NEW p \in Periods
      PROVE  used'[p] = Sum(settled', RowsOf(p)')
  <2>1. RowsOf(p)' = RowsOf(p) /\ RowsOf(p) \subseteq Requests  BY <1>5 DEF RowsOf
  <2>2. /\ \A x \in RowsOf(p) : settled[x] \in Int /\ settled'[x] \in Int
        /\ \A x \in RowsOf(p) \ {r} : settled[x] = settled'[x]
    BY <1>5, <2>1 DEF TypeOK
  <2>3. used[p] = Sum(settled, RowsOf(p)) /\ used[p] \in Int
    BY DEF RowsMatch, TypeOK
  <2>4. CASE p = p0
    <3>1. r \in RowsOf(p)  BY <2>4 DEF RowsOf
    <3>2. Sum(settled', RowsOf(p)) = Sum(settled, RowsOf(p)) - settled[r] + settled'[r]
      BY <2>2, <3>1, RowsAreFinite, SumChange
    <3>3. settled'[r] = billed /\ used'[p] = used[p] + billed
      BY <1>5, <2>4 DEF TypeOK
    <3> QED  BY <1>4, <1>5, <2>1, <2>3, <3>2, <3>3
  <2>5. CASE p # p0
    <3>1. \A x \in RowsOf(p) : settled[x] = settled'[x]
      BY <2>2, <2>5 DEF RowsOf
    <3>2. Sum(settled, RowsOf(p)) = Sum(settled', RowsOf(p))
      BY <3>1, RowsAreFinite, SumSame
    <3>3. used'[p] = used[p]  BY <1>5, <2>5 DEF TypeOK
    <3> QED  BY <2>1, <2>3, <3>2, <3>3
  <2> QED  BY <2>4, <2>5
<1> QED  BY <1>7, <1>8 DEF RowsMatch

\* Nothing is charged, and no row changes its period.
LEMMA ChargesStay ==
    ASSUME RowsMatch, used' = used, settled' = settled, periodOf' = periodOf
    PROVE  \A p \in Periods : used'[p] = Sum(settled', RowsOf(p)')
<1>1. ASSUME NEW p \in Periods PROVE used'[p] = Sum(settled', RowsOf(p)')
  <2>1. RowsOf(p)' = RowsOf(p)  BY DEF RowsOf
  <2> QED  BY <2>1 DEF RowsMatch
<1> QED  BY <1>1

LEMMA ReleaseMatches ==
    ASSUME TypeOK, TypeOK', RowsMatch, NEW r \in Requests, ReleaseUsage(r)
    PROVE  RowsMatch'
<1>1. /\ state[r] = "reserved"
      /\ reserved' = [reserved EXCEPT ![periodOf[r]] = @ - requested[r]]
      /\ state' = [state EXCEPT ![r] = "released"]
      /\ requested' = requested /\ settled' = settled /\ used' = used
      /\ periodOf' = periodOf
  BY DEF ReleaseUsage, Claimable
<1>2. ASSUME NEW p \in Periods
      PROVE  reserved'[p] = Sum(requested', HeldIn(p)')
  <2>1. requested' \in [Requests -> Nat]  BY DEF TypeOK
  <2>2. \A x \in Requests \ {r} : requested'[x] = requested[x] /\ state'[x] = state[x]
    BY <1>1 DEF TypeOK
  <2>3. state'[r] # "reserved"  BY <1>1 DEF TypeOK
  <2>4. Sum(requested', HeldIn(p)') =
            IF p = periodOf[r] THEN reserved[p] - requested[r] ELSE reserved[p]
    BY <1>1, <2>1, <2>2, <2>3, Leaves
  <2> QED  BY <1>1, <2>4 DEF TypeOK
<1> QED  BY <1>1, <1>2, ChargesStay DEF RowsMatch

LEMMA SupplementMatches ==
    ASSUME TypeOK, TypeOK', RowsMatch, NEW r \in Requests, NEW t \in Quantities,
           SupplementReservation(r, t)
    PROVE  RowsMatch'
<1>1. /\ state[r] = "reserved" /\ t \in Int
      /\ reserved' = [reserved EXCEPT ![periodOf[r]] = @ + (t - requested[r])]
      /\ requested' = [requested EXCEPT ![r] = t]
      /\ state' = state /\ settled' = settled /\ used' = used /\ periodOf' = periodOf
  BY DEF SupplementReservation, Claimable, Quantities
<1>2. ASSUME NEW p \in Periods
      PROVE  reserved'[p] = Sum(requested', HeldIn(p)')
  <2>1. HeldIn(p)' = HeldIn(p) /\ HeldIn(p) \subseteq Requests  BY <1>1 DEF HeldIn
  <2>2. /\ \A x \in HeldIn(p) : requested[x] \in Int /\ requested'[x] \in Int
        /\ \A x \in HeldIn(p) \ {r} : requested[x] = requested'[x]
    BY <1>1, <2>1 DEF TypeOK
  <2>3. Sum(requested, HeldIn(p)) = reserved[p] /\ reserved[p] \in Int /\ requested[r] \in Int
    BY DEF RowsMatch, TypeOK
  <2>4. CASE p = periodOf[r]
    <3>1. r \in HeldIn(p)  BY <1>1, <2>4 DEF HeldIn
    <3>2. Sum(requested', HeldIn(p)) = Sum(requested, HeldIn(p)) - requested[r] + requested'[r]
      BY <2>2, <3>1, RowsAreFinite, SumChange
    <3>3. requested'[r] = t /\ reserved'[p] = reserved[p] + (t - requested[r])
      BY <1>1, <2>4 DEF TypeOK
    <3> QED  BY <1>1, <2>1, <2>3, <3>2, <3>3
  <2>5. CASE p # periodOf[r]
    <3>1. \A x \in HeldIn(p) : requested[x] = requested'[x]
      BY <2>2, <2>5 DEF HeldIn
    <3>2. Sum(requested, HeldIn(p)) = Sum(requested', HeldIn(p))
      BY <3>1, RowsAreFinite, SumSame
    <3>3. reserved'[p] = reserved[p]  BY <1>1, <2>5 DEF TypeOK
    <3> QED  BY <2>1, <2>3, <3>2, <3>3
  <2> QED  BY <2>4, <2>5
<1> QED  BY <1>1, <1>2, ChargesStay DEF RowsMatch

LEMMA ExpireMatches ==
    ASSUME TypeOK, TypeOK', RowsMatch, NEW R \in SUBSET Requests,
           ExpireStaleReservations(R)
    PROVE  RowsMatch'
<1>1. /\ \A r \in R : state[r] = "reserved"
      /\ reserved' = [p \in Periods |-> reserved[p] - HeldBy(R, p)]
      /\ state' = [r \in Requests |-> IF r \in R THEN "expired" ELSE state[r]]
      /\ requested' = requested /\ settled' = settled /\ used' = used
      /\ periodOf' = periodOf
  BY DEF ExpireStaleReservations, Open
<1>2. ASSUME NEW p \in Periods
      PROVE  reserved'[p] = Sum(requested', HeldIn(p)')
  <2> DEFINE part == {r \in R : periodOf[r] = p}
  <2>1. part \in SUBSET HeldIn(p) /\ HeldIn(p)' = HeldIn(p) \ part
    BY <1>1 DEF HeldIn
  <2>2. HeldBy(R, p) = Sum(requested, part)  BY DEF HeldBy, Sum
  <2>3. Sum(requested, HeldIn(p)) = Sum(requested, part) + Sum(requested, HeldIn(p) \ part)
    <3> HIDE DEF part
    <3> QED  BY <2>1, RowsAreFinite, SumSplit
  <2>4. Sum(requested, part) \in Int /\ Sum(requested, HeldIn(p) \ part) \in Int
    <3> HIDE DEF part
    <3>1. IsFiniteSet(part) /\ IsFiniteSet(HeldIn(p) \ part)
      BY <2>1, RowsAreFinite, FS_Subset
    <3>2. \A x \in HeldIn(p) : requested[x] \in Int  BY RowsAreFinite
    <3>3. \A x \in part : requested[x] \in Int  BY <2>1, <3>2
    <3>4. \A x \in HeldIn(p) \ part : requested[x] \in Int  BY <3>2
    <3> QED  BY <3>1, <3>3, <3>4, SumInt
  <2>5. reserved'[p] = Sum(requested, HeldIn(p)) - Sum(requested, part)
    BY <1>1, <2>2 DEF RowsMatch
  <2> QED  BY <1>1, <2>1, <2>3, <2>4, <2>5
<1> QED  BY <1>1, <1>2, ChargesStay DEF RowsMatch

LEMMA InitMatches == Init => RowsMatch
<1> SUFFICES ASSUME Init, NEW p \in Periods
             PROVE  reserved[p] = Sum(requested, HeldIn(p)) /\ used[p] = Sum(settled, RowsOf(p))
  BY DEF RowsMatch
<1>1. HeldIn(p) = {}  BY DEF Init, HeldIn
<1>2. \A x \in RowsOf(p) : settled[x] = 0  BY DEF Init, RowsOf
<1>3. Sum(settled, RowsOf(p)) = 0
  <2>1. IsFiniteSet(RowsOf(p))  BY RequestsAssumption, FS_Subset DEF RowsOf
  <2> QED  BY <1>2, <2>1, SumZero
<1> QED  BY <1>1, <1>3, SumEmpty DEF Init

LEMMA StepMatches ==
    TypeOK /\ TypeOK' /\ ChargeWithinHold /\ RowsMatch /\ [Next]_vars => RowsMatch'
<1> SUFFICES ASSUME TypeOK, TypeOK', ChargeWithinHold, RowsMatch, [Next]_vars
             PROVE  RowsMatch'
  OBVIOUS
<1>1. CASE UNCHANGED <<counters, rows>>
  <2>1. \A p \in Periods : HeldIn(p)' = HeldIn(p) /\ RowsOf(p)' = RowsOf(p)
    BY <1>1 DEF HeldIn, RowsOf, rows
  <2> QED  BY <1>1, <2>1 DEF RowsMatch, counters, rows
<1>2. ASSUME NEW R \in SUBSET Requests, TouchActivity(R) PROVE RowsMatch'
  BY <1>1, <1>2 DEF TouchActivity
<1>3. ASSUME NEW r \in Requests, BecomeStale(r) PROVE RowsMatch'
  BY <1>1, <1>3 DEF BecomeStale
<1>4. ASSUME NEW l \in Limits, NEW p \in Periods, ChangeSubscription(l, p) PROVE RowsMatch'
  BY <1>1, <1>4 DEF ChangeSubscription
<1>5. limit \in Limits /\ \A r \in Requests : planLimit[r] \in Limits
  BY DEF TypeOK
<1> QED
  BY <1>1, <1>2, <1>3, <1>4, <1>5, ReserveMatches, SettleMatches, SupplementMatches,
     ReleaseMatches, ExpireMatches DEF Next, vars

LEMMA RowsMatchAlways == Spec => []RowsMatch
<1>1. TypeOK /\ TypeOK' /\ ChargeWithinHold /\ RowsMatch /\ [Next]_vars => RowsMatch'
  BY StepMatches
<1> QED  BY <1>1, InitMatches, Typing, ChargesStayWithinHolds, PTL DEF Spec

\* In every period the reserved credits are the sum of the open holds and the
\* used credits the sum of the charges, through any interleaving of requests,
\* settlements, supplements, expiries and plan changes.
THEOREM CountersMatch == Spec => []CountersMatchReservations
  BY RowsMatchAlways, Matching, PTL

\* No operation on an open reservation finds too little in its counter: the
\* conflicts that settle, release and supplement raise for it, and the rollback
\* of an expiry cycle, cannot happen.
Covered ==
    /\ \A r \in Open : reserved[periodOf[r]] >= requested[r]
    /\ \A R \in SUBSET Open, p \in Periods : HeldBy(R, p) \in 0 .. reserved[p]

THEOREM HoldsAreCovered == Spec => []Covered
<1>1. TypeOK /\ RowsMatch => Covered
  <2> SUFFICES ASSUME TypeOK, RowsMatch PROVE Covered  OBVIOUS
  <2>1. ASSUME NEW r \in Open PROVE reserved[periodOf[r]] >= requested[r]
    <3> DEFINE p == periodOf[r]
    <3>1. r \in HeldIn(p) /\ p \in Periods  BY DEF HeldIn, Open, TypeOK
    <3>2. requested[r] <= Sum(requested, HeldIn(p))
      BY <3>1, RowsAreFinite, SumNat
    <3>3. reserved[p] = Sum(requested, HeldIn(p)) /\ reserved[p] \in Nat /\ requested[r] \in Nat
      BY <3>1 DEF RowsMatch, TypeOK, Open
    <3> QED  BY <3>2, <3>3
  <2>2. ASSUME NEW R \in SUBSET Open, NEW p \in Periods
        PROVE  HeldBy(R, p) \in 0 .. reserved[p]
    <3> DEFINE part == {r \in R : periodOf[r] = p}
    <3>1. part \in SUBSET HeldIn(p)  BY DEF HeldIn, Open
    <3>2. HeldBy(R, p) = Sum(requested, part)  BY DEF HeldBy, Sum
    <3>3. reserved[p] = Sum(requested, HeldIn(p)) /\ reserved[p] \in Nat
      BY DEF RowsMatch, TypeOK
    <3> HIDE DEF part
    <3>4. Sum(requested, part) \in Nat /\ Sum(requested, part) <= Sum(requested, HeldIn(p))
      BY <3>1, RowsAreFinite, SumMonotone
    <3> QED  BY <3>2, <3>3, <3>4
  <2> QED  BY <2>1, <2>2 DEF Covered
<1> QED  BY <1>1, Typing, RowsMatchAlways, PTL

----------------------------------------------------------------------------
\* A settlement moves the counters of its own period only.
LEMMA SettlesItsPeriod ==
    ASSUME TypeOK, NEW r \in Requests, NEW a, NEW l, SettleUsage(r, a, l),
           NEW p \in Periods, p # periodOf[r]
    PROVE  used'[p] = used[p] /\ reserved'[p] = reserved[p]
  BY DEF SettleUsage, TypeOK

\* The claim on a period grows only within the allowance in force, or within
\* that of the plan under which an open request of the period was authorised.
THEOREM GrowthIsAllowed == Spec => GrowthWithinAllowance
<1> DEFINE Within == \A p \in Periods :
                        used'[p] + reserved'[p] > used[p] + reserved[p] =>
                            \/ used'[p] + reserved'[p] <= limit
                            \/ \E r \in Open : /\ periodOf[r] = p
                                               /\ used'[p] + reserved'[p] <= planLimit[r]
<1>1. TypeOK /\ TypeOK' /\ [Next]_vars => [Within]_vars
  <2> SUFFICES ASSUME TypeOK, TypeOK', Next, NEW p \in Periods,
                      used'[p] + reserved'[p] > used[p] + reserved[p]
               PROVE  \/ used'[p] + reserved'[p] <= limit
                      \/ \E r \in Open : /\ periodOf[r] = p
                                         /\ used'[p] + reserved'[p] <= planLimit[r]
    OBVIOUS
  <2>0. /\ limit \in Nat /\ used[p] \in Nat /\ reserved[p] \in Nat
        /\ used'[p] \in Nat /\ reserved'[p] \in Nat
        /\ \A r \in Requests : planLimit[r] \in Nat /\ requested[r] \in Nat
    BY LimitsAssumption DEF TypeOK
  <2>1. ASSUME NEW r \in Requests, NEW q \in Quantities, ReserveUsage(r, q)
        PROVE  used'[p] + reserved'[p] <= limit
    <3>1. /\ q \in Int /\ used' = used /\ reserved' = [reserved EXCEPT ![period] = @ + q]
          /\ q <= limit - used[period] - reserved[period]
      BY <2>1 DEF ReserveUsage, WithinAllowance, Quantities
    <3>2. p = period  BY <3>1 DEF TypeOK
    <3>3. reserved'[p] = reserved[p] + q  BY <3>1, <3>2 DEF TypeOK
    <3> QED  BY <2>0, <3>1, <3>2, <3>3
  <2>2. ASSUME NEW r \in Requests, NEW a \in Quantities, NEW l \in Limits,
               SettleUsage(r, a, l)
        PROVE  r \in Open /\ periodOf[r] = p /\ used'[p] + reserved'[p] <= l
    <3>1. r \in Open  BY <2>2 DEF SettleUsage, Claimable, Open
    <3>2. periodOf[r] = p  BY <2>0, <2>2, SettlesItsPeriod
    <3>3. l \in Nat  BY LimitsAssumption
    <3>4. \/ used'[p] + reserved'[p] <= used[p] + reserved[p]
          \/ used'[p] + reserved'[p] <= l
      BY <2>2, SettlementEffect
    <3> QED  BY <2>0, <3>1, <3>2, <3>3, <3>4
  <2>3. ASSUME NEW r \in Requests, NEW t \in Quantities, SupplementReservation(r, t)
        PROVE  r \in Open /\ periodOf[r] = p /\ used'[p] + reserved'[p] <= planLimit[r]
    <3> DEFINE more == t - requested[r]
    <3>1. /\ r \in Open /\ t \in Int /\ used' = used /\ more > 0
          /\ more <= Remaining(periodOf[r], planLimit[r])
          /\ reserved' = [reserved EXCEPT ![periodOf[r]] = @ + more]
      BY <2>3 DEF SupplementReservation, Claimable, Open, Quantities
    <3>2. periodOf[r] = p  BY <3>1 DEF TypeOK
    <3>3. more \in Int  BY <2>0, <3>1
    <3> HIDE DEF more
    <3>4. reserved'[p] = reserved[p] + more  BY <3>1, <3>2 DEF TypeOK
    <3>5. more <= planLimit[r] - used[p] - reserved[p]
      BY <2>0, <3>1, <3>2, <3>3 DEF Remaining, Larger
    <3> QED  BY <2>0, <3>1, <3>2, <3>3, <3>4, <3>5
  <2>4. ASSUME NEW r \in Requests, ReleaseUsage(r) PROVE FALSE
    BY <2>0, <2>4 DEF ReleaseUsage, TypeOK
  <2>5. ASSUME NEW R \in SUBSET Requests, ExpireStaleReservations(R) PROVE FALSE
    BY <2>0, <2>5 DEF ExpireStaleReservations
  <2>6. ASSUME UNCHANGED counters PROVE FALSE
    BY <2>0, <2>6 DEF counters
  <2>7. limit \in Limits /\ \A r \in Requests : planLimit[r] \in Limits
    BY DEF TypeOK
  <2> QED
    BY <2>1, <2>2, <2>3, <2>4, <2>5, <2>6, <2>7
       DEF Next, TouchActivity, BecomeStale, ChangeSubscription
<1> QED  BY <1>1, Typing, PTL DEF Spec, GrowthWithinAllowance

----------------------------------------------------------------------------
(* Metering implements the ledger: a period's counters together are the       *)
(* claims of its rows, so the limit checks of the code are those of the       *)
(* ledger.                                                                    *)

\* What an open reservation holds can be charged.
HoldsCount == \A r \in Open : requested[r] \in Quantities

LEMMA InitHoldsCount == Init => HoldsCount
  BY DEF Init, HoldsCount, Open

\* A settlement writes a charge that the ledger allows.
LEMMA SettledCount ==
    ASSUME TypeOK, NEW r \in Requests, requested[r] \in Quantities,
           NEW a \in Quantities, NEW l \in Limits, SettleUsage(r, a, l)
    PROVE  /\ settled' = [settled EXCEPT ![r] = settled'[r]]
           /\ settled'[r] \in Quantities
           /\ \/ settled'[r] <= requested[r]
              \/ used[periodOf[r]] + reserved[periodOf[r]] + settled'[r] - requested[r] <= l
<1> DEFINE extra == Supplement(r, a, l)
           hold == requested[r] + extra
           billed == Billed(a, hold)
           p == periodOf[r]
<1>1. /\ a \in Nat /\ l \in Nat /\ a >= 1 /\ a <= MaxQuantity /\ MaxQuantity \in Nat
      /\ requested[r] \in Nat /\ requested[r] >= 1
  BY QuantityAssumption, LimitsAssumption DEF Quantities
<1>2. extra \in Nat /\ (extra = 0 \/ used[p] + reserved[p] + extra <= l)
  BY <1>1, SupplementFits
<1>3. p \in Periods /\ used[p] \in Nat /\ reserved[p] \in Nat  BY DEF TypeOK
<1>4. settled' = [settled EXCEPT ![r] = billed]  BY DEF SettleUsage
<1> HIDE DEF extra
<1>5. billed \in Quantities /\ billed <= hold /\ billed \in Nat
  BY <1>1, <1>2 DEF Billed, Smaller, Quantities
<1> HIDE DEF billed
<1>6. settled'[r] = billed  BY <1>4 DEF TypeOK
<1>7. settled' = [settled EXCEPT ![r] = settled'[r]]  BY <1>4, <1>6
<1>8. \/ billed <= requested[r]
      \/ used[p] + reserved[p] + billed - requested[r] <= l
  BY <1>1, <1>2, <1>3, <1>5
<1> QED  BY <1>5, <1>6, <1>7, <1>8

LEMMA StepHoldsCount == TypeOK /\ HoldsCount /\ [Next]_vars => HoldsCount'
<1> SUFFICES ASSUME TypeOK, HoldsCount, [Next]_vars PROVE HoldsCount'
  OBVIOUS
<1> USE DEF HoldsCount, Open
<1>1. CASE UNCHANGED rows  BY <1>1 DEF rows
<1>2. ASSUME NEW r \in Requests, NEW q \in Quantities, ReserveUsage(r, q) PROVE HoldsCount'
  BY <1>2 DEF ReserveUsage, TypeOK
<1>3. ASSUME NEW r \in Requests, NEW a, NEW l, SettleUsage(r, a, l) PROVE HoldsCount'
  <2>1. /\ state' = [state EXCEPT ![r] = "settled"]
        /\ \A x \in Requests \ {r} : requested'[x] = requested[x]
    BY <1>3 DEF SettleUsage, TypeOK
  <2> QED  BY <2>1 DEF TypeOK
<1>4. ASSUME NEW r \in Requests, NEW t \in Quantities, SupplementReservation(r, t)
      PROVE  HoldsCount'
  BY <1>4 DEF SupplementReservation, TypeOK
<1>5. ASSUME NEW r \in Requests, ReleaseUsage(r) PROVE HoldsCount'
  BY <1>5 DEF ReleaseUsage, TypeOK
<1>6. ASSUME NEW R \in SUBSET Requests, ExpireStaleReservations(R) PROVE HoldsCount'
  BY <1>6 DEF ExpireStaleReservations, TypeOK
<1> QED
  BY <1>1, <1>2, <1>3, <1>4, <1>5, <1>6
     DEF Next, vars, TouchActivity, BecomeStale, ChangeSubscription

\* The claims of a period are what its counters say.
LEMMA ClaimsAreCounters ==
    ASSUME TypeOK, ChargeWithinHold, RowsMatch, NEW p \in Periods
    PROVE  Ledger!Claimed(p) = used[p] + reserved[p]
<1> DEFINE claim == [r \in Requests |-> Claim(r)]
           rest == RowsOf(p) \ HeldIn(p)
<1>1. Ledger!Claimed(p) = Sum(claim, RowsOf(p))  
  BY DEF Ledger!Claimed, Ledger!MapThenSumSet, Ledger!MapThenFoldSet, Sum,
         MapThenSumSet, MapThenFoldSet, RowsOf
<1>2. \A r \in Requests : claim[r] \in Int  BY DEF Claim, TypeOK
<1>3. /\ \A r \in HeldIn(p) : claim[r] = requested[r] /\ settled[r] = 0
      /\ \A r \in rest : claim[r] = settled[r]
  BY DEF Claim, HeldIn, RowsOf, ChargeWithinHold, TypeOK
<1> HIDE DEF claim
<1>4. HeldIn(p) \in SUBSET RowsOf(p) /\ RowsOf(p) \subseteq Requests  BY DEF HeldIn, RowsOf
<1>5. Sum(claim, RowsOf(p)) = Sum(claim, HeldIn(p)) + Sum(claim, rest)
  <2>1. \A r \in RowsOf(p) : claim[r] \in Int  BY <1>2, <1>4
  <2> QED  BY <1>4, <2>1, RowsAreFinite, SumSplit
<1>6. Sum(settled, RowsOf(p)) = Sum(settled, HeldIn(p)) + Sum(settled, rest)
  BY <1>4, RowsAreFinite, SumSplit
<1>7. Sum(settled, HeldIn(p)) = 0  BY <1>3, RowsAreFinite, SumZero
<1>8. Sum(claim, HeldIn(p)) = Sum(requested, HeldIn(p))  BY <1>3, RowsAreFinite, SumSame
<1>9. Sum(claim, rest) = Sum(settled, rest) /\ Sum(settled, rest) \in Int
  <2>1. IsFiniteSet(rest) /\ \A r \in rest : settled[r] \in Int
    BY RowsAreFinite, FS_Subset
  <2> QED  BY <1>3, <2>1, SumSame, SumInt
<1> QED
  <2>1. reserved[p] = Sum(requested, HeldIn(p)) /\ used[p] = Sum(settled, RowsOf(p))
    BY DEF RowsMatch
  <2>2. used[p] = Sum(claim, rest) /\ reserved[p] = Sum(claim, HeldIn(p))
    BY <1>6, <1>7, <1>8, <1>9, <2>1
  <2>3. used[p] \in Int /\ reserved[p] \in Int  BY DEF TypeOK
  <2> QED  BY <1>1, <1>5, <2>2, <2>3

\* The ledger's view of the rows.
Phases == [r \in Requests |-> Phase(r)]
Claims == [r \in Requests |-> Claim(r)]

\* How a changed row changes the view.
LEMMA RowSeen ==
    ASSUME NEW r \in Requests, \A x \in Requests \ {r} : /\ state'[x] = state[x]
                                                       /\ requested'[x] = requested[x]
                                                       /\ settled'[x] = settled[x]
    PROVE  /\ Phases' = [Phases EXCEPT ![r] = Phase(r)']
           /\ Claims' = [Claims EXCEPT ![r] = Claim(r)']
<1>1. \A x \in Requests \ {r} : Phase(x)' = Phase(x) /\ Claim(x)' = Claim(x)
  BY DEF Phase, Claim
<1>2. /\ Phases' = [x \in Requests |-> Phase(x)']
      /\ Claims' = [x \in Requests |-> Claim(x)']
  BY DEF Phases, Claims
<1>3. Phases = [x \in Requests |-> Phase(x)] /\ Claims = [x \in Requests |-> Claim(x)]
  BY DEF Phases, Claims
<1> QED  BY <1>1, <1>2, <1>3

LEMMA ReserveHolds ==
    ASSUME TypeOK, ChargeWithinHold, RowsMatch, GrantedInv,
           NEW r \in Requests, NEW q \in Quantities, ReserveUsage(r, q)
    PROVE  Ledger!Next
<1>1. /\ state[r] = "none" /\ period \in Periods /\ q \in Int
      /\ q <= limit - used[period] - reserved[period]
      /\ state' = [state EXCEPT ![r] = "reserved"]
      /\ periodOf' = [periodOf EXCEPT ![r] = period]
      /\ requested' = [requested EXCEPT ![r] = q]
      /\ settled' = settled /\ granted' = granted
  BY DEF ReserveUsage, NewRequest, WithinAllowance, plan, TypeOK, Quantities
<1>2. \A x \in Requests \ {r} : /\ state'[x] = state[x]
                                /\ requested'[x] = requested[x]
                                /\ settled'[x] = settled[x]
  BY <1>1 DEF TypeOK
<1>3. /\ Phases' = [Phases EXCEPT ![r] = Phase(r)']
      /\ Claims' = [Claims EXCEPT ![r] = Claim(r)']
  BY <1>2, RowSeen
<1>4. Phase(r)' = "held" /\ Claim(r)' = q /\ Phases[r] = "absent"
  BY <1>1 DEF Phase, Claim, Phases, TypeOK
<1>5. Ledger!Claimed(period) + q <= granted[period]
  <2>1. Ledger!Claimed(period) = used[period] + reserved[period]
    BY <1>1, ClaimsAreCounters
  <2>2. limit \in Nat /\ granted[period] \in Nat /\ used[period] \in Nat /\ reserved[period] \in Nat
    BY <1>1, LimitsAssumption DEF TypeOK
  <2> QED  BY <1>1, <2>1, <2>2 DEF GrantedInv
<1>6. Ledger!Hold(r, period, q)
  BY <1>1, <1>3, <1>4, <1>5 DEF Ledger!Hold, Phases, Claims
<1> QED  BY <1>1, <1>6 DEF Ledger!Next, Quantities

LEMMA SettleCharges ==
    ASSUME TypeOK, ChargeWithinHold, RowsMatch, GrantedInv, HoldsCount,
           NEW r \in Requests, NEW a \in Quantities, NEW l \in Limits,
           l <= granted[periodOf[r]], SettleUsage(r, a, l)
    PROVE  Ledger!Next
<1>1. /\ state[r] = "reserved"
      /\ state' = [state EXCEPT ![r] = "settled"]
      /\ periodOf' = periodOf /\ granted' = granted
      /\ \A x \in Requests \ {r} : /\ state'[x] = state[x]
                                   /\ requested'[x] = requested[x]
                                   /\ settled'[x] = settled[x]
  BY DEF SettleUsage, Claimable, plan, TypeOK
<1> DEFINE n == settled'[r]
           p == periodOf[r]
<1>2. requested[r] \in Quantities  BY <1>1 DEF HoldsCount, Open
<1>3. /\ n \in Quantities
      /\ n <= requested[r] \/ used[p] + reserved[p] + n - requested[r] <= l
  BY <1>2, SettledCount
<1>4. /\ Phases' = [Phases EXCEPT ![r] = Phase(r)']
      /\ Claims' = [Claims EXCEPT ![r] = Claim(r)']
  BY <1>1, RowSeen
<1>5. /\ Phase(r)' = "charged" /\ Claim(r)' = n
      /\ Phases[r] = "held" /\ Claims[r] = requested[r]
  BY <1>1 DEF Phase, Claim, Phases, Claims, TypeOK
<1> HIDE DEF n
<1>6. n <= Claims[r] \/ Ledger!Claimed(p) + n - Claims[r] <= granted[p]
  <2>1. p \in Periods  BY DEF TypeOK
  <2>2. Ledger!Claimed(p) = used[p] + reserved[p]
    BY <2>1, ClaimsAreCounters
  <2>3. /\ l \in Nat /\ granted[p] \in Nat /\ used[p] \in Nat /\ reserved[p] \in Nat
        /\ n \in Int /\ requested[r] \in Int
    BY <1>2, <1>3, <2>1, LimitsAssumption DEF TypeOK, Quantities
  <2> QED  BY <1>3, <1>5, <2>2, <2>3
<1>7. Ledger!Charge(r, n)
  BY <1>1, <1>4, <1>5, <1>6 DEF Ledger!Charge, Phases, Claims
<1> QED  BY <1>3, <1>7 DEF Ledger!Next, Quantities

LEMMA SupplementExtends ==
    ASSUME TypeOK, ChargeWithinHold, RowsMatch, GrantedInv,
           NEW r \in Requests, NEW t \in Quantities, SupplementReservation(r, t)
    PROVE  Ledger!Next
<1> DEFINE p == periodOf[r]
<1>1. /\ state[r] = "reserved" /\ t - requested[r] > 0
      /\ t - requested[r] <= Remaining(p, planLimit[r])
      /\ requested' = [requested EXCEPT ![r] = t]
      /\ state' = state /\ settled' = settled /\ periodOf' = periodOf /\ granted' = granted
  BY DEF SupplementReservation, Claimable, plan
<1>2. \A x \in Requests \ {r} : /\ state'[x] = state[x]
                                /\ requested'[x] = requested[x]
                                /\ settled'[x] = settled[x]
  BY <1>1 DEF TypeOK
<1>3. /\ Phases' = [Phases EXCEPT ![r] = Phase(r)']
      /\ Claims' = [Claims EXCEPT ![r] = Claim(r)']
  BY <1>2, RowSeen
<1>4. /\ Phase(r)' = Phases[r] /\ Claim(r)' = t
      /\ Phases[r] = "held" /\ Claims[r] = requested[r]
  BY <1>1 DEF Phase, Claim, Phases, Claims, TypeOK
<1>5. Phases' = Phases  BY <1>3, <1>4 DEF Phases
<1>6. t > Claims[r] /\ Ledger!Claimed(p) + t - Claims[r] <= granted[p]
  <2>1. p \in Periods /\ planLimit[r] \in Limits  BY DEF TypeOK
  <2>2. Ledger!Claimed(p) = used[p] + reserved[p]  BY <2>1, ClaimsAreCounters
  <2>3. /\ planLimit[r] \in Nat /\ granted[p] \in Nat /\ used[p] \in Nat /\ reserved[p] \in Nat
        /\ t \in Int /\ requested[r] \in Int /\ planLimit[r] <= granted[p]
    <3>1. planLimit[r] \in Nat  BY <2>1, LimitsAssumption
    <3>2. /\ granted[p] \in Nat /\ used[p] \in Nat /\ reserved[p] \in Nat
          /\ requested[r] \in Int
      BY <2>1 DEF TypeOK
    <3>3. t \in Int  BY DEF Quantities
    <3>4. planLimit[r] <= granted[p]  BY <1>1 DEF GrantedInv, Open
    <3> QED  BY <3>1, <3>2, <3>3, <3>4
  <2>4. t - requested[r] <= planLimit[r] - used[p] - reserved[p]
    BY <1>1, <2>3 DEF Remaining, Larger
  <2> QED  BY <1>1, <1>4, <2>2, <2>3, <2>4
<1>7. Ledger!Extend(r, t)
  BY <1>1, <1>3, <1>4, <1>5, <1>6 DEF Ledger!Extend, Phases, Claims
<1> QED  BY <1>7 DEF Ledger!Next, Quantities

LEMMA ReleaseReturns ==
    ASSUME TypeOK, NEW R \in SUBSET Requests, \A r \in R : state[r] = "reserved",
           \A r \in R : state'[r] \in {"released", "expired"},
           \A r \in Requests \ R : state'[r] = state[r],
           requested' = requested, settled' = settled, periodOf' = periodOf,
           granted' = granted
    PROVE  Ledger!Next
<1>1. Phases' = [r \in Requests |-> IF r \in R THEN "returned" ELSE Phases[r]]
  <2>1. \A r \in Requests : Phase(r)' = IF r \in R THEN "returned" ELSE Phases[r]
    BY DEF Phase, Phases
  <2>2. Phases' = [r \in Requests |-> Phase(r)']  BY DEF Phases
  <2> QED  BY <2>1, <2>2
<1>2. Claims' = [r \in Requests |-> IF r \in R THEN 0 ELSE Claims[r]]
  <2>1. \A r \in Requests : Claim(r)' = IF r \in R THEN 0 ELSE Claims[r]
    BY DEF Claim, Claims
  <2>2. Claims' = [r \in Requests |-> Claim(r)']  BY DEF Claims
  <2> QED  BY <2>1, <2>2
<1>3. \A r \in R : Phases[r] = "held"  BY DEF Phases, Phase
<1>4. Ledger!Return(R)  BY <1>1, <1>2, <1>3 DEF Ledger!Return, Phases, Claims
<1> QED  BY <1>4 DEF Ledger!Next

LEMMA ViewStays ==
    ASSUME UNCHANGED rows, granted' = granted
    PROVE  UNCHANGED Ledger!vars
<1>1. \A r \in Requests : Phase(r)' = Phase(r) /\ Claim(r)' = Claim(r)
  BY DEF Phase, Claim, rows
<1>2. [r \in Requests |-> Phase(r)]' = [r \in Requests |-> Phase(r)]  BY <1>1
<1>3. [r \in Requests |-> Claim(r)]' = [r \in Requests |-> Claim(r)]  BY <1>1
<1>4. periodOf' = periodOf  BY DEF rows
<1> QED  BY <1>2, <1>3, <1>4 DEF Ledger!vars

LEMMA InitIsLedger == Init => Ledger!Init
<1> SUFFICES ASSUME Init PROVE Ledger!Init  OBVIOUS
<1>1. \A r \in Requests : Phase(r) = "absent" /\ Claim(r) = 0
  BY DEF Init, Phase, Claim
<1> QED  BY <1>1 DEF Init, Ledger!Init

LEMMA StepIsLedger ==
    TypeOK /\ ChargeWithinHold /\ RowsMatch /\ GrantedInv /\ HoldsCount /\ [Next]_vars
        => [Ledger!Next]_(Ledger!vars)
<1> SUFFICES ASSUME TypeOK, ChargeWithinHold, RowsMatch, GrantedInv, HoldsCount, [Next]_vars
             PROVE  Ledger!Next \/ UNCHANGED Ledger!vars
  OBVIOUS
<1>1. CASE UNCHANGED rows /\ granted' = granted  BY <1>1, ViewStays
<1>2. ASSUME NEW l \in Limits, NEW p \in Periods, ChangeSubscription(l, p)
      PROVE  Ledger!Next \/ UNCHANGED Ledger!vars
  <2> DEFINE P == {q \in Periods : Concerns(p, q) /\ l > granted[q]}
  <2>1. /\ UNCHANGED rows /\ l \in Nat
        /\ granted' = [q \in Periods |->
                          IF Concerns(p, q) THEN Larger(granted[q], l) ELSE granted[q]]
    BY <1>2, LimitsAssumption DEF ChangeSubscription
  <2>2. granted' = [q \in Periods |-> IF q \in P THEN l ELSE granted[q]]
    <3>1. ASSUME NEW q \in Periods
          PROVE  (IF Concerns(p, q) THEN Larger(granted[q], l) ELSE granted[q])
                    = IF q \in P THEN l ELSE granted[q]
      <4>1. granted[q] \in Nat  BY DEF TypeOK
      <4>2. q \in P <=> Concerns(p, q) /\ l > granted[q]  OBVIOUS
      <4>3. CASE Concerns(p, q)
        <5> HIDE DEF P
        <5> QED  BY <2>1, <4>1, <4>2, <4>3 DEF Larger
      <4>4. CASE ~Concerns(p, q)
        <5> HIDE DEF P
        <5> QED  BY <4>2, <4>4
      <4> QED  BY <4>3, <4>4
    <3> HIDE DEF P
    <3> QED  BY <2>1, <3>1, Zenon
  <2>3. UNCHANGED <<Phases, Claims, periodOf>>
    <3>1. \A r \in Requests : Phase(r)' = Phase(r) /\ Claim(r)' = Claim(r)
      BY <2>1 DEF Phase, Claim, rows
    <3>2. periodOf' = periodOf  BY <2>1 DEF rows
    <3> QED  BY <3>1, <3>2 DEF Phases, Claims
  <2>4. P \in SUBSET Periods /\ \A q \in P : l > granted[q]  OBVIOUS
  <2> HIDE DEF P
  <2>5. Ledger!Grant(P, l)
    BY <2>2, <2>3, <2>4 DEF Ledger!Grant, Phases, Claims
  <2> QED  BY <2>4, <2>5 DEF Ledger!Next
<1>3. ASSUME NEW r \in Requests, ReleaseUsage(r) PROVE Ledger!Next
  <2>1. /\ \A x \in {r} : state[x] = "reserved" /\ state'[x] = "released"
        /\ \A x \in Requests \ {r} : state'[x] = state[x]
        /\ requested' = requested /\ settled' = settled /\ periodOf' = periodOf
        /\ granted' = granted
    BY <1>3 DEF ReleaseUsage, Claimable, plan, TypeOK
  <2> QED  BY <2>1, ReleaseReturns
<1>4. ASSUME NEW R \in SUBSET Requests, ExpireStaleReservations(R) PROVE Ledger!Next
  <2>1. /\ \A x \in R : state[x] = "reserved" /\ state'[x] = "expired"
        /\ \A x \in Requests \ R : state'[x] = state[x]
        /\ requested' = requested /\ settled' = settled /\ periodOf' = periodOf
        /\ granted' = granted
    BY <1>4 DEF ExpireStaleReservations, Open, plan
  <2> QED  BY <2>1, ReleaseReturns
<1>5. ASSUME NEW r \in Requests, NEW a \in Quantities,
             SettleUsage(r, a, limit) \/ SettleUsage(r, a, planLimit[r])
      PROVE  Ledger!Next
  <2>1. r \in Open  BY <1>5 DEF SettleUsage, Claimable, Open
  <2>2. /\ limit \in Limits /\ limit <= granted[periodOf[r]]
        /\ planLimit[r] \in Limits /\ planLimit[r] <= granted[periodOf[r]]
    BY <2>1 DEF TypeOK, GrantedInv
  <2> QED  BY <1>5, <2>2, SettleCharges
<1>6. ASSUME NEW R \in SUBSET Requests, TouchActivity(R) PROVE UNCHANGED Ledger!vars
  BY <1>6, ViewStays DEF TouchActivity, plan
<1>7. ASSUME NEW r \in Requests, BecomeStale(r) PROVE UNCHANGED Ledger!vars
  BY <1>7, ViewStays DEF BecomeStale, plan
<1>8. CASE UNCHANGED vars  BY <1>1, <1>8 DEF vars, plan
<1> QED
  BY <1>2, <1>3, <1>4, <1>5, <1>6, <1>7, <1>8, ReserveHolds,
     SupplementExtends DEF Next

\* Metering implements the ledger of claims: whatever the counters let through,
\* the sum of the claims of the period would have let through too.
THEOREM MeteringIsALedger == Spec => ImplementsLedger
<1>1. Spec => []GrantedInv
  <2>1. TypeOK /\ GrantedInv /\ [Next]_vars => GrantedInv'  BY StepGrantedInv
  <2> QED  BY <2>1, InitGrantedInv, Typing, PTL DEF Spec
<1>2. Spec => []HoldsCount
  <2>1. TypeOK /\ HoldsCount /\ [Next]_vars => HoldsCount'  BY StepHoldsCount
  <2> QED  BY <2>1, InitHoldsCount, Typing, PTL DEF Spec
<1>3. TypeOK /\ ChargeWithinHold /\ RowsMatch /\ GrantedInv /\ HoldsCount /\ [Next]_vars
        => [Ledger!Next]_(Ledger!vars)
  BY StepIsLedger
<1> QED
  BY <1>1, <1>2, <1>3, InitIsLedger, Typing, ChargesStayWithinHolds, RowsMatchAlways, PTL
     DEF Spec, ImplementsLedger, Ledger!Spec
=============================================================================
