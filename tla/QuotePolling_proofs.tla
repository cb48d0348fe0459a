------------------------- MODULE QuotePolling_proofs -------------------------
(***************************************************************************)
(* Proofs about QuotePolling, for any finite number of mints and quotes,   *)
(* any batch limits, any capacity and poll interval, however many          *)
(* statements and lookups fail.                                            *)
(***************************************************************************)
EXTENDS QuotePolling, FiniteSetTheorems, SequenceTheorems, TLAPS

-----------------------------------------------------------------------------
(* Sums.                                                                   *)

(* Induction over the subsets of a finite set, for a set of them.          *)
LEMMA SubsetInduction ==
  ASSUME NEW S, IsFiniteSet(S), NEW T,
         \A A \in SUBSET S : (\A B \in SUBSET A : B # A => B \in T) => A \in T
  PROVE  \A A \in SUBSET S : A \in T
<1> SUFFICES ASSUME \E A \in SUBSET S : A \notin T
             PROVE  FALSE
  OBVIOUS
<1> DEFINE others == (SUBSET S) \ T
<1>1. others \subseteq FiniteSubsetsOf(S) /\ others # {}
  BY FS_Subset DEF FiniteSubsetsOf
<1>2. PICK A \in others : \A B \in others : <<B, A>> \notin StrictSubsetOrdering(S)
  <2> HIDE DEF others
  <2>1. IsWellFoundedOn(StrictSubsetOrdering(S), FiniteSubsetsOf(S))
    BY FS_StrictSubsetOrderingWellFounded
  <2>2. QED BY <1>1, <2>1, WFMin
<1>3. \A B \in SUBSET A : B # A => B \in T
  BY <1>2 DEF StrictSubsetOrdering
<1>4. QED BY <1>2, <1>3

(* The element that a fold takes out of a set first.                       *)
First(s) == CHOOSE x \in s : TRUE

LEMMA FirstIsIn ==
  ASSUME NEW s, s # {}
  PROVE  First(s) \in s
  BY DEF First

(* g has the sums of f over the subsets of S.                              *)
AddsUp(g, f, S) ==
  g = [s \in SUBSET S |-> IF s = {} THEN 0 ELSE f[First(s)] + g[s \ {First(s)}]]

LEMMA AddsUpAt ==
  ASSUME NEW f, NEW S, NEW g, AddsUp(g, f, S), NEW s \in SUBSET S
  PROVE  g[s] = IF s = {} THEN 0 ELSE f[First(s)] + g[s \ {First(s)}]
  BY Zenon DEF AddsUp

(* Two such functions agree.                                               *)
LEMMA SumsAgree ==
  ASSUME NEW f, NEW A, NEW B, NEW g, NEW h, NEW S, IsFiniteSet(S),
         AddsUp(g, f, A), AddsUp(h, f, B), S \in SUBSET A, S \in SUBSET B
  PROVE  g[S] = h[S]
<1> DEFINE T == { s \in SUBSET S : g[s] = h[s] }
<1>1. ASSUME NEW s \in SUBSET S, \A r \in SUBSET s : r # s => r \in T
      PROVE  s \in T
  <2>0. s \in SUBSET A /\ s \in SUBSET B
    OBVIOUS
  <2>1. g[s] = IF s = {} THEN 0 ELSE f[First(s)] + g[s \ {First(s)}]
    BY <2>0, AddsUpAt
  <2>2. h[s] = IF s = {} THEN 0 ELSE f[First(s)] + h[s \ {First(s)}]
    BY <2>0, AddsUpAt
  <2>3. s # {} => s \ {First(s)} \in T
    BY <1>1, FirstIsIn
  <2>4. g[s] = h[s]
    BY <2>1, <2>2, <2>3
  <2>5. QED BY <2>4
<1>2. \A s \in SUBSET S : s \in T
  <2> HIDE DEF T
  <2>1. QED BY <1>1, SubsetInduction
<1>3. QED BY <1>2

(* There is such a function.                                               *)
LEMMA SumsExist ==
  ASSUME NEW f, NEW S, IsFiniteSet(S)
  PROVE  \E g : AddsUp(g, f, S)
<1> DEFINE T == { A \in SUBSET S : \E g : AddsUp(g, f, A) }
<1>1. ASSUME NEW A \in SUBSET S, \A B \in SUBSET A : B # A => B \in T
      PROVE  A \in T
  <2> DEFINE sums(B) == CHOOSE g : AddsUp(g, f, B)
             rest(s) == s \ {First(s)}
             g == [s \in SUBSET A |-> IF s = {} THEN 0 ELSE f[First(s)] + sums(rest(s))[rest(s)]]
  <2>1. \A B \in SUBSET A : B # A => AddsUp(sums(B), f, B)
    BY <1>1
  <2>2. \A B \in SUBSET A : IsFiniteSet(B)
    BY FS_Subset
  <2>3. ASSUME NEW s \in SUBSET A, s # A
        PROVE  sums(s)[s] = g[s]
    <3>1. AddsUp(sums(s), f, s) /\ s \in SUBSET s
      BY <2>1, <2>3
    <3> HIDE DEF sums
    <3>2. sums(s)[s] = IF s = {} THEN 0 ELSE f[First(s)] + sums(s)[rest(s)]
      BY <3>1, AddsUpAt
    <3>3. CASE s # {}
      <4>1. rest(s) \in SUBSET A /\ rest(s) # A /\ rest(s) \in SUBSET s
        BY <3>3, FirstIsIn
      <4>2. AddsUp(sums(rest(s)), f, rest(s)) /\ IsFiniteSet(rest(s))
        BY <4>1, <2>1, <2>2
      <4>3. sums(s)[rest(s)] = sums(rest(s))[rest(s)]
        BY <3>1, <4>1, <4>2, SumsAgree
      <4>4. QED BY <3>2, <3>3, <4>3
    <3>4. QED BY <3>2, <3>3
  <2>4. \A s \in SUBSET A : s # {} => rest(s) \in SUBSET A /\ rest(s) # A
    BY FirstIsIn
  <2>5. \A s \in SUBSET A : s # {} => sums(rest(s))[rest(s)] = g[rest(s)]
    <3> HIDE DEF sums, g, rest
    <3>1. QED BY <2>3, <2>4
  <2>6. g = [s \in SUBSET A |-> IF s = {} THEN 0 ELSE f[First(s)] + g[rest(s)]]
    <3> HIDE DEF sums, rest
    <3>1. \A s \in SUBSET A :
            (IF s = {} THEN 0 ELSE f[First(s)] + sums(rest(s))[rest(s)])
              = (IF s = {} THEN 0 ELSE f[First(s)] + g[rest(s)])
      BY <2>5
    <3>2. QED BY <3>1
  <2>7. AddsUp(g, f, A)
    <3> HIDE DEF g
    <3>1. QED BY <2>6 DEF AddsUp
  <2>8. QED BY <2>7
<1>2. \A A \in SUBSET S : A \in T
  <2> HIDE DEF T
  <2>1. QED BY <1>1, SubsetInduction
<1>3. QED BY <1>2

(* SumFunctionOnSet over a finite set satisfies its recursion.             *)
LEMMA SumIsRecursive ==
  ASSUME NEW f, NEW S, IsFiniteSet(S)
  PROVE  SumFunctionOnSet(f, S) =
           IF S = {} THEN 0 ELSE f[First(S)] + SumFunctionOnSet(f, S \ {First(S)})
<1> DEFINE sums(A) == CHOOSE g : AddsUp(g, f, A)
           rest == S \ {First(S)}
<1>1. \A A : SumFunctionOnSet(f, A) = sums(A)[A]
  BY Zenon DEF SumFunctionOnSet, FoldFunctionOnSet, MapThenFoldSet, AddsUp, First
<1>2. IsFiniteSet(rest)
  BY FS_Subset
<1>3. AddsUp(sums(S), f, S) /\ AddsUp(sums(rest), f, rest)
  BY <1>2, SumsExist
<1> HIDE DEF sums
<1>4. sums(S)[S] = IF S = {} THEN 0 ELSE f[First(S)] + sums(S)[rest]
  BY <1>3, AddsUpAt
<1>5. sums(S)[rest] = sums(rest)[rest]
  BY <1>2, <1>3, SumsAgree
<1>6. QED BY <1>1, <1>4, <1>5

LEMMA SumOfNone ==
  ASSUME NEW f
  PROVE  SumFunctionOnSet(f, {}) = 0
  BY SumIsRecursive, FS_EmptySet

(* A sum of naturals is a natural.                                         *)
LEMMA SumType ==
  ASSUME NEW S, IsFiniteSet(S), NEW f, \A x \in S : f[x] \in Nat
  PROVE  SumFunctionOnSet(f, S) \in Nat
<1> DEFINE T == { A \in SUBSET S : SumFunctionOnSet(f, A) \in Nat }
<1>1. ASSUME NEW A \in SUBSET S, \A B \in SUBSET A : B # A => B \in T
      PROVE  A \in T
  <2>1. SumFunctionOnSet(f, A) =
          IF A = {} THEN 0 ELSE f[First(A)] + SumFunctionOnSet(f, A \ {First(A)})
    BY SumIsRecursive, FS_Subset
  <2>2. A # {} => First(A) \in S /\ SumFunctionOnSet(f, A \ {First(A)}) \in Nat
    BY <1>1, FirstIsIn
  <2>3. QED BY <2>1, <2>2
<1>2. \A A \in SUBSET S : A \in T
  <2> HIDE DEF T
  <2>1. QED BY <1>1, SubsetInduction
<1>3. QED BY <1>2

(* Any term may be taken out of a sum, whichever the fold takes first.     *)
LEMMA SumRemove ==
  ASSUME NEW S, IsFiniteSet(S), NEW f, \A x \in S : f[x] \in Nat, NEW z \in S
  PROVE  SumFunctionOnSet(f, S) = f[z] + SumFunctionOnSet(f, S \ {z})
<1> DEFINE Splits(A, x) == SumFunctionOnSet(f, A) = f[x] + SumFunctionOnSet(f, A \ {x})
           T == { A \in SUBSET S : \A x \in A : Splits(A, x) }
<1>1. ASSUME NEW A \in SUBSET S, \A B \in SUBSET A : B # A => B \in T
      PROVE  A \in T
  <2> SUFFICES ASSUME NEW x \in A PROVE Splits(A, x)
    OBVIOUS
  <2> DEFINE y == First(A)
  <2>1. y \in A
    BY FirstIsIn
  <2>2. SumFunctionOnSet(f, A) = f[y] + SumFunctionOnSet(f, A \ {y})
    BY SumIsRecursive, FS_Subset
  <2> HIDE DEF y
  <2>3. CASE x # y
    <3> DEFINE rest == (A \ {x}) \ {y}
    <3>1. SumFunctionOnSet(f, A \ {y}) = f[x] + SumFunctionOnSet(f, (A \ {y}) \ {x})
      BY <1>1, <2>1, <2>3
    <3>2. SumFunctionOnSet(f, A \ {x}) = f[y] + SumFunctionOnSet(f, rest)
      BY <1>1, <2>1, <2>3
    <3>3. (A \ {y}) \ {x} = rest
      OBVIOUS
    <3>4. SumFunctionOnSet(f, rest) \in Nat
      BY SumType, FS_Subset
    <3> HIDE DEF rest
    <3>5. f[x] \in Nat /\ f[y] \in Nat
      BY <2>1
    <3>6. QED BY <2>2, <3>1, <3>2, <3>3, <3>4, <3>5
  <2>4. QED BY <2>2, <2>3
<1>2. \A A \in SUBSET S : A \in T
  <2> HIDE DEF T
  <2>1. QED BY <1>1, SubsetInduction
<1>3. QED BY <1>2

(* A sum depends on its terms only.                                        *)
LEMMA SumOfEqual ==
  ASSUME NEW S, IsFiniteSet(S), NEW f, NEW g, \A x \in S : f[x] = g[x]
  PROVE  SumFunctionOnSet(f, S) = SumFunctionOnSet(g, S)
<1> DEFINE T == { A \in SUBSET S : SumFunctionOnSet(f, A) = SumFunctionOnSet(g, A) }
<1>1. ASSUME NEW A \in SUBSET S, \A B \in SUBSET A : B # A => B \in T
      PROVE  A \in T
  <2> DEFINE rest == A \ {First(A)}
  <2>1. SumFunctionOnSet(f, A) = IF A = {} THEN 0 ELSE f[First(A)] + SumFunctionOnSet(f, rest)
    BY SumIsRecursive, FS_Subset
  <2>2. SumFunctionOnSet(g, A) = IF A = {} THEN 0 ELSE g[First(A)] + SumFunctionOnSet(g, rest)
    BY SumIsRecursive, FS_Subset
  <2>3. A # {} => First(A) \in S /\ SumFunctionOnSet(f, rest) = SumFunctionOnSet(g, rest)
    BY <1>1, FirstIsIn
  <2>4. SumFunctionOnSet(f, A) = SumFunctionOnSet(g, A)
    BY <2>1, <2>2, <2>3
  <2>5. QED BY <2>4
<1>2. \A A \in SUBSET S : A \in T
  <2> HIDE DEF T
  <2>1. QED BY <1>1, SubsetInduction
<1>3. QED BY <1>2

(* A sum of zeros is zero.                                                 *)
LEMMA SumOfZeros ==
  ASSUME NEW S, IsFiniteSet(S), NEW f, \A x \in S : f[x] = 0
  PROVE  SumFunctionOnSet(f, S) = 0
<1> DEFINE T == { A \in SUBSET S : SumFunctionOnSet(f, A) = 0 }
<1>1. ASSUME NEW A \in SUBSET S, \A B \in SUBSET A : B # A => B \in T
      PROVE  A \in T
  <2>1. SumFunctionOnSet(f, A) =
          IF A = {} THEN 0 ELSE f[First(A)] + SumFunctionOnSet(f, A \ {First(A)})
    BY SumIsRecursive, FS_Subset
  <2>2. A # {} => f[First(A)] = 0 /\ SumFunctionOnSet(f, A \ {First(A)}) = 0
    BY <1>1, FirstIsIn
  <2>3. QED BY <2>1, <2>2
<1>2. \A A \in SUBSET S : A \in T
  <2> HIDE DEF T
  <2>1. QED BY <1>1, SubsetInduction
<1>3. QED BY <1>2

(* When the terms at R grow by g, the sum grows by the sum of g.           *)
LEMMA SumOfGrown ==
  ASSUME NEW S, IsFiniteSet(S), NEW R \in SUBSET S,
         NEW f, \A x \in S : f[x] \in Nat, NEW g, \A x \in R : g[x] \in Nat,
         NEW h, \A x \in S : h[x] = IF x \in R THEN f[x] + g[x] ELSE f[x]
  PROVE  SumFunctionOnSet(h, S) = SumFunctionOnSet(f, S) + SumFunctionOnSet(g, R)
<1> DEFINE Grown(A) == SumFunctionOnSet(h, A) =
                         SumFunctionOnSet(f, A) + SumFunctionOnSet(g, A \cap R)
           T == { A \in SUBSET S : Grown(A) }
<1>1. ASSUME NEW A \in SUBSET S, \A B \in SUBSET A : B # A => B \in T
      PROVE  A \in T
  <2>1. CASE A = {}
    <3>1. Grown({})
      BY SumOfNone
    <3>2. QED BY <2>1, <3>1
  <2>2. CASE A # {}
    <3>0. PICK x \in A : TRUE
      BY <2>2
    <3> DEFINE B == A \ {x}
    <3>1. IsFiniteSet(A) /\ IsFiniteSet(B) /\ IsFiniteSet(A \cap R) /\ IsFiniteSet(B \cap R)
      BY FS_Subset
    <3>2. Grown(B)
      BY <1>1, <3>0
    <3>3. SumFunctionOnSet(f, A) = f[x] + SumFunctionOnSet(f, B)
      BY <3>1, SumRemove
    <3>4. SumFunctionOnSet(h, A) = h[x] + SumFunctionOnSet(h, B)
      <4>1. \A y \in A : h[y] \in Nat
        OBVIOUS
      <4>2. QED BY <3>1, <4>1, SumRemove
    <3>5. SumFunctionOnSet(g, A \cap R) =
            IF x \in R THEN g[x] + SumFunctionOnSet(g, B \cap R) ELSE SumFunctionOnSet(g, B \cap R)
      <4>1. CASE x \in R
        <5>1. (A \cap R) \ {x} = B \cap R /\ x \in A \cap R
          BY <4>1
        <5>2. QED BY <3>1, <4>1, <5>1, SumRemove
      <4>2. CASE x \notin R
        <5>1. A \cap R = B \cap R
          BY <4>2
        <5>2. QED BY <4>2, <5>1
      <4>3. QED BY <4>1, <4>2
    <3>6. SumFunctionOnSet(f, B) \in Nat /\ SumFunctionOnSet(g, B \cap R) \in Nat
      BY <3>1, SumType
    <3>7. f[x] \in Nat /\ (x \in R => g[x] \in Nat) /\ h[x] = IF x \in R THEN f[x] + g[x] ELSE f[x]
      OBVIOUS
    <3> HIDE DEF B
    <3>8. Grown(A)
      BY <3>2, <3>3, <3>4, <3>5, <3>6, <3>7
    <3>9. QED BY <3>8
  <2>3. QED BY <2>1, <2>2
<1>2. \A A \in SUBSET S : A \in T
  <2> HIDE DEF T
  <2>1. QED BY <1>1, SubsetInduction
<1>3. S \cap R = R /\ S \in SUBSET S
  OBVIOUS
<1>4. QED BY <1>2, <1>3

(* A sum of terms that are at least one is at least their number.          *)
LEMMA SumAtLeast ==
  ASSUME NEW S, IsFiniteSet(S), NEW f, \A x \in S : f[x] \in Nat \ {0}
  PROVE  SumFunctionOnSet(f, S) >= Cardinality(S)
<1> DEFINE T == { A \in SUBSET S : SumFunctionOnSet(f, A) >= Cardinality(A) }
<1>1. ASSUME NEW A \in SUBSET S, \A B \in SUBSET A : B # A => B \in T
      PROVE  A \in T
  <2> DEFINE y == First(A)
             rest == A \ {y}
  <2>1. IsFiniteSet(A)
    BY FS_Subset
  <2>2. CASE A = {}
    BY <2>2, SumOfNone, FS_EmptySet
  <2>3. CASE A # {}
    <3>1. y \in A
      BY <2>3, FirstIsIn
    <3>2. SumFunctionOnSet(f, A) = f[y] + SumFunctionOnSet(f, rest)
      BY <2>1, <2>3, SumIsRecursive
    <3>3. SumFunctionOnSet(f, rest) >= Cardinality(rest)
      BY <1>1, <3>1
    <3>4. IsFiniteSet(rest) /\ Cardinality(rest) = Cardinality(A) - 1
      BY <2>1, <3>1, FS_RemoveElement
    <3>5. Cardinality(A) \in Nat /\ Cardinality(rest) \in Nat
      BY <2>1, <3>4, FS_CardinalityType
    <3>6. f[y] \in Nat /\ f[y] >= 1
      BY <3>1
    <3>7. SumFunctionOnSet(f, rest) \in Nat
      BY <3>4, SumType
    <3> HIDE DEF y, rest
    <3>8. SumFunctionOnSet(f, A) >= Cardinality(A)
      BY <3>2, <3>3, <3>4, <3>5, <3>6, <3>7
    <3>9. QED BY <3>8
  <2>4. QED BY <2>2, <2>3
<1>2. \A A \in SUBSET S : A \in T
  <2> HIDE DEF T
  <2>1. QED BY <1>1, SubsetInduction
<1>3. S \in T
  BY <1>2
<1>4. QED BY <1>3

-----------------------------------------------------------------------------
(* The division of the capacity.                                           *)

(* Induction over the naturals, for a set of them.                         *)
LEMMA CountUp ==
  ASSUME NEW T, 0 \in T, \A n \in Nat : n \in T => n + 1 \in T
  PROVE  \A n \in Nat : n \in T
<1> SUFFICES ASSUME NEW n \in Nat PROVE n \in T
  OBVIOUS
<1> DEFINE U == { A \in SUBSET (1..n) : \A k \in 0..n : A = 1..k => k \in T }
<1>1. IsFiniteSet(1..n)
  BY FS_Interval
<1>2. ASSUME NEW A \in SUBSET (1..n), \A B \in SUBSET A : B # A => B \in U
      PROVE  A \in U
  <2> SUFFICES ASSUME NEW k \in 0..n, A = 1..k PROVE k \in T
    OBVIOUS
  <2>1. CASE k = 0
    BY <2>1
  <2>2. CASE k # 0
    <3>1. k - 1 \in 0..n /\ k - 1 \in Nat /\ (k - 1) + 1 = k
      BY <2>2
    <3>2. 1..(k - 1) \in SUBSET A /\ 1..(k - 1) # A
      <4>1. k \in A /\ k \notin 1..(k - 1)
        BY <2>2
      <4>2. \A i \in 1..(k - 1) : i \in A
        OBVIOUS
      <4>3. QED BY <4>1, <4>2
    <3>3. k - 1 \in T
      BY <1>2, <3>1, <3>2
    <3>4. QED BY <3>1, <3>3
  <2>3. QED BY <2>1, <2>2
<1>3. \A A \in SUBSET (1..n) : A \in U
  <2> DEFINE S == 1..n
  <2>1. IsFiniteSet(S)
    BY <1>1
  <2>2. ASSUME NEW A \in SUBSET S, \A B \in SUBSET A : B # A => B \in U
        PROVE  A \in U
    BY <1>2, <2>2
  <2> HIDE DEF S, U
  <2>3. \A A \in SUBSET S : A \in U
    BY <2>1, <2>2, SubsetInduction
  <2>4. QED BY <2>3 DEF S
<1>4. 1..n \in U
  <2> HIDE DEF U
  <2>1. QED BY <1>3
<1>5. QED BY <1>4

(* g has the states of the loop after up to k visits.                      *)
DealsUpTo(g, k, limit, queue, amount) ==
  /\ g[0] = Undealt(queue, amount)
  /\ \A n \in Nat : n < k => g[n + 1] = Deal(limit, g[n])

LEMMA DealsAgree ==
  ASSUME NEW limit, NEW queue, NEW amount, NEW g, NEW h, NEW j \in Nat, NEW k \in Nat,
         DealsUpTo(g, j, limit, queue, amount), DealsUpTo(h, k, limit, queue, amount),
         NEW n \in Nat, n <= j, n <= k
  PROVE  g[n] = h[n]
<1> DEFINE T == { i \in Nat : i <= j /\ i <= k => g[i] = h[i] }
<1>1. 0 \in T
  BY DEF DealsUpTo
<1>2. ASSUME NEW i \in Nat, i \in T PROVE i + 1 \in T
  <2> SUFFICES ASSUME i + 1 <= j, i + 1 <= k PROVE g[i + 1] = h[i + 1]
    OBVIOUS
  <2>1. i < j /\ i < k /\ g[i] = h[i]
    BY <1>2
  <2>2. g[i + 1] = Deal(limit, g[i]) /\ h[i + 1] = Deal(limit, h[i])
    BY <2>1 DEF DealsUpTo
  <2>3. QED BY <2>1, <2>2
<1>3. \A i \in Nat : i \in T
  <2> HIDE DEF T
  <2>1. QED BY <1>1, <1>2, CountUp
<1>4. QED BY <1>3

LEMMA DealsExist ==
  ASSUME NEW limit, NEW queue, NEW amount, NEW k \in Nat
  PROVE  \E g : DealsUpTo(g, k, limit, queue, amount)
<1> DEFINE T == { i \in Nat : \E g : DealsUpTo(g, i, limit, queue, amount) }
<1>1. 0 \in T
  <2> DEFINE g == [i \in {0} |-> Undealt(queue, amount)]
  <2>1. DealsUpTo(g, 0, limit, queue, amount)
    BY DEF DealsUpTo
  <2>2. QED BY <2>1
<1>2. ASSUME NEW i \in Nat, i \in T PROVE i + 1 \in T
  <2>1. PICK g : DealsUpTo(g, i, limit, queue, amount)
    BY <1>2
  <2> DEFINE h == [n \in Nat |-> IF n <= i THEN g[n] ELSE Deal(limit, g[i])]
  <2>2. h[0] = Undealt(queue, amount)
    BY <2>1 DEF DealsUpTo
  <2>3. ASSUME NEW n \in Nat, n < i + 1 PROVE h[n + 1] = Deal(limit, h[n])
    <3>1. n <= i /\ h[n] = g[n]
      BY <2>3
    <3>2. CASE n < i
      <4>1. n + 1 <= i /\ h[n + 1] = g[n + 1]
        BY <3>2
      <4>2. QED BY <2>1, <3>1, <3>2, <4>1 DEF DealsUpTo
    <3>3. CASE n = i
      BY <3>1, <3>3
    <3>4. QED BY <3>1, <3>2, <3>3
  <2> HIDE DEF h
  <2>4. DealsUpTo(h, i + 1, limit, queue, amount)
    BY <2>2, <2>3 DEF DealsUpTo
  <2>5. QED BY <2>4
<1>3. \A i \in Nat : i \in T
  <2> HIDE DEF T
  <2>1. QED BY <1>1, <1>2, CountUp
<1>4. QED BY <1>3

(* The only element of a singleton is what is chosen from it.              *)
LEMMA DealIsATurn ==
  ASSUME NEW limit, NEW s
  PROVE  Deal(limit, s) = Turn(limit, s)
<1>1. { Turn(limit, r) : r \in {s} } = { Turn(limit, s) }
  OBVIOUS
<1>2. QED BY <1>1 DEF Deal

(* The loop's states satisfy their recursion.                              *)
LEMMA DealingIsRecursive ==
  ASSUME NEW limit, NEW queue, NEW amount
  PROVE  /\ Dealing(limit, queue, amount)[0] = Undealt(queue, amount)
         /\ \A n \in Nat : Dealing(limit, queue, amount)[n + 1] =
                             Deal(limit, Dealing(limit, queue, amount)[n])
<1> DEFINE upTo(k) == CHOOSE g : DealsUpTo(g, k, limit, queue, amount)
           f == [n \in Nat |-> upTo(n)[n]]
           dealing == Dealing(limit, queue, amount)
           Recursive(g) ==
             g = [n \in Nat |-> IF n = 0 THEN Undealt(queue, amount) ELSE Deal(limit, g[n - 1])]
<1>1. \A k \in Nat : DealsUpTo(upTo(k), k, limit, queue, amount)
  BY DealsExist
<1>2. f[0] = Undealt(queue, amount)
  BY <1>1 DEF DealsUpTo
<1>3. ASSUME NEW n \in Nat PROVE f[n + 1] = Deal(limit, f[n])
  <2>1. /\ DealsUpTo(upTo(n), n, limit, queue, amount)
        /\ DealsUpTo(upTo(n + 1), n + 1, limit, queue, amount)
    BY <1>1
  <2> HIDE DEF upTo
  <2>2. upTo(n + 1)[n] = upTo(n)[n]
    BY <2>1, DealsAgree
  <2>3. upTo(n + 1)[n + 1] = Deal(limit, upTo(n + 1)[n])
    BY <2>1 DEF DealsUpTo
  <2>4. QED BY <2>2, <2>3
<1>4. f = [n \in Nat |-> IF n = 0 THEN Undealt(queue, amount) ELSE Deal(limit, f[n - 1])]
  <2>1. ASSUME NEW n \in Nat
        PROVE  f[n] = IF n = 0 THEN Undealt(queue, amount) ELSE Deal(limit, f[n - 1])
    <3> HIDE DEF f
    <3>1. CASE n = 0
      BY <1>2, <3>1
    <3>2. CASE n # 0
      <4>1. n - 1 \in Nat /\ (n - 1) + 1 = n
        BY <3>2
      <4>2. f[(n - 1) + 1] = Deal(limit, f[n - 1])
        BY <1>3, <4>1
      <4>3. QED BY <3>2, <4>1, <4>2
    <3>3. QED BY <3>1, <3>2
  <2>2. f = [n \in Nat |-> f[n]]
    OBVIOUS
  <2> HIDE DEF f
  <2>3. QED BY <2>1, <2>2
<1>5. Recursive(f)
  <2> HIDE DEF f
  <2>1. QED BY <1>4
<1>6. dealing = CHOOSE g : Recursive(g)
  BY Zenon DEF Dealing
<1> HIDE DEF f, dealing
<1>7. Recursive(dealing)
  <2> HIDE DEF Recursive
  <2>1. QED BY <1>5, <1>6
<1> HIDE DEF Recursive
<1>8. \A n \in Nat :
        dealing[n] = IF n = 0 THEN Undealt(queue, amount) ELSE Deal(limit, dealing[n - 1])
  BY <1>7, Zenon DEF Recursive
<1>9. ASSUME NEW n \in Nat PROVE dealing[n + 1] = Deal(limit, dealing[n])
  <2>1. n + 1 \in Nat /\ n + 1 # 0 /\ (n + 1) - 1 = n
    OBVIOUS
  <2>2. QED BY <1>8, <2>1
<1>10. QED BY <1>8, <1>9 DEF dealing

(* The head of a sequence without repetitions is not in its tail.          *)
LEMMA TailOfDistinct ==
  ASSUME NEW S, NEW q \in Seq(S), q # <<>>, IsInjective(q)
  PROVE  /\ Head(q) \in S /\ Head(q) \in Range(q)
         /\ Tail(q) \in Seq(S) /\ Len(q) \in Nat \ {0} /\ Len(Tail(q)) = Len(q) - 1
         /\ IsInjective(Tail(q))
         /\ Range(Tail(q)) = Range(q) \ {Head(q)}
<1>1. /\ Len(q) \in Nat \ {0} /\ DOMAIN q = 1..Len(q)
      /\ Head(q) = q[1] /\ Tail(q) \in Seq(S) /\ Len(Tail(q)) = Len(q) - 1
      /\ \A i \in 1..Len(Tail(q)) : Tail(q)[i] = q[i + 1]
  BY HeadTailProperties, EmptySeq
<1>2. DOMAIN Tail(q) = 1..(Len(q) - 1)
  BY <1>1
<1> DEFINE t == Tail(q)
<1> HIDE DEF t
<1>3. \A i \in 1..(Len(q) - 1) : i + 1 \in 1..Len(q) /\ t[i] = q[i + 1]
  BY <1>1 DEF t
<1>4. \A i, j \in 1..Len(q) : q[i] = q[j] => i = j
  BY <1>1 DEF IsInjective
<1>5. IsInjective(t)
  <2> SUFFICES ASSUME NEW i \in 1..(Len(q) - 1), NEW j \in 1..(Len(q) - 1), t[i] = t[j]
               PROVE  i = j
    BY <1>2 DEF IsInjective, t
  <2>1. i + 1 = j + 1
    BY <1>3, <1>4
  <2>2. QED BY <2>1
<1>6. Range(t) = Range(q) \ {q[1]}
  <2>1. Range(q) = { q[i] : i \in 1..Len(q) } /\ Range(t) = { t[i] : i \in 1..(Len(q) - 1) }
    BY <1>1, <1>2 DEF Range, t
  <2>2. ASSUME NEW i \in 1..(Len(q) - 1) PROVE t[i] \in Range(q) /\ t[i] # q[1]
    <3>1. 1 \in 1..Len(q) /\ i + 1 # 1
      BY <1>1
    <3>2. QED BY <1>3, <1>4, <2>1, <3>1
  <2>3. ASSUME NEW i \in 1..Len(q), q[i] # q[1] PROVE q[i] \in Range(t)
    <3>1. i - 1 \in 1..(Len(q) - 1) /\ (i - 1) + 1 = i
      BY <1>1, <2>3
    <3>2. t[i - 1] = q[i]
      BY <1>3, <3>1
    <3>3. QED BY <2>1, <3>1, <3>2
  <2>4. QED BY <2>1, <2>2, <2>3
<1>7. q[1] \in Range(q) /\ q[1] \in S
  BY <1>1 DEF Range
<1>8. QED BY <1>1, <1>5, <1>6, <1>7 DEF t

(* A new element keeps a sequence without repetitions.                     *)
LEMMA AppendOfDistinct ==
  ASSUME NEW S, NEW q \in Seq(S), IsInjective(q), NEW m \in S, m \notin Range(q)
  PROVE  /\ Append(q, m) \in Seq(S) /\ Len(Append(q, m)) = Len(q) + 1
         /\ IsInjective(Append(q, m))
         /\ Range(Append(q, m)) = Range(q) \cup {m}
<1> DEFINE a == Append(q, m)
<1>1. /\ Len(q) \in Nat /\ DOMAIN q = 1..Len(q)
      /\ a \in Seq(S) /\ Len(a) = Len(q) + 1 /\ DOMAIN a = 1..(Len(q) + 1)
      /\ \A i \in 1..Len(q) : a[i] = q[i]
      /\ a[Len(q) + 1] = m
  BY AppendProperties
<1> HIDE DEF a
<1>2. \A i, j \in 1..Len(q) : q[i] = q[j] => i = j
  BY <1>1 DEF IsInjective
<1>3. \A i \in 1..Len(q) : q[i] # m
  BY <1>1 DEF Range
<1>4. IsInjective(a)
  <2> SUFFICES ASSUME NEW i \in 1..(Len(q) + 1), NEW j \in 1..(Len(q) + 1), a[i] = a[j]
               PROVE  i = j
    BY <1>1 DEF IsInjective
  <2>1. CASE i \in 1..Len(q) /\ j \in 1..Len(q)
    BY <1>1, <1>2, <2>1
  <2>2. CASE i = Len(q) + 1 \/ j = Len(q) + 1
    BY <1>1, <1>3, <2>2
  <2>3. QED BY <1>1, <2>1, <2>2
<1>5. Range(a) = Range(q) \cup {m}
  <2>1. Range(q) = { q[i] : i \in 1..Len(q) } /\ Range(a) = { a[i] : i \in 1..(Len(q) + 1) }
    BY <1>1 DEF Range
  <2>2. \A i \in 1..Len(q) : i \in 1..(Len(q) + 1)
    BY <1>1
  <2>3. \A i \in 1..(Len(q) + 1) : i \in 1..Len(q) \/ i = Len(q) + 1
    BY <1>1
  <2>4. Len(q) + 1 \in 1..(Len(q) + 1)
    BY <1>1
  <2>5. QED BY <1>1, <2>1, <2>2, <2>3, <2>4
<1>6. QED BY <1>1, <1>4, <1>5 DEF a

(* The loop's states: what has been granted and what remains make up the   *)
(* amount, and a lane below its limit is in one of the two lists, once.    *)
LoopStates(S) == [alloc : [S -> Nat], remaining : Nat, todo : Seq(S), next : Seq(S), share : Nat]

Accounted(limit, S, amount, s) ==
  /\ \A m \in S : s.alloc[m] <= limit[m]
  /\ SumFunctionOnSet(s.alloc, S) + s.remaining = amount

Listed(limit, S, s) ==
  /\ IsInjective(s.todo) /\ IsInjective(s.next)
  /\ Range(s.todo) \cap Range(s.next) = {}
  /\ \A m \in S : m \in Range(s.todo) \/ m \in Range(s.next) \/ s.alloc[m] = limit[m]

(* In a pass that began at a level, the lanes still to be visited are at   *)
(* the level and those of the next pass a share above it; the share fits   *)
(* all lanes of the pass, unless it is a single unit, and in the first     *)
(* pass it does in any case.                                               *)
Levelled(limit, S, s, base) ==
  /\ \A m \in Range(s.todo) : s.alloc[m] = base /\ base < limit[m]
  /\ \A m \in Range(s.next) : s.alloc[m] = base + s.share /\ s.alloc[m] < limit[m]
  /\ \A m \in S : s.alloc[m] <= base + s.share
  /\ s.todo # <<>> => s.share >= 1 /\ (s.share = 1 \/ s.share * Len(s.todo) <= s.remaining)
  /\ base = 0 => Len(s.todo) <= s.remaining
  /\ base + s.share = 0 => Len(s.next) <= s.remaining

LoopInv(limit, S, amount, s) ==
  /\ s \in LoopStates(S)
  /\ Accounted(limit, S, amount, s)
  /\ Listed(limit, S, s)
  /\ \E base \in Nat : Levelled(limit, S, s, base)

(* A share of what remains fits that many lanes, or is a single unit.      *)
LEMMA ShareFits ==
  ASSUME NEW r \in Nat, NEW l \in Nat \ {0}
  PROVE  LET share == Larger(1, r \div l) IN
         share \in Nat /\ share >= 1 /\ (share = 1 \/ share * l <= r)
<1>1. r \div l \in Nat /\ (r \div l) * l <= r
  BY SMTT(20)
<1> DEFINE d == r \div l
<1> HIDE DEF d
<1>2. d \in Nat /\ d * l <= r
  BY <1>1 DEF d
<1>3. LET share == Larger(1, d) IN
      share \in Nat /\ share >= 1 /\ (share = 1 \/ share * l <= r)
  BY <1>2 DEF Larger
<1>4. QED BY <1>3 DEF d

(* A share less is left to one lane less.                                  *)
LEMMA ShareLeft ==
  ASSUME NEW share \in Nat, NEW l \in Nat \ {0}, NEW r \in Nat, NEW g \in Nat,
         g <= share, share * l <= r
  PROVE  share * (l - 1) <= r - g /\ share <= r
  BY SMTT(20)

(* A new pass begins with the lanes that the last one left below their     *)
(* limits, at the level it has brought them to.                            *)
LEMMA NextPassKeeps ==
  ASSUME NEW limit, NEW S, NEW amount, NEW s, LoopInv(limit, S, amount, s), ~Over(s)
  PROVE  LET t == NextPass(s) IN
         LoopInv(limit, S, amount, t) /\ t.todo # <<>> /\ t.remaining = s.remaining
<1> DEFINE share == Larger(1, s.remaining \div Len(s.next))
           t == NextPass(s)
<1>1. s \in LoopStates(S) /\ Accounted(limit, S, amount, s) /\ Listed(limit, S, s)
  BY DEF LoopInv
<1>2. CASE s.todo # <<>>
  BY <1>2 DEF NextPass
<1>3. CASE s.todo = <<>>
  <2>1. s.next # <<>> /\ s.next \in Seq(S) /\ s.remaining \in Nat /\ s.share \in Nat
        /\ s.alloc \in [S -> Nat]
    BY <1>1, <1>3 DEF Over, LoopStates
  <2>2. Len(s.next) \in Nat \ {0}
    BY <2>1, EmptySeq
  <2>3. share \in Nat /\ share >= 1 /\ (share = 1 \/ share * Len(s.next) <= s.remaining)
    BY <2>1, <2>2, ShareFits
  <2> HIDE DEF share
  <2>4. t = [s EXCEPT !.todo = s.next, !.next = <<>>, !.share = share]
    BY <1>3 DEF NextPass, share
  <2>5. <<>> \in Seq(S) /\ Range(<<>>) = {} /\ IsInjective(<<>>) /\ Len(<<>>) = 0
    BY DEF Range, IsInjective
  <2>6. /\ t \in LoopStates(S)
        /\ t.alloc = s.alloc /\ t.remaining = s.remaining
        /\ t.todo = s.next /\ t.next = <<>> /\ t.share = share
    BY <1>1, <2>1, <2>3, <2>4, <2>5 DEF LoopStates
  <2> HIDE DEF t
  <2>7. Accounted(limit, S, amount, t)
    BY <1>1, <2>6 DEF Accounted
  <2>8. Listed(limit, S, t)
    BY <1>1, <1>3, <2>5, <2>6 DEF Listed
  <2>9. PICK base \in Nat : Levelled(limit, S, s, base)
    BY DEF LoopInv
  <2>10. Levelled(limit, S, t, base + s.share)
    <3> DEFINE level == base + s.share
    <3>1. level \in Nat
      BY <2>1
    <3>2. \A m \in Range(s.next) : s.alloc[m] = level /\ level < limit[m]
      BY <2>9 DEF Levelled
    <3>3. \A m \in S : s.alloc[m] <= level /\ s.alloc[m] \in Nat
      BY <2>1, <2>9 DEF Levelled
    <3>4. level = 0 => Len(s.next) <= s.remaining
      BY <2>9 DEF Levelled
    <3> HIDE DEF level
    <3>5. \A m \in S : s.alloc[m] <= level + share
      BY <2>3, <3>1, <3>3
    <3>6. level + share # 0
      BY <2>3, <3>1
    <3>7. Levelled(limit, S, t, level)
      BY <2>3, <2>5, <2>6, <3>2, <3>4, <3>5, <3>6 DEF Levelled
    <3>8. QED BY <3>7 DEF level
  <2>11. base + s.share \in Nat
    BY <2>1
  <2>12. QED BY <2>1, <2>6, <2>7, <2>8, <2>10, <2>11 DEF LoopInv, t
<1>4. QED BY <1>2, <1>3

(* A visit grants a unit at least, and the whole share to a lane that is   *)
(* not full after it.                                                      *)
LEMMA VisitKeeps ==
  ASSUME NEW S, IsFiniteSet(S), NEW limit, \A m \in S : limit[m] \in Nat \ {0},
         NEW amount, NEW s, LoopInv(limit, S, amount, s), s.todo # <<>>, s.remaining # 0
  PROVE  LET t == Visit(limit, s) IN
         LoopInv(limit, S, amount, t) /\ t.remaining < s.remaining
<1> DEFINE m == Head(s.todo)
           granted == Smaller(limit[m] - s.alloc[m], Smaller(s.share, s.remaining))
           rest == IF s.alloc[m] + granted < limit[m] THEN Append(s.next, m) ELSE s.next
           t == Visit(limit, s)
<1>1. s \in LoopStates(S) /\ Accounted(limit, S, amount, s) /\ Listed(limit, S, s)
  BY DEF LoopInv
<1>2. /\ s.alloc \in [S -> Nat] /\ s.remaining \in Nat /\ s.share \in Nat
      /\ s.todo \in Seq(S) /\ s.next \in Seq(S)
  BY <1>1 DEF LoopStates
<1>3. PICK base \in Nat : Levelled(limit, S, s, base)
  BY DEF LoopInv
<1>4. /\ m \in S /\ m \in Range(s.todo)
      /\ Tail(s.todo) \in Seq(S) /\ Len(s.todo) \in Nat \ {0} /\ Len(Tail(s.todo)) = Len(s.todo) - 1
      /\ IsInjective(Tail(s.todo)) /\ Range(Tail(s.todo)) = Range(s.todo) \ {m}
  BY <1>1, <1>2, TailOfDistinct DEF Listed
<1> HIDE DEF m
<1>5. /\ s.alloc[m] = base /\ s.alloc[m] \in Nat /\ limit[m] \in Nat /\ s.alloc[m] < limit[m]
      /\ s.share >= 1 /\ (s.share = 1 \/ s.share * Len(s.todo) <= s.remaining)
  BY <1>2, <1>3, <1>4 DEF Levelled
<1>6. /\ granted \in Nat /\ granted >= 1 /\ granted <= s.share /\ granted <= s.remaining
      /\ s.alloc[m] + granted <= limit[m]
  BY <1>2, <1>5 DEF Smaller
<1>7. s.alloc[m] + granted < limit[m] => granted = s.share
  <2>1. s.share = 1 \/ s.share <= s.remaining
    BY <1>2, <1>4, <1>5, <1>6, ShareLeft
  <2>2. QED BY <1>2, <1>5, <2>1 DEF Smaller
<1> HIDE DEF granted
<1>8. /\ s.share = 1 \/ s.share * (Len(s.todo) - 1) <= s.remaining - granted
      /\ Len(s.todo) <= s.remaining => Len(s.todo) - 1 <= s.remaining - granted
  <2>1. s.share * Len(s.todo) <= s.remaining =>
          s.share * (Len(s.todo) - 1) <= s.remaining - granted
    BY <1>2, <1>4, <1>6, ShareLeft
  <2>2. s.share = 1 => granted = 1
    BY <1>2, <1>6
  <2>3. s.share * (Len(s.todo) - 1) <= s.remaining - granted =>
          Len(s.todo) - 1 <= s.remaining - granted
    <3> DEFINE l == Len(s.todo) - 1
               r == s.remaining - granted
    <3>1. l \in Nat /\ r \in Nat /\ s.share \in Nat \ {0}
      BY <1>2, <1>4, <1>5, <1>6
    <3> HIDE DEF l, r
    <3>2. s.share * l <= r => l <= r
      BY <3>1, SMTT(20)
    <3>3. QED BY <3>2 DEF l, r
  <2>4. QED BY <1>2, <1>4, <1>5, <1>6, <2>1, <2>2, <2>3
<1>9. /\ rest \in Seq(S) /\ IsInjective(rest)
      /\ Range(rest) = IF s.alloc[m] + granted < limit[m] THEN Range(s.next) \cup {m} ELSE Range(s.next)
  <2>1. IsInjective(s.next) /\ m \notin Range(s.next)
    BY <1>1, <1>4 DEF Listed
  <2>2. QED BY <1>2, <1>4, <2>1, AppendOfDistinct
<1> HIDE DEF rest
<1>10. t = [s EXCEPT !.alloc = [s.alloc EXCEPT ![m] = @ + granted],
                     !.remaining = @ - granted,
                     !.todo = Tail(@),
                     !.next = rest]
  BY DEF Visit, m, granted, rest
<1>11. /\ t \in LoopStates(S)
       /\ t.alloc = [s.alloc EXCEPT ![m] = s.alloc[m] + granted]
       /\ t.remaining = s.remaining - granted /\ t.remaining \in Nat
       /\ t.todo = Tail(s.todo) /\ t.next = rest /\ t.share = s.share
  <2>1. s.remaining - granted \in Nat
    BY <1>2, <1>6
  <2>2. [s.alloc EXCEPT ![m] = s.alloc[m] + granted] \in [S -> Nat]
    BY <1>2, <1>4, <1>6
  <2> HIDE DEF t
  <2>3. QED BY <1>1, <1>2, <1>4, <1>9, <1>10, <2>1, <2>2 DEF LoopStates
<1> HIDE DEF t
<1>12. /\ t.alloc \in [S -> Nat] /\ t.alloc[m] = s.alloc[m] + granted
       /\ \A x \in S \ {m} : t.alloc[x] = s.alloc[x]
  BY <1>2, <1>4, <1>6, <1>11
<1>13. Accounted(limit, S, amount, t)
  <2> DEFINE others == SumFunctionOnSet(s.alloc, S \ {m})
  <2>1. IsFiniteSet(S \ {m})
    BY FS_Subset
  <2>2. SumFunctionOnSet(s.alloc, S) = s.alloc[m] + others
    BY <1>2, <1>4, SumRemove
  <2>3. SumFunctionOnSet(t.alloc, S) = t.alloc[m] + SumFunctionOnSet(t.alloc, S \ {m})
    BY <1>4, <1>12, SumRemove
  <2>4. SumFunctionOnSet(t.alloc, S \ {m}) = others
    BY <1>12, <2>1, SumOfEqual
  <2>5. others \in Nat
    BY <1>2, <2>1, SumType
  <2> HIDE DEF others
  <2>6. SumFunctionOnSet(t.alloc, S) + t.remaining = SumFunctionOnSet(s.alloc, S) + s.remaining
    BY <1>2, <1>5, <1>6, <1>11, <1>12, <2>2, <2>3, <2>4, <2>5
  <2>7. SumFunctionOnSet(t.alloc, S) + t.remaining = amount
    BY <1>1, <2>6 DEF Accounted
  <2>8. \A x \in S : t.alloc[x] <= limit[x]
    BY <1>1, <1>6, <1>12 DEF Accounted
  <2>9. QED BY <2>7, <2>8 DEF Accounted
<1>14. Listed(limit, S, t)
  <2>1. Range(t.todo) \cap Range(t.next) = {}
    BY <1>1, <1>4, <1>9, <1>11 DEF Listed
  <2>2. ASSUME NEW x \in S
        PROVE  x \in Range(t.todo) \/ x \in Range(t.next) \/ t.alloc[x] = limit[x]
    <3>1. CASE x = m
      <4>1. CASE s.alloc[m] + granted < limit[m]
        BY <1>9, <1>11, <3>1, <4>1
      <4>2. CASE ~(s.alloc[m] + granted < limit[m])
        <5>1. s.alloc[m] + granted = limit[m]
          BY <1>5, <1>6, <4>2
        <5>2. QED BY <1>12, <3>1, <5>1
      <4>3. QED BY <4>1, <4>2
    <3>2. CASE x # m
      BY <1>1, <1>4, <1>9, <1>11, <1>12, <3>2 DEF Listed
    <3>3. QED BY <3>1, <3>2
  <2>3. QED BY <1>4, <1>9, <1>11, <2>1, <2>2 DEF Listed
<1>15. Levelled(limit, S, t, base)
  <2>1. \A x \in Range(t.todo) : x \in S /\ x # m /\ t.alloc[x] = base /\ base < limit[x]
    <3>1. \A x \in Range(s.todo) : x \in S
      BY <1>2 DEF Range
    <3>2. QED BY <1>3, <1>4, <1>11, <1>12, <3>1 DEF Levelled
  <2>2. \A x \in Range(t.next) : t.alloc[x] = base + t.share /\ t.alloc[x] < limit[x]
    <3>1. \A x \in Range(s.next) : x \in S /\ x # m
      <4>1. \A x \in Range(s.next) : x \in S
        BY <1>2 DEF Range
      <4>2. m \notin Range(s.next)
        BY <1>1, <1>4 DEF Listed
      <4>3. QED BY <4>1, <4>2
    <3>2. \A x \in Range(s.next) : t.alloc[x] = base + t.share /\ t.alloc[x] < limit[x]
      BY <1>3, <1>11, <1>12, <3>1 DEF Levelled
    <3>3. s.alloc[m] + granted < limit[m] => t.alloc[m] = base + t.share /\ t.alloc[m] < limit[m]
      BY <1>5, <1>7, <1>11, <1>12
    <3>4. QED BY <1>9, <1>11, <3>2, <3>3
  <2>3. \A x \in S : t.alloc[x] <= base + t.share
    <3>1. t.alloc[m] <= base + t.share
      BY <1>2, <1>5, <1>6, <1>11, <1>12
    <3>2. QED BY <1>3, <1>11, <1>12, <3>1 DEF Levelled
  <2>4. t.share >= 1 /\ (t.share = 1 \/ t.share * Len(t.todo) <= t.remaining)
    BY <1>4, <1>5, <1>8, <1>11
  <2>5. base = 0 => Len(t.todo) <= t.remaining
    BY <1>3, <1>4, <1>8, <1>11 DEF Levelled
  <2>6. base + t.share # 0
    BY <1>2, <1>5, <1>11
  <2>7. QED BY <2>1, <2>2, <2>3, <2>4, <2>5, <2>6 DEF Levelled
<1>16. t.remaining < s.remaining
  BY <1>2, <1>6, <1>11
<1>17. QED BY <1>11, <1>13, <1>14, <1>15, <1>16 DEF LoopInv, t

(* When the loop is over, nothing is left that a lane could use, and no    *)
(* lane below its limit is more than a unit behind.                        *)
LEMMA OverIsEven ==
  ASSUME NEW S, IsFiniteSet(S), NEW limit, \A m \in S : limit[m] \in Nat \ {0},
         NEW amount \in Nat, NEW s, LoopInv(limit, S, amount, s), Over(s)
  PROVE  s.alloc \in EvenShares(limit, S, amount)
<1>1. s \in LoopStates(S) /\ Accounted(limit, S, amount, s) /\ Listed(limit, S, s)
  BY DEF LoopInv
<1>2. /\ s.alloc \in [S -> Nat] /\ s.remaining \in Nat /\ s.share \in Nat
      /\ s.todo \in Seq(S) /\ s.next \in Seq(S)
  BY <1>1 DEF LoopStates
<1>3. PICK base \in Nat : Levelled(limit, S, s, base)
  BY DEF LoopInv
<1>4. \A q \in Seq(S) : q = <<>> \/ Len(q) \in Nat \ {0}
  BY EmptySeq
<1>5. \A q \in Seq(S) : Len(q) <= 0 => q = <<>>
  BY <1>4
<1>6. Range(<<>>) = {}
  BY DEF Range
<1>7. \A m \in S : s.alloc[m] \in Nat /\ limit[m] \in Nat /\ s.alloc[m] <= limit[m]
  BY <1>1, <1>2 DEF Accounted
<1>8. \A m \in S : s.alloc[m] >= 1
  <2> SUFFICES ASSUME NEW m \in S PROVE s.alloc[m] # 0
    BY <1>7
  <2>1. CASE s.alloc[m] = limit[m]
    BY <2>1
  <2>2. CASE s.alloc[m] # limit[m] /\ base # 0
    BY <1>1, <1>2, <1>3, <2>2 DEF Listed, Levelled
  <2>3. CASE s.alloc[m] # limit[m] /\ base = 0
    <3>1. m \in Range(s.todo) \/ m \in Range(s.next)
      BY <1>1, <2>3 DEF Listed
    <3>2. s.remaining = 0
      BY <1>6, <3>1 DEF Over
    <3>3. s.todo = <<>>
      BY <1>2, <1>3, <1>5, <2>3, <3>2 DEF Levelled
    <3>4. m \in Range(s.next) /\ s.alloc[m] = s.share
      BY <1>2, <1>3, <1>6, <2>3, <3>1, <3>3 DEF Levelled
    <3>5. s.share = 0 => s.next = <<>>
      BY <1>2, <1>3, <1>5, <2>3, <3>2 DEF Levelled
    <3>6. QED BY <1>6, <3>4, <3>5
  <2>4. QED BY <2>1, <2>2, <2>3
<1>9. SumFunctionOnSet(s.alloc, S) \in Nat /\ SumFunctionOnSet(limit, S) \in Nat
  BY <1>7, SumType
<1>10. SumFunctionOnSet(s.alloc, S) + s.remaining = amount
  BY <1>1 DEF Accounted
<1>11. \A m \in S : s.alloc[m] <= amount
  <2> SUFFICES ASSUME NEW m \in S PROVE s.alloc[m] <= amount
    OBVIOUS
  <2>1. SumFunctionOnSet(s.alloc, S) = s.alloc[m] + SumFunctionOnSet(s.alloc, S \ {m})
    BY <1>7, SumRemove
  <2>2. SumFunctionOnSet(s.alloc, S \ {m}) \in Nat
    <3>1. IsFiniteSet(S \ {m})
      BY FS_Subset
    <3>2. QED BY <1>7, <3>1, SumType
  <2>3. QED BY <1>2, <1>7, <1>10, <2>1, <2>2
<1>12. SumFunctionOnSet(s.alloc, S) <= SumFunctionOnSet(limit, S)
  <2> DEFINE room == [m \in S |-> limit[m] - s.alloc[m]]
  <2>1. \A m \in S : room[m] \in Nat
    BY <1>7
  <2>2. \A m \in S : limit[m] = IF m \in S THEN s.alloc[m] + room[m] ELSE s.alloc[m]
    BY <1>7
  <2>3. \A m \in S : s.alloc[m] \in Nat
    BY <1>7
  <2> HIDE DEF room
  <2>4. SumFunctionOnSet(limit, S) = SumFunctionOnSet(s.alloc, S) + SumFunctionOnSet(room, S)
    <3>1. S \in SUBSET S
      OBVIOUS
    <3>2. QED BY <2>1, <2>2, <2>3, <3>1, SumOfGrown
  <2>5. SumFunctionOnSet(room, S) \in Nat
    BY <2>1, SumType
  <2>6. QED BY <1>9, <2>4, <2>5
<1>13. s.remaining # 0 => \A m \in S : s.alloc[m] = limit[m]
  BY <1>1, <1>6 DEF Over, Listed
<1>14. SumFunctionOnSet(s.alloc, S) = Smaller(amount, SumFunctionOnSet(limit, S))
  <2>1. CASE s.remaining = 0
    <3>1. SumFunctionOnSet(s.alloc, S) = amount
      BY <1>9, <1>10, <2>1
    <3>2. QED BY <1>9, <1>12, <3>1 DEF Smaller
  <2>2. CASE s.remaining # 0
    <3>1. SumFunctionOnSet(s.alloc, S) = SumFunctionOnSet(limit, S)
      BY <1>13, <2>2, SumOfEqual
    <3>2. SumFunctionOnSet(s.alloc, S) <= amount
      BY <1>2, <1>9, <1>10
    <3>3. QED BY <1>9, <3>1, <3>2 DEF Smaller
  <2>3. QED BY <2>1, <2>2
<1>15. ASSUME NEW m \in S, NEW x \in S, s.alloc[m] < limit[m]
       PROVE  s.alloc[x] <= s.alloc[m] + 1
  <2>1. s.remaining = 0
    BY <1>7, <1>13, <1>15
  <2>2. s.alloc[x] <= base + s.share
    BY <1>3 DEF Levelled
  <2>3. CASE m \in Range(s.todo)
    <3>1. s.todo # <<>>
      BY <1>6, <2>3
    <3>2. s.alloc[m] = base /\ s.share >= 1 /\ (s.share = 1 \/ s.share * Len(s.todo) <= 0)
      BY <1>3, <2>1, <2>3, <3>1 DEF Levelled
    <3>3. Len(s.todo) \in Nat \ {0}
      BY <1>2, <1>4, <3>1
    <3>4. s.share = 1
      <4> DEFINE l == Len(s.todo)
                 c == s.share
      <4>1. l \in Nat \ {0} /\ c \in Nat /\ c >= 1 /\ (c = 1 \/ c * l <= 0)
        BY <1>2, <3>2, <3>3
      <4> HIDE DEF l, c
      <4>2. c = 1
        BY <4>1, SMTT(20)
      <4>3. QED BY <4>2 DEF c
    <3>5. QED BY <2>2, <3>2, <3>4
  <2>4. CASE m \in Range(s.next)
    <3>1. s.alloc[m] = base + s.share
      BY <1>3, <2>4 DEF Levelled
    <3>2. QED BY <1>7, <2>2, <3>1
  <2>5. QED BY <1>1, <1>7, <1>15, <2>3, <2>4 DEF Listed
<1>16. SumFunction(s.alloc) = SumFunctionOnSet(s.alloc, S)
  BY <1>2 DEF SumFunction
<1>17. s.alloc \in [S -> 1..amount]
  BY <1>2, <1>7, <1>8, <1>11
<1>18. QED BY <1>7, <1>14, <1>15, <1>16, <1>17 DEF EvenShares

(* The division of the capacity is even, for any lanes, limits and amount  *)
(* that has a unit for each lane: each gets one at least and no more than  *)
(* its limit, nothing that a lane could use is left over, and a lane below *)
(* its limit has at most one unit less than any other.                     *)
THEOREM SplitIsFair ==
  ASSUME NEW S, IsFiniteSet(S), NEW limit, \A m \in S : limit[m] \in Nat \ {0},
         NEW queue \in Seq(S), IsInjective(queue), Range(queue) = S,
         NEW amount \in Nat, Len(queue) <= amount
  PROVE  Split(limit, queue, amount) \in EvenShares(limit, S, amount)
<1> DEFINE dealing == Dealing(limit, queue, amount)
<1>1. dealing[0] = Undealt(queue, amount) /\ \A n \in Nat : dealing[n + 1] = Deal(limit, dealing[n])
  <2>1. dealing[0] = Undealt(queue, amount)
    BY DealingIsRecursive
  <2>2. \A n \in Nat : dealing[n + 1] = Deal(limit, dealing[n])
    BY DealingIsRecursive
  <2>3. QED BY <2>1, <2>2
<1> HIDE DEF dealing
<1> DEFINE Good(n, s) == LoopInv(limit, S, amount, s) /\ (Over(s) \/ s.remaining + n <= amount)
           T == { n \in Nat : Good(n, dealing[n]) }
<1>2. 0 \in T
  <2> DEFINE s == Undealt(queue, amount)
             none == [m \in S |-> 0]
  <2>1. s = [alloc |-> none, remaining |-> amount, todo |-> <<>>, next |-> queue, share |-> 0]
    BY DEF Undealt
  <2>2. none \in [S -> Nat] /\ \A m \in S : none[m] = 0
    OBVIOUS
  <2> HIDE DEF none
  <2>3. /\ s \in LoopStates(S)
        /\ s.alloc = none /\ s.remaining = amount /\ s.todo = <<>> /\ s.next = queue /\ s.share = 0
    BY <2>1, <2>2 DEF LoopStates
  <2> HIDE DEF s
  <2>4. Accounted(limit, S, amount, s)
    <3>1. SumFunctionOnSet(none, S) = 0
      BY <2>2, SumOfZeros
    <3>2. QED BY <2>2, <2>3, <3>1 DEF Accounted
  <2>5. Range(<<>>) = {} /\ IsInjective(<<>>) /\ Len(<<>>) = 0
    BY DEF Range, IsInjective
  <2>6. Listed(limit, S, s)
    BY <2>3, <2>5 DEF Listed
  <2>7. Levelled(limit, S, s, 0)
    BY <2>2, <2>3, <2>5 DEF Levelled
  <2>8. Good(0, s)
    BY <2>3, <2>4, <2>6, <2>7 DEF LoopInv
  <2>9. QED BY <1>1, <2>8 DEF s
<1>3. ASSUME NEW n \in Nat, n \in T PROVE n + 1 \in T
  <2> DEFINE s == dealing[n]
             t == NextPass(s)
             u == Visit(limit, t)
  <2>1. Good(n, s) /\ dealing[n + 1] = Deal(limit, s)
    BY <1>1, <1>3
  <2> HIDE DEF s
  <2>2. CASE Over(s)
    BY <2>1, <2>2, DealIsATurn DEF Turn
  <2>3. CASE ~Over(s)
    <3>1. LoopInv(limit, S, amount, t) /\ t.todo # <<>> /\ t.remaining = s.remaining
      BY <2>1, <2>3, NextPassKeeps
    <3>2. t.remaining # 0
      BY <2>3, <3>1 DEF Over
    <3>3. dealing[n + 1] = u
      BY <2>1, <2>3, DealIsATurn DEF Turn
    <3> HIDE DEF t
    <3>4. LoopInv(limit, S, amount, u) /\ u.remaining < t.remaining
      BY <3>1, <3>2, VisitKeeps
    <3> HIDE DEF u
    <3>5. u.remaining \in Nat /\ t.remaining \in Nat
      BY <3>1, <3>4 DEF LoopInv, LoopStates
    <3>6. u.remaining + (n + 1) <= amount
      BY <2>1, <2>3, <3>1, <3>4, <3>5
    <3>7. QED BY <3>3, <3>4, <3>6
  <2>4. QED BY <2>2, <2>3
<1>4. \A n \in Nat : n \in T
  <2> HIDE DEF T
  <2>1. QED BY <1>2, <1>3, CountUp
<1>5. LoopInv(limit, S, amount, dealing[amount]) /\ Over(dealing[amount])
  <2>1. Good(amount, dealing[amount])
    BY <1>4
  <2>2. dealing[amount].remaining \in Nat
    BY <2>1 DEF LoopInv, LoopStates
  <2>3. QED BY <2>1, <2>2 DEF Over
<1>6. dealing[amount].alloc \in EvenShares(limit, S, amount)
  BY <1>5, OverIsEven
<1>7. QED BY <1>6 DEF Split, dealing

-----------------------------------------------------------------------------
(* The parts of the type invariant that different actions disturb.         *)
RoundTypes ==
  /\ service \in {"new", "starting", "started", "stopping", "stopped"}
  /\ timer \in BOOLEAN
  /\ round \in {"none", "listing", "settling"}
  /\ cutoff \subseteq Quotes
  /\ discovered \subseteq Mints
  /\ skipped \subseteq Mints
  /\ found \in BOOLEAN

LaneTypes ==
  /\ lane \in [Mints -> Stage]
  /\ claimed \in [Mints -> BOOLEAN]
  /\ held \in [Mints -> Nat]
  /\ batch \in [Mints -> SUBSET Quotes]
  /\ waited \subseteq Mints

CapacityTypes ==
  /\ resident \in Nat
  /\ waiters \in Seq(Mints)
  /\ drain \in BOOLEAN

RowTypes ==
  /\ row \in [Quotes -> {"absent", "UNPAID", "closed"}]
  /\ age \in [Quotes -> 0..Never]
  /\ faults \in 0..MaxFaults

(* These parts make up the type invariant.                                 *)
LEMMA TypeParts == TypeOK <=> RoundTypes /\ LaneTypes /\ CapacityTypes /\ RowTypes
  BY DEF TypeOK, RoundTypes, LaneTypes, CapacityTypes, RowTypes

(* The service runs rounds from its start to its stop, the timer only      *)
(* between two of them.                                                    *)
ServiceInv ==
  /\ service \in {"new", "stopped"} => round = "none"
  /\ service \in {"starting", "stopping"} => round # "none"
  /\ timer => service = "started" /\ round = "none"

(* Lanes run only for mints that the pass in progress has discovered.      *)
DiscoveryInv ==
  /\ round = "none" => discovered = {}
  /\ \A m \in Mints : lane[m] # "off" => m \in discovered

(* What a pass may claim has been due since it began.                      *)
CutoffInv == \A q \in cutoff : age[q] >= Interval

(* A lane holds capacity from the grant to the end of its claim, and the   *)
(* claim is of quotes of its mint.                                         *)
GrantInv ==
  \A m \in Mints :
    /\ lane[m] \notin {"granted", "polling"} => held[m] = 0
    /\ lane[m] # "polling" => batch[m] = {}
    /\ \A q \in batch[m] : MintOf[q] = m
    /\ Cardinality(batch[m]) <= held[m]

(* The queue holds the lanes that await capacity, each once.               *)
QueueInv ==
  /\ \A i, j \in DOMAIN waiters : waiters[i] = waiters[j] => i = j
  /\ \A m \in Mints : lane[m] = "reserving" <=> \E i \in DOMAIN waiters : waiters[i] = m

(* The budget is what the lanes hold.                                      *)
AccountInv == resident = SumFunctionOnSet(held, Mints) /\ resident <= MaxResident

PollingInv ==
  /\ RoundTypes /\ LaneTypes /\ CapacityTypes /\ RowTypes
  /\ ServiceInv
  /\ DiscoveryInv
  /\ CutoffInv
  /\ GrantInv
  /\ QueueInv
  /\ AccountInv

-----------------------------------------------------------------------------
(* Capacity goes and comes.                                                *)

(* What a lane gives back leaves its share and the budget.                 *)
LEMMA ReleaseKeeps ==
  ASSUME PollingInv, NEW m \in Mints, NEW n \in Nat, n <= held[m], Release(m, n)
  PROVE  /\ held' \in [Mints -> Nat] /\ resident' \in Nat
         /\ held'[m] = held[m] - n
         /\ \A x \in Mints \ {m} : held'[x] = held[x]
         /\ AccountInv'
<1> DEFINE others == SumFunctionOnSet(held, Mints \ {m})
<1>1. IsFiniteSet(Mints) /\ IsFiniteSet(Mints \ {m})
  BY PollingAssumption, FS_Subset
<1>2. held \in [Mints -> Nat] /\ held[m] \in Nat
  BY DEF PollingInv, LaneTypes
<1>3. /\ held' \in [Mints -> Nat]
      /\ held'[m] = held[m] - n
      /\ \A x \in Mints \ {m} : held'[x] = held[x]
  BY <1>2 DEF Release
<1>4. SumFunctionOnSet(held, Mints) = held[m] + others
  BY <1>1, <1>2, SumRemove
<1>5. SumFunctionOnSet(held', Mints) = held'[m] + SumFunctionOnSet(held', Mints \ {m})
  BY <1>1, <1>3, SumRemove
<1>6. SumFunctionOnSet(held', Mints \ {m}) = others
  BY <1>1, <1>3, SumOfEqual
<1>7. others \in Nat
  BY <1>1, <1>2, SumType
<1> HIDE DEF others
<1>8. resident' = resident - n /\ resident = SumFunctionOnSet(held, Mints) /\ resident <= MaxResident
  BY DEF Release, PollingInv, AccountInv
<1>9. resident' \in Nat /\ resident' = SumFunctionOnSet(held', Mints) /\ resident' <= MaxResident
  BY <1>2, <1>3, <1>4, <1>5, <1>6, <1>7, <1>8, PollingAssumption
<1>10. QED BY <1>3, <1>9 DEF AccountInv

(* A lane that asks for capacity joins the queue; one that leaves does not. *)
LEMMA ReserveKeeps ==
  ASSUME PollingInv, NEW m \in Mints, lane[m] \notin {"reserving", "off"}, ReserveOrLeave(m)
  PROVE  /\ lane' \in [Mints -> Stage] /\ waiters' \in Seq(Mints)
         /\ lane'[m] \in {"reserving", "leaving"}
         /\ \A x \in Mints \ {m} : lane'[x] = lane[x]
         /\ QueueInv'
<1>1. lane \in [Mints -> Stage] /\ waiters \in Seq(Mints) /\ QueueInv
  BY DEF PollingInv, LaneTypes, CapacityTypes
<1>2. CASE Aborted
  <2>1. lane' = [lane EXCEPT ![m] = "leaving"] /\ waiters' = waiters
    BY <1>2 DEF ReserveOrLeave
  <2>2. QED BY <1>1, <2>1 DEF QueueInv, Stage
<1>3. CASE ~Aborted
  <2>1. lane' = [lane EXCEPT ![m] = "reserving"] /\ waiters' = Append(waiters, m)
    BY <1>3 DEF ReserveOrLeave
  <2>2. /\ waiters' \in Seq(Mints)
        /\ DOMAIN waiters = 1..Len(waiters) /\ DOMAIN waiters' = 1..(Len(waiters) + 1)
        /\ \A i \in 1..Len(waiters) : waiters'[i] = waiters[i]
        /\ waiters'[Len(waiters) + 1] = m
        /\ Len(waiters) \in Nat
    BY <1>1, <2>1, AppendProperties
  <2>3. \A i \in DOMAIN waiters : waiters[i] # m
    BY <1>1 DEF QueueInv
  <2>4. \A i, j \in DOMAIN waiters' : waiters'[i] = waiters'[j] => i = j
    <3> SUFFICES ASSUME NEW i \in DOMAIN waiters', NEW j \in DOMAIN waiters',
                        waiters'[i] = waiters'[j]
                 PROVE  i = j
      OBVIOUS
    <3>1. CASE i \in DOMAIN waiters /\ j \in DOMAIN waiters
      BY <3>1, <2>2, <1>1 DEF QueueInv
    <3>2. CASE i \notin DOMAIN waiters \/ j \notin DOMAIN waiters
      BY <3>2, <2>2, <2>3
    <3>3. QED BY <3>1, <3>2
  <2>5. \A x \in Mints : lane'[x] = "reserving" <=> \E i \in DOMAIN waiters' : waiters'[i] = x
    <3> SUFFICES ASSUME NEW x \in Mints
                 PROVE  lane'[x] = "reserving" <=> \E i \in DOMAIN waiters' : waiters'[i] = x
      OBVIOUS
    <3>1. CASE x = m
      BY <3>1, <1>1, <2>1, <2>2
    <3>2. CASE x # m
      <4>1. lane'[x] = lane[x]
        BY <3>2, <1>1, <2>1
      <4>2. (\E i \in DOMAIN waiters' : waiters'[i] = x) <=> \E i \in DOMAIN waiters : waiters[i] = x
        BY <3>2, <2>2
      <4>3. QED BY <4>1, <4>2, <1>1 DEF QueueInv
    <3>3. QED BY <3>1, <3>2
  <2>6. QED BY <1>1, <2>1, <2>2, <2>4, <2>5 DEF QueueInv, Stage
<1>4. QED BY <1>2, <1>3

(* What may be handed out leaves a unit for each lane that still asks for  *)
(* its mint's capabilities.                                                *)
LEMMA RoomIsLeft ==
  ASSUME PollingInv
  PROVE  LET asking == Cardinality({ m \in Mints : lane[m] = "support" }) IN
         /\ asking \in Nat
         /\ Allocatable \in Nat
         /\ Allocatable > 0 => Allocatable + asking <= MaxResident - resident
<1> DEFINE waiting == { waiters[i] : i \in DOMAIN waiters }
           unready == { m \in ActiveLanes : held[m] = 0 /\ m \notin waiting }
           asking == { m \in Mints : lane[m] = "support" }
           available == MaxResident - resident
<1>1. Allocatable = IF available > Cardinality(unready) THEN available - Cardinality(unready) ELSE 0
  BY DEF Allocatable
<1>2. asking \subseteq unready
  BY DEF PollingInv, GrantInv, QueueInv, ActiveLanes
<1>3. unready \subseteq Mints
  BY DEF ActiveLanes
<1> HIDE DEF unready, asking
<1>4. IsFiniteSet(unready) /\ IsFiniteSet(asking)
  BY <1>2, <1>3, PollingAssumption, FS_Subset
<1>5. /\ Cardinality(asking) \in Nat /\ Cardinality(unready) \in Nat
      /\ Cardinality(asking) <= Cardinality(unready)
  BY <1>2, <1>4, FS_Subset, FS_CardinalityType
<1>6. resident \in Nat /\ resident <= MaxResident /\ MaxResident \in Nat
  BY PollingAssumption DEF PollingInv, CapacityTypes, AccountInv
<1>7. Cardinality(asking) \in Nat /\ Allocatable \in Nat
  BY <1>1, <1>5, <1>6
<1>8. Allocatable > 0 => Allocatable + Cardinality(asking) <= MaxResident - resident
  BY <1>1, <1>5, <1>6
<1>9. QED BY <1>7, <1>8 DEF asking

(* The head of the queue is that many lanes, all of them waiting.          *)
LEMMA HeadOfQueue ==
  ASSUME PollingInv, NEW n \in 0..Len(waiters)
  PROVE  LET ms == { waiters[i] : i \in 1..n } IN
         /\ ms \subseteq Mints
         /\ \A m \in ms : lane[m] = "reserving"
         /\ Cardinality(ms) = n
<1> DEFINE ms == { waiters[i] : i \in 1..n }
           place == [i \in 1..n |-> waiters[i]]
<1>1. /\ waiters \in Seq(Mints) /\ Len(waiters) \in Nat /\ n \in Nat
      /\ DOMAIN waiters = 1..Len(waiters) /\ \A i \in 1..Len(waiters) : waiters[i] \in Mints
  BY DEF PollingInv, CapacityTypes
<1>2. \A i \in 1..n : i \in DOMAIN waiters
  BY <1>1
<1>3. ms \subseteq Mints
  BY <1>1, <1>2
<1>4. \A m \in ms : lane[m] = "reserving"
  BY <1>2, <1>3 DEF PollingInv, QueueInv
<1>5. \A i, j \in 1..n : waiters[i] = waiters[j] => i = j
  BY <1>2 DEF PollingInv, QueueInv
<1>6. place \in Bijection(1..n, ms)
  BY <1>5 DEF Bijection, Injection, Surjection, IsInjective
<1>7. ExistsBijection(1..n, ms)
  BY <1>6 DEF ExistsBijection
<1>8. IsFiniteSet(1..n) /\ Cardinality(1..n) = n
  BY <1>1, FS_Interval
<1> HIDE DEF ms, place
<1>9. Cardinality(ms) = n
  BY <1>7, <1>8, FS_Bijection
<1>10. QED BY <1>3, <1>4, <1>9 DEF ms

(* The queue that the drain divides the capacity over.                     *)
LEMMA LongestWaiting ==
  ASSUME PollingInv, NEW n \in 0..Len(waiters)
  PROVE  LET ms == { waiters[i] : i \in 1..n } IN
         /\ Longest(n) \in Seq(ms)
         /\ Len(Longest(n)) = n
         /\ IsInjective(Longest(n))
         /\ Range(Longest(n)) = ms
<1> DEFINE ms == { waiters[i] : i \in 1..n }
           queue == Longest(n)
<1>1. /\ waiters \in Seq(Mints) /\ Len(waiters) \in Nat /\ n \in Nat
      /\ DOMAIN waiters = 1..Len(waiters) /\ \A i \in 1..Len(waiters) : waiters[i] \in Mints
  BY DEF PollingInv, CapacityTypes
<1>2. \A i \in 1..n : i \in DOMAIN waiters /\ waiters[i] \in Mints
  BY <1>1
<1>3. \A i, j \in 1..n : waiters[i] = waiters[j] => i = j
  BY <1>2 DEF PollingInv, QueueInv
<1>4. queue = [i \in 1..n |-> waiters[i]]
  BY <1>1 DEF Longest
<1> HIDE DEF queue
<1>5. DOMAIN queue = 1..n /\ \A i \in 1..n : queue[i] = waiters[i]
  BY <1>4
<1>6. queue \in [1..n -> ms]
  BY <1>4
<1>7. queue \in Seq(ms) /\ Len(queue) = n
  BY <1>1, <1>6
<1>8. IsInjective(queue)
  BY <1>3, <1>5 DEF IsInjective
<1>9. Range(queue) = ms
  BY <1>5 DEF Range
<1>10. QED BY <1>7, <1>8, <1>9 DEF queue

(* What the lanes that are served get is an even division.                 *)
LEMMA GrantIsEven ==
  ASSUME PollingInv, NEW n \in 0..Len(waiters), n <= Allocatable
  PROVE  LET ms == { waiters[i] : i \in 1..n } IN
         /\ Range(Longest(n)) = ms
         /\ Split(Limit, Longest(n), Allocatable) \in EvenShares(Limit, ms, Allocatable)
<1> DEFINE ms == { waiters[i] : i \in 1..n }
<1>1. ms \subseteq Mints
  BY HeadOfQueue
<1>2. /\ Longest(n) \in Seq(ms) /\ Len(Longest(n)) = n
      /\ IsInjective(Longest(n)) /\ Range(Longest(n)) = ms
  BY LongestWaiting
<1>3. Allocatable \in Nat
  BY RoomIsLeft
<1> HIDE DEF ms
<1>4. IsFiniteSet(ms) /\ \A m \in ms : Limit[m] \in Nat \ {0}
  BY <1>1, PollingAssumption, FS_Subset
<1>5. Split(Limit, Longest(n), Allocatable) \in EvenShares(Limit, ms, Allocatable)
  BY <1>2, <1>3, <1>4, SplitIsFair
<1>6. QED BY <1>2, <1>5 DEF ms

(* The drain serves the head of the queue, within what may be handed out.  *)
LEMMA DrainServes ==
  ASSUME PollingInv, Drain
  PROVE  \/ /\ UNCHANGED <<lane, held, resident, waiters>>
            /\ Allocatable = 0 \/ waiters = <<>>
         \/ \E served \in 1..Len(waiters), amount \in Nat :
              LET ms == { waiters[i] : i \in 1..served } IN
              /\ ms \subseteq Mints
              /\ waiters' = SubSeq(waiters, served + 1, Len(waiters))
              /\ lane' = [m \in Mints |-> IF m \in ms THEN "granted" ELSE lane[m]]
              /\ held' \in [Mints -> Nat]
              /\ \A m \in Mints \ ms : held'[m] = held[m]
              /\ Allocatable > 0 /\ amount <= Allocatable /\ amount >= served
              /\ served = Allocatable \/ served = Len(waiters)
              /\ resident' = resident + amount
              /\ resident' = SumFunctionOnSet(held', Mints)
<1> DEFINE served == Smaller(Len(waiters), Allocatable)
           ms == { waiters[i] : i \in 1..served }
           grant == Split(Limit, Longest(served), Allocatable)
<1>1. waiters \in Seq(Mints) /\ Len(waiters) \in Nat
  BY DEF PollingInv, CapacityTypes
<1>2. Allocatable \in Nat
  BY RoomIsLeft
<1>3. /\ served \in 0..Len(waiters) /\ served <= Allocatable
      /\ served = Allocatable \/ served = Len(waiters)
  BY <1>1, <1>2 DEF Smaller
<1>4. /\ waiters' = SubSeq(waiters, served + 1, Len(waiters))
      /\ lane' = [m \in Mints |-> IF m \in Range(Longest(served)) THEN "granted" ELSE lane[m]]
      /\ held' = [m \in Mints |-> IF m \in Range(Longest(served)) THEN held[m] + grant[m] ELSE held[m]]
      /\ resident' = resident + SumFunction(grant)
  BY DEF Drain
<1> HIDE DEF served
<1>5. ms \subseteq Mints /\ Cardinality(ms) = served
  BY <1>3, HeadOfQueue
<1>6. Range(Longest(served)) = ms /\ grant \in EvenShares(Limit, ms, Allocatable)
  BY <1>3, GrantIsEven
<1> HIDE DEF grant
<1>7. /\ lane' = [m \in Mints |-> IF m \in ms THEN "granted" ELSE lane[m]]
      /\ held' = [m \in Mints |-> IF m \in ms THEN held[m] + grant[m] ELSE held[m]]
  BY <1>4, <1>6
<1>8. /\ held \in [Mints -> Nat] /\ lane \in [Mints -> Stage]
      /\ resident \in Nat /\ resident = SumFunctionOnSet(held, Mints)
  BY DEF PollingInv, LaneTypes, CapacityTypes, AccountInv
<1>9. grant \in [ms -> 1..Allocatable]
  BY <1>6 DEF EvenShares
<1>10. SumFunction(grant) = SumFunctionOnSet(grant, ms)
  BY <1>9 DEF SumFunction
<1>11. CASE served = 0
  <2>1. ms = {}
    BY <1>11
  <2>2. resident' = resident
    <3>1. SumFunctionOnSet(grant, ms) = 0
      BY <2>1, SumOfNone
    <3>2. resident' = resident + 0
      BY <1>4, <1>10, <3>1
    <3>3. QED BY <1>8, <3>2
  <2>3. lane' = lane /\ held' = held
    BY <1>7, <1>8, <2>1
  <2>4. waiters' = waiters
    BY <1>1, <1>4, <1>11, SubSeqFull
  <2>5. Allocatable = 0 \/ waiters = <<>>
    BY <1>1, <1>3, <1>11, EmptySeq
  <2>6. QED BY <2>2, <2>3, <2>4, <2>5
<1>12. CASE served # 0
  <2>1. IsFiniteSet(Mints) /\ IsFiniteSet(ms)
    BY <1>5, PollingAssumption, FS_Subset
  <2> HIDE DEF ms
  <2>2. SumFunctionOnSet(grant, ms) \in Nat /\ SumFunctionOnSet(Limit, ms) \in Nat
    <3>1. \A m \in ms : grant[m] \in Nat /\ Limit[m] \in Nat
      BY <1>2, <1>5, <1>9, PollingAssumption
    <3>2. QED BY <2>1, <3>1, SumType
  <2>3. SumFunctionOnSet(grant, ms) <= Allocatable
    <3>1. SumFunctionOnSet(grant, ms) = Smaller(Allocatable, SumFunctionOnSet(Limit, ms))
      BY <1>6, <1>10 DEF EvenShares
    <3>2. QED BY <3>1, <1>2, <2>2 DEF Smaller
  <2>4. held' \in [Mints -> Nat] /\ \A m \in Mints \ ms : held'[m] = held[m]
    BY <1>2, <1>7, <1>8, <1>9
  <2>5. SumFunctionOnSet(held', Mints) = SumFunctionOnSet(held, Mints) + SumFunctionOnSet(grant, ms)
    <3>1. \A m \in Mints : held'[m] = IF m \in ms THEN held[m] + grant[m] ELSE held[m]
      BY <1>7
    <3>2. \A m \in Mints : held[m] \in Nat
      BY <1>8
    <3>3. \A m \in ms : grant[m] \in Nat
      BY <1>2, <1>9
    <3>4. QED BY <1>5, <2>1, <3>1, <3>2, <3>3, SumOfGrown
  <2>6. resident' = resident + SumFunctionOnSet(grant, ms)
    BY <1>4, <1>10
  <2>7. served \in 1..Len(waiters) /\ Allocatable > 0
    BY <1>1, <1>2, <1>3, <1>12
  <2>8. SumFunctionOnSet(grant, ms) >= served
    <3>1. \A m \in ms : grant[m] \in Nat \ {0}
      BY <1>2, <1>9
    <3>2. QED BY <1>5, <2>1, <3>1, SumAtLeast
  <2>9. QED BY <1>3, <1>4, <1>5, <1>7, <1>8, <2>2, <2>3, <2>4, <2>5, <2>6, <2>7, <2>8 DEF ms
<1>13. QED BY <1>11, <1>12

-----------------------------------------------------------------------------
(* Rounds and passes.                                                      *)

(* What holds of lanes and capacity holds as long as they stand still.     *)
LEMMA LanesStill ==
  ASSUME PollingInv, UNCHANGED <<lanes, capacity>>
  PROVE  LaneTypes' /\ CapacityTypes' /\ GrantInv' /\ QueueInv' /\ AccountInv'
<1>1. UNCHANGED <<lane, claimed, held, batch, waited, resident, waiters, drain>>
  BY DEF lanes, capacity
<1>2. QED BY <1>1 DEF PollingInv, LaneTypes, CapacityTypes, GrantInv, QueueInv, AccountInv

(* A pass begins with what is due.                                         *)
LEMMA BeginPassKeeps ==
  ASSUME PollingInv, BeginPass,
         UNCHANGED <<lanes, capacity, row, age, faults>>,
         \A m \in Mints : lane[m] = "off",
         service' \in {"starting", "started"}, timer' = FALSE
  PROVE  PollingInv'
<1>1. LaneTypes' /\ CapacityTypes' /\ GrantInv' /\ QueueInv' /\ AccountInv'
  BY LanesStill
<1>2. RowTypes'
  BY DEF PollingInv, RowTypes
<1>3. RoundTypes'
  BY DEF BeginPass, PollingInv, RoundTypes, Pollable
<1>4. ServiceInv'
  BY DEF BeginPass, ServiceInv
<1>5. DiscoveryInv'
  BY DEF BeginPass, DiscoveryInv, lanes
<1>6. CutoffInv'
  BY DEF BeginPass, CutoffInv
<1>7. QED BY <1>1, <1>2, <1>3, <1>4, <1>5, <1>6 DEF PollingInv

LEMMA StartKeeps ==
  ASSUME PollingInv, Start
  PROVE  PollingInv'
<1>1. \A m \in Mints : lane[m] = "off"
  BY DEF Start, PollingInv, ServiceInv, DiscoveryInv
<1>2. timer' = FALSE
  BY DEF Start, PollingInv, RoundTypes, ServiceInv
<1>3. QED BY <1>1, <1>2, BeginPassKeeps DEF Start

LEMMA FireTimerKeeps ==
  ASSUME PollingInv, FireTimer
  PROVE  PollingInv'
<1>1. (\A m \in Mints : lane[m] = "off") /\ service = "started"
  BY DEF FireTimer, PollingInv, ServiceInv, DiscoveryInv
<1>2. QED BY <1>1, BeginPassKeeps DEF FireTimer

(* Lanes are started for mints that have none.                             *)
LEMMA ListQueuesKeeps ==
  ASSUME PollingInv, ListQueues
  PROVE  PollingInv'
<1>1. RowTypes' /\ CutoffInv'
  BY DEF ListQueues, PollingInv, RowTypes, CutoffInv
<1>2. CASE round' = "settling" /\ UNCHANGED <<discovered, found, lanes>>
  <2>1. LaneTypes' /\ CapacityTypes' /\ GrantInv' /\ QueueInv' /\ AccountInv'
    BY <1>2, LanesStill DEF ListQueues
  <2>2. RoundTypes' /\ ServiceInv' /\ DiscoveryInv'
    BY <1>2 DEF ListQueues, PollingInv, RoundTypes, ServiceInv, DiscoveryInv, lanes
  <2>3. QED BY <1>1, <2>1, <2>2 DEF PollingInv
<1>3. CASE \E ms \in SUBSET (Mints \ discovered) :
             /\ discovered' = discovered \cup ms
             /\ found' = TRUE
             /\ lane' = [m \in Mints |-> IF m \in ms THEN "support" ELSE lane[m]]
             /\ UNCHANGED <<round, claimed, held, batch, waited>>
  <2>1. PICK ms \in SUBSET (Mints \ discovered) :
             /\ discovered' = discovered \cup ms
             /\ found' = TRUE
             /\ lane' = [m \in Mints |-> IF m \in ms THEN "support" ELSE lane[m]]
             /\ UNCHANGED <<round, claimed, held, batch, waited>>
    BY <1>3
  <2>2. UNCHANGED <<service, timer, cutoff, skipped, resident, waiters, drain>> /\ round = "listing"
    BY DEF ListQueues, capacity
  <2>3. \A m \in ms : lane[m] = "off"
    BY DEF PollingInv, DiscoveryInv
  <2>4. LaneTypes' /\ CapacityTypes' /\ RoundTypes'
    BY <2>1, <2>2 DEF PollingInv, LaneTypes, CapacityTypes, RoundTypes, Stage
  <2>5. ServiceInv' /\ DiscoveryInv'
    BY <2>1, <2>2 DEF PollingInv, ServiceInv, DiscoveryInv
  <2>6. GrantInv'
    BY <2>1, <2>3 DEF PollingInv, GrantInv
  <2>7. QueueInv' /\ AccountInv'
    BY <2>1, <2>2, <2>3 DEF PollingInv, QueueInv, AccountInv
  <2>8. QED BY <1>1, <2>4, <2>5, <2>6, <2>7 DEF PollingInv
<1>4. QED
  <2>1. \A due \in SUBSET (Mints \ discovered) : \A ms \in SUBSET due : ms \in SUBSET (Mints \ discovered)
    OBVIOUS
  <2>2. { m \in Mints \ (skipped \cup discovered) : Candidates(m) # {} } \in SUBSET (Mints \ discovered)
    OBVIOUS
  <2>3. QED BY <1>2, <1>3, <2>1, <2>2 DEF ListQueues

LEMMA ListFailsKeeps ==
  ASSUME PollingInv, ListFails
  PROVE  PollingInv'
<1>1. LaneTypes' /\ CapacityTypes' /\ GrantInv' /\ QueueInv' /\ AccountInv'
  BY LanesStill DEF ListFails
<1>2. RowTypes' /\ CutoffInv'
  BY PollingAssumption DEF ListFails, PollingInv, RowTypes, CutoffInv
<1>3. RoundTypes' /\ ServiceInv' /\ DiscoveryInv'
  BY DEF ListFails, PollingInv, RoundTypes, ServiceInv, DiscoveryInv, lanes
<1>4. QED BY <1>1, <1>2, <1>3 DEF PollingInv

(* The pass has no lane left; the round ends, or another pass begins.      *)
LEMMA PassSettledKeeps ==
  ASSUME PollingInv, PassSettled
  PROVE  PollingInv'
<1>1. \A m \in Mints : lane[m] = "off"
  BY DEF PassSettled, ActiveLanes
<1>2. CASE EndRound
  <2>1. LaneTypes' /\ CapacityTypes' /\ GrantInv' /\ QueueInv' /\ AccountInv'
    BY LanesStill DEF PassSettled
  <2>2. RowTypes' /\ CutoffInv'
    BY <1>2 DEF PassSettled, PollingInv, RowTypes, CutoffInv, EndRound
  <2>3. RoundTypes' /\ DiscoveryInv'
    BY <1>1, <1>2 DEF PassSettled, EndRound, RoundTypes, DiscoveryInv, lanes
  <2>4. ServiceInv'
    BY <1>2 DEF PassSettled, EndRound, PollingInv, ServiceInv, RoundTypes
  <2>5. QED BY <2>1, <2>2, <2>3, <2>4 DEF PollingInv
<1>3. CASE ~Aborted /\ found /\ BeginPass /\ UNCHANGED <<service, timer>>
  <2>1. service \in {"starting", "started"} /\ timer = FALSE
    BY <1>3 DEF PassSettled, PollingInv, ServiceInv, RoundTypes, Aborted
  <2>2. QED BY <1>1, <1>3, <2>1, BeginPassKeeps DEF PassSettled
<1>4. QED BY <1>2, <1>3 DEF PassSettled

(* Shutdown empties the queue and sends its lanes away.                    *)
LEMMA StopKeeps ==
  ASSUME PollingInv, Stop
  PROVE  PollingInv'
<1>1. RoundTypes' /\ RowTypes' /\ CutoffInv'
  BY DEF Stop, PollingInv, RoundTypes, RowTypes, CutoffInv, pass
<1>2. ServiceInv'
  BY DEF Stop, PollingInv, ServiceInv, pass
<1>3. DiscoveryInv'
  BY DEF Stop, PollingInv, DiscoveryInv, LaneTypes, pass
<1>4. LaneTypes'
  BY DEF Stop, PollingInv, LaneTypes, Stage
<1>5. CapacityTypes'
  BY DEF Stop, PollingInv, CapacityTypes
<1>6. GrantInv'
  BY DEF Stop, PollingInv, GrantInv
<1>7. QueueInv'
  BY DEF Stop, PollingInv, QueueInv
<1>8. AccountInv'
  BY DEF Stop, PollingInv, AccountInv
<1>9. QED BY <1>1, <1>2, <1>3, <1>4, <1>5, <1>6, <1>7, <1>8 DEF PollingInv

-----------------------------------------------------------------------------
(* Lanes.                                                                  *)

(* A lane steps from one stage to another while the round goes on.         *)
LEMMA LaneStepKeepsRound ==
  ASSUME PollingInv, NEW m \in Mints, lane[m] # "off", \A x \in Mints \ {m} : lane'[x] = lane[x],
         UNCHANGED <<service, timer, round, discovered>>
  PROVE  ServiceInv' /\ DiscoveryInv'
  BY DEF PollingInv, ServiceInv, DiscoveryInv

(* A lane that does not wait, nor begins to, leaves the queue as it is.    *)
LEMMA QueueStill ==
  ASSUME PollingInv, NEW m \in Mints, lane[m] # "reserving", lane'[m] # "reserving",
         \A x \in Mints \ {m} : lane'[x] = lane[x], UNCHANGED waiters
  PROVE  QueueInv'
  BY DEF PollingInv, QueueInv

LEMMA SupportKeeps ==
  ASSUME PollingInv, NEW m \in Mints, SupportKnown(m) \/ SupportFails(m)
  PROVE  PollingInv'
<1>0. lane[m] = "support"
  BY DEF SupportKnown, SupportFails
<1>1. /\ lane' \in [Mints -> Stage] /\ waiters' \in Seq(Mints)
      /\ lane'[m] \in {"reserving", "leaving"}
      /\ \A x \in Mints \ {m} : lane'[x] = lane[x]
      /\ QueueInv'
      /\ UNCHANGED <<service, timer, pass, claimed, held, batch, resident, row, age>>
      /\ waited' = waited \ {m} /\ drain' \in BOOLEAN
  <2>1. CASE SupportKnown(m)
    <3>1. drain' \in BOOLEAN
      BY <2>1 DEF SupportKnown, Aborted, PollingInv, CapacityTypes
    <3>2. QED BY <1>0, <2>1, <3>1, ReserveKeeps DEF SupportKnown
  <2>2. CASE SupportFails(m)
    <3>1. lane' = [lane EXCEPT ![m] = "leaving"] /\ UNCHANGED <<waiters, drain>>
      BY <2>2 DEF SupportFails, capacity
    <3>2. lane \in [Mints -> Stage] /\ waiters \in Seq(Mints) /\ drain \in BOOLEAN
      BY DEF PollingInv, LaneTypes, CapacityTypes
    <3>3. lane' \in [Mints -> Stage] /\ lane'[m] = "leaving" /\ \A x \in Mints \ {m} : lane'[x] = lane[x]
      BY <3>1, <3>2 DEF Stage
    <3>4. QueueInv'
      BY <1>0, <3>1, <3>3, QueueStill
    <3>5. QED BY <2>2, <3>1, <3>2, <3>3, <3>4 DEF SupportFails, capacity
  <2>3. QED BY <2>1, <2>2
<1>2. RoundTypes' /\ CutoffInv'
  BY <1>1 DEF PollingInv, RoundTypes, CutoffInv, pass
<1>3. RowTypes'
  BY PollingAssumption DEF SupportKnown, SupportFails, PollingInv, RowTypes
<1>4. LaneTypes' /\ CapacityTypes'
  BY <1>1 DEF PollingInv, LaneTypes, CapacityTypes
<1>5. ServiceInv' /\ DiscoveryInv'
  BY <1>0, <1>1, LaneStepKeepsRound DEF pass
<1>6. GrantInv'
  BY <1>0, <1>1 DEF PollingInv, GrantInv
<1>7. AccountInv'
  BY <1>1 DEF PollingInv, AccountInv
<1>8. QED BY <1>1, <1>2, <1>3, <1>4, <1>5, <1>6, <1>7 DEF PollingInv

(* A claim is of the lane's mint, due or never polled, and no larger than  *)
(* what the lane holds.                                                    *)
LEMMA ClaimIsDue ==
  ASSUME PollingInv, NEW m \in Mints, NEW claim \in SUBSET Quotes, Claimable(m, claim)
  PROVE  /\ Cardinality(claim) \in Nat /\ Cardinality(claim) <= held[m]
         /\ \A q \in claim : MintOf[q] = m /\ age[q] >= Interval
<1>1. IsFiniteSet(Candidates(m))
  BY PollingAssumption, FS_Subset DEF Candidates, Pollable
<1>2. Cardinality(Candidates(m)) \in Nat
  BY <1>1, FS_CardinalityType
<1>3. held[m] \in Nat
  BY DEF PollingInv, LaneTypes
<1>4. Cardinality(claim) \in Nat /\ Cardinality(claim) <= held[m]
  BY <1>2, <1>3 DEF Claimable, Smaller
<1>5. \A q \in claim : MintOf[q] = m /\ (q \in cutoff \/ age[q] = Never)
  BY DEF Claimable, Candidates
<1>6. \A q \in claim : age[q] >= Interval
  BY <1>5, PollingAssumption DEF PollingInv, CutoffInv, Never
<1>7. QED BY <1>4, <1>5, <1>6

LEMMA TakeDueKeeps ==
  ASSUME PollingInv, NEW m \in Mints, TakeDue(m)
  PROVE  PollingInv'
<1> DEFINE kept(claim) == IF Aborted THEN {} ELSE claim
<1>1. PICK claim \in SUBSET Quotes :
        /\ Claimable(m, claim)
        /\ claimed' = [claimed EXCEPT ![m] = @ \/ claim # {}]
        /\ age' = [q \in Quotes |-> IF q \in claim THEN 0 ELSE age[q]]
        /\ cutoff' = cutoff \ claim
        /\ Release(m, held[m] - Cardinality(kept(claim)))
        /\ batch' = [batch EXCEPT ![m] = kept(claim)]
        /\ lane' = [lane EXCEPT ![m] = IF kept(claim) = {} THEN "leaving" ELSE "polling"]
        /\ drain' = (drain \/ held[m] # Cardinality(kept(claim)))
  BY DEF TakeDue
<1> DEFINE batched == kept(claim)
<1>2. /\ lane[m] = "granted"
      /\ UNCHANGED <<service, timer, round, discovered, skipped, found, waited, waiters, row, faults>>
  BY DEF TakeDue
<1>3. /\ Cardinality(claim) \in Nat /\ Cardinality(claim) <= held[m]
      /\ \A q \in claim : MintOf[q] = m /\ age[q] >= Interval
  BY <1>1, ClaimIsDue
<1>4. /\ lane \in [Mints -> Stage] /\ held \in [Mints -> Nat] /\ batch \in [Mints -> SUBSET Quotes]
      /\ claimed \in [Mints -> BOOLEAN] /\ waited \subseteq Mints
  BY DEF PollingInv, LaneTypes
<1>5. /\ batched \in SUBSET Quotes
      /\ Cardinality(batched) \in Nat /\ Cardinality(batched) <= held[m]
      /\ \A q \in batched : MintOf[q] = m
  <2>1. Cardinality({}) = 0 /\ held[m] \in Nat
    BY <1>4, FS_EmptySet
  <2>2. QED BY <1>3, <2>1
<1> HIDE DEF kept
<1>6. /\ held' \in [Mints -> Nat] /\ resident' \in Nat
      /\ held'[m] = Cardinality(batched)
      /\ \A x \in Mints \ {m} : held'[x] = held[x]
      /\ AccountInv'
  <2>1. held[m] - Cardinality(batched) \in Nat /\ held[m] - Cardinality(batched) <= held[m]
    BY <1>4, <1>5
  <2>2. held[m] - (held[m] - Cardinality(batched)) = Cardinality(batched)
    BY <1>4, <1>5
  <2>3. QED BY <1>1, <2>1, <2>2, ReleaseKeeps
<1>7. /\ lane' \in [Mints -> Stage] /\ lane'[m] \in {"leaving", "polling"}
      /\ lane'[m] = "leaving" => batched = {}
      /\ \A x \in Mints \ {m} : lane'[x] = lane[x]
  BY <1>1, <1>4 DEF Stage
<1>8. LaneTypes'
  <2>1. batch' \in [Mints -> SUBSET Quotes]
    BY <1>1, <1>4, <1>5
  <2>2. claimed' \in [Mints -> BOOLEAN]
    <3>1. (claimed[m] \/ claim # {}) \in BOOLEAN
      OBVIOUS
    <3>2. QED BY <1>1, <1>4, <3>1
  <2>3. QED BY <1>2, <1>4, <1>6, <1>7, <2>1, <2>2 DEF LaneTypes
<1>9. CapacityTypes'
  <2>1. drain' \in BOOLEAN
    BY <1>1 DEF PollingInv, CapacityTypes
  <2>2. QED BY <1>2, <1>6, <2>1 DEF PollingInv, CapacityTypes
<1>10. RowTypes'
  <2>1. 0 \in 0..Never /\ age \in [Quotes -> 0..Never]
    BY PollingAssumption DEF PollingInv, RowTypes, Never
  <2>2. age' \in [Quotes -> 0..Never]
    BY <1>1, <2>1
  <2>3. QED BY <1>2, <2>2 DEF PollingInv, RowTypes
<1>11. RoundTypes'
  BY <1>1, <1>2 DEF PollingInv, RoundTypes
<1>12. ServiceInv' /\ DiscoveryInv'
  BY <1>2, <1>7, LaneStepKeepsRound
<1>13. CutoffInv'
  BY <1>1 DEF PollingInv, CutoffInv, RoundTypes
<1>14. QueueInv'
  BY <1>2, <1>7, QueueStill
<1>15. GrantInv'
  <2> SUFFICES ASSUME NEW x \in Mints
               PROVE  /\ lane'[x] \notin {"granted", "polling"} => held'[x] = 0
                      /\ lane'[x] # "polling" => batch'[x] = {}
                      /\ \A q \in batch'[x] : MintOf[q] = x
                      /\ Cardinality(batch'[x]) <= held'[x]
    BY DEF GrantInv
  <2>1. CASE x = m
    <3>1. batch'[m] = batched
      BY <1>1, <1>4
    <3>2. lane'[m] = "leaving" => held'[m] = 0
      BY <1>6, <1>7, FS_EmptySet
    <3>3. QED BY <1>5, <1>6, <1>7, <2>1, <3>1, <3>2
  <2>2. CASE x # m
    <3>1. batch'[x] = batch[x]
      BY <1>1, <1>4, <2>2
    <3>2. QED BY <1>6, <1>7, <2>2, <3>1 DEF PollingInv, GrantInv
  <2>3. QED BY <2>1, <2>2
<1>16. QED BY <1>6, <1>8, <1>9, <1>10, <1>11, <1>12, <1>13, <1>14, <1>15 DEF PollingInv

LEMMA TakeDueFailsKeeps ==
  ASSUME PollingInv, NEW m \in Mints, TakeDueFails(m)
  PROVE  PollingInv'
<1>1. lane[m] = "granted" /\ lane' = [lane EXCEPT ![m] = "leaving"] /\ drain' = TRUE
  BY DEF TakeDueFails
<1>2. UNCHANGED <<service, timer, round, cutoff, discovered, found, claimed, batch, waited,
                  waiters, row, age>>
  BY DEF TakeDueFails
<1>3. lane \in [Mints -> Stage] /\ held[m] \in Nat
  BY DEF PollingInv, LaneTypes
<1>4. /\ lane' \in [Mints -> Stage] /\ lane'[m] = "leaving"
      /\ \A x \in Mints \ {m} : lane'[x] = lane[x]
  BY <1>1, <1>3 DEF Stage
<1>5. /\ held' \in [Mints -> Nat] /\ resident' \in Nat
      /\ held'[m] = 0
      /\ \A x \in Mints \ {m} : held'[x] = held[x]
      /\ AccountInv'
  <2>1. held[m] - held[m] = 0 /\ held[m] <= held[m] /\ Release(m, held[m])
    BY <1>3 DEF TakeDueFails
  <2>2. QED BY <1>3, <2>1, ReleaseKeeps
<1>6. LaneTypes' /\ CapacityTypes'
  BY <1>1, <1>2, <1>4, <1>5 DEF PollingInv, LaneTypes, CapacityTypes
<1>7. RoundTypes'
  BY <1>2 DEF TakeDueFails, PollingInv, RoundTypes
<1>8. RowTypes' /\ CutoffInv'
  BY <1>2, PollingAssumption DEF TakeDueFails, PollingInv, RowTypes, CutoffInv
<1>9. ServiceInv' /\ DiscoveryInv'
  BY <1>1, <1>2, <1>4, LaneStepKeepsRound
<1>10. QueueInv'
  BY <1>1, <1>2, <1>4, QueueStill
<1>11. GrantInv'
  <2>1. batch[m] = {} /\ Cardinality({}) = 0
    BY <1>1, FS_EmptySet DEF PollingInv, GrantInv
  <2>2. QED BY <1>2, <1>4, <1>5, <2>1 DEF PollingInv, GrantInv
<1>12. QED BY <1>5, <1>6, <1>7, <1>8, <1>9, <1>10, <1>11 DEF PollingInv

(* A quote that is closed is never polled again, so it stays past due.     *)
LEMMA CloseKeeps ==
  ASSUME PollingInv, NEW q \in Quotes, Close(q), UNCHANGED <<pass, faults>>
  PROVE  RowTypes' /\ CutoffInv'
<1>1. Never \in 0..Never /\ Never >= Interval
  BY PollingAssumption DEF Never
<1>2. RowTypes'
  BY <1>1 DEF Close, PollingInv, RowTypes
<1>3. \A r \in Quotes : age'[r] = age[r] \/ age'[r] = Never
  BY DEF Close, PollingInv, RowTypes
<1>4. CutoffInv'
  BY <1>1, <1>3 DEF PollingInv, RoundTypes, CutoffInv, pass
<1>5. QED BY <1>2, <1>4

(* A claim shrinks as its quotes are checked, or is dropped.               *)
LEMMA CheckKeeps ==
  ASSUME PollingInv, NEW m \in Mints, CheckQuote(m) \/ DropBatch(m)
  PROVE  PollingInv'
<1>1. /\ lane[m] = "polling"
      /\ UNCHANGED <<service, timer, pass, lane, claimed, held, capacity, faults>>
      /\ waited' = waited \ {m}
  BY DEF CheckQuote, DropBatch
<1>2. \E left \in SUBSET batch[m] : batch' = [batch EXCEPT ![m] = left]
  <2>1. CASE CheckQuote(m)
    <3>1. PICK q \in batch[m] : batch' = [batch EXCEPT ![m] = @ \ {q}]
      BY <2>1 DEF CheckQuote
    <3>2. batch[m] \ {q} \in SUBSET batch[m]
      OBVIOUS
    <3>3. QED BY <3>1, <3>2
  <2>2. CASE DropBatch(m)
    BY <2>2 DEF DropBatch
  <2>3. QED BY <2>1, <2>2
<1>3. PICK left \in SUBSET batch[m] : batch' = [batch EXCEPT ![m] = left]
  BY <1>2
<1>4. batch \in [Mints -> SUBSET Quotes] /\ held[m] \in Nat
  BY DEF PollingInv, LaneTypes
<1>5. Cardinality(left) <= held[m]
  <2>1. IsFiniteSet(batch[m])
    BY <1>4, PollingAssumption, FS_Subset
  <2>2. IsFiniteSet(left) /\ Cardinality(left) <= Cardinality(batch[m])
    BY <2>1, FS_Subset
  <2>3. Cardinality(left) \in Nat /\ Cardinality(batch[m]) \in Nat /\ Cardinality(batch[m]) <= held[m]
    BY <2>1, <2>2, FS_CardinalityType DEF PollingInv, GrantInv
  <2>4. QED BY <1>4, <2>2, <2>3
<1>6. RowTypes' /\ CutoffInv'
  <2>1. CASE UNCHANGED <<row, age>>
    BY <1>1, <2>1 DEF PollingInv, RowTypes, CutoffInv, pass
  <2>2. CASE \E q \in Quotes : Close(q)
    BY <1>1, <2>2, CloseKeeps
  <2>3. batch[m] \subseteq Quotes
    BY <1>4
  <2>4. QED BY <2>1, <2>2, <2>3 DEF CheckQuote, DropBatch
<1>7. LaneTypes'
  <2>1. batch' \in [Mints -> SUBSET Quotes]
    BY <1>3, <1>4
  <2>2. QED BY <1>1, <2>1 DEF PollingInv, LaneTypes
<1>8. GrantInv'
  <2>1. \A x \in Mints \ {m} : batch'[x] = batch[x]
    BY <1>3, <1>4
  <2>2. batch'[m] = left
    BY <1>3, <1>4
  <2>3. QED BY <1>1, <1>5, <2>1, <2>2 DEF PollingInv, GrantInv
<1>9. RoundTypes' /\ CapacityTypes'
  BY <1>1 DEF PollingInv, RoundTypes, CapacityTypes, pass, capacity
<1>10. ServiceInv' /\ DiscoveryInv' /\ QueueInv' /\ AccountInv'
  BY <1>1 DEF PollingInv, ServiceInv, DiscoveryInv, QueueInv, AccountInv, pass, capacity
<1>11. QED BY <1>6, <1>7, <1>8, <1>9, <1>10 DEF PollingInv

LEMMA BatchDoneKeeps ==
  ASSUME PollingInv, NEW m \in Mints, BatchDone(m)
  PROVE  PollingInv'
<1>1. /\ lane[m] = "polling" /\ batch[m] = {} /\ drain' = TRUE
      /\ UNCHANGED <<service, timer, pass, claimed, batch, waited, row, age, faults>>
  BY DEF BatchDone
<1>2. /\ lane' \in [Mints -> Stage] /\ waiters' \in Seq(Mints)
      /\ lane'[m] \in {"reserving", "leaving"}
      /\ \A x \in Mints \ {m} : lane'[x] = lane[x]
      /\ QueueInv'
  BY <1>1, ReserveKeeps DEF BatchDone
<1>3. /\ held' \in [Mints -> Nat] /\ resident' \in Nat
      /\ held'[m] = 0
      /\ \A x \in Mints \ {m} : held'[x] = held[x]
      /\ AccountInv'
  <2>1. held[m] \in Nat /\ Release(m, held[m])
    BY DEF BatchDone, PollingInv, LaneTypes
  <2>2. held[m] - held[m] = 0 /\ held[m] <= held[m]
    BY <2>1
  <2>3. QED BY <2>1, <2>2, ReleaseKeeps
<1>4. LaneTypes' /\ CapacityTypes'
  BY <1>1, <1>2, <1>3 DEF PollingInv, LaneTypes, CapacityTypes
<1>5. RoundTypes' /\ RowTypes' /\ CutoffInv'
  BY <1>1 DEF PollingInv, RoundTypes, RowTypes, CutoffInv, pass
<1>6. ServiceInv' /\ DiscoveryInv'
  BY <1>1, <1>2, LaneStepKeepsRound DEF pass
<1>7. GrantInv'
  <2>1. batch'[m] = {} /\ Cardinality(batch'[m]) <= held'[m]
    BY <1>1, <1>3, FS_EmptySet
  <2>2. \A x \in Mints \ {m} : batch'[x] = batch[x] /\ held'[x] = held[x] /\ lane'[x] = lane[x]
    BY <1>1, <1>2, <1>3
  <2>3. QED BY <1>2, <1>3, <2>1, <2>2 DEF PollingInv, GrantInv
<1>8. QED BY <1>2, <1>3, <1>4, <1>5, <1>6, <1>7 DEF PollingInv

LEMMA LaneEndsKeeps ==
  ASSUME PollingInv, NEW m \in Mints, LaneEnds(m)
  PROVE  PollingInv'
<1>1. /\ lane[m] = "leaving" /\ lane' = [lane EXCEPT ![m] = "off"]
      /\ claimed' = [claimed EXCEPT ![m] = FALSE] /\ drain' = TRUE
      /\ UNCHANGED <<service, timer, round, cutoff, discovered, found, held, batch, waited,
                     resident, waiters, row, age, faults>>
  BY DEF LaneEnds
<1>2. /\ lane' \in [Mints -> Stage] /\ lane'[m] = "off"
      /\ \A x \in Mints \ {m} : lane'[x] = lane[x]
  BY <1>1 DEF PollingInv, LaneTypes, Stage
<1>3. LaneTypes' /\ CapacityTypes'
  BY <1>1, <1>2 DEF PollingInv, LaneTypes, CapacityTypes
<1>4. RoundTypes'
  BY <1>1 DEF LaneEnds, PollingInv, RoundTypes
<1>5. RowTypes' /\ CutoffInv' /\ AccountInv'
  BY <1>1 DEF PollingInv, RowTypes, CutoffInv, AccountInv
<1>6. ServiceInv' /\ DiscoveryInv'
  BY <1>1, <1>2, LaneStepKeepsRound
<1>7. GrantInv'
  BY <1>1, <1>2 DEF PollingInv, GrantInv
<1>8. QueueInv'
  BY <1>1, <1>2, QueueStill
<1>9. QED BY <1>3, <1>4, <1>5, <1>6, <1>7, <1>8 DEF PollingInv

(* The lanes at the head of the queue get their shares.                    *)
LEMMA DrainKeeps ==
  ASSUME PollingInv, Drain
  PROVE  PollingInv'
<1>1. /\ drain' = FALSE
      /\ UNCHANGED <<service, timer, pass, claimed, batch, waited, row, age, faults>>
  BY DEF Drain
<1>2. RoundTypes' /\ RowTypes' /\ CutoffInv'
  BY <1>1 DEF PollingInv, RoundTypes, RowTypes, CutoffInv, pass
<1>3. CASE UNCHANGED <<lane, held, resident, waiters>>
  <2>1. LaneTypes' /\ CapacityTypes' /\ GrantInv' /\ QueueInv' /\ AccountInv'
    BY <1>1, <1>3 DEF PollingInv, LaneTypes, CapacityTypes, GrantInv, QueueInv, AccountInv
  <2>2. ServiceInv' /\ DiscoveryInv'
    BY <1>1, <1>3 DEF PollingInv, ServiceInv, DiscoveryInv, pass
  <2>3. QED BY <1>2, <2>1, <2>2 DEF PollingInv
<1>4. CASE ~UNCHANGED <<lane, held, resident, waiters>>
  <2>1. PICK served \in 1..Len(waiters), amount \in Nat :
          LET ms == { waiters[i] : i \in 1..served } IN
          /\ ms \subseteq Mints
          /\ waiters' = SubSeq(waiters, served + 1, Len(waiters))
          /\ lane' = [m \in Mints |-> IF m \in ms THEN "granted" ELSE lane[m]]
          /\ held' \in [Mints -> Nat]
          /\ \A m \in Mints \ ms : held'[m] = held[m]
          /\ Allocatable > 0 /\ amount <= Allocatable
          /\ resident' = resident + amount
          /\ resident' = SumFunctionOnSet(held', Mints)
    BY <1>4, DrainServes
  <2> DEFINE ms == { waiters[i] : i \in 1..served }
  <2>2. /\ waiters \in Seq(Mints) /\ Len(waiters) \in Nat /\ DOMAIN waiters = 1..Len(waiters)
        /\ resident \in Nat /\ resident <= MaxResident /\ lane \in [Mints -> Stage]
    BY DEF PollingInv, CapacityTypes, AccountInv, LaneTypes
  <2>3. served \in 1..Len(waiters) /\ \A i \in 1..Len(waiters) : waiters[i] \in Mints
    BY <2>2
  <2>4. \A m \in ms : m \in Mints /\ lane[m] = "reserving"
    <3> SUFFICES ASSUME NEW i \in 1..served
                 PROVE  waiters[i] \in Mints /\ lane[waiters[i]] = "reserving"
      OBVIOUS
    <3>1. i \in DOMAIN waiters /\ waiters[i] \in Mints
      BY <2>2, <2>3
    <3>2. QED BY <3>1 DEF PollingInv, QueueInv
  <2>5. /\ waiters' \in Seq(Mints)
        /\ DOMAIN waiters' = 1..(Len(waiters) - served)
        /\ \A i \in 1..(Len(waiters) - served) : waiters'[i] = waiters[served + i]
    <3> DEFINE first == served + 1
               last == Len(waiters)
    <3>1. first \in Int /\ last \in Int /\ \A i \in first..last : waiters[i] \in Mints
      BY <2>2, <2>3
    <3>2. waiters' = SubSeq(waiters, first, last)
      BY <2>1
    <3>3. first <= last + 1 /\ last - first + 1 = Len(waiters) - served
      BY <2>2, <2>3
    <3>4. \A i \in 1..(Len(waiters) - served) : first + i - 1 = served + i
      BY <2>2, <2>3
    <3> HIDE DEF first, last
    <3>5. /\ waiters' \in Seq(Mints)
          /\ Len(waiters') = IF first <= last THEN last - first + 1 ELSE 0
          /\ \A i \in 1..(last - first + 1) : waiters'[i] = waiters[first + i - 1]
      BY <3>1, <3>2, SubSeqProperties
    <3>6. Len(waiters') = Len(waiters) - served
      BY <3>1, <3>3, <3>5
    <3>7. DOMAIN waiters' = 1..Len(waiters')
      BY <3>5
    <3>8. QED BY <3>3, <3>4, <3>5, <3>6, <3>7
  <2> HIDE DEF ms
  <2>6. /\ ms \subseteq Mints
        /\ lane' = [m \in Mints |-> IF m \in ms THEN "granted" ELSE lane[m]]
        /\ held' \in [Mints -> Nat] /\ \A m \in Mints \ ms : held'[m] = held[m]
    BY <2>1 DEF ms
  <2>7. LaneTypes'
    BY <1>1, <2>2, <2>6 DEF PollingInv, LaneTypes, Stage
  <2>8. CapacityTypes' /\ AccountInv'
    <3>1. Allocatable \in Nat /\ Allocatable <= MaxResident - resident
      BY <2>1, <2>2, RoomIsLeft, PollingAssumption
    <3>2. resident' \in Nat /\ resident' <= MaxResident
      BY <2>1, <2>2, <3>1, PollingAssumption
    <3>3. QED BY <1>1, <2>1, <2>5, <3>2 DEF CapacityTypes, AccountInv
  <2>9. ServiceInv' /\ DiscoveryInv'
    BY <1>1, <2>4, <2>6 DEF PollingInv, ServiceInv, DiscoveryInv, pass
  <2>10. GrantInv'
    <3>1. \A m \in ms : batch[m] = {} /\ Cardinality(batch[m]) <= held'[m]
      <4> SUFFICES ASSUME NEW m \in ms
                   PROVE  batch[m] = {} /\ Cardinality(batch[m]) <= held'[m]
        OBVIOUS
      <4>1. m \in Mints /\ batch[m] = {} /\ held'[m] \in Nat
        BY <2>4, <2>6 DEF PollingInv, GrantInv
      <4>2. QED BY <4>1, FS_EmptySet
    <3>2. QED BY <1>1, <2>6, <3>1 DEF PollingInv, GrantInv
  <2>11. QueueInv'
    <3>1. \A i, j \in DOMAIN waiters' : waiters'[i] = waiters'[j] => i = j
      <4> SUFFICES ASSUME NEW i \in DOMAIN waiters', NEW j \in DOMAIN waiters',
                          waiters'[i] = waiters'[j]
                   PROVE  i = j
        OBVIOUS
      <4>1. served + i \in DOMAIN waiters /\ served + j \in DOMAIN waiters
        BY <2>2, <2>3, <2>5
      <4>2. waiters[served + i] = waiters[served + j]
        BY <2>5
      <4>3. served + i = served + j
        BY <4>1, <4>2 DEF PollingInv, QueueInv
      <4>4. QED BY <2>3, <2>5, <4>3
    <3>2. ASSUME NEW m \in Mints
          PROVE  lane'[m] = "reserving" <=> \E i \in DOMAIN waiters' : waiters'[i] = m
      <4>1. CASE m \in ms
        <5>1. PICK k \in 1..served : waiters[k] = m
          BY <4>1 DEF ms
        <5>2. ASSUME NEW i \in DOMAIN waiters', waiters'[i] = m PROVE FALSE
          <6>1. served + i \in DOMAIN waiters /\ k \in DOMAIN waiters /\ waiters[served + i] = m
            BY <2>2, <2>3, <2>5, <5>2
          <6>2. served + i = k
            BY <5>1, <6>1 DEF PollingInv, QueueInv
          <6>3. QED BY <2>3, <2>5, <5>1, <6>2
        <5>3. lane'[m] = "granted"
          BY <2>6, <4>1
        <5>4. QED BY <5>2, <5>3
      <4>2. CASE m \notin ms
        <5>1. lane'[m] = lane[m]
          BY <2>6, <4>2
        <5>2. ASSUME NEW k \in DOMAIN waiters, waiters[k] = m
              PROVE  \E i \in DOMAIN waiters' : waiters'[i] = m
          <6>1. k > served
            BY <2>2, <2>3, <4>2, <5>2 DEF ms
          <6>2. k - served \in DOMAIN waiters' /\ served + (k - served) = k
            BY <2>2, <2>3, <2>5, <6>1
          <6>3. QED BY <2>5, <5>2, <6>2
        <5>3. ASSUME NEW i \in DOMAIN waiters', waiters'[i] = m
              PROVE  \E k \in DOMAIN waiters : waiters[k] = m
          <6>1. served + i \in DOMAIN waiters
            BY <2>2, <2>3, <2>5
          <6>2. waiters[served + i] = m
            BY <2>5, <5>3
          <6>3. QED BY <6>1, <6>2
        <5>4. QED BY <5>1, <5>2, <5>3 DEF PollingInv, QueueInv
      <4>3. QED BY <4>1, <4>2
    <3>3. QED BY <3>1, <3>2 DEF QueueInv
  <2>12. QED BY <1>2, <2>7, <2>8, <2>9, <2>10, <2>11 DEF PollingInv
<1>5. QED BY <1>3, <1>4

-----------------------------------------------------------------------------
(* Quotes come and go, and time passes.                                    *)

LEMMA EnvironmentKeeps ==
  ASSUME PollingInv, NEW q \in Quotes, NewQuote(q) \/ CloseElsewhere(q)
  PROVE  PollingInv'
<1>1. UNCHANGED <<service, timer, pass, lanes, capacity, faults>>
  BY DEF NewQuote, CloseElsewhere
<1>2. LaneTypes' /\ CapacityTypes' /\ GrantInv' /\ QueueInv' /\ AccountInv'
  BY <1>1, LanesStill
<1>3. RoundTypes' /\ ServiceInv' /\ DiscoveryInv'
  BY <1>1 DEF PollingInv, RoundTypes, ServiceInv, DiscoveryInv, pass, lanes
<1>4. RowTypes' /\ CutoffInv'
  <2>1. CASE NewQuote(q)
    BY <1>1, <2>1 DEF NewQuote, PollingInv, RowTypes, CutoffInv, pass
  <2>2. CASE CloseElsewhere(q)
    BY <1>1, <2>2, CloseKeeps DEF CloseElsewhere
  <2>3. QED BY <2>1, <2>2
<1>5. QED BY <1>2, <1>3, <1>4 DEF PollingInv

LEMMA TickKeeps ==
  ASSUME PollingInv, Tick
  PROVE  PollingInv'
<1>1. /\ UNCHANGED <<service, timer, pass, lane, claimed, held, batch, capacity, row, faults>>
      /\ age' = [q \in Quotes |-> IF age[q] < Interval THEN age[q] + 1 ELSE age[q]]
      /\ waited' \subseteq Mints
  BY DEF Tick
<1>2. RoundTypes' /\ ServiceInv' /\ DiscoveryInv' /\ GrantInv' /\ QueueInv' /\ AccountInv'
  BY <1>1 DEF PollingInv, RoundTypes, ServiceInv, DiscoveryInv, GrantInv, QueueInv, AccountInv,
              pass, capacity
<1>3. LaneTypes' /\ CapacityTypes'
  BY <1>1, PollingAssumption DEF PollingInv, LaneTypes, CapacityTypes, capacity
<1>4. RowTypes'
  <2>1. Interval \in Nat /\ Never = Interval + 1
    BY PollingAssumption DEF Never
  <2>2. QED BY <1>1, <2>1 DEF PollingInv, RowTypes
<1>5. CutoffInv'
  <2>1. \A q \in cutoff : q \in Quotes /\ age[q] >= Interval /\ age[q] \in Nat
    BY DEF PollingInv, CutoffInv, RoundTypes, RowTypes
  <2>2. QED BY <1>1, <2>1, PollingAssumption DEF CutoffInv, pass
<1>6. QED BY <1>2, <1>3, <1>4, <1>5 DEF PollingInv

-----------------------------------------------------------------------------
(* The invariant holds throughout.                                         *)

LEMMA InitPolls == Init => PollingInv
<1> SUFFICES ASSUME Init PROVE PollingInv
  OBVIOUS
<1>1. RoundTypes
  BY DEF Init, RoundTypes
<1>2. LaneTypes
  BY DEF Init, LaneTypes, Stage
<1>3. CapacityTypes
  <2>1. resident \in Nat /\ waiters \in Seq(Mints)
    BY DEF Init
  <2>2. drain \in BOOLEAN
    BY DEF Init
  <2>3. QED BY <2>1, <2>2 DEF CapacityTypes
<1>4. RowTypes
  BY PollingAssumption DEF Init, RowTypes
<1>5. ServiceInv /\ DiscoveryInv /\ CutoffInv
  BY DEF Init, ServiceInv, DiscoveryInv, CutoffInv
<1>6. GrantInv
  BY FS_EmptySet DEF Init, GrantInv
<1>7. QueueInv
  BY DEF Init, QueueInv
<1>8. AccountInv
  <2>1. SumFunctionOnSet(held, Mints) = 0
    BY PollingAssumption, SumOfZeros DEF Init
  <2>2. QED BY <2>1, PollingAssumption DEF Init, AccountInv
<1>9. QED BY <1>1, <1>2, <1>3, <1>4, <1>5, <1>6, <1>7, <1>8 DEF PollingInv

LEMMA StepPolls == PollingInv /\ [Next]_vars => PollingInv'
<1> SUFFICES ASSUME PollingInv, [Next]_vars PROVE PollingInv'
  OBVIOUS
<1>1. CASE Start \/ FireTimer \/ Round \/ ListFails \/ Stop
  BY <1>1, StartKeeps, FireTimerKeeps, ListQueuesKeeps, PassSettledKeeps, ListFailsKeeps, StopKeeps
     DEF Round
<1>2. CASE Drain \/ Tick
  BY <1>2, DrainKeeps, TickKeeps
<1>3. ASSUME NEW m \in Mints,
             LaneStep(m) \/ SupportFails(m) \/ TakeDueFails(m) \/ DropBatch(m)
      PROVE  PollingInv'
  BY <1>3, SupportKeeps, TakeDueKeeps, TakeDueFailsKeeps, CheckKeeps, BatchDoneKeeps, LaneEndsKeeps
     DEF LaneStep
<1>4. ASSUME NEW q \in Quotes, NewQuote(q) \/ CloseElsewhere(q)
      PROVE  PollingInv'
  BY <1>4, EnvironmentKeeps
<1>5. CASE UNCHANGED vars
  <2>1. LaneTypes' /\ CapacityTypes' /\ GrantInv' /\ QueueInv' /\ AccountInv'
    BY <1>5, LanesStill DEF vars
  <2>2. RoundTypes' /\ RowTypes' /\ ServiceInv' /\ DiscoveryInv' /\ CutoffInv'
    BY <1>5 DEF vars, pass, lanes, PollingInv, RoundTypes, RowTypes, ServiceInv, DiscoveryInv, CutoffInv
  <2>3. QED BY <2>1, <2>2 DEF PollingInv
<1>6. QED BY <1>1, <1>2, <1>3, <1>4, <1>5 DEF Next

(* PollingInv carries the theorems below: it is inductive, because each    *)
(* lane's share changes together with the budget, in one step.             *)
THEOREM PollingInvariant == Spec => []PollingInv
<1>1. QED BY InitPolls, StepPolls, PTL DEF Spec

-----------------------------------------------------------------------------
(* No wake-up is lost: nothing that changes what may be handed out forgets *)
(* to schedule the drain.                                                  *)

(* The lanes a unit is set aside for.                                      *)
Unready == { m \in Mints : lane[m] \notin {"off", "reserving"} /\ held[m] = 0 }

(* Nothing may be handed out when what is free is set aside.               *)
SetAside == Allocatable = 0 <=> MaxResident - resident <= Cardinality(Unready)

LEMMA WhatIsSetAside == PollingInv => SetAside
<1> SUFFICES ASSUME PollingInv PROVE SetAside
  OBVIOUS
<1> DEFINE waiting == { waiters[i] : i \in DOMAIN waiters }
           unready == { m \in ActiveLanes : held[m] = 0 /\ m \notin waiting }
           available == MaxResident - resident
<1>1. \A m \in Mints : lane[m] = "reserving" <=> m \in waiting
  BY DEF PollingInv, QueueInv
<1>2. unready = Unready
  BY <1>1 DEF Unready, ActiveLanes
<1>3. Allocatable = IF available > Cardinality(Unready) THEN available - Cardinality(Unready) ELSE 0
  BY <1>2 DEF Allocatable
<1>4. Cardinality(Unready) \in Nat /\ available \in Int
  <2>1. IsFiniteSet(Unready)
    BY PollingAssumption, FS_Subset DEF Unready
  <2>2. QED BY <2>1, PollingAssumption, FS_CardinalityType DEF PollingInv, CapacityTypes
<1> HIDE DEF available
<1>5. QED BY <1>3, <1>4 DEF SetAside, available

(* What may be handed out is the rest.                                     *)
LEMMA WhatMayBeGranted ==
  ASSUME PollingInv, Allocatable > 0
  PROVE  Allocatable = MaxResident - resident - Cardinality(Unready)
<1> DEFINE waiting == { waiters[i] : i \in DOMAIN waiters }
           unready == { m \in ActiveLanes : held[m] = 0 /\ m \notin waiting }
<1>1. unready = Unready
  BY DEF PollingInv, QueueInv, Unready, ActiveLanes
<1>2. QED BY <1>1 DEF Allocatable

LEMMA WhatIsSetAsideNext == PollingInv' => SetAside'
  BY WhatIsSetAside, PTL

(* What is set aside stays set aside as long as no lane becomes ready.     *)
LEMMA NothingIsFreed ==
  ASSUME PollingInv, PollingInv', Unready \subseteq Unready',
         MaxResident - resident' <= Cardinality(Unready)
  PROVE  Allocatable' = 0
<1>1. SetAside'
  BY WhatIsSetAsideNext
<1>2. IsFiniteSet(Unready')
  BY PollingAssumption, FS_Subset DEF Unready
<1>3. /\ Cardinality(Unready) \in Nat /\ Cardinality(Unready') \in Nat
      /\ Cardinality(Unready) <= Cardinality(Unready')
  BY <1>2, FS_Subset, FS_CardinalityType
<1>4. resident' \in Nat /\ MaxResident \in Nat
  BY PollingAssumption DEF PollingInv, CapacityTypes
<1>5. MaxResident - resident' <= Cardinality(Unready)'
  BY <1>3, <1>4
<1>6. QED BY <1>1, <1>5 DEF SetAside

(* A step that takes nothing from a lane and readies none frees nothing.   *)
LEMMA StillWaiting ==
  ASSUME PollingInv, PollingInv', NoWakeUpIsLost,
         UNCHANGED <<held, resident, waiters>>, drain' = drain,
         \A m \in Mints : lane[m] \notin {"off", "reserving"} =>
                            lane'[m] \notin {"off", "reserving"}
  PROVE  NoWakeUpIsLost'
<1> SUFFICES ASSUME waiters # <<>>, ~drain PROVE Allocatable' = 0
  BY DEF NoWakeUpIsLost
<1>1. Allocatable = 0
  BY DEF NoWakeUpIsLost
<1>2. MaxResident - resident' <= Cardinality(Unready)
  BY <1>1, WhatIsSetAside DEF SetAside
<1>3. Unready \subseteq Unready'
  BY DEF Unready
<1>4. QED BY <1>2, <1>3, NothingIsFreed

(* The drain leaves a lane waiting only when it has handed out all it may. *)
LEMMA DrainLeavesNone ==
  ASSUME PollingInv, PollingInv', Drain
  PROVE  NoWakeUpIsLost'
<1> SUFFICES ASSUME waiters' # <<>> PROVE Allocatable' = 0
  BY DEF NoWakeUpIsLost
<1>1. resident \in Nat /\ MaxResident \in Nat /\ Allocatable \in Nat
  BY PollingAssumption, RoomIsLeft DEF PollingInv, CapacityTypes
<1>2. CASE UNCHANGED <<lane, held, resident, waiters>> /\ (Allocatable = 0 \/ waiters = <<>>)
  <2>1. MaxResident - resident' <= Cardinality(Unready)
    BY <1>2, WhatIsSetAside DEF SetAside
  <2>2. Unready \subseteq Unready'
    BY <1>2 DEF Unready
  <2>3. QED BY <2>1, <2>2, NothingIsFreed
<1>3. CASE ~(UNCHANGED <<lane, held, resident, waiters>> /\ (Allocatable = 0 \/ waiters = <<>>))
  <2>1. PICK served \in 1..Len(waiters), amount \in Nat :
          LET ms == { waiters[i] : i \in 1..served } IN
          /\ ms \subseteq Mints
          /\ waiters' = SubSeq(waiters, served + 1, Len(waiters))
          /\ lane' = [m \in Mints |-> IF m \in ms THEN "granted" ELSE lane[m]]
          /\ held' \in [Mints -> Nat]
          /\ \A m \in Mints \ ms : held'[m] = held[m]
          /\ Allocatable > 0 /\ amount <= Allocatable /\ amount >= served
          /\ served = Allocatable \/ served = Len(waiters)
          /\ resident' = resident + amount
          /\ resident' = SumFunctionOnSet(held', Mints)
    BY <1>3, DrainServes
  <2> DEFINE ms == { waiters[i] : i \in 1..served }
  <2>2. waiters \in Seq(Mints) /\ Len(waiters) \in Nat /\ DOMAIN waiters = 1..Len(waiters)
    BY DEF PollingInv, CapacityTypes
  <2>3. served = Allocatable
    <3> SUFFICES ASSUME served = Len(waiters) PROVE waiters' = <<>>
      BY <2>1
    <3>1. waiters' = SubSeq(waiters, Len(waiters) + 1, Len(waiters))
      BY <2>1
    <3>2. QED BY <2>2, <3>1, SubSeqEmpty
  <2>4. MaxResident - resident' <= Cardinality(Unready)
    <3>1. Allocatable = MaxResident - resident - Cardinality(Unready)
      BY <2>1, WhatMayBeGranted
    <3>2. Cardinality(Unready) \in Nat
      BY PollingAssumption, FS_Subset, FS_CardinalityType DEF Unready
    <3>3. resident' = resident + Allocatable
      BY <1>1, <2>1, <2>3
    <3>4. QED BY <1>1, <3>1, <3>2, <3>3
  <2>5. \A m \in ms : lane[m] = "reserving"
    <3>1. served \in 0..Len(waiters)
      BY <2>2
    <3>2. QED BY <3>1, HeadOfQueue
  <2>6. Unready \subseteq Unready'
    BY <2>1, <2>5 DEF Unready
  <2>7. QED BY <2>4, <2>6, NothingIsFreed
<1>4. QED BY <1>2, <1>3

(* What a claim does not need goes back, and the drain hears of it.        *)
LEMMA TakeDueWakes ==
  ASSUME PollingInv, PollingInv', NoWakeUpIsLost, NEW m \in Mints, TakeDue(m)
  PROVE  NoWakeUpIsLost'
<1>1. PICK claim \in SUBSET Quotes :
        LET kept == IF Aborted THEN {} ELSE claim IN
        /\ Release(m, held[m] - Cardinality(kept))
        /\ lane' = [lane EXCEPT ![m] = IF kept = {} THEN "leaving" ELSE "polling"]
        /\ drain' = (drain \/ held[m] # Cardinality(kept))
  BY DEF TakeDue
<1> DEFINE kept == IF Aborted THEN {} ELSE claim
<1>2. waiters' = waiters
  BY DEF TakeDue
<1>3. CASE drain'
  BY <1>3 DEF NoWakeUpIsLost
<1>4. CASE ~drain'
  <2>1. ~drain /\ held[m] = Cardinality(kept)
    BY <1>1, <1>4
  <2>2. held \in [Mints -> Nat] /\ lane \in [Mints -> Stage] /\ drain \in BOOLEAN
        /\ resident \in Nat
    BY DEF PollingInv, LaneTypes, CapacityTypes
  <2>3. held[m] \in Nat /\ Release(m, held[m] - held[m])
    BY <1>1, <2>1, <2>2
  <2>4. UNCHANGED <<held, resident>>
    BY <2>2, <2>3 DEF Release
  <2>5. \A x \in Mints : lane[x] \notin {"off", "reserving"} => lane'[x] \notin {"off", "reserving"}
    BY <1>1, <2>2
  <2>6. drain' = drain
    BY <1>4, <2>1, <2>2 DEF PollingInv, CapacityTypes
  <2>7. QED BY <1>2, <2>4, <2>5, <2>6, StillWaiting
<1>5. QED BY <1>3, <1>4

LEMMA StepWakes == PollingInv /\ PollingInv' /\ NoWakeUpIsLost /\ [Next]_vars => NoWakeUpIsLost'
<1> SUFFICES ASSUME PollingInv, PollingInv', NoWakeUpIsLost, [Next]_vars PROVE NoWakeUpIsLost'
  OBVIOUS
<1>1. lane \in [Mints -> Stage]
  BY DEF PollingInv, LaneTypes
<1>2. CASE Start \/ FireTimer \/ PassSettled \/ ListFails \/ Tick \/ UNCHANGED vars
  <2>1. UNCHANGED <<lane, held, resident, waiters, drain>>
    BY <1>2 DEF Start, FireTimer, PassSettled, ListFails, Tick, vars, lanes, capacity
  <2>2. QED BY <2>1, StillWaiting
<1>3. CASE ListQueues
  <2>1. UNCHANGED <<held, resident, waiters, drain>>
    BY <1>3 DEF ListQueues, lanes, capacity
  <2>2. \/ lane' = lane
        \/ \E ms \in SUBSET Mints : lane' = [m \in Mints |-> IF m \in ms THEN "support" ELSE lane[m]]
    BY <1>3 DEF ListQueues, lanes
  <2>3. \A m \in Mints : lane[m] \notin {"off", "reserving"} => lane'[m] \notin {"off", "reserving"}
    BY <2>2
  <2>4. QED BY <2>1, <2>3, StillWaiting
<1>4. CASE Stop
  BY <1>4 DEF Stop, NoWakeUpIsLost
<1>5. CASE Drain
  BY <1>5, DrainLeavesNone
<1>6. ASSUME NEW m \in Mints, LaneStep(m) \/ SupportFails(m) \/ TakeDueFails(m) \/ DropBatch(m)
      PROVE  NoWakeUpIsLost'
  <2>1. CASE SupportKnown(m) /\ ~Aborted
    BY <2>1 DEF SupportKnown, NoWakeUpIsLost
  <2>2. CASE (SupportKnown(m) /\ Aborted) \/ SupportFails(m)
    <3>1. UNCHANGED <<held, resident, waiters>> /\ lane' = [lane EXCEPT ![m] = "leaving"]
      BY <2>2 DEF SupportKnown, SupportFails, ReserveOrLeave, capacity
    <3>2. drain' = drain
      <4>1. drain \in BOOLEAN
        BY DEF PollingInv, CapacityTypes
      <4>2. QED BY <2>2, <4>1 DEF SupportKnown, SupportFails, capacity
    <3>3. QED BY <1>1, <3>1, <3>2, StillWaiting
  <2>3. CASE TakeDue(m)
    BY <2>3, TakeDueWakes
  <2>4. CASE CheckQuote(m) \/ DropBatch(m)
    <3>1. UNCHANGED <<lane, held, resident, waiters, drain>>
      BY <2>4 DEF CheckQuote, DropBatch, capacity
    <3>2. QED BY <3>1, StillWaiting
  <2>5. CASE TakeDueFails(m) \/ BatchDone(m) \/ LaneEnds(m)
    BY <2>5 DEF TakeDueFails, BatchDone, LaneEnds, NoWakeUpIsLost
  <2>6. QED BY <1>6, <2>1, <2>2, <2>3, <2>4, <2>5 DEF LaneStep
<1>7. ASSUME NEW q \in Quotes, NewQuote(q) \/ CloseElsewhere(q)
      PROVE  NoWakeUpIsLost'
  <2>1. UNCHANGED <<lane, held, resident, waiters, drain>>
    BY <1>7 DEF NewQuote, CloseElsewhere, lanes, capacity
  <2>2. QED BY <2>1, StillWaiting
<1>8. QED BY <1>2, <1>3, <1>4, <1>5, <1>6, <1>7 DEF Next, Round

(* A waiting lane always has the drain ahead of it, unless the budget is   *)
(* used up or set aside; every release must schedule the drain for this.   *)
LEMMA WakeUps == Spec => []NoWakeUpIsLost
<1>1. Init => NoWakeUpIsLost
  BY DEF Init, NoWakeUpIsLost
<1>2. QED BY <1>1, StepWakes, PollingInvariant, PTL DEF Spec

(* The budget of resident quotes is the sum of what the lanes hold, covers *)
(* the claims in flight, is never exceeded; the queue holds each waiting   *)
(* lane once, no wake-up of it is lost, and the drain divides what it may  *)
(* hand out evenly.                                                        *)
THEOREM BudgetIsKept == Spec => []BudgetInv
<1>1. PollingInv /\ NoWakeUpIsLost => BudgetInv
  <2> SUFFICES ASSUME PollingInv, NoWakeUpIsLost PROVE BudgetInv
    OBVIOUS
  <2>1. TypeOK
    BY TypeParts DEF PollingInv
  <2>2. WorkIsBounded
    <3>1. SumFunction(held) = SumFunctionOnSet(held, Mints)
      BY DEF SumFunction, PollingInv, LaneTypes
    <3>2. QED BY <3>1 DEF PollingInv, AccountInv, GrantInv, WorkIsBounded
  <2>3. \A m \in Mints : Cardinality({ i \in DOMAIN waiters : waiters[i] = m }) =
                           IF lane[m] = "reserving" THEN 1 ELSE 0
    <3> SUFFICES ASSUME NEW m \in Mints
                 PROVE  Cardinality({ i \in DOMAIN waiters : waiters[i] = m }) =
                          IF lane[m] = "reserving" THEN 1 ELSE 0
      OBVIOUS
    <3> DEFINE places == { i \in DOMAIN waiters : waiters[i] = m }
    <3>1. CASE lane[m] = "reserving"
      <4>1. PICK k \in DOMAIN waiters : waiters[k] = m
        BY <3>1 DEF PollingInv, QueueInv
      <4>2. places = {k}
        BY <4>1 DEF PollingInv, QueueInv
      <4>3. QED BY <3>1, <4>2, FS_Singleton
    <3>2. CASE lane[m] # "reserving"
      <4>1. places = {}
        BY <3>2 DEF PollingInv, QueueInv
      <4>2. QED BY <3>2, <4>1, FS_EmptySet
    <3>3. QED BY <3>1, <3>2
  <2>4. WaitersAreLanes
    BY <2>3 DEF PollingInv, GrantInv, WaitersAreLanes
  <2>5. DrainIsEven
    <3>1. \A n \in 1..Len(waiters) : n \in 0..Len(waiters)
      OBVIOUS
    <3>2. QED BY <3>1, GrantIsEven DEF DrainIsEven
  <2>6. QED BY <2>1, <2>2, <2>4, <2>5 DEF BudgetInv
<1>2. QED BY <1>1, PollingInvariant, WakeUps, PTL

(* A lane that waits is never stranded: when the drain has nothing to do,  *)
(* another lane is at work, and what it holds or reserves comes back.      *)
THEOREM WaitersAreNotStranded ==
  Spec => [](waiters # <<>> /\ ~drain =>
               \E m \in Mints : lane[m] \in {"support", "granted", "polling", "leaving"})
<1> DEFINE working == \E m \in Mints : lane[m] \in {"support", "granted", "polling", "leaving"}
<1>1. PollingInv /\ NoWakeUpIsLost => (waiters # <<>> /\ ~drain => working)
  <2> SUFFICES ASSUME PollingInv, NoWakeUpIsLost, waiters # <<>>, ~drain, ~working
               PROVE  FALSE
    OBVIOUS
  <2>1. \A m \in Mints : lane[m] \in {"off", "reserving"}
    BY DEF PollingInv, LaneTypes, Stage
  <2>2. \A m \in Mints : held[m] = 0
    BY <2>1 DEF PollingInv, GrantInv
  <2>3. resident = 0
    BY <2>2, PollingAssumption, SumOfZeros DEF PollingInv, AccountInv
  <2>4. Unready = {}
    BY <2>1 DEF Unready
  <2>5. MaxResident <= 0
    <3>1. MaxResident - resident <= Cardinality(Unready)
      BY WhatIsSetAside DEF NoWakeUpIsLost, SetAside
    <3>2. QED BY <2>3, <2>4, <3>1, PollingAssumption, FS_EmptySet
  <2>6. QED BY <2>5, PollingAssumption
<1>2. QED BY <1>1, PollingInvariant, WakeUps, PTL

(* When stop() has returned there is no round, timer, lane or claim left   *)
(* to use the database that is closed next.                                *)
THEOREM StoppedIsQuiet == Spec => []QuietAfterStop
<1>1. PollingInv => QuietAfterStop
  <2> SUFFICES ASSUME PollingInv, service = "stopped"
               PROVE  round = "none" /\ ~timer /\ ActiveLanes = {} /\ InFlight = {} /\ resident = 0
    BY DEF QuietAfterStop
  <2>1. round = "none" /\ ~timer
    BY DEF PollingInv, ServiceInv
  <2>2. \A m \in Mints : lane[m] = "off"
    BY <2>1 DEF PollingInv, DiscoveryInv
  <2>3. \A m \in Mints : held[m] = 0 /\ batch[m] = {}
    BY <2>2 DEF PollingInv, GrantInv
  <2>4. resident = 0
    BY <2>3, PollingAssumption, SumOfZeros DEF PollingInv, AccountInv
  <2>5. ActiveLanes = {} /\ InFlight = {}
    BY <2>2, <2>3 DEF ActiveLanes, InFlight
  <2>6. QED BY <2>1, <2>4, <2>5
<1>2. QED BY <1>1, PollingInvariant, PTL

-----------------------------------------------------------------------------
(* What a step may never do.                                               *)

(* An action other than the drain takes nothing from the budget.           *)
LEMMA OnlyDrainGrants ==
  ASSUME PollingInv, [Next]_vars, ~Drain
  PROVE  resident' <= resident
<1>1. resident \in Nat /\ held \in [Mints -> Nat]
  BY DEF PollingInv, CapacityTypes, LaneTypes
<1>2. ASSUME NEW m \in Mints, NEW n \in Nat, resident' = resident - n
      PROVE  resident' <= resident
  BY <1>1, <1>2
<1>3. ASSUME NEW m \in Mints, TakeDue(m)
      PROVE  resident' <= resident
  <2>1. PICK claim \in SUBSET Quotes :
          /\ Claimable(m, claim)
          /\ Release(m, held[m] - Cardinality(IF Aborted THEN {} ELSE claim))
    BY <1>3 DEF TakeDue
  <2> DEFINE kept == IF Aborted THEN {} ELSE claim
  <2>2. Cardinality(claim) \in Nat /\ Cardinality(claim) <= held[m]
    BY <2>1, ClaimIsDue
  <2>3. Cardinality(kept) \in Nat /\ Cardinality(kept) <= held[m]
    BY <1>1, <2>2, FS_EmptySet
  <2> HIDE DEF kept
  <2>4. held[m] - Cardinality(kept) \in Nat
    BY <1>1, <2>3
  <2>5. resident' = resident - (held[m] - Cardinality(kept))
    BY <2>1 DEF Release, kept
  <2>6. QED BY <1>2, <2>4, <2>5
<1>4. ASSUME NEW m \in Mints, TakeDueFails(m) \/ BatchDone(m)
      PROVE  resident' <= resident
  <2>1. resident' = resident - held[m]
    BY <1>4 DEF TakeDueFails, BatchDone, Release
  <2>2. QED BY <1>1, <1>2, <2>1
<1>5. ASSUME NEW m \in Mints,
             SupportKnown(m) \/ SupportFails(m) \/ CheckQuote(m) \/ DropBatch(m) \/ LaneEnds(m)
      PROVE  resident' <= resident
  BY <1>1, <1>5 DEF SupportKnown, SupportFails, CheckQuote, DropBatch, LaneEnds, capacity
<1>6. CASE Start \/ FireTimer \/ Round \/ ListFails \/ Stop \/ Tick \/ UNCHANGED vars
  BY <1>1, <1>6 DEF Start, FireTimer, Round, ListQueues, PassSettled, ListFails, Stop, Tick, vars, capacity
<1>7. ASSUME NEW q \in Quotes, NewQuote(q) \/ CloseElsewhere(q)
      PROVE  resident' <= resident
  BY <1>1, <1>7 DEF NewQuote, CloseElsewhere, capacity
<1>8. QED BY <1>3, <1>4, <1>5, <1>6, <1>7 DEF Next, LaneStep

(* No grant takes the room of a lane that is still asking its mint's       *)
(* capabilities, however the lanes before it were served.                  *)
THEOREM RoomIsReserved == Spec => GrantsLeaveRoom
<1> DEFINE asking == Cardinality({ m \in Mints : lane[m] = "support" })
<1>1. ASSUME PollingInv, [Next]_vars
      PROVE  [resident' > resident => asking <= MaxResident - resident']_vars
  <2> SUFFICES ASSUME resident' > resident PROVE asking <= MaxResident - resident'
    OBVIOUS
  <2>1. resident \in Nat /\ MaxResident \in Nat
    BY <1>1, PollingAssumption DEF PollingInv, CapacityTypes
  <2>2. asking \in Nat /\ (Allocatable > 0 => Allocatable + asking <= MaxResident - resident)
    BY <1>1, RoomIsLeft
  <2>3. Allocatable \in Nat
    BY <1>1, RoomIsLeft
  <2> HIDE DEF asking
  <2>4. CASE Drain
    <3>1. resident' # resident
      BY <2>1
    <3>2. \E amount \in Nat : Allocatable > 0 /\ amount <= Allocatable /\ resident' = resident + amount
      BY <1>1, <2>4, <3>1, DrainServes
    <3>3. QED BY <2>1, <2>2, <2>3, <3>2
  <2>5. CASE ~Drain
    <3>1. resident' <= resident /\ resident' \in Nat
      BY <1>1, <2>5, OnlyDrainGrants, StepPolls DEF PollingInv, CapacityTypes
    <3>2. QED BY <2>1, <3>1
  <2>6. QED BY <2>4, <2>5
<1>2. QED BY <1>1, PollingInvariant, PTL DEF Spec, GrantsLeaveRoom

(* No quote is claimed before the poll interval has passed since its last  *)
(* claim, nor while a claim of it is in flight.                            *)
THEOREM ClaimsKeepTheInterval == Spec => ClaimsAreSpaced
<1> DEFINE Spaced(m, q) == age[q] >= Interval /\ q \notin InFlight
<1>1. ASSUME PollingInv, [Next]_vars
      PROVE  [\A m \in Mints : \A q \in batch'[m] \ batch[m] : Spaced(m, q)]_vars
  <2> SUFFICES ASSUME NEW m \in Mints, NEW q \in batch'[m] \ batch[m]
               PROVE  Spaced(m, q)
    OBVIOUS
  <2>1. batch \in [Mints -> SUBSET Quotes]
    BY <1>1 DEF PollingInv, LaneTypes
  <2>2. ASSUME NEW x \in Mints, TakeDue(x)
        PROVE  Spaced(m, q)
    <3>1. PICK claim \in SUBSET Quotes :
            /\ Claimable(x, claim)
            /\ batch' = [batch EXCEPT ![x] = IF Aborted THEN {} ELSE claim]
      BY <2>2 DEF TakeDue
    <3>2. q \in claim /\ x = m
      BY <2>1, <3>1
    <3>3. MintOf[q] = m /\ age[q] >= Interval
      BY <1>1, <3>1, <3>2, ClaimIsDue
    <3>4. batch[m] = {}
      BY <1>1, <2>2, <3>2 DEF TakeDue, PollingInv, GrantInv
    <3>5. ASSUME NEW y \in Mints, q \in batch[y] PROVE FALSE
      BY <1>1, <3>3, <3>4, <3>5 DEF PollingInv, GrantInv
    <3>6. QED BY <3>3, <3>5 DEF InFlight
  <2>3. ASSUME NEW x \in Mints,
               \/ SupportKnown(x) \/ SupportFails(x) \/ TakeDueFails(x) \/ CheckQuote(x)
               \/ DropBatch(x) \/ BatchDone(x) \/ LaneEnds(x)
        PROVE  FALSE
    <3>1. CASE CheckQuote(x) \/ DropBatch(x)
      BY <2>1, <3>1 DEF CheckQuote, DropBatch
    <3>2. CASE \/ SupportKnown(x) \/ SupportFails(x) \/ TakeDueFails(x) \/ BatchDone(x) \/ LaneEnds(x)
      BY <3>2 DEF SupportKnown, SupportFails, TakeDueFails, BatchDone, LaneEnds
    <3>3. QED BY <2>3, <3>1, <3>2
  <2>4. CASE Start \/ FireTimer \/ Round \/ ListFails \/ Stop \/ Drain \/ Tick \/ UNCHANGED vars
    BY <2>4 DEF Start, FireTimer, Round, ListQueues, PassSettled, ListFails, Stop, Drain, Tick, vars, lanes
  <2>5. ASSUME NEW r \in Quotes, NewQuote(r) \/ CloseElsewhere(r)
        PROVE  FALSE
    BY <2>5 DEF NewQuote, CloseElsewhere, lanes
  <2>6. QED BY <1>1, <2>2, <2>3, <2>4, <2>5 DEF Next, LaneStep
<1>2. QED BY <1>1, PollingInvariant, PTL DEF Spec, ClaimsAreSpaced

-----------------------------------------------------------------------------
(* The capacity as the lanes see it.                                       *)

(* The abstract account adds up and divides as the service does.           *)
LEMMA SameSums ==
  ASSUME NEW f, NEW S
  PROVE  Budget!SumFunctionOnSet(f, S) = SumFunctionOnSet(f, S)
  BY Zenon DEF Budget!SumFunctionOnSet, Budget!FoldFunctionOnSet, Budget!MapThenFoldSet,
               SumFunctionOnSet, FoldFunctionOnSet, MapThenFoldSet

LEMMA SameShares ==
  ASSUME NEW ms, NEW amount
  PROVE  Budget!EvenShares(Limit, ms, amount) = EvenShares(Limit, ms, amount)
<1>1. \A f, S : Budget!SumFunctionOnSet(f, S) = SumFunctionOnSet(f, S)
  BY SameSums
<1>2. \A f : Budget!SumFunction(f) = SumFunction(f)
  BY <1>1 DEF Budget!SumFunction, SumFunction
<1>3. QED BY <1>1, <1>2 DEF Budget!EvenShares, EvenShares, Budget!Smaller, Smaller

(* A drain serves the head of the queue, or nobody.                        *)
LEMMA DrainMaps ==
  ASSUME PollingInv, Drain
  PROVE  Budget!Next \/ UNCHANGED <<waiters, held>>
<1> DEFINE served == Smaller(Len(waiters), Allocatable)
           ms == { waiters[i] : i \in 1..served }
           grant == Split(Limit, Longest(served), Allocatable)
<1>1. waiters \in Seq(Mints) /\ Len(waiters) \in Nat /\ held \in [Mints -> Nat]
  BY DEF PollingInv, CapacityTypes, LaneTypes
<1>2. Allocatable \in Nat
  BY RoomIsLeft
<1>3. /\ served \in 0..Len(waiters) /\ served <= Allocatable
      /\ served = Allocatable \/ served = Len(waiters)
  BY <1>1, <1>2 DEF Smaller
<1>4. /\ waiters' = SubSeq(waiters, served + 1, Len(waiters))
      /\ held' = [m \in Mints |-> IF m \in Range(Longest(served)) THEN held[m] + grant[m] ELSE held[m]]
  BY DEF Drain
<1> HIDE DEF served
<1>5. ms \subseteq Mints /\ \A m \in ms : lane[m] = "reserving"
  BY <1>3, HeadOfQueue
<1>6. Range(Longest(served)) = ms /\ grant \in EvenShares(Limit, ms, Allocatable)
  BY <1>3, GrantIsEven
<1> HIDE DEF grant
<1>7. CASE served = 0
  <2>1. ms = {}
    BY <1>7
  <2>2. held' = held
    BY <1>1, <1>4, <1>6, <2>1
  <2>3. waiters' = waiters
    BY <1>1, <1>4, <1>7, SubSeqFull
  <2>4. QED BY <2>2, <2>3
<1>8. CASE served # 0
  <2> HIDE DEF ms
  <2>1. \A m \in ms : held[m] = 0 /\ grant[m] \in Nat
    BY <1>2, <1>5, <1>6 DEF EvenShares, PollingInv, GrantInv
  <2>2. held' = [m \in Mints |-> IF m \in ms THEN grant[m] ELSE held[m]]
    <3>1. \A m \in Mints : (IF m \in ms THEN held[m] + grant[m] ELSE held[m])
                             = IF m \in ms THEN grant[m] ELSE held[m]
      BY <2>1
    <3>2. QED BY <1>4, <1>6, <3>1
  <2>3. Range(SubSeq(waiters, 1, served)) = ms
    BY <1>6 DEF Longest
  <2>4. /\ resident \in Nat /\ MaxResident \in Nat /\ resident <= MaxResident
        /\ resident = Budget!SumFunctionOnSet(held, Mints)
    BY SameSums, PollingAssumption DEF PollingInv, CapacityTypes, AccountInv
  <2>5. Allocatable > 0 /\ served \in 1..Len(waiters)
    BY <1>1, <1>2, <1>3, <1>8
  <2>6. resident + Allocatable <= MaxResident /\ Allocatable \in 1..MaxResident
    BY <1>2, <2>4, <2>5, RoomIsLeft
  <2>7. served < Len(waiters) => served = Allocatable
    BY <1>3, <1>1
  <2>8. grant \in Budget!EvenShares(Limit, ms, Allocatable)
    BY <1>6, SameShares
  <2>9. Budget!Serve(served, Allocatable)
    <3>1. Range(SubSeq(waiters, 1, served)) = Budget!Range(SubSeq(waiters, 1, served))
      BY DEF Range, Budget!Range
    <3>2. QED BY <1>3, <1>4, <2>2, <2>3, <2>4, <2>6, <2>7, <2>8, <3>1 DEF Budget!Serve
  <2>10. QED BY <2>5, <2>6, <2>9 DEF Budget!Next
<1>9. QED BY <1>7, <1>8

(* A lane that waits has a place in the queue; only such a lane has one.   *)
LEMMA NotWaiting ==
  ASSUME PollingInv, NEW m \in Mints, lane[m] # "reserving"
  PROVE  m \notin Budget!Range(waiters)
  BY DEF Budget!Range, PollingInv, QueueInv

(* A lane that asks has given back what it held.                           *)
LEMMA AskMaps ==
  ASSUME PollingInv, NEW m \in Mints, SupportKnown(m) \/ BatchDone(m)
  PROVE  Budget!Next \/ UNCHANGED <<waiters, held>>
<1>1. held \in [Mints -> Nat]
  BY DEF PollingInv, LaneTypes
<1>2. held' = [held EXCEPT ![m] = 0]
  <2>1. CASE SupportKnown(m)
    <3>1. held' = held /\ held[m] = 0
      BY <2>1 DEF SupportKnown, PollingInv, GrantInv
    <3>2. QED BY <1>1, <3>1
  <2>2. CASE BatchDone(m)
    <3>1. held' = [held EXCEPT ![m] = @ - held[m]] /\ held[m] - held[m] = 0
      BY <1>1, <2>2 DEF BatchDone, Release
    <3>2. QED BY <3>1
  <2>3. QED BY <2>1, <2>2
<1>3. ReserveOrLeave(m) /\ m \notin Budget!Range(waiters)
  BY NotWaiting DEF SupportKnown, BatchDone
<1>4. CASE ~Aborted
  <2>1. Budget!Ask(m)
    BY <1>2, <1>3, <1>4 DEF ReserveOrLeave, Budget!Ask
  <2>2. QED BY <2>1 DEF Budget!Next
<1>5. CASE Aborted
  <2>1. waiters' = waiters
    BY <1>3, <1>5 DEF ReserveOrLeave
  <2>2. CASE held[m] = 0
    BY <1>1, <1>2, <2>1, <2>2
  <2>3. CASE held[m] # 0
    <3>1. held[m] \in 1..held[m] /\ held[m] - held[m] = 0
      BY <1>1, <2>3
    <3>2. Budget!GiveBack(m, held[m])
      BY <1>2, <2>1, <3>1 DEF Budget!GiveBack
    <3>3. QED BY <3>1, <3>2 DEF Budget!Next
  <2>4. QED BY <2>2, <2>3
<1>6. QED BY <1>4, <1>5

(* A claim gives back what it does not use, a failed one all of it.        *)
LEMMA ClaimMaps ==
  ASSUME PollingInv, NEW m \in Mints, TakeDue(m) \/ TakeDueFails(m)
  PROVE  Budget!Next \/ UNCHANGED <<waiters, held>>
<1>1. held \in [Mints -> Nat] /\ waiters' = waiters
  BY DEF PollingInv, LaneTypes, TakeDue, TakeDueFails
<1>2. \E n \in 0..held[m] : held' = [held EXCEPT ![m] = @ - n]
  <2>1. CASE TakeDue(m)
    <3>1. PICK claim \in SUBSET Quotes :
            /\ Claimable(m, claim)
            /\ Release(m, held[m] - Cardinality(IF Aborted THEN {} ELSE claim))
      BY <2>1 DEF TakeDue
    <3> DEFINE kept == IF Aborted THEN {} ELSE claim
    <3>2. Cardinality(claim) \in Nat /\ Cardinality(claim) <= held[m]
      BY <3>1, ClaimIsDue
    <3>3. Cardinality(kept) \in Nat /\ Cardinality(kept) <= held[m]
      BY <1>1, <3>2, FS_EmptySet
    <3>4. held' = [held EXCEPT ![m] = @ - (held[m] - Cardinality(kept))]
      BY <3>1 DEF Release
    <3> HIDE DEF kept
    <3>5. held[m] - Cardinality(kept) \in 0..held[m]
      BY <1>1, <3>3
    <3>6. QED BY <3>4, <3>5
  <2>2. CASE TakeDueFails(m)
    <3>1. held[m] \in 0..held[m]
      BY <1>1
    <3>2. held' = [held EXCEPT ![m] = @ - held[m]]
      BY <2>2 DEF TakeDueFails, Release
    <3> DEFINE all == held[m]
    <3>3. all \in 0..held[m] /\ held' = [held EXCEPT ![m] = @ - all]
      BY <3>1, <3>2
    <3> HIDE DEF all
    <3>4. QED BY <3>3
  <2>3. QED BY <2>1, <2>2
<1>3. PICK n \in 0..held[m] : held' = [held EXCEPT ![m] = @ - n]
  BY <1>2
<1>4. CASE n = 0
  BY <1>1, <1>3, <1>4
<1>5. CASE n # 0
  <2>1. n \in 1..held[m]
    BY <1>1, <1>5
  <2>2. Budget!GiveBack(m, n)
    BY <1>1, <1>3, <2>1 DEF Budget!GiveBack
  <2>3. QED BY <2>1, <2>2 DEF Budget!Next
<1>6. QED BY <1>4, <1>5

(* The service is, to its lanes, the account of the capacity: whatever     *)
(* rounds, failed claims and shutdowns do, lanes are served in the order   *)
(* in which they asked, evenly, and from what is free.                     *)
THEOREM PollingImplementsBudget == Spec => ImplementsBudget
<1>1. ASSUME Init PROVE Budget!Init
  BY <1>1 DEF Init, Budget!Init
<1>2. ASSUME PollingInv, [Next]_vars PROVE [Budget!Next]_(Budget!budgetVars)
  <2> SUFFICES Budget!Next \/ UNCHANGED <<waiters, held>>
    BY DEF Budget!budgetVars
  <2>1. CASE Drain
    BY <1>2, <2>1, DrainMaps
  <2>2. ASSUME NEW m \in Mints, LaneStep(m) \/ SupportFails(m) \/ TakeDueFails(m) \/ DropBatch(m)
        PROVE  Budget!Next \/ UNCHANGED <<waiters, held>>
    <3>1. CASE SupportKnown(m) \/ BatchDone(m)
      BY <1>2, <3>1, AskMaps
    <3>2. CASE TakeDue(m) \/ TakeDueFails(m)
      BY <1>2, <3>2, ClaimMaps
    <3>3. CASE CheckQuote(m) \/ LaneEnds(m) \/ SupportFails(m) \/ DropBatch(m)
      BY <3>3 DEF CheckQuote, LaneEnds, SupportFails, DropBatch, capacity
    <3>4. QED BY <2>2, <3>1, <3>2, <3>3 DEF LaneStep
  <2>3. CASE Stop
    BY <2>3 DEF Stop, Budget!Next, Budget!Cancel
  <2>4. CASE Start \/ FireTimer \/ Round \/ ListFails \/ Tick \/ UNCHANGED vars
    BY <2>4 DEF Start, FireTimer, Round, ListQueues, PassSettled, ListFails, Tick, vars, lanes, capacity
  <2>5. ASSUME NEW q \in Quotes, NewQuote(q) \/ CloseElsewhere(q)
        PROVE  UNCHANGED <<waiters, held>>
    BY <2>5 DEF NewQuote, CloseElsewhere, lanes, capacity
  <2>6. QED BY <1>2, <2>1, <2>2, <2>3, <2>4, <2>5 DEF Next
<1>3. QED BY <1>1, <1>2, PollingInvariant, PTL DEF Spec, ImplementsBudget, Budget!Spec

=============================================================================
