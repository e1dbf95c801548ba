---------------------------- MODULE Enumerations ----------------------------
(***************************************************************************)
(* Facts about finite sets listed in order, for the proofs about what the  *)
(* portal shows in an order: the toasts of a browser and the teams of a    *)
(* user.  An order is a set of pairs, as in WellFoundedInduction.          *)
(*                                                                         *)
(* They need induction over the size of a set.  The induction theorems of  *)
(* the library take a predicate, which the provers cannot instantiate;     *)
(* that every non-empty set of numbers has a least one does instead.       *)
(***************************************************************************)
EXTENDS Integers, FiniteSets, FiniteSetTheorems, WellFoundedInduction, TLAPS

\* R orders S from first to last.
IsOrder(R, S) ==
  /\ \A x \in S : <<x, x>> \notin R
  /\ \A x, y \in S : x = y \/ <<x, y>> \in R \/ <<y, x>> \in R
  /\ \A x, y, z \in S : <<x, y>> \in R /\ <<y, z>> \in R => <<x, z>> \in R

\* q lists S in that order.
Enumerates(q, S, R) ==
  /\ q \in [1..Cardinality(S) -> S]
  /\ \A i, j \in 1..Cardinality(S) : i < j => <<q[i], q[j]>> \in R

\* A non-empty set of numbers has a least one.
LEMMA LeastNumber ==
  ASSUME NEW T \in SUBSET Nat, T # {}
  PROVE  \E n \in T : \A m \in T : n <= m
<1> DEFINE Less == {s \in Nat \X Nat : s[1] < s[2]}
<1>1. IsWellFoundedOn(Less, Nat)
  BY NatLessThanWellFounded DEF OpToRel
<1>2. PICK n \in T : \A m \in T : <<m, n>> \notin Less
  <2> HIDE DEF Less
  <2> QED
    BY <1>1, WFMin
<1>3. \A m \in T : ~(m < n)
  <2> SUFFICES ASSUME NEW m \in T, m < n PROVE FALSE
    OBVIOUS
  <2>1. <<m, n>> \in Less
    OBVIOUS
  <2> QED BY <1>2, <2>1
<1> QED
  BY <1>3

\* A finite set that is not empty has a last element.
LEMMA LastElement ==
  ASSUME NEW S, IsFiniteSet(S), S # {}, NEW R, IsOrder(R, S)
  PROVE  \E x \in S : \A y \in S \ {x} : <<y, x>> \in R
<1> DEFINE Has(A) == \E x \in A : \A y \in A \ {x} : <<y, x>> \in R
           Bad == {n \in Nat : \E A \in SUBSET S : A # {} /\ ~Has(A) /\ Cardinality(A) = n}
<1> SUFFICES ASSUME ~Has(S) PROVE FALSE
  OBVIOUS
<1>1. Bad # {}
  BY FS_CardinalityType
<1>2. PICK n \in Bad : \A m \in Bad : n <= m
  <2>1. Bad \in SUBSET Nat
    OBVIOUS
  <2> HIDE DEF Bad
  <2> QED BY <1>1, <2>1, LeastNumber
<1>3. PICK A \in SUBSET S : A # {} /\ ~Has(A) /\ Cardinality(A) = n
  BY <1>2
<1>4. PICK a : a \in A
  BY <1>3
<1>5. IsFiniteSet(A)
  BY FS_Subset
<1> DEFINE B == A \ {a}
<1>6. Cardinality(B) = n - 1 /\ Cardinality(B) \in Nat /\ n \in Nat
  BY <1>3, <1>4, <1>5, FS_RemoveElement, FS_CardinalityType
<1>7. B # {}
  BY <1>3, <1>4
<1>8. Has(B)
  <2>1. B \in SUBSET S
    OBVIOUS
  <2> HIDE DEF B, Has
  <2> QED BY <1>2, <1>6, <1>7, <2>1
<1>9. PICK b \in B : \A y \in B \ {b} : <<y, b>> \in R
  BY <1>8
<1>10. a \in S /\ b \in S /\ a # b /\ b \in A /\ \A y \in A : y \in S /\ (y = a \/ y = b \/ <<y, b>> \in R)
  BY <1>4, <1>9
<1>11. CASE <<a, b>> \in R
  BY <1>3, <1>10, <1>11
<1>12. CASE <<b, a>> \in R
  <2>1. \A y \in A \ {a} : <<y, a>> \in R
    BY <1>10, <1>12 DEF IsOrder
  <2> QED BY <1>3, <1>4, <2>1
<1> QED
  BY <1>10, <1>11, <1>12 DEF IsOrder

\* A finite set can be listed in any order given of it.
LEMMA ListExists ==
  ASSUME NEW S, IsFiniteSet(S), NEW R, IsOrder(R, S)
  PROVE  \E q : Enumerates(q, S, R)
<1> DEFINE Bad == {n \in Nat : \E A \in SUBSET S : Cardinality(A) = n /\ ~\E q : Enumerates(q, A, R)}
<1> SUFFICES ASSUME ~\E q : Enumerates(q, S, R) PROVE FALSE
  OBVIOUS
<1>1. Bad # {}
  BY FS_CardinalityType
<1>2. PICK n \in Bad : \A m \in Bad : n <= m
  <2>1. Bad \in SUBSET Nat
    OBVIOUS
  <2> HIDE DEF Bad
  <2> QED BY <1>1, <2>1, LeastNumber
<1>3. PICK A \in SUBSET S : Cardinality(A) = n /\ ~\E q : Enumerates(q, A, R)
  BY <1>2
<1>4. IsFiniteSet(A) /\ n \in Nat
  BY FS_Subset
<1>5. A # {}
  <2> SUFFICES ASSUME A = {} PROVE FALSE
    OBVIOUS
  <2>1. Cardinality(A) = 0
    BY FS_EmptySet
  <2>2. Enumerates([i \in 1..0 |-> i], A, R)
    BY <2>1 DEF Enumerates
  <2> QED BY <1>3, <2>2
<1>6. IsOrder(R, A)
  BY DEF IsOrder
<1>7. PICK a \in A : \A y \in A \ {a} : <<y, a>> \in R
  BY <1>4, <1>5, <1>6, LastElement
<1> DEFINE B == A \ {a}
<1>8. Cardinality(B) = n - 1 /\ Cardinality(B) \in Nat
  BY <1>3, <1>4, FS_RemoveElement, FS_CardinalityType
<1>9. PICK p : Enumerates(p, B, R)
  <2>1. B \in SUBSET S
    OBVIOUS
  <2> HIDE DEF B
  <2> QED BY <1>2, <1>4, <1>8, <2>1
<1> DEFINE q == [i \in 1..n |-> IF i = n THEN a ELSE p[i]]
<1>10. /\ p \in [1..(n - 1) -> B]
       /\ \A i, j \in 1..(n - 1) : i < j => <<p[i], p[j]>> \in R
       /\ \A i \in 1..n : i # n => i \in 1..(n - 1)
  <2>1. /\ p \in [1..Cardinality(B) -> B]
        /\ \A i, j \in 1..Cardinality(B) : i < j => <<p[i], p[j]>> \in R
    <3> HIDE DEF B
    <3> QED BY <1>9 DEF Enumerates
  <2> HIDE DEF B
  <2> QED BY <1>4, <1>8, <2>1
<1>11. q \in [1..n -> A]
  BY <1>4, <1>7, <1>10
<1>12. ASSUME NEW i \in 1..n, NEW j \in 1..n, i < j
       PROVE  <<q[i], q[j]>> \in R
  <2>1. i # n /\ q[i] = p[i] /\ p[i] \in B
    BY <1>4, <1>10, <1>12
  <2>2. CASE j = n
    BY <1>7, <2>1, <2>2
  <2>3. CASE j # n
    BY <1>4, <1>10, <1>12, <2>1, <2>3
  <2> QED BY <2>2, <2>3
<1>13. Enumerates(q, A, R)
  <2> HIDE DEF q
  <2> QED BY <1>3, <1>11, <1>12 DEF Enumerates
<1> QED BY <1>3, <1>13

\* Every element is listed, and once.
LEMMA ListedOnce ==
  ASSUME NEW S, IsFiniteSet(S), NEW R, IsOrder(R, S), NEW q, Enumerates(q, S, R)
  PROVE  /\ \A i, j \in 1..Cardinality(S) : q[i] = q[j] => i = j
         /\ \A x \in S : \E i \in 1..Cardinality(S) : q[i] = x
<1> DEFINE n == Cardinality(S)
<1>1. n \in Nat
  BY FS_CardinalityType
<1>2. ASSUME NEW i \in 1..n, NEW j \in 1..n, q[i] = q[j]
      PROVE  i = j
  <2>1. q[i] \in S /\ <<q[i], q[i]>> \notin R
    BY DEF Enumerates, IsOrder
  <2>2. i < j \/ j < i \/ i = j
    BY <1>1
  <2> QED BY <1>2, <2>1, <2>2 DEF Enumerates
<1>3. q \in Injection(1..n, S)
  BY <1>2 DEF Enumerates, Injection, IsInjective
<1>4. IsFiniteSet(1..n) /\ Cardinality(1..n) = n
  BY <1>1, FS_Interval
<1>5. q \in Surjection(1..n, S)
  BY <1>3, <1>4, FS_Injection
<1> QED BY <1>2, <1>5 DEF Surjection

\* There is one list only.
LEMMA ListUnique ==
  ASSUME NEW S, IsFiniteSet(S), NEW R, IsOrder(R, S),
         NEW p, Enumerates(p, S, R), NEW q, Enumerates(q, S, R)
  PROVE  p = q
<1> DEFINE n == Cardinality(S)
           Bad == {i \in 1..n : p[i] # q[i]}
<1>1. n \in Nat /\ Bad \in SUBSET Nat
  BY FS_CardinalityType
<1>2. CASE Bad = {}
  <2>1. p \in [1..n -> S] /\ q \in [1..n -> S] /\ \A i \in 1..n : p[i] = q[i]
    BY <1>2 DEF Enumerates
  <2>2. p = [i \in 1..n |-> p[i]] /\ q = [i \in 1..n |-> q[i]]
    BY <2>1
  <2>3. [i \in 1..n |-> p[i]] = [i \in 1..n |-> q[i]]
    BY <2>1
  <2> QED BY <2>2, <2>3, Zenon
<1>3. CASE Bad # {}
  <2>1. PICK i \in Bad : \A k \in Bad : i <= k
    <3> HIDE DEF Bad
    <3> QED BY <1>1, <1>3, LeastNumber
  <2>2. p[i] \in S /\ q[i] \in S /\ i \in 1..n /\ p[i] # q[i]
    BY <2>1 DEF Enumerates
  <2>3. PICK j \in 1..n : q[j] = p[i]
    BY <2>2, ListedOnce
  <2>4. PICK k \in 1..n : p[k] = q[i]
    BY <2>2, ListedOnce
  <2>5. j > i
    <3>1. j < i => p[j] = q[j]
      BY <1>1, <2>1
    <3> QED BY <1>1, <2>2, <2>3, <3>1, ListedOnce
  <2>6. k > i
    <3>1. k < i => p[k] = q[k]
      BY <1>1, <2>1
    <3> QED BY <1>1, <2>2, <2>4, <3>1, ListedOnce
  <2>7. <<p[i], q[i]>> \in R /\ <<q[i], p[i]>> \in R
    BY <1>1, <2>2, <2>3, <2>4, <2>5, <2>6 DEF Enumerates
  <2> QED BY <2>2, <2>7 DEF IsOrder
<1> QED BY <1>2, <1>3
=============================================================================
