---------------------------- MODULE LayoutProofs ----------------------------
(***************************************************************************)
(* Lemmas about the operators that ScheduleWalk is built from: minima and  *)
(* maxima, products over a function's values (which sizes, volumes and     *)
(* bytes are), the powers of two that tile sizes and memory limits are     *)
(* rounded to, and layouts: what AppliesTo asks of each dimension, and     *)
(* that each way of making a layout from another (for a tile, without      *)
(* redundant packings and with ones in order; without some dimensions; of  *)
(* two dimensions swapped; for a move) makes one that applies.  Where an   *)
(* induction would do, the least counterexample is refuted (LeastNat).     *)
(***************************************************************************)
EXTENDS Scheduling, SpecKeys, FiniteSetTheorems, SequenceTheorems, NaturalsInduction, WellFoundedInduction, TLAPS

\* A nonempty set of naturals has a least element.
LEMMA LeastNat ==
    ASSUME NEW T \in SUBSET Nat, T # {}
    PROVE  \E m \in T : \A n \in T : m <= n
<1>1. \E x \in T : \A y \in T : ~ (<<y, x>> \in OpToRel(<, Nat))
  BY NatLessThanWellFounded, WFMin
<1>2. PICK x \in T : \A y \in T : ~ (<<y, x>> \in OpToRel(<, Nat))
  BY <1>1
<1>3. \A y \in T : ~ (y < x)
  BY <1>2 DEF OpToRel
<1> QED
  BY <1>3

\* Its least element is what Min chooses.
LEMMA MinNat ==
    ASSUME NEW T \in SUBSET Nat, T # {}
    PROVE  Min(T) \in T /\ \A n \in T : Min(T) <= n
<1>1. \E x \in T : \A y \in T : x <= y
  BY LeastNat
<1> QED
  BY <1>1 DEF Min

\* And a bounded one has a greatest element, which Max chooses.
LEMMA MaxNat ==
    ASSUME NEW b \in Nat, NEW T \in SUBSET (0..b), T # {}
    PROVE  Max(T) \in T /\ \A n \in T : n <= Max(T)
<1> DEFINE Gaps == {b - n : n \in T}
<1>1. Gaps # {} /\ Gaps \in SUBSET Nat
  <2>1. \A n \in T : n \in Nat /\ b - n \in Nat
    OBVIOUS
  <2>2. Gaps # {}
    OBVIOUS
  <2> QED
    BY <2>1, <2>2
<1>2. PICK gap \in Gaps : \A g \in Gaps : gap <= g
  BY <1>1, LeastNat
<1>3. PICK m \in T : gap = b - m
  BY <1>2
<1>4. \A n \in T : n <= m
  <2> SUFFICES ASSUME NEW n \in T
               PROVE  n <= m
    OBVIOUS
  <2>1. gap <= b - n
    BY <1>2
  <2>2. n \in Nat /\ m \in Nat
    BY <1>3
  <2> QED
    BY <1>3, <2>1, <2>2
<1>5. \A n \in T : m >= n
  BY <1>4
<1>6. \A n \in T : Max(T) >= n
  BY <1>5 DEF Max
<1>7. Max(T) \in T
  BY <1>5 DEF Max
<1> QED
  BY <1>6, <1>7
-----------------------------------------------------------------------------
(* Products.                                                               *)

Pick(S) == CHOOSE x \in S : TRUE

\* P has the products of f over the subsets of S of at most n elements.
SmallSubsets(S, n) == {T \in SUBSET S : Cardinality(T) <= n}
IsProduct(P, f, S, n) ==
    /\ P \in [SmallSubsets(S, n) -> Nat \ {0}]
    /\ \A T \in SmallSubsets(S, n) : P[T] = IF T = {} THEN 1 ELSE f[Pick(T)] * P[T \ {Pick(T)}]

LEMMA ProductExists ==
    ASSUME NEW S, IsFiniteSet(S), NEW f \in [S -> Nat \ {0}], NEW n \in Nat
    PROVE  \E P : IsProduct(P, f, S, n)
<1> DEFINE Bad == {k \in Nat : \A P : ~IsProduct(P, f, S, k)}
<1>1. SUFFICES ASSUME Bad # {}
               PROVE  FALSE
  OBVIOUS
<1>2. PICK k \in Bad : \A i \in Bad : k <= i
  BY <1>1, LeastNat
<1>a. \A T \in SUBSET S : IsFiniteSet(T) /\ Cardinality(T) \in Nat
  BY FS_Subset, FS_CardinalityType
<1>3. CASE k = 0
  <2>1. SmallSubsets(S, k) = {{}}
    BY <1>a, <1>3, FS_EmptySet DEF SmallSubsets
  <2>2. IsProduct([T \in SmallSubsets(S, k) |-> 1], f, S, k)
    BY <2>1 DEF IsProduct
  <2> QED
    BY <1>2, <2>2
<1>4. CASE k # 0
  <2>1. k \in Nat /\ k - 1 \in Nat /\ k - 1 \notin Bad
    BY <1>2, <1>4
  <2>2. PICK P : IsProduct(P, f, S, k - 1)
    BY <2>1
  <2> DEFINE Q == [T \in SmallSubsets(S, k) |-> IF T = {} THEN 1 ELSE f[Pick(T)] * P[T \ {Pick(T)}]]
  <2>3. ASSUME NEW T \in SmallSubsets(S, k), T # {}
        PROVE  Pick(T) \in T /\ T \ {Pick(T)} \in SmallSubsets(S, k - 1)
    <3>1. Pick(T) \in T
      BY <2>3 DEF Pick
    <3>2. Cardinality(T \ {Pick(T)}) = Cardinality(T) - 1
      BY <1>a, <3>1, FS_RemoveElement DEF SmallSubsets
    <3> QED
      BY <1>a, <2>1, <3>1, <3>2 DEF SmallSubsets
  <2>4. Q \in [SmallSubsets(S, k) -> Nat \ {0}]
    <3>1. ASSUME NEW T \in SmallSubsets(S, k), T # {}
          PROVE  f[Pick(T)] * P[T \ {Pick(T)}] \in Nat \ {0}
      <4>1. f[Pick(T)] \in Nat \ {0} /\ P[T \ {Pick(T)}] \in Nat \ {0}
        BY <2>2, <2>3, <3>1 DEF IsProduct, SmallSubsets
      <4>2. \A a, b \in Nat \ {0} : a * b \in Nat \ {0}
        OBVIOUS
      <4> QED
        BY <4>1, <4>2
    <3>2. \A T \in SmallSubsets(S, k) :
              (IF T = {} THEN 1 ELSE f[Pick(T)] * P[T \ {Pick(T)}]) \in Nat \ {0}
      BY <3>1
    <3> QED
      BY <3>2
  <2>5. \A T \in SmallSubsets(S, k - 1) : T \in SmallSubsets(S, k) /\ Q[T] = P[T]
    BY <1>a, <2>1, <2>2 DEF IsProduct, SmallSubsets
  <2>6. \A T \in SmallSubsets(S, k) : Q[T] = IF T = {} THEN 1 ELSE f[Pick(T)] * Q[T \ {Pick(T)}]
    BY <2>3, <2>5
  <2>7. IsProduct(Q, f, S, k)
    BY <2>4, <2>6 DEF IsProduct
  <2> QED
    BY <1>2, <2>7
<1> QED
  BY <1>3, <1>4

\* Product is one of them.
FoldsTo(P, f, S) ==
    /\ P \in [SUBSET S -> Nat \ {0}] /\ Product(f) = P[S]
    /\ \A T \in SUBSET S : P[T] = IF T = {} THEN 1 ELSE f[Pick(T)] * P[T \ {Pick(T)}]

LEMMA ProductIs ==
    ASSUME NEW S, IsFiniteSet(S), NEW f \in [S -> Nat \ {0}]
    PROVE  \E P : FoldsTo(P, f, S)
<1> DEFINE IsRec(P) == P = [T \in SUBSET DOMAIN f |-> IF T = {} THEN 1 ELSE f[Pick(T)] * P[T \ {Pick(T)}]]
<1>1. PICK P : IsProduct(P, f, S, Cardinality(S))
  BY ProductExists, FS_CardinalityType
<1>2. SmallSubsets(S, Cardinality(S)) = SUBSET S
  BY FS_Subset DEF SmallSubsets
<1>3. IsRec(P)
  BY <1>1, <1>2 DEF IsProduct
<1>4. Product(f) = (CHOOSE Q : IsRec(Q))[DOMAIN f]
  BY DEF Product, FoldFunction, FoldFunctionOnSet, MapThenFoldSet, Pick
<1>5. PICK Q : Q = CHOOSE R : IsRec(R)
  OBVIOUS
<1>6. IsRec(Q)
  BY <1>3, <1>5
<1>7. Q \in [SUBSET S -> Nat \ {0}]
  <2> DEFINE Bad == {k \in Nat : \E T \in SUBSET S : Cardinality(T) = k /\ Q[T] \notin Nat \ {0}}
  <2>1. SUFFICES ASSUME Bad # {}
                 PROVE  FALSE
    <3>1. \A T \in SUBSET S : Cardinality(T) \in Nat
      BY FS_Subset, FS_CardinalityType
    <3> QED
      BY <1>6, <3>1
  <2>2. PICK k \in Bad : \A i \in Bad : k <= i
    BY <2>1, LeastNat
  <2>3. PICK T \in SUBSET S : Cardinality(T) = k /\ Q[T] \notin Nat \ {0}
    BY <2>2
  <2>4. Q[T] = IF T = {} THEN 1 ELSE f[Pick(T)] * Q[T \ {Pick(T)}]
    BY <1>6
  <2>5. T # {}
    BY <2>3, <2>4
  <2>6. Pick(T) \in T
    BY <2>5 DEF Pick
  <2>7. IsFiniteSet(T) /\ IsFiniteSet(T \ {Pick(T)}) /\ Cardinality(T \ {Pick(T)}) = k - 1
    BY <2>3, <2>6, FS_Subset, FS_RemoveElement
  <2>11. k - 1 \in Nat
    BY <2>7, FS_CardinalityType
  <2>8. Q[T \ {Pick(T)}] \in Nat \ {0}
    BY <2>2, <2>7, <2>11
  <2>9. f[Pick(T)] \in Nat \ {0}
    BY <2>6
  <2>10. \A a, b \in Nat \ {0} : a * b \in Nat \ {0}
    OBVIOUS
  <2> QED
    BY <2>3, <2>4, <2>5, <2>8, <2>9, <2>10
<1>8. DOMAIN f = S
  OBVIOUS
<1>9. \A T \in SUBSET S : Q[T] = IF T = {} THEN 1 ELSE f[Pick(T)] * Q[T \ {Pick(T)}]
  BY <1>6, <1>8
<1>10. Product(f) = Q[S]
  <2> HIDE DEF IsRec
  <2> QED
    BY <1>4, <1>5, <1>8
<1> QED
  BY <1>7, <1>9, <1>10 DEF FoldsTo
LEMMA SubsetFinite ==
    ASSUME NEW S, IsFiniteSet(S)
    PROVE  \A T \in SUBSET S : IsFiniteSet(T) /\ Cardinality(T) \in Nat
BY FS_Subset, FS_CardinalityType

LEMMA NonzeroTimes == \A a, b \in Nat \ {0} : a * b \in Nat \ {0}
OBVIOUS

\* The products of f over all subsets of its domain: of none it is 1, and any
\* element may be taken out.
HasProducts(P, f, S) ==
    /\ P \in [SUBSET S -> Nat \ {0}] /\ P[{}] = 1 /\ P[S] = Product(f)
    /\ \A T \in SUBSET S : P[T] = Product(Restrict(f, T))
    /\ \A T \in SUBSET S : \A x \in T : P[T] = f[x] * P[T \ {x}]

LEMMA Products ==
    ASSUME NEW S, IsFiniteSet(S), NEW f \in [S -> Nat \ {0}]
    PROVE  \E P : HasProducts(P, f, S)
<1>5. PICK P : FoldsTo(P, f, S)
  BY ProductIs
<1>1. /\ P \in [SUBSET S -> Nat \ {0}] /\ Product(f) = P[S]
      /\ \A T \in SUBSET S : P[T] = IF T = {} THEN 1 ELSE f[Pick(T)] * P[T \ {Pick(T)}]
  BY <1>5 DEF FoldsTo
<1>2. ASSUME NEW T \in SUBSET S
      PROVE  P[T] = Product(Restrict(f, T))
  <2>1. Restrict(f, T) \in [T -> Nat \ {0}] /\ IsFiniteSet(T) /\ \A x \in T : Restrict(f, T)[x] = f[x]
    BY SubsetFinite DEF Restrict
  <2>5. PICK Q : FoldsTo(Q, Restrict(f, T), T)
    BY <2>1, ProductIs
  <2>2. /\ Product(Restrict(f, T)) = Q[T]
        /\ \A U \in SUBSET T : Q[U] = IF U = {} THEN 1 ELSE Restrict(f, T)[Pick(U)] * Q[U \ {Pick(U)}]
    BY <2>5 DEF FoldsTo
  <2> DEFINE Bad == {k \in Nat : \E U \in SUBSET T : Cardinality(U) = k /\ P[U] # Q[U]}
  <2>3. Bad = {}
    <3>1. SUFFICES ASSUME Bad # {}
                   PROVE  FALSE
      OBVIOUS
    <3>2. PICK k \in Bad : \A i \in Bad : k <= i
      BY <3>1, LeastNat
    <3>3. PICK U \in SUBSET T : Cardinality(U) = k /\ P[U] # Q[U]
      BY <3>2
    <3>4. U # {}
      BY <1>1, <2>2, <3>3
    <3>5. Pick(U) \in U
      BY <3>4 DEF Pick
    <3>6. IsFiniteSet(U) /\ IsFiniteSet(U \ {Pick(U)}) /\ Cardinality(U \ {Pick(U)}) = k - 1
      BY <2>1, <3>3, <3>5, FS_Subset, FS_RemoveElement
    <3>7. k - 1 \in Nat
      BY <3>6, FS_CardinalityType
    <3>8. P[U \ {Pick(U)}] = Q[U \ {Pick(U)}]
      BY <3>2, <3>6, <3>7
    <3> QED
      BY <1>1, <2>1, <2>2, <3>3, <3>4, <3>5, <3>8
  <2>4. Cardinality(T) \in Nat
    BY <2>1, FS_CardinalityType
  <2> QED
    BY <2>2, <2>3, <2>4
<1>3. ASSUME NEW T \in SUBSET S, NEW x \in T
      PROVE  P[T] = f[x] * P[T \ {x}]
  <2> DEFINE Bad == {k \in Nat : \E U \in SUBSET S : \E y \in U : Cardinality(U) = k /\ P[U] # f[y] * P[U \ {y}]}
  <2>1. Bad = {}
    <3>1. SUFFICES ASSUME Bad # {}
                   PROVE  FALSE
      OBVIOUS
    <3>2. PICK k \in Bad : \A i \in Bad : k <= i
      BY <3>1, LeastNat
    <3>3. PICK U \in SUBSET S, y \in S : y \in U /\ Cardinality(U) = k /\ P[U] # f[y] * P[U \ {y}]
      BY <3>2
    <3>4. PICK p : p = Pick(U)
      OBVIOUS
    <3>5. p \in U /\ P[U] = f[p] * P[U \ {p}]
      BY <1>1, <3>3, <3>4 DEF Pick
    <3>6. p # y
      BY <3>3, <3>5
    <3>7. IsFiniteSet(U) /\ IsFiniteSet(U \ {p}) /\ Cardinality(U \ {p}) = k - 1
      BY <3>3, <3>5, FS_Subset, FS_RemoveElement
    <3>8. k - 1 \in Nat /\ k - 1 \notin Bad
      <4>1. k - 1 \in Nat
        BY <3>7, FS_CardinalityType
      <4> QED
        BY <3>2, <4>1
    <3>9. P[U \ {p}] = f[y] * P[(U \ {p}) \ {y}]
      BY <3>3, <3>6, <3>7, <3>8
    <3>10. IsFiniteSet(U \ {y}) /\ Cardinality(U \ {y}) = k - 1
      BY <3>3, FS_Subset, FS_RemoveElement
    <3>11. P[U \ {y}] = f[p] * P[(U \ {y}) \ {p}]
      BY <3>5, <3>6, <3>8, <3>10
    <3>12. (U \ {y}) \ {p} = (U \ {p}) \ {y}
      OBVIOUS
    <3>13. PICK a \in Nat, b \in Nat, c \in Nat : a = f[p] /\ b = f[y] /\ c = P[(U \ {p}) \ {y}]
      BY <1>1, <3>3, <3>5
    <3>14. a * (b * c) = b * (a * c)
      OBVIOUS
    <3>15. P[U] = a * (b * c) /\ f[y] * P[U \ {y}] = b * (a * c)
      BY <3>5, <3>9, <3>11, <3>12, <3>13
    <3> QED
      BY <3>3, <3>14, <3>15
  <2>2. Cardinality(T) \in Nat
    BY SubsetFinite
  <2> QED
    BY <2>1, <2>2
<1>4. P[{}] = 1
  BY <1>1
<1> QED
  BY <1>1, <1>2, <1>3, <1>4 DEF HasProducts

LEMMA ProductNonzero ==
    ASSUME NEW S, IsFiniteSet(S), NEW f \in [S -> Nat \ {0}]
    PROVE  Product(f) \in Nat \ {0}
<1>1. PICK P : HasProducts(P, f, S)
  BY Products
<1> QED
  BY <1>1 DEF HasProducts

LEMMA ProductOfNone ==
    ASSUME NEW f \in [{} -> Nat \ {0}]
    PROVE  Product(f) = 1
<1>1. PICK P : HasProducts(P, f, {})
  BY Products, FS_EmptySet
<1> QED
  BY <1>1 DEF HasProducts

LEMMA ProductTakes ==
    ASSUME NEW S, IsFiniteSet(S), NEW f \in [S -> Nat \ {0}], NEW x \in S
    PROVE  /\ Product(Restrict(f, S \ {x})) \in Nat \ {0}
           /\ Product(f) = f[x] * Product(Restrict(f, S \ {x}))
<1>1. PICK P : HasProducts(P, f, S)
  BY Products
<1>2. P[S] = Product(f) /\ P[S \ {x}] = Product(Restrict(f, S \ {x}))
  BY <1>1 DEF HasProducts
<1>3. P[S \ {x}] \in Nat \ {0} /\ P[S] = f[x] * P[S \ {x}]
  BY <1>1 DEF HasProducts
<1> QED
  BY <1>2, <1>3

\* Larger factors make larger products.
LEMMA ProductGrows ==
    ASSUME NEW S, IsFiniteSet(S), NEW f \in [S -> Nat \ {0}], NEW g \in [S -> Nat \ {0}],
           \A x \in S : f[x] <= g[x]
    PROVE  /\ Product(f) <= Product(g)
           /\ (\E x \in S : f[x] < g[x]) => Product(f) < Product(g)
<1>6. PICK P : HasProducts(P, f, S)
  BY Products
<1>7. PICK Q : HasProducts(Q, g, S)
  BY Products
<1>1. /\ P \in [SUBSET S -> Nat \ {0}] /\ P[{}] = 1
      /\ \A T \in SUBSET S : \A y \in T : P[T] = f[y] * P[T \ {y}]
  BY <1>6 DEF HasProducts
<1>2. /\ Q \in [SUBSET S -> Nat \ {0}] /\ Q[{}] = 1
      /\ \A T \in SUBSET S : \A y \in T : Q[T] = g[y] * Q[T \ {y}]
  BY <1>7 DEF HasProducts
<1>3. \A T \in SUBSET S : P[T] <= Q[T]
  <2> DEFINE Bad == {k \in Nat : \E T \in SUBSET S : Cardinality(T) = k /\ ~(P[T] <= Q[T])}
  <2>1. Bad = {}
    <3>1. SUFFICES ASSUME Bad # {}
                   PROVE  FALSE
      OBVIOUS
    <3>2. PICK k \in Bad : \A i \in Bad : k <= i
      BY <3>1, LeastNat
    <3>3. PICK T \in SUBSET S : Cardinality(T) = k /\ ~(P[T] <= Q[T])
      BY <3>2
    <3>4. T # {}
      <4>1. P[{}] <= Q[{}]
        BY <1>1, <1>2
      <4> QED
        BY <3>3, <4>1
    <3>5. PICK x \in T : TRUE
      BY <3>4
    <3>6. IsFiniteSet(T) /\ IsFiniteSet(T \ {x}) /\ Cardinality(T \ {x}) = k - 1
      BY <3>3, <3>5, FS_Subset, FS_RemoveElement
    <3>7. k - 1 \in Nat /\ k - 1 \notin Bad
      BY <3>2, <3>6, FS_CardinalityType
    <3>8. P[T \ {x}] <= Q[T \ {x}]
      BY <3>6, <3>7
    <3>9. PICK a \in Nat, b \in Nat, c \in Nat, d \in Nat :
              a = f[x] /\ b = g[x] /\ c = P[T \ {x}] /\ d = Q[T \ {x}] /\ a <= b /\ c <= d
      BY <1>1, <1>2, <3>5, <3>8
    <3>10. a * c <= b * d
      BY <3>9
    <3>11. P[T] = a * c /\ Q[T] = b * d
      BY <1>1, <1>2, <3>3, <3>5, <3>9
    <3> QED
      BY <3>3, <3>10, <3>11
  <2>2. \A T \in SUBSET S : Cardinality(T) \in Nat
    BY SubsetFinite
  <2> QED
    BY <2>1, <2>2
<1>4. P[S] = Product(f) /\ Q[S] = Product(g)
  BY <1>6, <1>7 DEF HasProducts
<1>5. ASSUME NEW x \in S, f[x] < g[x]
      PROVE  Product(f) < Product(g)
  <2>4. f[x] \in Nat /\ g[x] \in Nat /\ P[S \ {x}] \in Nat \ {0} /\ Q[S \ {x}] \in Nat \ {0}
    BY <1>1, <1>2
  <2>5. P[S \ {x}] <= Q[S \ {x}]
    BY <1>3
  <2>1. PICK a \in Nat, b \in Nat, c \in Nat \ {0}, d \in Nat \ {0} :
            a = f[x] /\ b = g[x] /\ c = P[S \ {x}] /\ d = Q[S \ {x}] /\ a < b /\ c <= d
    BY <1>5, <2>4, <2>5
  <2>2. a * c < b * d
    <3>1. a * c <= a * d
      BY <2>1
    <3>2. a * d < b * d
      BY <2>1
    <3> QED
      BY <2>1, <3>1, <3>2
  <2>3. P[S] = a * c /\ Q[S] = b * d
    BY <1>1, <1>2, <2>1
  <2> QED
    BY <1>4, <2>2, <2>3
<1> QED
  BY <1>3, <1>4, <1>5
-----------------------------------------------------------------------------
(* Powers of two.                                                          *)

IsPower(f, n) == /\ f \in [0..n -> Nat] /\ f[0] = 1
                 /\ \A i \in 1..n : f[i] = 2 * f[i - 1]

LEMMA PowerExists ==
    ASSUME NEW n \in Nat
    PROVE  \E f : IsPower(f, n)
<1> DEFINE Bad == {k \in Nat : \A f : ~IsPower(f, k)}
<1>1. SUFFICES ASSUME Bad # {}
               PROVE  FALSE
  OBVIOUS
<1>2. PICK k \in Bad : \A i \in Bad : k <= i
  BY <1>1, LeastNat
<1>3. CASE k = 0
  <2>1. IsPower([i \in 0..k |-> 1], k)
    BY <1>3 DEF IsPower
  <2> QED
    BY <1>2, <2>1
<1>4. CASE k # 0
  <2>1. k - 1 \in Nat /\ k - 1 \notin Bad
    BY <1>2, <1>4
  <2>2. PICK f : IsPower(f, k - 1)
    BY <2>1
  <2> DEFINE g == [i \in 0..k |-> IF i = k THEN 2 * f[k - 1] ELSE f[i]]
  <2>3. f \in [0..(k - 1) -> Nat] /\ f[k - 1] \in Nat /\ k \in Nat
    BY <2>1, <2>2 DEF IsPower
  <2>4. g \in [0..k -> Nat]
    BY <2>3
  <2>5. g[0] = 1
    BY <1>4, <2>2, <2>3 DEF IsPower
  <2>6. ASSUME NEW i \in 1..k
        PROVE  g[i] = 2 * g[i - 1]
    BY <2>2, <2>3 DEF IsPower
  <2>7. IsPower(g, k)
    BY <2>4, <2>5, <2>6 DEF IsPower
  <2> QED
    BY <1>2, <2>7
<1> QED
  BY <1>3, <1>4

LEMMA PowerOfTwoIs == IsPower(PowerOfTwo, 30)
<1>1. PICK f : IsPower(f, 30)
  BY PowerExists
<1>2. f = [n \in Exponents |-> IF n = 0 THEN 1 ELSE 2 * f[n - 1]]
  BY <1>1 DEF IsPower, Exponents
<1>3. PowerOfTwo = [n \in Exponents |-> IF n = 0 THEN 1 ELSE 2 * PowerOfTwo[n - 1]]
  BY <1>2 DEF PowerOfTwo
<1>5. PowerOfTwo[0] = 1
  BY <1>3 DEF Exponents
<1>6. \A i \in 1..30 : PowerOfTwo[i] = 2 * PowerOfTwo[i - 1]
  BY <1>3 DEF Exponents
<1>7. \A i \in Exponents : PowerOfTwo[i] = f[i]
  <2> DEFINE Bad == {i \in Nat : i \in Exponents /\ PowerOfTwo[i] # f[i]}
  <2>1. SUFFICES ASSUME Bad # {}
                 PROVE  FALSE
    BY DEF Exponents
  <2>2. PICK k \in Bad : \A i \in Bad : k <= i
    BY <2>1, LeastNat
  <2>3. k # 0
    BY <1>1, <1>5, <2>2 DEF IsPower
  <2>4. k - 1 \in Nat /\ k - 1 \in Exponents /\ k \in 1..30
    BY <2>2, <2>3 DEF Exponents
  <2>5. PowerOfTwo[k - 1] = f[k - 1]
    BY <2>2, <2>4
  <2> QED
    BY <1>1, <1>6, <2>2, <2>4, <2>5 DEF IsPower
<1>8. PowerOfTwo = f
  BY <1>1, <1>3, <1>7 DEF IsPower, Exponents
<1> QED
  BY <1>1, <1>8

\* They grow with the exponent, from 1 on.
LEMMA PowersGrow ==
    /\ PowerOfTwo \in [Exponents -> Nat \ {0}] /\ PowerOfTwo[0] = 1
    /\ \A i \in Exponents \ {0} : PowerOfTwo[i] = 2 * PowerOfTwo[i - 1]
    /\ \A i, j \in Exponents : i < j => PowerOfTwo[i] < PowerOfTwo[j]
<1>1. /\ PowerOfTwo \in [Exponents -> Nat] /\ PowerOfTwo[0] = 1
      /\ \A i \in Exponents \ {0} : i - 1 \in Exponents /\ PowerOfTwo[i] = 2 * PowerOfTwo[i - 1]
  BY PowerOfTwoIs DEF IsPower, Exponents
<1>2. \A i \in Exponents : PowerOfTwo[i] # 0
  <2> DEFINE Bad == {i \in Nat : i \in Exponents /\ PowerOfTwo[i] = 0}
  <2>1. SUFFICES ASSUME Bad # {}
                 PROVE  FALSE
    BY DEF Exponents
  <2>2. PICK k \in Bad : \A i \in Bad : k <= i
    BY <2>1, LeastNat
  <2>3. k # 0 /\ k \in Exponents
    BY <1>1, <2>2
  <2>4. k - 1 \in Nat /\ k - 1 \in Exponents /\ PowerOfTwo[k] = 2 * PowerOfTwo[k - 1]
    BY <1>1, <2>2, <2>3
  <2>5. PowerOfTwo[k - 1] # 0
    BY <2>2, <2>4
  <2> QED
    BY <1>1, <2>2, <2>4, <2>5
<1>3. ASSUME NEW i \in Exponents, NEW j \in Exponents, i < j
      PROVE  PowerOfTwo[i] < PowerOfTwo[j]
  <2> DEFINE Bad == {k \in Nat : k \in Exponents /\ i < k /\ ~(PowerOfTwo[i] < PowerOfTwo[k])}
  <2>1. SUFFICES ASSUME Bad # {}
                 PROVE  FALSE
    BY <1>3 DEF Exponents
  <2>2. PICK k \in Bad : \A n \in Bad : k <= n
    BY <2>1, LeastNat
  <2>3. k \in Exponents \ {0} /\ k - 1 \in Exponents /\ k - 1 \in Nat
    BY <1>1, <2>2 DEF Exponents
  <2>4. PowerOfTwo[i] <= PowerOfTwo[k - 1]
    <3>1. CASE i = k - 1
      BY <1>1, <3>1
    <3>2. CASE i < k - 1
      <4>1. k - 1 \notin Bad
        BY <2>2, <2>3
      <4>2. PowerOfTwo[i] < PowerOfTwo[k - 1]
        BY <2>3, <3>2, <4>1
      <4> QED
        BY <1>1, <2>3, <4>2
    <3> QED
      BY <2>2, <2>3, <3>1, <3>2 DEF Exponents
  <2>5. PICK a \in Nat, b \in Nat \ {0} : a = PowerOfTwo[i] /\ b = PowerOfTwo[k - 1] /\ PowerOfTwo[k] = 2 * b
    BY <1>1, <1>2, <2>3
  <2> QED
    BY <2>2, <2>4, <2>5
<1> QED
  BY <1>1, <1>2, <1>3

\* Rounding never makes a number of bytes grow.
LEMMA PrevPowerIs ==
    ASSUME NEW n \in Nat
    PROVE  /\ PrevPowerOfTwo(n) \in Nat /\ PrevPowerOfTwo(n) <= n
           /\ PrevPowerOfTwo(n) = 0 \/ IsPowerOfTwo(PrevPowerOfTwo(n))
<1>1. CASE n = 0
  BY <1>1 DEF PrevPowerOfTwo
<1>2. CASE n # 0
  <2> DEFINE E == {e \in Exponents : PowerOfTwo[e] <= n}
  <2>1. 0 \in E /\ E \in SUBSET (0..30)
    <3>1. 0 \in Exponents /\ Exponents = 0..30
      BY DEF Exponents
    <3>2. PowerOfTwo[0] = 1
      BY PowersGrow
    <3>3. PowerOfTwo[0] <= n
      BY <1>2, <3>2
    <3> QED
      BY <3>1, <3>3
  <2>2. Max(E) \in E
    BY <2>1, MaxNat
  <2>3. PrevPowerOfTwo(n) = PowerOfTwo[Max(E)]
    BY <1>2 DEF PrevPowerOfTwo
  <2> QED
    BY <2>2, <2>3, PowersGrow DEF IsPowerOfTwo
<1> QED
  BY <1>1, <1>2

\* What a dimension is tiled by.
LEMMA DimRangeIs ==
    ASSUME NEW size \in Nat \ {0}, NEW n, NEW whole \in BOOLEAN, n \in DimRange(size, whole)
    PROVE  /\ n \in Nat \ {0} /\ n <= size /\ (~whole => n < size)
           /\ IsPowerOfTwo(n) \/ n = size
BY PowersGrow DEF DimRange, IsPowerOfTwo

-----------------------------------------------------------------------------
(* A sequence without some of its elements.                                *)

\* How many of a set of numbers are at most x.
UpToIn(S, x) == Cardinality({y \in S : y <= x})

\* A finite set of numbers has a bound.
LEMMA FiniteBound ==
    ASSUME NEW S, S \subseteq Nat, IsFiniteSet(S)
    PROVE  \E b \in Nat : \A y \in S : y <= b
<1> DEFINE Unbounded == {n \in Nat : \E T \in SUBSET S : /\ Cardinality(T) = n
                                                        /\ ~\E b \in Nat : \A y \in T : y <= b}
<1>0. \A T \in SUBSET S : IsFiniteSet(T) /\ Cardinality(T) \in Nat
  BY SubsetFinite
<1>1. Unbounded = {}
  <2>1. SUFFICES ASSUME Unbounded # {}
                 PROVE  FALSE
    OBVIOUS
  <2>2. PICK n \in Unbounded : \A m \in Unbounded : n <= m
    BY <2>1, LeastNat
  <2>3. PICK T \in SUBSET S : Cardinality(T) = n /\ ~\E b \in Nat : \A y \in T : y <= b
    BY <2>2
  <2>4. PICK x \in T : TRUE
    BY <2>3
  <2>5. T \ {x} \in SUBSET S /\ Cardinality(T \ {x}) = n - 1 /\ n - 1 \in Nat
    BY <1>0, <2>2, <2>3, <2>4, FS_RemoveElement
  <2>6. PICK b \in Nat : \A y \in T \ {x} : y <= b
    BY <2>2, <2>5
  <2>7. x \in Nat
    BY <2>3, <2>4
  <2>8. \A y \in T : y <= b + x
    BY <2>3, <2>6, <2>7
  <2>9. b + x \in Nat
    BY <2>6, <2>7
  <2> QED
    BY <2>3, <2>8, <2>9
<1>2. Cardinality(S) \in Nat /\ S \in SUBSET S
  BY <1>0
<1> QED
  BY <1>1, <1>2

\* The n-th smallest of a set is a number of it, up to which it has n.
LEMMA NthIs ==
    ASSUME NEW S, S \subseteq Nat, IsFiniteSet(S), NEW n \in 1..Cardinality(S)
    PROVE  Nth(S, n) \in S /\ UpToIn(S, Nth(S, n)) = n
<1>0. Cardinality(S) \in Nat /\ n \in Nat
  BY FS_CardinalityType
<1> DEFINE Has(m) == \E x \in S : UpToIn(S, x) = m
           Bad == {g \in Nat : g < Cardinality(S) /\ ~Has(Cardinality(S) - g)}
<1>1. Bad = {}
  <2>1. SUFFICES ASSUME Bad # {}
                 PROVE  FALSE
    OBVIOUS
  <2>2. PICK g \in Bad : \A h \in Bad : g <= h
    BY <2>1, LeastNat
  <2>3. CASE g = 0
    <3>1. S # {}
      BY <1>0, <2>2, FS_EmptySet
    <3>2. PICK top \in S : \A y \in S : y <= top
      <4>1. PICK b \in Nat : \A y \in S : y <= b
        BY <1>0, FiniteBound
      <4>2. S \subseteq 0..b
        BY <4>1
      <4> QED
        BY <3>1, <4>1, <4>2, MaxNat
    <3>3. {y \in S : y <= top} = S
      BY <3>2
    <3>4. UpToIn(S, top) = Cardinality(S)
      BY <3>3 DEF UpToIn
    <3> QED
      BY <1>0, <2>2, <2>3, <3>4
  <2>4. CASE g # 0
    <3>1. g - 1 \in Nat /\ g - 1 \notin Bad
      BY <2>2, <2>4
    <3>2. PICK x \in S : UpToIn(S, x) = Cardinality(S) - (g - 1)
      BY <1>0, <2>2, <3>1
    <3> DEFINE below == {y \in S : y < x}
    <3>x. x \in Nat /\ \A y \in S : y \in Nat
      BY <3>2
    <3>3. /\ {y \in S : y <= x} = below \cup {x} /\ x \notin below
          /\ IsFiniteSet(below) /\ below \subseteq S
      <4>1. below \subseteq S
        OBVIOUS
      <4>2. {y \in S : y <= x} = below \cup {x}
        <5>1. \A z \in S : z <= x <=> (z < x \/ z = x)
          BY <3>x
        <5> QED
          BY <5>1, Zenon
      <4>3. x \notin below
        BY <3>x
      <4> QED
        BY <4>1, <4>2, <4>3, FS_Subset
    <3>4. Cardinality(below) = Cardinality(S) - g /\ Cardinality(below) \in Nat
      <4>1. Cardinality(below \cup {x}) = Cardinality(below) + 1 /\ Cardinality(below) \in Nat
        BY <3>3, FS_AddElement, FS_CardinalityType
      <4>2. Cardinality(below \cup {x}) = Cardinality(S) - (g - 1)
        BY <3>2, <3>3 DEF UpToIn
      <4>3. g \in Nat
        BY <2>2
      <4> HIDE DEF below
      <4> QED
        BY <1>0, <4>1, <4>2, <4>3
    <3>5. below # {}
      BY <1>0, <2>2, <3>3, <3>4, FS_EmptySet
    <3>6. x \in Nat /\ below \subseteq 0..x
      <4>1. \A z \in S : z < x => z \in 0..x
        BY <3>x
      <4> QED
        BY <3>x, <4>1
    <3>7. PICK y \in below : \A z \in below : z <= y
      BY <3>5, <3>6, MaxNat
    <3>8. {z \in S : z <= y} = below
      <4>1. \A z \in S : z <= y <=> z < x
        BY <3>x, <3>7
      <4> QED
        BY <4>1
    <3>9. Has(Cardinality(S) - g)
      BY <3>4, <3>7, <3>8 DEF UpToIn
    <3> QED
      BY <2>2, <3>9
  <2> QED
    BY <2>3, <2>4
<1>2. Has(n)
  <2>1. Cardinality(S) - n \in Nat /\ Cardinality(S) - n < Cardinality(S)
        /\ Cardinality(S) - (Cardinality(S) - n) = n
    BY <1>0
  <2> QED
    BY <1>1, <2>1
<1>4. Nth(S, n) \in S /\ UpToIn(S, Nth(S, n)) = n
  <2>1. Nth(S, n) = CHOOSE x \in S : UpToIn(S, x) = n
    BY DEF Nth, Quantify, UpToIn
  <2> QED
    BY <1>2, <2>1
<1> QED
  BY <1>4
\* The more numbers it bounds, the larger it is.
LEMMA UpToGrows ==
    ASSUME NEW S, S \subseteq Nat, IsFiniteSet(S), NEW x \in S, NEW y \in S
    PROVE  /\ UpToIn(S, x) \in 1..Cardinality(S)
           /\ x < y <=> UpToIn(S, x) < UpToIn(S, y)
           /\ x = y <=> UpToIn(S, x) = UpToIn(S, y)
<1> DEFINE Of(z) == {a \in S : a <= z}
<1>0. Cardinality(S) \in Nat /\ x \in Nat /\ y \in Nat /\ \A a \in S : a \in Nat
  BY FS_CardinalityType
<1>1. ASSUME NEW z \in S
      PROVE  IsFiniteSet(Of(z)) /\ Cardinality(Of(z)) \in 1..Cardinality(S)
  <2>1. Of(z) \in SUBSET S /\ z \in Of(z)
    BY <1>0
  <2>2. IsFiniteSet(Of(z)) /\ Cardinality(Of(z)) \in Nat /\ Cardinality(Of(z)) <= Cardinality(S)
    BY <2>1, FS_Subset, FS_CardinalityType
  <2>3. Cardinality(Of(z)) # 0
    BY <2>1, <2>2, FS_EmptySet
  <2> QED
    BY <1>0, <2>2, <2>3
<1>2. ASSUME NEW a \in S, NEW b \in S, a < b
      PROVE  Cardinality(Of(a)) < Cardinality(Of(b))
  <2>1. Of(a) \in SUBSET Of(b) /\ b \in Of(b) /\ b \notin Of(a)
    <3>1. \A z \in S : z <= a => z <= b
      BY <1>0, <1>2
    <3>2. ~(b <= a) /\ b <= b
      BY <1>0, <1>2
    <3> QED
      BY <3>1, <3>2
  <2>2. Cardinality(Of(a)) <= Cardinality(Of(b)) /\ Cardinality(Of(a)) # Cardinality(Of(b))
    BY <1>1, <2>1, FS_Subset
  <2> QED
    BY <1>0, <1>1, <2>2
<1>3. \A z : UpToIn(S, z) = Cardinality(Of(z))
  BY DEF UpToIn
<1> HIDE DEF Of
<1>4. CASE x < y
  BY <1>0, <1>1, <1>2, <1>3, <1>4
<1>5. CASE y < x
  BY <1>0, <1>1, <1>2, <1>3, <1>5
<1>6. CASE x = y
  BY <1>0, <1>1, <1>3, <1>6
<1> QED
  BY <1>0, <1>4, <1>5, <1>6

\* Every number of the set is the n-th smallest for some n.
LEMMA NthOnto ==
    ASSUME NEW S, S \subseteq Nat, IsFiniteSet(S), NEW x \in S
    PROVE  UpToIn(S, x) \in 1..Cardinality(S) /\ Nth(S, UpToIn(S, x)) = x
<1>1. UpToIn(S, x) \in 1..Cardinality(S)
  BY UpToGrows
<1>2. Nth(S, UpToIn(S, x)) \in S /\ UpToIn(S, Nth(S, UpToIn(S, x))) = UpToIn(S, x)
  BY <1>1, NthIs
<1> QED
  BY <1>1, <1>2, UpToGrows

\* And the numbers come in order.
LEMMA NthGrows ==
    ASSUME NEW S, S \subseteq Nat, IsFiniteSet(S), NEW n \in 1..Cardinality(S), NEW m \in 1..Cardinality(S),
           n < m
    PROVE  Nth(S, n) < Nth(S, m)
<1>1. /\ Nth(S, n) \in S /\ UpToIn(S, Nth(S, n)) = n
      /\ Nth(S, m) \in S /\ UpToIn(S, Nth(S, m)) = m
  BY NthIs
<1> QED
  <2>1. PICK x \in S, y \in S : x = Nth(S, n) /\ y = Nth(S, m)
    BY <1>1
  <2>2. UpToIn(S, x) < UpToIn(S, y)
    BY <1>1, <2>1
  <2> QED
    BY <2>1, <2>2, UpToGrows

\* Without keeps the other positions, in order.
Keeps(t, s, gone, pos) ==
    /\ pos \in [1..Len(t) -> 1..Len(s)]
    /\ \A k \in 1..Len(t) : pos[k] \notin gone /\ t[k] = s[pos[k]]
    /\ \A i \in 1..Len(s) : i \notin gone => \E k \in 1..Len(t) : pos[k] = i
    /\ \A k, m \in 1..Len(t) : k < m <=> pos[k] < pos[m]

\* What Without leaves of a sequence: the elements that stay, in their order.
LEMMA WithoutIs ==
    ASSUME NEW S, NEW s \in Seq(S), NEW gone
    PROVE  /\ Without(s, gone) \in Seq(S)
           /\ Len(Without(s, gone)) = Cardinality(DOMAIN s \ gone)
           /\ \E pos : Keeps(Without(s, gone), s, gone, pos)
<1> DEFINE kept == DOMAIN s \ gone
           pos == [n \in 1..Cardinality(kept) |-> Nth(kept, n)]
           t == [n \in 1..Cardinality(kept) |-> s[Nth(kept, n)]]
<1>0. Len(s) \in Nat /\ DOMAIN s = 1..Len(s)
  BY LenProperties
<1>1. kept \subseteq 1..Len(s) /\ kept \subseteq Nat /\ IsFiniteSet(kept) /\ Cardinality(kept) \in Nat
  <2>1. IsFiniteSet(1..Len(s))
    BY <1>0, FS_Interval
  <2>2. kept \in SUBSET (1..Len(s))
    BY <1>0
  <2> QED
    BY <1>0, <2>1, <2>2, FS_Subset, FS_CardinalityType
<1>2. Without(s, gone) = t \o <<>>
  BY DEF Without
<1> HIDE DEF kept
<1>3. \A n \in 1..Cardinality(kept) : Nth(kept, n) \in kept
  BY <1>1, NthIs
<1>4. \A i \in kept : \E n \in 1..Cardinality(kept) : Nth(kept, n) = i
  BY <1>1, NthOnto
<1>5. \A n, m \in 1..Cardinality(kept) : n < m => Nth(kept, n) < Nth(kept, m)
  BY <1>1, NthGrows
<1>6. t \in Seq(S) /\ Len(t) = Cardinality(kept)
  <2>1. \A n \in 1..Cardinality(kept) : s[Nth(kept, n)] \in S
    BY <1>0, <1>1, <1>3, ElementOfSeq
  <2>2. t \in Seq(S)
    BY <1>1, <2>1, SeqDef
  <2> QED
    BY <1>1, <2>2, LenProperties
<1>7. Keeps(t, s, gone, pos)
  <2>1. \A k \in 1..Cardinality(kept) : pos[k] \in 1..Len(s) /\ pos[k] \notin gone /\ t[k] = s[pos[k]]
    BY <1>1, <1>3 DEF kept
  <2>2. \A i \in 1..Len(s) : i \notin gone => \E k \in 1..Cardinality(kept) : pos[k] = i
    BY <1>0, <1>4 DEF kept
  <2>3. ASSUME NEW k \in 1..Cardinality(kept), NEW m \in 1..Cardinality(kept)
        PROVE  k < m <=> pos[k] < pos[m]
    <3>1. pos[k] \in Nat /\ pos[m] \in Nat
      BY <1>1, <1>3
    <3>2. (k < m => pos[k] < pos[m]) /\ (m < k => pos[m] < pos[k])
      BY <1>5
    <3> QED
      BY <1>1, <3>1, <3>2
  <2>4. pos \in [1..Cardinality(kept) -> 1..Len(s)]
    BY <2>1
  <2> QED
    BY <1>6, <2>1, <2>2, <2>3, <2>4 DEF Keeps
<1>8. t \o <<>> = t
  <2> HIDE DEF t
  <2> QED
    BY <1>6, ConcatEmptySeq
<1>9. Without(s, gone) = t
  BY <1>2, <1>8
<1> QED
  BY <1>6, <1>7, <1>9 DEF kept

\* Nothing, if nothing goes.
LEMMA WithoutNone ==
    ASSUME NEW S, NEW s \in Seq(S)
    PROVE  Without(s, {}) = s
<1>0. Len(s) \in Nat /\ DOMAIN s = 1..Len(s) /\ DOMAIN s \ {} = 1..Len(s)
  BY LenProperties
<1> DEFINE all == 1..Len(s)
<1>1. all \subseteq Nat /\ IsFiniteSet(all) /\ Cardinality(all) = Len(s)
  BY <1>0, FS_Interval
<1>2. ASSUME NEW n \in all
      PROVE  Nth(all, n) = n
  <2>1. {y \in all : y <= n} = 1..n
    BY <1>0
  <2>2. n \in Nat /\ Cardinality(1..n) = n
    BY <1>0, FS_Interval
  <2>3. UpToIn(all, n) = n
    BY <2>1, <2>2 DEF UpToIn
  <2> QED
    BY <1>1, <2>3, NthOnto
<1>3. Without(s, {}) = [n \in 1..Cardinality(all) |-> s[Nth(all, n)]] \o <<>>
  BY <1>0 DEF Without
<1>4. Without(s, {}) = [n \in 1..Len(s) |-> s[n]] \o <<>>
  BY <1>1, <1>2, <1>3
<1>5. [n \in 1..Len(s) |-> s[n]] = s
  BY <1>0
<1>6. s \o <<>> = s
  BY ConcatEmptySeq
<1> QED
  BY <1>4, <1>5, <1>6

-----------------------------------------------------------------------------
(* What the fixed parts of a dimension take.                               *)

\* Quotient and remainder.
LEMMA DivMod ==
    ASSUME NEW a \in Nat, NEW s \in Nat \ {0}
    PROVE  /\ a \div s \in Nat /\ a % s \in 0..s - 1
           /\ a = (a \div s) * s + (a % s)
<1>1. PICK d \in Nat : d = a \div s
  <2>1. a \div s \in Nat
    OBVIOUS
  <2> QED
    BY <2>1
<1>2. PICK r \in Nat : r = a % s
  OBVIOUS
<1>3. a = s * d + r
  <2>1. a = s * (a \div s) + (a % s)
    OBVIOUS
  <2> QED
    BY <2>1, <1>1, <1>2
<1>4. s * d = d * s
  OBVIOUS
<1>5. a = d * s + r
  BY <1>3, <1>4
<1>6. a = (a \div s) * s + (a % s)
  BY <1>1, <1>2, <1>5
<1>7. a % s \in 0..s - 1
  OBVIOUS
<1> QED
  BY <1>1, <1>6, <1>7

\* Multiplication is monotonic.
LEMMA Monotonic ==
    ASSUME NEW a \in Int, NEW b \in Int, NEW c \in Nat, a <= b
    PROVE  a * c <= b * c
<1>1. (b - a) * c \in Nat
  <2>1. b - a \in Nat
    OBVIOUS
  <2> QED
    BY <2>1
<1>2. (b - a) * c = b * c - a * c
  OBVIOUS
<1>3. a * c \in Int /\ b * c \in Int
  OBVIOUS
<1> QED
  BY <1>1, <1>2, <1>3

\* Between two multiples of a number lies at least that number.
LEMMA Multiples ==
    ASSUME NEW a \in Int, NEW b \in Int, NEW c \in Nat, a < b
    PROVE  a * c + c <= b * c
<1>1. (a + 1) * c <= b * c
  BY Monotonic
<1>2. (a + 1) * c = a * c + c
  OBVIOUS
<1> QED
  BY <1>1, <1>2

\* No others make up the number.
LEMMA DivModUnique ==
    ASSUME NEW a \in Nat, NEW s \in Nat \ {0}, NEW b \in Nat, NEW r \in 0..s - 1, a = b * s + r
    PROVE  a \div s = b /\ a % s = r
<1> DEFINE c == a \div s
           m == a % s
<1>1. c \in Nat /\ m \in 0..s - 1 /\ a = c * s + m
  BY DivMod
<1> HIDE DEF c, m
<1>2. ~(b < c)
  <2>1. b < c => b * s + s <= c * s
    BY <1>1, Multiples
  <2>2. PICK u \in Nat, v \in Nat : u = b * s /\ v = c * s
    BY <1>1
  <2> QED
    BY <1>1, <2>1, <2>2
<1>3. ~(c < b)
  <2>1. c < b => c * s + s <= b * s
    BY <1>1, Multiples
  <2>2. PICK u \in Nat, v \in Nat : u = b * s /\ v = c * s
    BY <1>1
  <2> QED
    BY <1>1, <2>1, <2>2
<1>4. b = c
  BY <1>1, <1>2, <1>3
<1>5. m = r
  <2>1. PICK u \in Nat : u = b * s
    OBVIOUS
  <2> QED
    BY <1>1, <1>4, <2>1
<1> QED
  BY <1>4, <1>5 DEF c, m

\* A multiple, divided.
LEMMA DivExact ==
    ASSUME NEW q \in Nat, NEW t \in Nat \ {0}
    PROVE  (q * t) \div t = q /\ (q * t) % t = 0
<1>1. PICK n \in Nat : n = q * t /\ n = q * t + 0
  OBVIOUS
<1>2. n \div t = q /\ n % t = 0
  BY <1>1, DivModUnique
<1> QED
  BY <1>1, <1>2

\* The converse: a number without remainder is a multiple.
LEMMA DivMultiple ==
    ASSUME NEW n \in Nat, NEW t \in Nat \ {0}, n % t = 0
    PROVE  n \div t \in Nat /\ n = (n \div t) * t
BY DivMod

\* A layout's fixed physical dimensions have sizes to divide by.
Divides(layout) ==
    /\ layout \in Seq(PhysDims)
    /\ \A i \in DOMAIN layout : Fixed(layout[i]) => layout[i].size > 1

\* What IsLayout says of each physical dimension.
LEMMA LayoutDivides ==
    ASSUME NEW layout, NEW rank \in Nat, IsLayout(layout, rank)
    PROVE  /\ Divides(layout) /\ Len(layout) \in Nat /\ DOMAIN layout = 1..Len(layout)
           /\ \A i \in 1..Len(layout) :
                 /\ layout[i] \in PhysDims /\ layout[i].dim \in 1..rank
                 /\ ~Fixed(layout[i]) => layout[i] = Dynamic(layout[i].dim)
                                         /\ \A j \in 1..i - 1 : layout[j].dim # layout[i].dim
           /\ \A d \in 1..rank : \E i \in 1..Len(layout) : layout[i].dim = d
<1>1. layout \in Seq(PhysDims) /\ Len(layout) \in Nat /\ DOMAIN layout = 1..Len(layout)
  BY LenProperties DEF IsLayout
<1>2. ASSUME NEW i \in 1..Len(layout)
      PROVE  /\ layout[i] \in PhysDims /\ layout[i].dim \in 1..rank
             /\ ~Fixed(layout[i]) => layout[i] = Dynamic(layout[i].dim)
                                     /\ \A j \in 1..i - 1 : layout[j].dim # layout[i].dim
             /\ Fixed(layout[i]) => layout[i].size > 1
  <2>1. layout[i] \in PhysDims
    BY <1>1, ElementOfSeq
  <2>2. layout[i].dim \in 1..rank
    BY <1>1 DEF IsLayout
  <2>3. CASE layout[i].kind = "Dynamic"
    <3>1. layout[i].size = 0 /\ \A j \in 1..i - 1 : layout[j].dim # layout[i].dim
      BY <1>1, <2>3 DEF IsLayout
    <3> QED
      BY <2>1, <2>2, <2>3, <3>1 DEF PhysDims, Dynamic, Fixed
  <2>4. CASE layout[i].kind # "Dynamic"
    <3>1. layout[i].kind \in {"Packed", "OddEven"}
      BY <2>1, <2>4 DEF PhysDims
    <3>2. layout[i].size > 1
      BY <1>1, <3>1 DEF IsLayout
    <3> QED
      BY <2>1, <2>2, <2>4, <3>2 DEF Fixed
  <2> QED
    BY <2>3, <2>4
<1>3. \A d \in 1..rank : \E i \in 1..Len(layout) : layout[i].dim = d
  BY <1>1 DEF IsLayout
<1> QED
  BY <1>1, <1>2, <1>3 DEF Divides

\* What the physical dimensions inside of position i take of dimension d.
Inside(layout, d, i) == {j \in i + 1..Len(layout) : layout[j].dim = d /\ Fixed(layout[j])}
Taken(layout, d, i) == Product([j \in Inside(layout, d, i) |-> layout[j].size])

\* PhysicalSize's TakenInside is what is taken inside of the position.
LEMMA TakenInsideIs ==
    ASSUME NEW layout, NEW i
    PROVE  TakenInside(layout, i) = Taken(layout, layout[i].dim, i)
BY DEF TakenInside, Taken, Inside

\* A fixed physical dimension has a size.
LEMMA FixedSize ==
    ASSUME NEW layout, Divides(layout), NEW j \in 1..Len(layout), Fixed(layout[j])
    PROVE  layout[j].size \in Nat \ {0} /\ layout[j].size > 1
<1>1. layout[j] \in PhysDims /\ j \in DOMAIN layout
  BY ElementOfSeq, LenProperties DEF Divides
<1>2. layout[j].size \in Nat /\ layout[j].size > 1
  BY <1>1 DEF Divides, PhysDims
<1> QED
  BY <1>2

\* So what is taken is a number, and not 0.
LEMMA TakenNat ==
    ASSUME NEW layout, Divides(layout), NEW d, NEW i \in 0..Len(layout)
    PROVE  /\ Taken(layout, d, i) \in Nat \ {0}
           /\ Inside(layout, d, i) = {} => Taken(layout, d, i) = 1
<1> DEFINE S == Inside(layout, d, i)
           f == [j \in S |-> layout[j].size]
<1>0. Len(layout) \in Nat /\ DOMAIN layout = 1..Len(layout)
  BY LenProperties DEF Divides
<1>1. IsFiniteSet(S)
  <2>1. IsFiniteSet(i + 1..Len(layout))
    BY <1>0, FS_Interval
  <2>2. S \in SUBSET (i + 1..Len(layout))
    BY DEF Inside
  <2> QED
    BY <2>1, <2>2, FS_Subset
<1>2. f \in [S -> Nat \ {0}]
  <2>1. ASSUME NEW j \in S
        PROVE  layout[j].size \in Nat \ {0}
    <3>1. j \in 1..Len(layout) /\ Fixed(layout[j])
      BY <1>0 DEF Inside
    <3> QED
      BY <3>1, FixedSize
  <2> QED
    BY <2>1
<1>3. Taken(layout, d, i) = Product(f)
  BY DEF Taken
<1> HIDE DEF S, f
<1>4. Product(f) \in Nat \ {0}
  BY <1>1, <1>2, ProductNonzero
<1>5. S = {} => Product(f) = 1
  BY <1>2, ProductOfNone
<1> QED
  BY <1>3, <1>4, <1>5 DEF S

\* Past a fixed part, as much more as its size.
LEMMA TakenStep ==
    ASSUME NEW layout, Divides(layout), NEW d, NEW i \in 1..Len(layout)
    PROVE  Taken(layout, d, i - 1) = IF layout[i].dim = d /\ Fixed(layout[i])
                                     THEN layout[i].size * Taken(layout, d, i) ELSE Taken(layout, d, i)
<1> DEFINE S == Inside(layout, d, i - 1)
           T == Inside(layout, d, i)
           f == [j \in S |-> layout[j].size]
<1>0. Len(layout) \in Nat /\ DOMAIN layout = 1..Len(layout) /\ i \in Nat
  BY LenProperties DEF Divides
<1>1. CASE ~(layout[i].dim = d /\ Fixed(layout[i]))
  <2>1. S = T
    BY <1>0, <1>1 DEF Inside
  <2> QED
    BY <1>1, <2>1 DEF Taken
<1>2. CASE layout[i].dim = d /\ Fixed(layout[i])
  <2>1. i \in S /\ S \ {i} = T
    BY <1>0, <1>2 DEF Inside
  <2>2. IsFiniteSet(S)
    <3>1. IsFiniteSet(i..Len(layout))
      BY <1>0, FS_Interval
    <3>2. S \in SUBSET (i..Len(layout))
      BY <1>0 DEF Inside
    <3> QED
      BY <3>1, <3>2, FS_Subset
  <2>3. f \in [S -> Nat \ {0}]
    <3>1. ASSUME NEW j \in S
          PROVE  layout[j].size \in Nat \ {0}
      <4>1. j \in 1..Len(layout) /\ Fixed(layout[j])
        BY <1>0 DEF Inside
      <4> QED
        BY <4>1, FixedSize
    <3> QED
      BY <3>1
  <2>4. Restrict(f, T) = [j \in T |-> layout[j].size] /\ f[i] = layout[i].size
    BY <2>1 DEF Restrict
  <2>5. Taken(layout, d, i - 1) = Product(f) /\ Taken(layout, d, i) = Product(Restrict(f, T))
    BY <2>4 DEF Taken
  <2> HIDE DEF S, T, f
  <2>6. Product(f) = f[i] * Product(Restrict(f, S \ {i}))
    BY <2>1, <2>2, <2>3, ProductTakes
  <2> QED
    BY <1>2, <2>1, <2>4, <2>5, <2>6
<1> QED
  BY <1>1, <1>2

\* Positions without a fixed part of d take nothing of it.
LEMMA TakenSkip ==
    ASSUME NEW layout, NEW d, NEW i \in Nat, NEW k \in Nat, i <= k, Len(layout) \in Nat,
           \A j \in i + 1..k : j <= Len(layout) => ~(layout[j].dim = d /\ Fixed(layout[j]))
    PROVE  Taken(layout, d, i) = Taken(layout, d, k)
<1>1. Inside(layout, d, i) = Inside(layout, d, k)
  BY DEF Inside
<1> QED
  BY <1>1 DEF Taken

\* What is taken inside of a position divides what is taken inside of an outer one.
LEMMA TakenWhole ==
    ASSUME NEW layout, Divides(layout), NEW d, NEW o \in 0..Len(layout), NEW i \in 0..Len(layout), o <= i
    PROVE  \E r \in Nat \ {0} : Taken(layout, d, o) = r * Taken(layout, d, i)
<1> DEFINE P(k) == \E r \in Nat \ {0} : Taken(layout, d, o) = r * Taken(layout, d, k)
           Bad == {k \in Nat : k \in 0..Len(layout) /\ o <= k /\ ~P(k)}
<1>0. Len(layout) \in Nat
  BY LenProperties DEF Divides
<1>1. SUFFICES ASSUME Bad # {}
               PROVE  FALSE
  BY <1>0
<1>2. PICK k \in Bad : \A m \in Bad : k <= m
  BY <1>1, LeastNat
<1>3. k # o
  <2>1. Taken(layout, d, o) \in Nat
    BY <1>0, TakenNat
  <2>2. Taken(layout, d, o) = 1 * Taken(layout, d, o)
    BY <2>1
  <2>3. P(o)
    BY <2>2
  <2> QED
    BY <1>2, <2>3
<1>a. k \in Nat /\ k \in 0..Len(layout) /\ o <= k
  BY <1>2
<1>4. k - 1 \in Nat /\ k \in 1..Len(layout) /\ k - 1 \in 0..Len(layout) /\ o <= k - 1 /\ k - 1 \notin Bad
  <2>1. k - 1 \in Nat /\ k \in 1..Len(layout) /\ k - 1 \in 0..Len(layout) /\ o <= k - 1 /\ ~(k <= k - 1)
    BY <1>0, <1>3, <1>a
  <2> QED
    BY <1>2, <2>1
<1>5. PICK r \in Nat \ {0} : Taken(layout, d, o) = r * Taken(layout, d, k - 1)
  BY <1>4
<1>6. PICK t \in Nat \ {0} : t = Taken(layout, d, k)
  BY <1>4, TakenNat
<1>7. PICK z \in Nat \ {0} : Taken(layout, d, k - 1) = z * t
  <2>1. CASE layout[k].dim = d /\ Fixed(layout[k])
    <3>1. layout[k].size \in Nat \ {0}
      BY <1>4, <2>1, FixedSize
    <3> QED
      BY <1>4, <1>6, <2>1, <3>1, TakenStep
  <2>2. CASE ~(layout[k].dim = d /\ Fixed(layout[k]))
    <3>1. Taken(layout, d, k - 1) = t /\ t = 1 * t
      BY <1>4, <1>6, <2>2, TakenStep
    <3> QED
      BY <3>1
  <2> QED
    BY <2>1, <2>2
<1>8. r * (z * t) = (r * z) * t /\ r * z \in Nat \ {0}
  OBVIOUS
<1>9. P(k)
  BY <1>5, <1>6, <1>7, <1>8
<1> QED
  BY <1>2, <1>9

\* A shape that a layout of rank dimensions may apply to.
IsShape(shape, rank) ==
    /\ shape \in Seq(Nat \ {0}) /\ Len(shape) = rank /\ DOMAIN shape = 1..rank
    /\ \A d \in 1..rank : shape[d] \in Nat \ {0}

\* What is taken inside of a position divides the shape, if the layout applies.
LEMMA TakenDivides ==
    ASSUME NEW layout, NEW rank \in Nat, IsLayout(layout, rank), NEW shape, IsShape(shape, rank),
           \A i \in DOMAIN layout :
              Fixed(layout[i]) => (shape[layout[i].dim] \div TakenInside(layout, i)) % layout[i].size = 0,
           NEW d \in 1..rank, NEW i \in 0..Len(layout)
    PROVE  \E q \in Nat \ {0} : shape[d] = q * Taken(layout, d, i)
<1> DEFINE P(k) == \E q \in Nat \ {0} : shape[d] = q * Taken(layout, d, k)
           Bad == {g \in Nat : g \in 0..Len(layout) /\ ~P(Len(layout) - g)}
<1>0. /\ Len(layout) \in Nat /\ Divides(layout) /\ shape[d] \in Nat \ {0} /\ DOMAIN layout = 1..Len(layout)
  BY LayoutDivides DEF IsShape
<1>1. SUFFICES Bad = {}
  <2>1. Len(layout) - i \in 0..Len(layout) /\ Len(layout) - i \in Nat /\ Len(layout) - (Len(layout) - i) = i
    BY <1>0
  <2> QED
    BY <2>1
<1>2. SUFFICES ASSUME Bad # {}
               PROVE  FALSE
  OBVIOUS
<1>3. PICK g \in Bad : \A h \in Bad : g <= h
  BY <1>2, LeastNat
<1>4. g # 0
  <2>1. Inside(layout, d, Len(layout)) = {}
    BY <1>0 DEF Inside
  <2>2. Taken(layout, d, Len(layout)) = 1
    BY <1>0, <2>1, TakenNat
  <2>3. shape[d] = shape[d] * 1
    BY <1>0
  <2>4. P(Len(layout))
    BY <1>0, <2>2, <2>3
  <2>5. Len(layout) - 0 = Len(layout)
    BY <1>0
  <2> QED
    BY <1>3, <2>4, <2>5
<1>a. g \in Nat /\ g \in 0..Len(layout)
  BY <1>3
<1>5. PICK k \in 1..Len(layout) : k - 1 = Len(layout) - g /\ k = Len(layout) - (g - 1)
  <2>1. Len(layout) - g + 1 \in 1..Len(layout)
    BY <1>0, <1>4, <1>a
  <2>2. (Len(layout) - g + 1) - 1 = Len(layout) - g /\ Len(layout) - g + 1 = Len(layout) - (g - 1)
    BY <1>0, <1>a
  <2> QED
    BY <2>1, <2>2
<1>6. g - 1 \in Nat /\ g - 1 \in 0..Len(layout) /\ g - 1 \notin Bad
  <2>1. g - 1 \in Nat /\ g - 1 \in 0..Len(layout) /\ ~(g <= g - 1)
    BY <1>0, <1>4, <1>a
  <2> QED
    BY <1>3, <2>1
<1>7. PICK q \in Nat \ {0} : shape[d] = q * Taken(layout, d, k)
  BY <1>5, <1>6
<1>8. PICK t \in Nat \ {0} : t = Taken(layout, d, k)
  BY <1>0, <1>5, TakenNat
<1>9. CASE layout[k].dim = d /\ Fixed(layout[k])
  <2>1. PICK s \in Nat \ {0} : s = layout[k].size
    BY <1>0, <1>9, FixedSize
  <2>2. shape[d] \div t = q
    BY <1>7, <1>8, DivExact
  <2>3. q % s = 0
    BY <1>0, <1>8, <1>9, <2>1, <2>2, TakenInsideIs
  <2>4. q \div s \in Nat /\ q = (q \div s) * s
    BY <2>3, DivMultiple
  <2>5. PICK r \in Nat : q = r * s
    BY <2>4
  <2>6. r # 0
    BY <2>5
  <2>7. (r * s) * t = r * (s * t)
    OBVIOUS
  <2>8. Taken(layout, d, k - 1) = s * t
    BY <1>0, <1>8, <1>9, <2>1, TakenStep
  <2>9. P(k - 1)
    BY <1>7, <1>8, <2>5, <2>6, <2>7, <2>8
  <2> QED
    BY <1>3, <1>5, <2>9
<1>10. CASE ~(layout[k].dim = d /\ Fixed(layout[k]))
  <2>1. Taken(layout, d, k - 1) = Taken(layout, d, k)
    BY <1>0, <1>10, TakenStep
  <2>2. P(k - 1)
    BY <1>7, <2>1
  <2> QED
    BY <1>3, <1>5, <2>2
<1> QED
  BY <1>9, <1>10

\* A layout applies to a shape if what is packed of each dimension divides it, and
\* is all of it where no physical dimension takes the rest.
HasDynamic(layout, d) == \E i \in 1..Len(layout) : layout[i].dim = d /\ ~Fixed(layout[i])
Spans(layout, d, n) ==
    /\ \E q \in Nat \ {0} : n = q * Taken(layout, d, 0)
    /\ HasDynamic(layout, d) \/ n = Taken(layout, d, 0)

\* AppliesTo says of each logical dimension that the fixed parts of it divide the
\* shape, and that they use it up if there is no Dynamic part;
LEMMA AppliesSpans ==
    ASSUME NEW layout, NEW rank \in Nat, IsLayout(layout, rank), NEW shape, IsShape(shape, rank),
           AppliesTo(layout, shape), NEW d \in 1..rank
    PROVE  Spans(layout, d, shape[d])
<1>0. /\ Len(layout) \in Nat /\ Divides(layout) /\ DOMAIN layout = 1..Len(layout)
      /\ \E i \in 1..Len(layout) : layout[i].dim = d
      /\ \A i \in 1..Len(layout) : ~Fixed(layout[i]) => \A j \in 1..i - 1 : layout[j].dim # layout[i].dim
  <2>1. /\ Divides(layout) /\ Len(layout) \in Nat /\ DOMAIN layout = 1..Len(layout)
        /\ \A k \in 1..rank : \E i \in 1..Len(layout) : layout[i].dim = k
    BY LayoutDivides
  <2>2. ASSUME NEW i \in 1..Len(layout), ~Fixed(layout[i])
        PROVE  \A j \in 1..i - 1 : layout[j].dim # layout[i].dim
    BY <2>2, LayoutDivides
  <2> QED
    BY <2>1, <2>2
<1>1. PICK q \in Nat \ {0} : shape[d] = q * Taken(layout, d, 0)
  BY <1>0, TakenDivides DEF AppliesTo
<1>2. ASSUME ~HasDynamic(layout, d)
      PROVE  shape[d] = Taken(layout, d, 0)
  <2> DEFINE At == {i \in Nat : i \in 1..Len(layout) /\ layout[i].dim = d}
  <2>1. PICK i \in At : \A j \in At : i <= j
    <3>1. At \in SUBSET Nat /\ At # {}
      BY <1>0
    <3> QED
      BY <3>1, LeastNat
  <2>2. i \in 1..Len(layout) /\ i \in Nat /\ layout[i].dim = d /\ Fixed(layout[i])
    BY <1>2, <2>1 DEF HasDynamic
  <2>3. \A j \in 1..i - 1 : layout[j].dim # d
    BY <1>0, <2>1, <2>2
  <2>4. \A j \in 1..i : layout[j].dim = layout[i].dim => j = i /\ Fixed(layout[j])
    BY <1>0, <2>2, <2>3
  <2>5. PICK s \in Nat \ {0}, t \in Nat \ {0} : s = layout[i].size /\ t = Taken(layout, d, i)
    <3>1. layout[i].size \in Nat \ {0} /\ Taken(layout, d, i) \in Nat \ {0}
      BY <1>0, <2>2, FixedSize, TakenNat
    <3> QED
      BY <3>1
  <2>6. shape[d] \div t <= s
    BY <1>0, <2>2, <2>4, <2>5, TakenInsideIs DEF AppliesTo
  <2>7. Taken(layout, d, 0) = Taken(layout, d, i - 1)
    <3>1. i - 1 \in Nat /\ 0 \in Nat /\ 0 <= i - 1
      BY <2>2
    <3>2. \A j \in 0 + 1..i - 1 : j <= Len(layout) => ~(layout[j].dim = d /\ Fixed(layout[j]))
      BY <2>3
    <3> QED
      BY <1>0, <3>1, <3>2, TakenSkip
  <2>8. Taken(layout, d, 0) = s * t
    BY <1>0, <2>2, <2>5, <2>7, TakenStep
  <2>9. q * (s * t) = (q * s) * t /\ q * s \in Nat
    OBVIOUS
  <2>10. shape[d] \div t = q * s
    BY <1>1, <2>8, <2>9, DivExact
  <2>11. q * s <= s
    BY <2>6, <2>10
  <2>12. q = 1
    <3>1. q > 1 => 1 * s + s <= q * s
      BY Multiples
    <3>2. PICK z \in Nat : z = q * s
      OBVIOUS
    <3> QED
      BY <2>11, <3>1, <3>2
  <2>13. Taken(layout, d, 0) \in Nat
    BY <1>0, TakenNat
  <2> QED
    BY <1>1, <2>12, <2>13
<1> QED
  BY <1>1, <1>2 DEF Spans

\* and it says no more.
LEMMA SpansApplies ==
    ASSUME NEW layout, NEW rank \in Nat, IsLayout(layout, rank), NEW shape, IsShape(shape, rank),
           \A d \in 1..rank : Spans(layout, d, shape[d])
    PROVE  AppliesTo(layout, shape)
<1>0. /\ Len(layout) \in Nat /\ Divides(layout) /\ DOMAIN layout = 1..Len(layout)
      /\ \A i \in 1..Len(layout) : layout[i].dim \in 1..rank
      /\ \A i \in 1..Len(layout) : ~Fixed(layout[i]) => \A j \in 1..i - 1 : layout[j].dim # layout[i].dim
  BY LayoutDivides
<1>1. ASSUME NEW i \in 1..Len(layout), Fixed(layout[i])
      PROVE  /\ (shape[layout[i].dim] \div TakenInside(layout, i)) % layout[i].size = 0
             /\ (\A j \in 1..i : layout[j].dim = layout[i].dim => j = i /\ Fixed(layout[j]))
                  => shape[layout[i].dim] \div TakenInside(layout, i) <= layout[i].size
  <2>1. PICK d \in 1..rank : d = layout[i].dim
    BY <1>0
  <2>2. PICK s \in Nat \ {0}, t \in Nat \ {0} : s = layout[i].size /\ t = Taken(layout, d, i)
    <3>1. layout[i].size \in Nat \ {0} /\ Taken(layout, d, i) \in Nat \ {0}
      BY <1>0, <1>1, FixedSize, TakenNat
    <3> QED
      BY <3>1
  <2>3. Taken(layout, d, i - 1) = s * t /\ i - 1 \in 0..Len(layout)
    <3>1. Taken(layout, d, i - 1) = IF layout[i].dim = d /\ Fixed(layout[i])
                                    THEN layout[i].size * Taken(layout, d, i) ELSE Taken(layout, d, i)
      BY <1>0, TakenStep
    <3>2. i - 1 \in 0..Len(layout)
      BY <1>0
    <3> QED
      BY <1>1, <2>1, <2>2, <3>1, <3>2
  <2>z. 0 \in 0..Len(layout) /\ 0 <= i - 1
    BY <1>0
  <2>4. PICK r \in Nat \ {0} : Taken(layout, d, 0) = r * (s * t)
    <3>1. \E r \in Nat \ {0} : Taken(layout, d, 0) = r * Taken(layout, d, i - 1)
      BY <1>0, <2>3, <2>z, TakenWhole
    <3> QED
      BY <2>3, <3>1
  <2>5. PICK q \in Nat \ {0} : shape[d] = q * Taken(layout, d, 0)
    BY DEF Spans
  <2>6. PICK n \in Nat : n = (q * r) * s /\ q * (r * (s * t)) = n * t
    <3>1. (q * r) * s \in Nat /\ q * (r * (s * t)) = ((q * r) * s) * t
      OBVIOUS
    <3> QED
      BY <3>1
  <2>7. shape[d] \div t = n
    BY <2>4, <2>5, <2>6, DivExact
  <2>8. q * r \in Nat
    OBVIOUS
  <2>9. n % s = 0
    BY <2>6, <2>8, DivExact
  <2>10. TakenInside(layout, i) = t
    BY <2>1, <2>2, TakenInsideIs
  <2>11. ASSUME \A j \in 1..i : layout[j].dim = layout[i].dim => j = i /\ Fixed(layout[j])
         PROVE  n <= s
    <3>1. ~HasDynamic(layout, d)
      <4>1. SUFFICES ASSUME NEW j \in 1..Len(layout), layout[j].dim = d, ~Fixed(layout[j])
                     PROVE  FALSE
        BY DEF HasDynamic
      <4>2. \A k \in 1..j - 1 : layout[k].dim # d
        BY <1>0, <4>1
      <4>3. CASE j <= i
        BY <1>1, <2>1, <2>11, <4>1, <4>3
      <4>4. CASE i < j
        BY <1>0, <2>1, <4>2, <4>4
      <4> QED
        BY <1>0, <4>3, <4>4
    <3>2. shape[d] = Taken(layout, d, 0)
      BY <3>1 DEF Spans
    <3>3. Taken(layout, d, 0) = s * t
      <4>1. i - 1 \in Nat /\ 0 \in Nat /\ 0 <= i - 1
        BY <1>0
      <4>2. \A j \in 0 + 1..i - 1 : j <= Len(layout) => ~(layout[j].dim = d /\ Fixed(layout[j]))
        BY <1>0, <2>1, <2>11
      <4>3. Taken(layout, d, 0) = Taken(layout, d, i - 1)
        BY <1>0, <4>1, <4>2, TakenSkip
      <4> QED
        BY <2>3, <4>3
    <3>4. shape[d] \div t = s
      BY <3>2, <3>3, DivExact
    <3> QED
      BY <2>7, <3>4
  <2> QED
    BY <2>1, <2>2, <2>7, <2>9, <2>10, <2>11
<1>2. ASSUME NEW i \in 1..Len(layout), ~Fixed(layout[i])
      PROVE  ~(\A j \in 1..i : layout[j].dim = layout[i].dim => j = i /\ Fixed(layout[j]))
  BY <1>0, <1>2
<1> QED
  BY <1>0, <1>1, <1>2 DEF AppliesTo

-----------------------------------------------------------------------------
(* Redundant packings.                                                     *)

\* Layouts with the same packings of two dimensions, in order, take as much of them.
SamePackings(L, M, d, e, pos) ==
    /\ pos \in [1..Len(M) -> 1..Len(L)]
    /\ \A k, m \in 1..Len(M) : k < m <=> pos[k] < pos[m]
    /\ \A k \in 1..Len(M) : M[k].dim = e /\ Fixed(M[k])
           => L[pos[k]].dim = d /\ Fixed(L[pos[k]]) /\ L[pos[k]].size = M[k].size
    /\ \A i \in 1..Len(L) : L[i].dim = d /\ Fixed(L[i])
           => \E k \in 1..Len(M) : pos[k] = i /\ M[k].dim = e /\ Fixed(M[k])

\* Two layouts with the same packings of a dimension, in the same order, take as much.
LEMMA TakenAlike ==
    ASSUME NEW L, Divides(L), NEW M, Divides(M), NEW d, NEW e, NEW pos, SamePackings(L, M, d, e, pos)
    PROVE  Taken(M, e, 0) = Taken(L, d, 0)
<1>s. /\ pos \in [1..Len(M) -> 1..Len(L)]
      /\ \A k, m \in 1..Len(M) : k < m <=> pos[k] < pos[m]
      /\ \A k \in 1..Len(M) : M[k].dim = e /\ Fixed(M[k])
           => L[pos[k]].dim = d /\ Fixed(L[pos[k]]) /\ L[pos[k]].size = M[k].size
      /\ \A i \in 1..Len(L) : L[i].dim = d /\ Fixed(L[i])
           => \E k \in 1..Len(M) : pos[k] = i /\ M[k].dim = e /\ Fixed(M[k])
  BY DEF SamePackings
<1> DEFINE at(k) == IF k = 0 THEN 0 ELSE pos[k]
           P(k) == Taken(M, e, k) = Taken(L, d, at(k))
           Bad == {g \in Nat : g \in 0..Len(M) /\ ~P(Len(M) - g)}
<1>0. Len(L) \in Nat /\ Len(M) \in Nat
  BY LenProperties DEF Divides
<1>1. SUFFICES Bad = {}
  <2>1. Len(M) \in Nat /\ Len(M) \in 0..Len(M) /\ Len(M) - Len(M) = 0
    BY <1>0
  <2>2. P(0)
    BY <2>1
  <2> QED
    BY <2>2
<1>2. SUFFICES ASSUME Bad # {}
               PROVE  FALSE
  OBVIOUS
<1>3. PICK g \in Bad : \A h \in Bad : g <= h
  BY <1>2, LeastNat
<1>4. g \in Nat /\ g \in 0..Len(M)
  BY <1>3
<1>5. PICK k \in 0..Len(M) : k = Len(M) - g
  BY <1>0, <1>4
<1>6. at(k) \in 0..Len(L) /\ at(k) \in Nat /\ at(k) <= Len(L)
  <2>1. CASE k = 0
    BY <1>0, <2>1
  <2>2. CASE k # 0
    <3>1. k \in 1..Len(M)
      BY <1>0, <2>2
    <3>2. pos[k] \in 1..Len(L)
      BY <1>s, <3>1
    <3> QED
      BY <1>0, <2>2, <3>2
  <2> QED
    BY <2>1, <2>2
<1>7. \A m \in 1..Len(M) : at(k) < pos[m] => k < m
  BY <1>0, <1>s
<1>8. CASE g = 0
  <2>1. k = Len(M)
    BY <1>0, <1>5, <1>8
  <2>2. Inside(M, e, Len(M)) = {} /\ Inside(L, d, Len(L)) = {}
    BY <1>0 DEF Inside
  <2>3. Taken(M, e, k) = 1 /\ Taken(L, d, Len(L)) = 1
    BY <1>0, <2>1, <2>2, TakenNat
  <2>4. \A j \in at(k) + 1..Len(L) : ~(L[j].dim = d /\ Fixed(L[j]))
    <3>1. SUFFICES ASSUME NEW j \in at(k) + 1..Len(L), L[j].dim = d, Fixed(L[j])
                   PROVE  FALSE
      OBVIOUS
    <3>2. j \in 1..Len(L) /\ at(k) < j
      BY <1>0, <1>6
    <3>3. PICK m \in 1..Len(M) : pos[m] = j
      BY <1>s, <3>1, <3>2
    <3>4. k < m
      BY <1>7, <3>2, <3>3
    <3> QED
      BY <1>0, <2>1, <3>4
  <2>5. Taken(L, d, at(k)) = Taken(L, d, Len(L))
    BY <1>0, <1>6, <2>4, TakenSkip
  <2> QED
    BY <1>3, <1>5, <2>3, <2>5
<1>9. CASE g # 0
  <2>1. PICK n \in 1..Len(M) : n = k + 1 /\ n = Len(M) - (g - 1) /\ k = n - 1
    <3>1. k + 1 \in 1..Len(M)
      BY <1>0, <1>4, <1>5, <1>9
    <3>2. k + 1 = Len(M) - (g - 1) /\ k = (k + 1) - 1
      BY <1>0, <1>4, <1>5
    <3> QED
      BY <3>1, <3>2
  <2>2. g - 1 \in Nat /\ g - 1 \in 0..Len(M) /\ ~(g <= g - 1)
    BY <1>0, <1>4, <1>9
  <2>3. g - 1 \notin Bad
    BY <1>3, <2>2
  <2>4. Taken(M, e, n) = Taken(L, d, pos[n])
    <3>1. n # 0 /\ n = Len(M) - (g - 1)
      BY <1>0, <2>1
    <3> QED
      BY <2>2, <2>3, <3>1
  <2>5. PICK p \in 1..Len(L) : p = pos[n]
    BY <1>s, <1>s
  <2>6. at(k) < p
    <3>1. CASE k = 0
      BY <2>5, <3>1
    <3>2. CASE k # 0
      <4>1. k \in 1..Len(M) /\ k < n
        BY <1>0, <2>1, <3>2
      <4> QED
        BY <1>s, <2>5, <3>2, <4>1
    <3> QED
      BY <3>1, <3>2
  <2>7. \A j \in at(k) + 1..p - 1 : ~(L[j].dim = d /\ Fixed(L[j]))
    <3>1. SUFFICES ASSUME NEW j \in at(k) + 1..p - 1, L[j].dim = d, Fixed(L[j])
                   PROVE  FALSE
      OBVIOUS
    <3>2. j \in 1..Len(L) /\ at(k) < j /\ j < p
      BY <1>0, <1>6
    <3>3. PICK m \in 1..Len(M) : pos[m] = j
      BY <1>s, <3>1, <3>2
    <3>4. k < m /\ m < n
      BY <1>s, <1>7, <2>5, <3>2, <3>3
    <3> QED
      BY <1>0, <2>1, <3>4
  <2>8. Taken(L, d, at(k)) = Taken(L, d, p - 1)
    <3>1. p - 1 \in Nat /\ at(k) <= p - 1
      BY <1>0, <1>6, <2>6
    <3> QED
      BY <1>0, <1>6, <2>7, <3>1, TakenSkip
  <2>9. (M[n].dim = e /\ Fixed(M[n])) <=> (L[p].dim = d /\ Fixed(L[p]))
    <3>1. ASSUME L[p].dim = d, Fixed(L[p])
          PROVE  M[n].dim = e /\ Fixed(M[n])
      <4>1. PICK m \in 1..Len(M) : pos[m] = p /\ M[m].dim = e /\ Fixed(M[m])
        BY <1>s, <3>1
      <4>2. ~(m < n) /\ ~(n < m)
        BY <1>s, <2>5, <4>1
      <4>3. m = n
        BY <1>0, <4>2
      <4> QED
        BY <4>1, <4>3
    <3> QED
      BY <1>s, <2>5, <3>1
  <2>10. Taken(M, e, n - 1) = IF M[n].dim = e /\ Fixed(M[n])
                              THEN M[n].size * Taken(M, e, n) ELSE Taken(M, e, n)
    BY TakenStep
  <2>11. Taken(L, d, p - 1) = IF L[p].dim = d /\ Fixed(L[p])
                              THEN L[p].size * Taken(L, d, p) ELSE Taken(L, d, p)
    BY TakenStep
  <2>12. M[n].dim = e /\ Fixed(M[n]) => L[p].size = M[n].size
    BY <1>s, <2>5
  <2>13. Taken(M, e, n - 1) = Taken(L, d, p - 1)
    BY <2>4, <2>5, <2>9, <2>10, <2>11, <2>12
  <2> QED
    BY <1>3, <1>5, <2>1, <2>8, <2>13
<1> QED
  BY <1>8, <1>9

\* No multiple of a product is one of the factors.
LEMMA FactorsLess ==
    ASSUME NEW a \in Nat \ {0}, NEW s \in Nat, s > 1, NEW n \in Nat \ {0}
    PROVE  n # a * (n * s) /\ n # a * (s * n)
<1>1. PICK b \in Nat : b = a * s /\ b > 1
  <2>1. 1 * s <= a * s
    BY Monotonic
  <2>2. a * s \in Nat /\ a * s > 1
    BY <2>1
  <2> QED
    BY <2>2
<1>2. 1 * n + n <= b * n
  BY <1>1, Multiples
<1>3. a * (n * s) = (a * s) * n /\ a * (s * n) = (a * s) * n
  OBVIOUS
<1>4. PICK z \in Nat : z = b * n
  BY <1>1
<1> QED
  BY <1>1, <1>2, <1>3, <1>4

\* Two fixed parts of a dimension both fit in it.
LEMMA TwoFixed ==
    ASSUME NEW layout, NEW rank \in Nat, IsLayout(layout, rank), NEW shape, IsShape(shape, rank),
           AppliesTo(layout, shape), NEW d \in 1..rank, NEW j \in 1..Len(layout), NEW i \in 1..Len(layout), j < i,
           layout[j].dim = d, Fixed(layout[j]), layout[i].dim = d, Fixed(layout[i])
    PROVE  \E a \in Nat \ {0} : shape[d] = a * (layout[j].size * layout[i].size)
<1>0. /\ Len(layout) \in Nat /\ Divides(layout) /\ 0 \in 0..Len(layout) /\ j - 1 \in 0..Len(layout)
      /\ 0 <= j - 1 /\ i - 1 \in 0..Len(layout) /\ j \in 0..Len(layout) /\ j <= i - 1
  <2>1. Len(layout) \in Nat /\ Divides(layout)
    BY LayoutDivides
  <2> QED
    BY <2>1
<1>1. PICK s \in Nat \ {0}, u \in Nat \ {0}, t \in Nat \ {0} :
         s = layout[j].size /\ u = layout[i].size /\ t = Taken(layout, d, i)
  <2>1. layout[j].size \in Nat \ {0} /\ layout[i].size \in Nat \ {0} /\ Taken(layout, d, i) \in Nat \ {0}
    BY <1>0, FixedSize, TakenNat
  <2> QED
    BY <2>1
<1>2. PICK q \in Nat \ {0} : shape[d] = q * Taken(layout, d, 0)
  BY AppliesSpans DEF Spans
<1>3. PICK r \in Nat \ {0} : Taken(layout, d, 0) = r * Taken(layout, d, j - 1)
  <2>1. PICK o \in 0..Len(layout), k \in 0..Len(layout) : o = 0 /\ k = j - 1 /\ o <= k
    BY <1>0
  <2>2. Divides(layout) /\ o <= k
    BY <1>0, <2>1
  <2>3. \E r \in Nat \ {0} : Taken(layout, d, o) = r * Taken(layout, d, k)
    BY <2>2, TakenWhole
  <2> QED
    BY <2>1, <2>3
<1>4. Taken(layout, d, j - 1) = s * Taken(layout, d, j)
  BY <1>0, <1>1, TakenStep
<1>5. PICK w \in Nat \ {0} : Taken(layout, d, j) = w * Taken(layout, d, i - 1)
  <2>1. PICK k \in 0..Len(layout) : k = i - 1 /\ j <= k
    BY <1>0
  <2>2. Divides(layout) /\ j \in 0..Len(layout) /\ j <= k
    BY <1>0, <2>1
  <2>3. \E w \in Nat \ {0} : Taken(layout, d, j) = w * Taken(layout, d, k)
    BY <2>2, TakenWhole
  <2> QED
    BY <2>1, <2>3
<1>6. Taken(layout, d, i - 1) = u * t
  BY <1>0, <1>1, TakenStep
<1>7. shape[d] = q * (r * (s * (w * (u * t))))
  BY <1>2, <1>3, <1>4, <1>5, <1>6
<1>8. q * (r * (s * (w * (u * t)))) = (q * r * w * t) * (s * u)
  OBVIOUS
<1>9. PICK a \in Nat \ {0} : a = q * r * w * t
  <2>1. PICK x \in Nat \ {0} : x = q * r
    OBVIOUS
  <2>2. PICK y \in Nat \ {0} : y = x * w
    OBVIOUS
  <2>3. y * t \in Nat \ {0}
    OBVIOUS
  <2> QED
    BY <2>1, <2>2, <2>3
<1> QED
  BY <1>1, <1>7, <1>8, <1>9

-----------------------------------------------------------------------------
(* drop_unneeded_packings.                                                 *)

PackingsIn(layout, d) == {i \in DOMAIN layout : layout[i].dim = d /\ layout[i].kind = "Packed"}
ClearedIn(layout, shape) ==
    {i \in DOMAIN layout : PackingsIn(layout, layout[i].dim) = {i} /\ shape[layout[i].dim] = layout[i].size}
GoneIn(layout, shape) ==
    {j \in DOMAIN layout : \E i \in ClearedIn(layout, shape) : j < i /\ layout[j].dim = layout[i].dim}
MarkedIn(layout, shape) ==
    [i \in DOMAIN layout |-> IF i \in ClearedIn(layout, shape) THEN Dynamic(layout[i].dim) ELSE layout[i]]

\* drop_unneeded_packings, by its parts.
LEMMA DropMeans ==
    ASSUME NEW layout, NEW shape, NEW contig
    PROVE  DropUnneededPackings(layout, shape, contig) =
             [layout |-> Without(MarkedIn(layout, shape), GoneIn(layout, shape)),
              contig |-> contig - Cardinality({j \in GoneIn(layout, shape) :
                                                  j > Len(layout) - contig /\ ~Fixed(layout[j])})]
BY DEF DropUnneededPackings, PackingsIn, ClearedIn, GoneIn, MarkedIn, Quantify

\* A packing that spans the shape has only Dynamic physical dimensions outside of
\* it, and none inside.
LEMMA ClearedAlone ==
    ASSUME NEW layout, NEW rank \in Nat, IsLayout(layout, rank), NEW shape, IsShape(shape, rank),
           AppliesTo(layout, shape), NEW i \in ClearedIn(layout, shape),
           NEW j \in 1..Len(layout), j # i, layout[j].dim = layout[i].dim
    PROVE  j < i /\ ~Fixed(layout[j])
<1>0. /\ Len(layout) \in Nat /\ Divides(layout) /\ i \in 1..Len(layout) /\ i \in Nat /\ j \in Nat
      /\ layout[i].dim \in 1..rank /\ shape[layout[i].dim] \in Nat \ {0}
  BY LayoutDivides DEF ClearedIn, IsShape
<1>1. layout[i].kind = "Packed" /\ Fixed(layout[i]) /\ shape[layout[i].dim] = layout[i].size
  BY DEF ClearedIn, PackingsIn, Fixed
<1>2. ~Fixed(layout[j])
  <2>1. SUFFICES ASSUME Fixed(layout[j])
                 PROVE  FALSE
    OBVIOUS
  <2>2. PICK s \in Nat \ {0}, n \in Nat \ {0} : s > 1 /\ s = layout[j].size /\ n = layout[i].size
    BY <1>0, <1>1, <2>1, FixedSize
  <2>3. CASE j < i
    <3>1. PICK d \in 1..rank : d = layout[i].dim
      BY <1>0
    <3>2. \E a \in Nat \ {0} : shape[d] = a * (layout[j].size * layout[i].size)
      BY <1>0, <1>1, <2>1, <2>3, <3>1, TwoFixed
    <3>3. PICK a \in Nat \ {0} : n = a * (s * n)
      BY <1>1, <2>2, <3>1, <3>2
    <3> QED
      BY <2>2, <3>3, FactorsLess
  <2>4. CASE i < j
    <3>1. PICK d \in 1..rank : d = layout[i].dim
      BY <1>0
    <3>2. \E a \in Nat \ {0} : shape[d] = a * (layout[i].size * layout[j].size)
      BY <1>0, <1>1, <2>1, <2>4, <3>1, TwoFixed
    <3>3. PICK a \in Nat \ {0} : n = a * (n * s)
      BY <1>1, <2>2, <3>1, <3>2
    <3> QED
      BY <2>2, <3>3, FactorsLess
  <2> QED
    BY <1>0, <2>3, <2>4
<1>3. j < i
  <2>1. \A k \in 1..j - 1 : layout[k].dim # layout[j].dim
    BY <1>2, LayoutDivides
  <2> QED
    BY <1>0, <2>1
<1> QED
  BY <1>2, <1>3

\* The fields of a Dynamic dimension,
LEMMA DynamicIs ==
    ASSUME NEW d
    PROVE  Dynamic(d).dim = d /\ Dynamic(d).kind = "Dynamic" /\ Dynamic(d).size = 0 /\ ~Fixed(Dynamic(d))
BY DEF Dynamic, Fixed

\* and of a Packed one.
LEMMA PackedIs ==
    ASSUME NEW d, NEW n
    PROVE  /\ Packed(d, n).dim = d /\ Packed(d, n).kind = "Packed" /\ Packed(d, n).size = n
           /\ Fixed(Packed(d, n))
BY DEF Packed, Fixed

\* Nothing that goes is fixed.
LEMMA GoneMeans ==
    ASSUME NEW layout, NEW rank \in Nat, IsLayout(layout, rank), NEW shape, IsShape(shape, rank),
           AppliesTo(layout, shape)
    PROVE  /\ ClearedIn(layout, shape) \subseteq 1..Len(layout) /\ GoneIn(layout, shape) \subseteq 1..Len(layout)
           /\ \A i \in ClearedIn(layout, shape) : i \notin GoneIn(layout, shape)
           /\ \A j \in GoneIn(layout, shape) : ~Fixed(layout[j])
<1>0. DOMAIN layout = 1..Len(layout) /\ Len(layout) \in Nat
  BY LayoutDivides
<1>1. ClearedIn(layout, shape) \subseteq 1..Len(layout) /\ GoneIn(layout, shape) \subseteq 1..Len(layout)
  BY <1>0 DEF ClearedIn, GoneIn
<1>2. ASSUME NEW i \in ClearedIn(layout, shape), i \in GoneIn(layout, shape)
      PROVE  FALSE
  <2>1. PICK k \in ClearedIn(layout, shape) : i < k /\ layout[i].dim = layout[k].dim
    BY <1>2 DEF GoneIn
  <2>2. PackingsIn(layout, layout[i].dim) = {i} /\ PackingsIn(layout, layout[i].dim) = {k}
    BY <2>1 DEF ClearedIn
  <2>3. i = k
    BY <2>2
  <2>4. i \in 1..Len(layout)
    BY <1>1
  <2>5. i \in Nat /\ ~(i < i)
    BY <1>0, <2>4
  <2> QED
    BY <2>1, <2>3, <2>5
<1>3. ASSUME NEW j \in GoneIn(layout, shape)
      PROVE  ~Fixed(layout[j])
  <2>1. PICK i \in ClearedIn(layout, shape) : j < i /\ layout[j].dim = layout[i].dim
    BY DEF GoneIn
  <2>2. j \in 1..Len(layout) /\ i \in 1..Len(layout) /\ j # i
    BY <1>0, <1>1, <2>1
  <2> QED
    BY <2>1, <2>2, ClearedAlone
<1> QED
  BY <1>1, <1>2, <1>3

\* The physical dimensions that are left: as they were, or Dynamic.
LEMMA DropKeeps ==
    ASSUME NEW layout, NEW rank \in Nat, IsLayout(layout, rank), NEW shape, IsShape(shape, rank),
           AppliesTo(layout, shape), NEW M, M = Without(MarkedIn(layout, shape), GoneIn(layout, shape))
    PROVE  /\ M \in Seq(PhysDims)
           /\ \E pos \in [1..Len(M) -> 1..Len(layout)] :
                 /\ \A k, m \in 1..Len(M) : k < m <=> pos[k] < pos[m]
                 /\ \A k \in 1..Len(M) :
                       /\ pos[k] \notin GoneIn(layout, shape)
                       /\ M[k] = IF pos[k] \in ClearedIn(layout, shape) THEN Dynamic(layout[pos[k]].dim) ELSE layout[pos[k]]
                       /\ M[k].dim = layout[pos[k]].dim
                 /\ \A i \in 1..Len(layout) : i \notin GoneIn(layout, shape) => \E k \in 1..Len(M) : pos[k] = i
<1>0. /\ Len(layout) \in Nat /\ DOMAIN layout = 1..Len(layout)
      /\ \A i \in 1..Len(layout) : layout[i] \in PhysDims /\ layout[i].dim \in 1..rank
  BY LayoutDivides
<1> DEFINE marked == MarkedIn(layout, shape)
<1>1. \A d \in 1..rank : Dynamic(d) \in PhysDims
  BY DEF Dynamic, PhysDims
<1>2. \A i \in 1..Len(layout) : marked[i] = (IF i \in ClearedIn(layout, shape) THEN Dynamic(layout[i].dim) ELSE layout[i])
                                /\ marked[i] \in PhysDims /\ marked[i].dim = layout[i].dim
  BY <1>0, <1>1 DEF MarkedIn, Dynamic
<1>3. marked \in Seq(PhysDims) /\ Len(marked) = Len(layout)
  <2>1. marked = [i \in 1..Len(layout) |-> IF i \in ClearedIn(layout, shape) THEN Dynamic(layout[i].dim) ELSE layout[i]]
    BY <1>0 DEF MarkedIn
  <2>2. \A i \in 1..Len(layout) : (IF i \in ClearedIn(layout, shape) THEN Dynamic(layout[i].dim) ELSE layout[i]) \in PhysDims
    BY <1>0, <1>1
  <2>3. marked \in [1..Len(layout) -> PhysDims]
    BY <2>1, <2>2
  <2>4. marked \in Seq(PhysDims)
    BY <1>0, <2>3, SeqDef
  <2>5. DOMAIN marked = 1..Len(layout) /\ DOMAIN marked = 1..Len(marked) /\ Len(marked) \in Nat
    BY <2>3, <2>4, LenProperties
  <2> QED
    BY <1>0, <2>4, <2>5
<1> HIDE DEF marked
<1>4. PICK pos : Keeps(M, marked, GoneIn(layout, shape), pos)
  BY <1>3, WithoutIs DEF marked
<1>5. M \in Seq(PhysDims)
  BY <1>3, WithoutIs DEF marked
<1>6. pos \in [1..Len(M) -> 1..Len(layout)]
  BY <1>3, <1>4 DEF Keeps
<1>7. \A k \in 1..Len(M) : pos[k] \notin GoneIn(layout, shape) /\ M[k] = marked[pos[k]] /\ pos[k] \in 1..Len(layout)
  BY <1>4, <1>6 DEF Keeps
<1>8. \A k, m \in 1..Len(M) : k < m <=> pos[k] < pos[m]
  BY <1>4 DEF Keeps
<1>9. \A i \in 1..Len(layout) : i \notin GoneIn(layout, shape) => \E k \in 1..Len(M) : pos[k] = i
  BY <1>3, <1>4 DEF Keeps
<1>10. \A k \in 1..Len(M) :
          /\ pos[k] \notin GoneIn(layout, shape)
          /\ M[k] = IF pos[k] \in ClearedIn(layout, shape) THEN Dynamic(layout[pos[k]].dim) ELSE layout[pos[k]]
          /\ M[k].dim = layout[pos[k]].dim
  BY <1>2, <1>7
<1> QED
  BY <1>5, <1>6, <1>8, <1>9, <1>10

\* No dimension's only packing spans it (is_canonical's second condition).
NoneWhole(layout, shape) ==
    \A i \in DOMAIN layout :
       layout[i] = Packed(layout[i].dim, shape[layout[i].dim])
          => \E j \in DOMAIN layout \ {i} : layout[j].dim = layout[i].dim /\ layout[j].kind = "Packed"

\* What is left is a layout, which applies, and none of whose packings spans the tile.
LEMMA DropApplies ==
    ASSUME NEW layout, NEW rank \in Nat, IsLayout(layout, rank), NEW shape, IsShape(shape, rank),
           AppliesTo(layout, shape), NEW M, M = Without(MarkedIn(layout, shape), GoneIn(layout, shape))
    PROVE  IsLayout(M, rank) /\ AppliesTo(M, shape) /\ NoneWhole(M, shape)
<1> DEFINE C == ClearedIn(layout, shape)
           G == GoneIn(layout, shape)
<1>0. /\ Len(layout) \in Nat /\ DOMAIN layout = 1..Len(layout) /\ Divides(layout)
      /\ \A i \in 1..Len(layout) : /\ layout[i] \in PhysDims /\ layout[i].dim \in 1..rank
                                   /\ ~Fixed(layout[i]) => \A j \in 1..i - 1 : layout[j].dim # layout[i].dim
      /\ \A d \in 1..rank : \E i \in 1..Len(layout) : layout[i].dim = d
  BY LayoutDivides
<1>a. M \in Seq(PhysDims) /\ Len(M) \in Nat /\ DOMAIN M = 1..Len(M)
  BY DropKeeps, LenProperties
<1>1. PICK pos \in [1..Len(M) -> 1..Len(layout)] :
         /\ \A k, m \in 1..Len(M) : k < m <=> pos[k] < pos[m]
         /\ \A k \in 1..Len(M) :
               /\ pos[k] \notin G
               /\ M[k] = IF pos[k] \in C THEN Dynamic(layout[pos[k]].dim) ELSE layout[pos[k]]
               /\ M[k].dim = layout[pos[k]].dim
         /\ \A i \in 1..Len(layout) : i \notin G => \E k \in 1..Len(M) : pos[k] = i
  BY DropKeeps
<1>2. /\ C \subseteq 1..Len(layout) /\ G \subseteq 1..Len(layout)
      /\ \A i \in C : i \notin G
      /\ \A j \in G : ~Fixed(layout[j])
      /\ \A j \in G : \E i \in C : j < i /\ layout[j].dim = layout[i].dim
      /\ \A i \in C : \A j \in 1..Len(layout) : j < i /\ layout[j].dim = layout[i].dim => j \in G
      /\ \A i \in C : \A j \in 1..Len(layout) : j # i /\ layout[j].dim = layout[i].dim => j < i
  <2>1. /\ \A j \in G : \E i \in C : j < i /\ layout[j].dim = layout[i].dim
        /\ \A i \in C : \A j \in 1..Len(layout) : j < i /\ layout[j].dim = layout[i].dim => j \in G
    BY <1>0 DEF GoneIn
  <2>2. \A i \in C : \A j \in 1..Len(layout) : j # i /\ layout[j].dim = layout[i].dim => j < i
    BY ClearedAlone
  <2> QED
    BY <2>1, <2>2, GoneMeans
<1>b. \A i \in C : layout[i].kind = "Packed" /\ PackingsIn(layout, layout[i].dim) = {i}
  BY DEF ClearedIn, PackingsIn
<1> HIDE DEF C, G
<1>3. \A k \in 1..Len(M) : pos[k] \in 1..Len(layout)
  OBVIOUS
<1>c. \A k \in 1..Len(M) : pos[k] \in C => M[k].kind = "Dynamic" /\ M[k].size = 0 /\ ~Fixed(M[k])
  <2>1. SUFFICES ASSUME NEW k \in 1..Len(M), pos[k] \in C
                 PROVE  M[k].kind = "Dynamic" /\ M[k].size = 0 /\ ~Fixed(M[k])
    OBVIOUS
  <2>2. M[k] = Dynamic(layout[pos[k]].dim)
    BY <1>1, <2>1
  <2> QED
    BY <2>2, DynamicIs
<1>4. ASSUME NEW k \in 1..Len(M), pos[k] \notin C, NEW i \in C, layout[i].dim = M[k].dim
      PROVE  FALSE
  <2>1. pos[k] # i /\ layout[pos[k]].dim = layout[i].dim
    BY <1>1, <1>4
  <2>2. pos[k] < i /\ pos[k] \in G
    BY <1>2, <1>3, <2>1
  <2> QED
    BY <1>1, <2>2
<1>5. IsLayout(M, rank)
  <2>1. {M[k].dim : k \in DOMAIN M} = 1..rank
    <3>1. \A k \in 1..Len(M) : M[k].dim \in 1..rank
      BY <1>0, <1>1, <1>3
    <3>2. ASSUME NEW d \in 1..rank
          PROVE  \E k \in 1..Len(M) : M[k].dim = d
      <4>1. PICK i \in 1..Len(layout) : layout[i].dim = d
        BY <1>0
      <4>2. PICK j \in 1..Len(layout) : layout[j].dim = d /\ j \notin G
        BY <1>2, <4>1
      <4> QED
        BY <1>1, <4>2
    <3> QED
      BY <1>a, <3>1, <3>2
  <2>2. ASSUME NEW k \in 1..Len(M)
        PROVE  CASE M[k].kind = "Dynamic" -> M[k].size = 0 /\ \A j \in 1..k - 1 : M[j].dim # M[k].dim
                 [] M[k].kind = "Packed" -> M[k].size > 1
                 [] M[k].kind = "OddEven" -> M[k].size > 1 /\ M[k].size % 2 = 0
    <3>1. CASE pos[k] \in C
      <4>1. M[k].kind = "Dynamic" /\ M[k].size = 0
        BY <1>c, <3>1
      <4>2. ASSUME NEW j \in 1..k - 1, M[j].dim = M[k].dim
            PROVE  FALSE
        <5>1. j \in 1..Len(M) /\ j < k
          BY <1>a
        <5>2. pos[j] < pos[k] /\ layout[pos[j]].dim = layout[pos[k]].dim
          BY <1>1, <4>2, <5>1
        <5> QED
          BY <1>1, <1>2, <1>3, <3>1, <5>1, <5>2
      <4> QED
        BY <4>1, <4>2
    <3>2. CASE pos[k] \notin C
      <4>1. M[k] = layout[pos[k]] /\ pos[k] \in 1..Len(layout)
        BY <1>1, <1>3, <3>2
      <4>2. CASE layout[pos[k]].dim = M[k].dim /\ Fixed(M[k])
        <5>1. M[k].kind \in {"Packed", "OddEven"}
          BY <1>0, <4>1, <4>2 DEF PhysDims, Fixed
        <5>2. CASE layout[pos[k]].kind = "Packed"
          BY <1>0, <4>1, <5>2 DEF IsLayout
        <5>3. CASE layout[pos[k]].kind = "OddEven"
          BY <1>0, <4>1, <5>3 DEF IsLayout
        <5> QED
          BY <4>1, <5>1, <5>2, <5>3
      <4>3. CASE ~Fixed(M[k])
        <5>1. layout[pos[k]].kind = "Dynamic" /\ layout[pos[k]].size = 0
          <6>1. layout[pos[k]] = Dynamic(layout[pos[k]].dim)
            BY <4>1, <4>3, LayoutDivides
          <6> QED
            BY <6>1, DynamicIs
        <5>2. ASSUME NEW j \in 1..k - 1, M[j].dim = M[k].dim
              PROVE  FALSE
          <6>1. j \in 1..Len(M) /\ j < k
            BY <1>a
          <6>2. pos[j] < pos[k] /\ layout[pos[j]].dim = layout[pos[k]].dim
            BY <1>1, <5>2, <6>1
          <6>3. pos[j] \in 1..pos[k] - 1
            BY <1>0, <1>3, <6>1, <6>2
          <6> QED
            BY <1>0, <4>1, <4>3, <6>2, <6>3
        <5> QED
          BY <4>1, <5>1, <5>2
      <4> QED
        BY <4>1, <4>2, <4>3
    <3> QED
      BY <3>1, <3>2
  <2> QED
    BY <1>a, <2>1, <2>2 DEF IsLayout
<1>6. Divides(M)
  BY <1>5, LayoutDivides
<1>7. ASSUME NEW d \in 1..rank
      PROVE  Spans(M, d, shape[d])
  <2>0. Spans(layout, d, shape[d]) /\ shape[d] \in Nat \ {0}
    BY AppliesSpans DEF IsShape
  <2>1. CASE \E i \in C : layout[i].dim = d
    <3>1. PICK i \in C : layout[i].dim = d
      BY <2>1
    <3>2. PICK k \in 1..Len(M) : pos[k] = i
      BY <1>1, <1>2
    <3>3. M[k].dim = d /\ ~Fixed(M[k])
      BY <1>1, <1>c, <3>1, <3>2
    <3>4. \A m \in 1..Len(M) : M[m].dim = d => pos[m] \in C
      BY <1>4, <3>1
    <3>5. \A m \in 1..Len(M) : M[m].dim = d => ~Fixed(M[m])
      BY <1>c, <3>4
    <3>6. Inside(M, d, 0) = {}
      BY <1>a, <3>5 DEF Inside
    <3>7. Taken(M, d, 0) = 1
      BY <1>6, <1>a, <3>6, TakenNat
    <3>8. shape[d] = shape[d] * 1
      BY <2>0
    <3> QED
      BY <2>0, <3>3, <3>7, <3>8 DEF Spans, HasDynamic
  <2>2. CASE ~\E i \in C : layout[i].dim = d
    <3>1. \A k \in 1..Len(M) : M[k].dim = d => M[k] = layout[pos[k]]
      BY <1>1, <2>2
    <3>2. \A k \in 1..Len(M) : M[k].dim = d /\ Fixed(M[k])
             => layout[pos[k]].dim = d /\ Fixed(layout[pos[k]]) /\ layout[pos[k]].size = M[k].size
      BY <1>1, <3>1
    <3>3. \A i \in 1..Len(layout) : layout[i].dim = d => \E k \in 1..Len(M) : pos[k] = i /\ M[k].dim = d /\ M[k] = layout[i]
      <4>1. SUFFICES ASSUME NEW i \in 1..Len(layout), layout[i].dim = d
                     PROVE  \E k \in 1..Len(M) : pos[k] = i /\ M[k].dim = d /\ M[k] = layout[i]
        OBVIOUS
      <4>2. i \notin G
        BY <1>2, <2>2, <4>1
      <4>3. PICK k \in 1..Len(M) : pos[k] = i
        BY <1>1, <4>2
      <4>4. M[k].dim = d
        BY <1>1, <4>1, <4>3
      <4> QED
        BY <3>1, <4>3, <4>4
    <3>4. \A i \in 1..Len(layout) : layout[i].dim = d /\ Fixed(layout[i])
             => \E k \in 1..Len(M) : pos[k] = i /\ M[k].dim = d /\ Fixed(M[k])
      <4>1. SUFFICES ASSUME NEW i \in 1..Len(layout), layout[i].dim = d, Fixed(layout[i])
                     PROVE  \E k \in 1..Len(M) : pos[k] = i /\ M[k].dim = d /\ Fixed(M[k])
        OBVIOUS
      <4>2. PICK k \in 1..Len(M) : pos[k] = i /\ M[k].dim = d /\ M[k] = layout[i]
        BY <3>3, <4>1
      <4> QED
        BY <4>1, <4>2
    <3>5. Taken(M, d, 0) = Taken(layout, d, 0)
      <4>1. SamePackings(layout, M, d, d, pos)
        BY <1>1, <3>2, <3>4 DEF SamePackings
      <4> QED
        BY <1>0, <1>6, <4>1, TakenAlike
    <3>6. HasDynamic(layout, d) => HasDynamic(M, d)
      <4>1. SUFFICES ASSUME NEW i \in 1..Len(layout), layout[i].dim = d, ~Fixed(layout[i])
                     PROVE  HasDynamic(M, d)
        BY DEF HasDynamic
      <4>2. PICK k \in 1..Len(M) : pos[k] = i /\ M[k].dim = d /\ M[k] = layout[i]
        BY <3>3, <4>1
      <4> QED
        BY <4>1, <4>2 DEF HasDynamic
    <3> QED
      BY <2>0, <3>5, <3>6 DEF Spans
  <2> QED
    BY <2>1, <2>2
<1>8. AppliesTo(M, shape)
  BY <1>5, <1>7, SpansApplies
<1>9. NoneWhole(M, shape)
  <2>1. SUFFICES ASSUME NEW k \in 1..Len(M), M[k] = Packed(M[k].dim, shape[M[k].dim])
                 PROVE  \E m \in DOMAIN M \ {k} : M[m].dim = M[k].dim /\ M[m].kind = "Packed"
    BY <1>a DEF NoneWhole
  <2>2. M[k].kind = "Packed" /\ M[k].size = shape[M[k].dim]
    BY <2>1 DEF Packed
  <2>3. pos[k] \notin C /\ M[k] = layout[pos[k]] /\ pos[k] \in 1..Len(layout)
    BY <1>1, <1>3, <1>c, <2>2
  <2>4. PackingsIn(layout, layout[pos[k]].dim) # {pos[k]}
    BY <1>0, <2>2, <2>3 DEF C, ClearedIn
  <2>5. pos[k] \in PackingsIn(layout, layout[pos[k]].dim)
    BY <1>0, <2>2, <2>3 DEF PackingsIn
  <2>6. PICK j \in PackingsIn(layout, layout[pos[k]].dim) : j # pos[k]
    BY <2>4, <2>5
  <2>7. j \in 1..Len(layout) /\ layout[j].dim = M[k].dim /\ layout[j].kind = "Packed"
    BY <1>0, <2>3, <2>6 DEF PackingsIn
  <2>8. \A i \in C : layout[i].dim # M[k].dim
    BY <1>4, <2>3
  <2>9. j \notin G /\ j \notin C
    <3>1. j \notin C
      BY <2>7, <2>8
    <3>2. j \notin G
      BY <1>2, <2>7, <2>8
    <3> QED
      BY <3>1, <3>2
  <2>10. PICK m \in 1..Len(M) : pos[m] = j
    BY <1>1, <2>7, <2>9
  <2>11. m # k /\ M[m] = layout[j]
    BY <1>1, <2>6, <2>9, <2>10
  <2> QED
    BY <1>a, <2>7, <2>10, <2>11
<1> QED
  BY <1>5, <1>8, <1>9

-----------------------------------------------------------------------------
(* reorder_size_one_dynamic_dimensions: runs of ones, put in order.        *)

\* Sizes of a layout that applies are numbers, and not 0.
LEMMA SizesAre ==
    ASSUME NEW layout, NEW rank \in Nat, IsLayout(layout, rank), NEW shape, IsShape(shape, rank),
           AppliesTo(layout, shape), NEW i \in 1..Len(layout)
    PROVE  /\ DOMAIN PhysicalShape(layout, shape) = 1..Len(layout)
           /\ PhysicalShape(layout, shape)[i] = PhysicalSize(layout, i, shape)
           /\ PhysicalSize(layout, i, shape) \in Nat \ {0}
           /\ PhysicalSize(layout, i, shape) = 1 => ~Fixed(layout[i])
<1>0. /\ DOMAIN layout = 1..Len(layout) /\ Divides(layout) /\ layout[i].dim \in 1..rank /\ i \in 0..Len(layout)
      /\ Len(layout) \in Nat
  BY LayoutDivides
<1>1. CASE Fixed(layout[i])
  <2>1. layout[i].size \in Nat \ {0} /\ layout[i].size > 1
    BY <1>0, <1>1, FixedSize
  <2> QED
    BY <1>0, <1>1, <2>1 DEF PhysicalShape, PhysicalSize
<1>2. CASE ~Fixed(layout[i])
  <2>1. PICK d \in 1..rank : d = layout[i].dim
    BY <1>0
  <2>2. PICK q \in Nat \ {0} : shape[d] = q * Taken(layout, d, i)
    BY <1>0, TakenDivides DEF AppliesTo
  <2>3. PICK t \in Nat \ {0} : t = Taken(layout, d, i)
    BY <1>0, TakenNat
  <2>4. shape[d] \div t = q
    BY <2>2, <2>3, DivExact
  <2> QED
    BY <1>0, <1>2, <2>1, <2>3, <2>4, TakenInsideIs DEF PhysicalShape, PhysicalSize
<1> QED
  BY <1>1, <1>2

\* Positions with nothing but ones between them.
Near(sizes, n, i, j) == \A x \in 1..n : ((i <= x /\ x <= j) \/ (j <= x /\ x <= i)) => sizes[x] = 1

\* The run of ones around a position is what lies near it.
LEMMA RunIs ==
    ASSUME NEW sizes, NEW n \in Nat, DOMAIN sizes = 1..n, NEW i \in 1..n
    PROVE  OnesAround(sizes, i) = {j \in 1..n : Near(sizes, n, i, j)}
<1>1. ASSUME NEW j \in 1..n
      PROVE  (\A x \in Min({i, j})..Max({i, j}) : sizes[x] = 1) <=> Near(sizes, n, i, j)
  <2>1. /\ {i, j} \in SUBSET Nat /\ {i, j} # {} /\ n \in Nat /\ {i, j} \in SUBSET (0..n)
    OBVIOUS
  <2>2. /\ Min({i, j}) \in {i, j} /\ \A x \in {i, j} : Min({i, j}) <= x
        /\ Max({i, j}) \in {i, j} /\ \A x \in {i, j} : x <= Max({i, j})
    BY <2>1, MinNat, MaxNat
  <2>3. \A x : x \in Min({i, j})..Max({i, j}) <=> x \in 1..n /\ ((i <= x /\ x <= j) \/ (j <= x /\ x <= i))
    BY <2>2
  <2> QED
    BY <2>3 DEF Near
<1> QED
  BY <1>1 DEF OnesAround

\* Counting through two sets of equally many numbers pairs them in order.
LEMMA Sorting ==
    ASSUME NEW R, R \subseteq Nat, IsFiniteSet(R), NEW D, D \subseteq Nat, IsFiniteSet(D),
           Cardinality(R) = Cardinality(D)
    PROVE  /\ \A i \in R : Nth(D, UpToIn(R, i)) \in D
           /\ \A i, j \in R : i < j => Nth(D, UpToIn(R, i)) < Nth(D, UpToIn(R, j))
           /\ \A d \in D : \E i \in R : Nth(D, UpToIn(R, i)) = d
<1>1. \A i \in R : UpToIn(R, i) \in 1..Cardinality(D)
  BY UpToGrows
<1>2. \A i \in R : Nth(D, UpToIn(R, i)) \in D
  BY <1>1, NthIs
<1>3. ASSUME NEW i \in R, NEW j \in R, i < j
      PROVE  Nth(D, UpToIn(R, i)) < Nth(D, UpToIn(R, j))
  <2>1. UpToIn(R, i) < UpToIn(R, j)
    BY <1>3, UpToGrows
  <2> QED
    BY <1>1, <2>1, NthGrows
<1>4. ASSUME NEW d \in D
      PROVE  \E i \in R : Nth(D, UpToIn(R, i)) = d
  <2>1. PICK m \in 1..Cardinality(D) : m = UpToIn(D, d) /\ Nth(D, m) = d
    BY NthOnto
  <2>2. m \in 1..Cardinality(R)
    BY <2>1
  <2>3. Nth(R, m) \in R /\ UpToIn(R, Nth(R, m)) = m
    BY <2>2, NthIs
  <2> QED
    BY <2>1, <2>3
<1> QED
  BY <1>2, <1>3, <1>4

\* N is M with each run of ones sorted.
Reordered(M, N, sizes) ==
    /\ N \in Seq(PhysDims) /\ Len(N) = Len(M)
    /\ \A i \in 1..Len(M) : sizes[i] # 1 => N[i] = M[i]
    /\ \A i \in 1..Len(M) : sizes[i] = 1 =>
          \E j \in 1..Len(M) : /\ Near(sizes, Len(M), i, j) /\ sizes[j] = 1
                               /\ N[i] = Dynamic(M[j].dim) /\ ~Fixed(M[j])
    /\ \A j \in 1..Len(M) : sizes[j] = 1 =>
          \E i \in 1..Len(M) : Near(sizes, Len(M), i, j) /\ sizes[i] = 1 /\ N[i] = Dynamic(M[j].dim)
    /\ \A i, j \in 1..Len(M) : i < j /\ Near(sizes, Len(M), i, j) => N[i].dim < N[j].dim

\* What reorder_size_one_dynamic_dimensions does: each run of ones has the same
\* dimensions after it, in order.
LEMMA ReorderIs ==
    ASSUME NEW M, NEW rank \in Nat, IsLayout(M, rank), NEW shape, IsShape(shape, rank), AppliesTo(M, shape)
    PROVE  Reordered(M, ReorderSizeOne(M, shape), PhysicalShape(M, shape))
<1> DEFINE sizes == PhysicalShape(M, shape)
           n == Len(M)
           N == ReorderSizeOne(M, shape)
           run(i) == OnesAround(sizes, i)
           D(i) == {M[j].dim : j \in run(i)}
           new(i) == Nth(D(i), UpToIn(run(i), i))
<1>0. /\ n \in Nat /\ DOMAIN M = 1..n
      /\ \A i \in 1..n : /\ M[i] \in PhysDims /\ M[i].dim \in 1..rank
                         /\ ~Fixed(M[i]) => M[i] = Dynamic(M[i].dim) /\ \A j \in 1..i - 1 : M[j].dim # M[i].dim
  BY LayoutDivides
<1>1. DOMAIN sizes = 1..n /\ \A i \in 1..n : sizes[i] \in Nat \ {0} /\ (sizes[i] = 1 => ~Fixed(M[i]))
  <2>1. DOMAIN sizes = 1..n
    BY <1>0 DEF PhysicalShape
  <2> QED
    BY <2>1, SizesAre
<1>2. N = [i \in 1..n |-> IF sizes[i] = 1 THEN Dynamic(new(i)) ELSE M[i]]
  BY <1>0 DEF ReorderSizeOne, Quantify, UpToIn
<1> HIDE DEF sizes, N, n
<1>3. \A i \in 1..n : run(i) = {j \in 1..n : Near(sizes, n, i, j)}
  BY <1>0, <1>1, RunIs
<1>4. ASSUME NEW i \in 1..n, sizes[i] = 1
      PROVE  /\ i \in run(i) /\ run(i) \subseteq Nat /\ IsFiniteSet(run(i))
             /\ D(i) \subseteq Nat /\ IsFiniteSet(D(i)) /\ Cardinality(run(i)) = Cardinality(D(i))
  <2>1. i \in run(i)
    <3>1. Near(sizes, n, i, i)
      BY <1>0, <1>4 DEF Near
    <3> QED
      BY <1>3, <3>1
  <2>2. run(i) \in SUBSET (1..n)
    BY <1>3
  <2>3. run(i) \subseteq Nat /\ IsFiniteSet(run(i))
    <3>1. IsFiniteSet(1..n)
      BY <1>0, FS_Interval
    <3> QED
      BY <1>0, <2>2, <3>1, FS_Subset
  <2>4. \A j \in run(i) : j \in 1..n /\ sizes[j] = 1 /\ ~Fixed(M[j])
    <3>1. SUFFICES ASSUME NEW j \in run(i)
                   PROVE  j \in 1..n /\ sizes[j] = 1 /\ ~Fixed(M[j])
      OBVIOUS
    <3>2. j \in 1..n /\ Near(sizes, n, i, j)
      BY <1>3
    <3>3. sizes[j] = 1
      BY <1>0, <3>2 DEF Near
    <3> QED
      BY <1>1, <3>2, <3>3
  <2> HIDE DEF run
  <2>5. \A j, k \in run(i) : j # k => M[j].dim # M[k].dim
    <3>1. SUFFICES ASSUME NEW j \in run(i), NEW k \in run(i), j < k
                   PROVE  M[j].dim # M[k].dim
      BY <1>0, <2>4
    <3> QED
      BY <1>0, <2>4, <3>1
  <2>6. D(i) \subseteq Nat
    BY <1>0, <2>4
  <2>7. IsFiniteSet(D(i)) /\ Cardinality(D(i)) = Cardinality(run(i))
    <3> DEFINE b == [j \in run(i) |-> M[j].dim]
    <3>1. b \in Bijection(run(i), D(i))
      BY <2>5 DEF Bijection, Injection, Surjection, IsInjective
    <3>2. ExistsBijection(run(i), D(i))
      BY <3>1 DEF ExistsBijection
    <3> HIDE DEF D
    <3> QED
      BY <2>3, <3>2, FS_Bijection
  <2> QED
    BY <2>1, <2>3, <2>6, <2>7
<1>5. ASSUME NEW i \in 1..n, NEW j \in 1..n, sizes[i] = 1, sizes[j] = 1, Near(sizes, n, i, j)
      PROVE  run(i) = run(j) /\ D(i) = D(j) /\ j \in run(i)
  <2>1. \A k \in 1..n : Near(sizes, n, i, k) <=> Near(sizes, n, j, k)
    BY <1>0, <1>5 DEF Near
  <2>2. run(i) = run(j)
    BY <1>3, <2>1
  <2> QED
    BY <1>3, <1>5, <2>2
<1>6. ASSUME NEW i \in 1..n, sizes[i] = 1
      PROVE  \E j \in 1..n : Near(sizes, n, i, j) /\ sizes[j] = 1 /\ N[i] = Dynamic(M[j].dim) /\ ~Fixed(M[j])
  <2>1. new(i) \in D(i)
    BY <1>4, <1>6, Sorting
  <2>2. PICK j \in run(i) : new(i) = M[j].dim
    BY <2>1
  <2>3. j \in 1..n /\ Near(sizes, n, i, j)
    BY <1>3
  <2>4. sizes[j] = 1
    BY <1>0, <2>3 DEF Near
  <2>5. N[i] = Dynamic(M[j].dim)
    BY <1>2, <1>6, <2>2
  <2> QED
    BY <1>1, <2>3, <2>4, <2>5
<1>7. ASSUME NEW j \in 1..n, sizes[j] = 1
      PROVE  \E i \in 1..n : Near(sizes, n, i, j) /\ sizes[i] = 1 /\ N[i] = Dynamic(M[j].dim)
  <2>1. M[j].dim \in D(j)
    BY <1>4, <1>7
  <2>2. PICK i \in run(j) : Nth(D(j), UpToIn(run(j), i)) = M[j].dim
    BY <1>4, <1>7, <2>1, Sorting
  <2>3. i \in 1..n /\ Near(sizes, n, j, i)
    BY <1>3
  <2>4. sizes[i] = 1 /\ Near(sizes, n, i, j)
    BY <1>0, <2>3 DEF Near
  <2>5. run(i) = run(j) /\ D(i) = D(j)
    BY <1>5, <1>7, <2>3, <2>4
  <2>6. N[i] = Dynamic(M[j].dim)
    BY <1>2, <2>2, <2>3, <2>4, <2>5
  <2> QED
    BY <2>3, <2>4, <2>6
<1>8. ASSUME NEW i \in 1..n, NEW j \in 1..n, i < j, Near(sizes, n, i, j)
      PROVE  N[i].dim < N[j].dim
  <2>1. sizes[i] = 1 /\ sizes[j] = 1
    BY <1>0, <1>8 DEF Near
  <2>2. run(i) = run(j) /\ D(i) = D(j) /\ j \in run(i) /\ i \in run(i)
    BY <1>4, <1>5, <1>8, <2>1
  <2>3. new(i) < Nth(D(i), UpToIn(run(i), j))
    BY <1>4, <1>8, <2>1, <2>2, Sorting
  <2>4. new(i) < new(j)
    BY <2>2, <2>3
  <2>5. N[i] = Dynamic(new(i)) /\ N[j] = Dynamic(new(j))
    BY <1>2, <2>1
  <2> HIDE DEF new
  <2> QED
    BY <2>4, <2>5, DynamicIs
<1>9. N \in Seq(PhysDims) /\ Len(N) = n
  <2>1. \A i \in 1..n : N[i] \in PhysDims
    <3>1. SUFFICES ASSUME NEW i \in 1..n
                   PROVE  N[i] \in PhysDims
      OBVIOUS
    <3>2. CASE sizes[i] = 1
      <4>1. PICK j \in 1..n : N[i] = Dynamic(M[j].dim)
        BY <1>6, <3>2
      <4>2. M[j].dim \in Nat \ {0}
        BY <1>0 DEF PhysDims
      <4> QED
        BY <4>1, <4>2 DEF Dynamic, PhysDims
    <3>3. CASE sizes[i] # 1
      BY <1>0, <1>2, <3>3
    <3> QED
      BY <3>2, <3>3
  <2>2. DOMAIN N = 1..n
    BY <1>2
  <2>3. N \in [1..n -> PhysDims]
    BY <1>2, <2>1, <2>2
  <2>4. N \in Seq(PhysDims)
    BY <1>0, <2>3, SeqDef
  <2>5. DOMAIN N = 1..Len(N) /\ Len(N) \in Nat
    BY <2>4, LenProperties
  <2> QED
    BY <1>0, <2>2, <2>4, <2>5
<1>10. \A i \in 1..n : sizes[i] # 1 => N[i] = M[i]
  BY <1>2
<1> HIDE DEF run, D, new
<1> QED
  BY <1>6, <1>7, <1>8, <1>9, <1>10 DEF Reordered, sizes, N, n

\* The position of a Dynamic dimension among ones, in either direction, is all the same.
LEMMA TakenNear ==
    ASSUME NEW M, NEW rank \in Nat, IsLayout(M, rank), NEW shape, IsShape(shape, rank), AppliesTo(M, shape),
           NEW i \in 1..Len(M), NEW j \in 1..Len(M), Near(PhysicalShape(M, shape), Len(M), i, j), NEW d
    PROVE  Taken(M, d, i) = Taken(M, d, j)
<1>0. Len(M) \in Nat /\ \A x \in 1..Len(M) : PhysicalShape(M, shape)[x] = 1 => ~Fixed(M[x])
  BY LayoutDivides, SizesAre
<1>1. CASE i <= j
  <2>1. \A x \in i + 1..j : x <= Len(M) => ~(M[x].dim = d /\ Fixed(M[x]))
    BY <1>0 DEF Near
  <2>2. i \in Nat /\ j \in Nat
    BY <1>0
  <2> QED
    BY <1>0, <1>1, <2>1, <2>2, TakenSkip
<1>2. CASE j <= i
  <2>1. \A x \in j + 1..i : x <= Len(M) => ~(M[x].dim = d /\ Fixed(M[x]))
    BY <1>0 DEF Near
  <2>2. i \in Nat /\ j \in Nat
    BY <1>0
  <2>3. Taken(M, d, j) = Taken(M, d, i)
    BY <1>0, <1>2, <2>1, <2>2, TakenSkip
  <2> QED
    BY <2>3
<1> QED
  BY <1>0, <1>1, <1>2

\* Reordered ones are a layout, which applies, in canonical order.
LEMMA ReorderedApplies ==
    ASSUME NEW M, NEW rank \in Nat, IsLayout(M, rank), NEW shape, IsShape(shape, rank), AppliesTo(M, shape),
           NEW N, Reordered(M, N, PhysicalShape(M, shape))
    PROVE  /\ IsLayout(N, rank) /\ AppliesTo(N, shape)
           /\ PhysicalShape(N, shape) = PhysicalShape(M, shape)
           /\ NoneWhole(M, shape) => NoneWhole(N, shape)
           /\ ~HasNoncanonSizeOne(N, shape)
<1> DEFINE sizes == PhysicalShape(M, shape)
           n == Len(M)
<1>0. /\ n \in Nat /\ DOMAIN M = 1..n /\ Divides(M)
      /\ \A i \in 1..n : /\ M[i] \in PhysDims /\ M[i].dim \in 1..rank
                         /\ ~Fixed(M[i]) => M[i] = Dynamic(M[i].dim) /\ \A j \in 1..i - 1 : M[j].dim # M[i].dim
      /\ \A d \in 1..rank : \E i \in 1..n : M[i].dim = d
  BY LayoutDivides
<1>1. DOMAIN sizes = 1..n /\ \A i \in 1..n : sizes[i] \in Nat \ {0} /\ (sizes[i] = 1 => ~Fixed(M[i]))
                                             /\ sizes[i] = PhysicalSize(M, i, shape)
  <2>1. DOMAIN sizes = 1..n
    BY <1>0 DEF PhysicalShape
  <2> QED
    BY <2>1, SizesAre
<1>2. /\ N \in Seq(PhysDims) /\ Len(N) = n
      /\ \A i \in 1..n : sizes[i] # 1 => N[i] = M[i]
      /\ \A i \in 1..n : sizes[i] = 1 =>
            \E j \in 1..n : /\ Near(sizes, n, i, j) /\ sizes[j] = 1
                            /\ N[i] = Dynamic(M[j].dim) /\ ~Fixed(M[j])
      /\ \A j \in 1..n : sizes[j] = 1 =>
            \E i \in 1..n : Near(sizes, n, i, j) /\ sizes[i] = 1 /\ N[i] = Dynamic(M[j].dim)
      /\ \A i, j \in 1..n : i < j /\ Near(sizes, n, i, j) => N[i].dim < N[j].dim
  BY DEF Reordered
<1>3. DOMAIN N = 1..n
  BY <1>2, LenProperties
<1>a. \A i, j \in 1..n : M[i].dim = M[j].dim /\ ~Fixed(M[i]) /\ ~Fixed(M[j]) => i = j
  <2>1. SUFFICES ASSUME NEW i \in 1..n, NEW j \in 1..n, M[i].dim = M[j].dim, ~Fixed(M[i]), ~Fixed(M[j]), i < j
                 PROVE  FALSE
    BY <1>0
  <2> QED
    BY <1>0, <2>1
<1> HIDE DEF sizes, n
<1>4. \A i \in 1..n : sizes[i] = 1 => ~Fixed(N[i]) /\ N[i].kind = "Dynamic" /\ N[i].size = 0 /\ N[i].dim \in 1..rank
  <2>1. SUFFICES ASSUME NEW i \in 1..n, sizes[i] = 1
                 PROVE  ~Fixed(N[i]) /\ N[i].kind = "Dynamic" /\ N[i].size = 0 /\ N[i].dim \in 1..rank
    OBVIOUS
  <2>2. PICK j \in 1..n : N[i] = Dynamic(M[j].dim)
    BY <1>2, <2>1
  <2> QED
    BY <1>0, <2>2, DynamicIs
<1>5. ASSUME NEW i \in 1..n, ~Fixed(N[i]), NEW j \in 1..i - 1
      PROVE  N[j].dim # N[i].dim
  <2>0. j \in 1..n /\ j < i /\ i \in Nat /\ j \in Nat
    BY <1>0
  <2>1. SUFFICES ASSUME N[j].dim = N[i].dim
                 PROVE  FALSE
    OBVIOUS
  <2>2. CASE sizes[i] # 1 /\ sizes[j] # 1
    <3>1. N[i] = M[i] /\ N[j] = M[j]
      BY <1>2, <2>0, <2>2
    <3> QED
      BY <1>0, <1>5, <2>0, <2>1, <3>1
  <2>3. CASE sizes[i] # 1 /\ sizes[j] = 1
    <3>1. PICK k \in 1..n : Near(sizes, n, j, k) /\ sizes[k] = 1 /\ N[j] = Dynamic(M[k].dim) /\ ~Fixed(M[k])
      BY <1>2, <2>0, <2>3
    <3>2. k < i
      BY <1>0, <2>0, <2>3, <3>1 DEF Near
    <3>3. M[k].dim = M[i].dim /\ ~Fixed(M[i])
      <4>1. N[i] = M[i] /\ N[j].dim = M[k].dim
        <5>1. N[i] = M[i]
          BY <1>2, <2>3
        <5>2. N[j].dim = M[k].dim
          BY <3>1, DynamicIs
        <5> QED
          BY <5>1, <5>2
      <4> QED
        BY <1>5, <2>1, <4>1
    <3> QED
      BY <1>a, <1>0, <3>1, <3>2, <3>3
  <2>4. CASE sizes[i] = 1 /\ sizes[j] # 1
    <3>1. PICK k \in 1..n : Near(sizes, n, i, k) /\ sizes[k] = 1 /\ N[i] = Dynamic(M[k].dim) /\ ~Fixed(M[k])
      BY <1>2, <2>4
    <3>2. M[j].dim = M[k].dim
      <4>1. N[j] = M[j] /\ N[i].dim = M[k].dim
        <5>1. N[j] = M[j]
          BY <1>2, <2>0, <2>4
        <5>2. N[i].dim = M[k].dim
          BY <3>1, DynamicIs
        <5> QED
          BY <5>1, <5>2
      <4> QED
        BY <2>1, <4>1
    <3>3. ~(j < k)
      BY <1>0, <2>0, <3>1, <3>2
    <3>4. ~(k <= j)
      BY <1>0, <2>0, <2>4, <3>1 DEF Near
    <3> QED
      BY <1>0, <2>0, <3>3, <3>4
  <2>5. CASE sizes[i] = 1 /\ sizes[j] = 1
    <3>1. PICK k \in 1..n : Near(sizes, n, i, k) /\ sizes[k] = 1 /\ N[i] = Dynamic(M[k].dim) /\ ~Fixed(M[k])
      BY <1>2, <2>5
    <3>2. PICK m \in 1..n : Near(sizes, n, j, m) /\ sizes[m] = 1 /\ N[j] = Dynamic(M[m].dim) /\ ~Fixed(M[m])
      BY <1>2, <2>0, <2>5
    <3>3. M[k].dim = M[m].dim
      BY <2>1, <3>1, <3>2, DynamicIs
    <3>4. k = m
      BY <1>a, <3>1, <3>2, <3>3
    <3>5. Near(sizes, n, j, i)
      BY <1>0, <2>0, <3>1, <3>2, <3>4 DEF Near
    <3>6. N[j].dim < N[i].dim
      BY <1>2, <2>0, <3>5
    <3> QED
      BY <1>4, <2>0, <2>1, <2>5, <3>6
  <2> QED
    BY <2>2, <2>3, <2>4, <2>5
<1>6. IsLayout(N, rank)
  <2>1. {N[k].dim : k \in DOMAIN N} = 1..rank
    <3>1. \A k \in 1..n : N[k].dim \in 1..rank
      BY <1>0, <1>2, <1>4
    <3>2. ASSUME NEW d \in 1..rank
          PROVE  \E k \in 1..n : N[k].dim = d
      <4>1. PICK j \in 1..n : M[j].dim = d
        BY <1>0
      <4>2. CASE sizes[j] = 1
        <5>1. PICK i \in 1..n : N[i] = Dynamic(M[j].dim)
          BY <1>2, <4>2
        <5> QED
          BY <4>1, <5>1, DynamicIs
      <4>3. CASE sizes[j] # 1
        BY <1>2, <4>1, <4>3
      <4> QED
        BY <4>2, <4>3
    <3> QED
      BY <1>3, <3>1, <3>2
  <2>2. ASSUME NEW k \in 1..n
        PROVE  CASE N[k].kind = "Dynamic" -> N[k].size = 0 /\ \A j \in 1..k - 1 : N[j].dim # N[k].dim
                 [] N[k].kind = "Packed" -> N[k].size > 1
                 [] N[k].kind = "OddEven" -> N[k].size > 1 /\ N[k].size % 2 = 0
    <3>1. CASE sizes[k] = 1
      BY <1>4, <1>5, <3>1
    <3>2. CASE sizes[k] # 1
      <4>1. N[k] = M[k] /\ M[k] \in PhysDims
        BY <1>0, <1>2, <3>2
      <4>2. CASE M[k].kind = "Packed"
        BY <1>0, <4>1, <4>2 DEF IsLayout
      <4>3. CASE M[k].kind = "OddEven"
        BY <1>0, <4>1, <4>3 DEF IsLayout
      <4>4. CASE M[k].kind = "Dynamic"
        <5>1. M[k].size = 0 /\ ~Fixed(N[k])
          BY <1>0, <4>1, <4>4 DEF IsLayout, Fixed
        <5>2. \A j \in 1..k - 1 : N[j].dim # N[k].dim
          BY <1>5, <5>1
        <5> QED
          BY <4>1, <4>4, <5>1, <5>2
      <4> QED
        BY <4>1, <4>2, <4>3, <4>4 DEF PhysDims
    <3> QED
      BY <3>1, <3>2
  <2> QED
    BY <1>2, <1>3, <2>1, <2>2 DEF IsLayout
<1>7. \A j \in 1..n : Fixed(M[j]) \/ Fixed(N[j]) => N[j] = M[j]
  BY <1>1, <1>2, <1>4
<1>8. ASSUME NEW d, NEW i \in 0..n
      PROVE  Taken(N, d, i) = Taken(M, d, i)
  <2>1. \A j \in i + 1..n : (N[j].dim = d /\ Fixed(N[j])) <=> (M[j].dim = d /\ Fixed(M[j]))
    BY <1>0, <1>7
  <2>2. Inside(N, d, i) = Inside(M, d, i)
    BY <1>2, <2>1 DEF Inside, n
  <2>3. \A j \in Inside(M, d, i) : N[j].size = M[j].size
    BY <1>0, <1>7 DEF Inside, n
  <2> QED
    BY <2>2, <2>3 DEF Taken
<1>9. AppliesTo(N, shape)
  <2>1. ASSUME NEW d \in 1..rank
        PROVE  Spans(N, d, shape[d])
    <3>1. Spans(M, d, shape[d])
      BY AppliesSpans
    <3>2. Taken(N, d, 0) = Taken(M, d, 0)
      BY <1>0, <1>8
    <3>3. HasDynamic(M, d) => HasDynamic(N, d)
      <4>1. SUFFICES ASSUME NEW j \in 1..n, M[j].dim = d, ~Fixed(M[j])
                     PROVE  \E i \in 1..n : N[i].dim = d /\ ~Fixed(N[i])
        BY <1>2 DEF HasDynamic, n
      <4>2. CASE sizes[j] = 1
        <5>1. PICK i \in 1..n : N[i] = Dynamic(M[j].dim)
          BY <1>2, <4>2
        <5> QED
          BY <4>1, <5>1, DynamicIs
      <4>3. CASE sizes[j] # 1
        BY <1>2, <4>1, <4>3
      <4> QED
        BY <4>2, <4>3
    <3> QED
      BY <3>1, <3>2, <3>3 DEF Spans
  <2> QED
    BY <1>6, <2>1, SpansApplies
<1>10. ASSUME NEW i \in 1..n
       PROVE  PhysicalSize(N, i, shape) = sizes[i]
  <2>1. CASE sizes[i] # 1
    <3>1. N[i] = M[i]
      BY <1>2, <2>1
    <3>2. TakenInside(N, i) = TakenInside(M, i)
      BY <1>0, <1>8, <3>1, TakenInsideIs
    <3> QED
      BY <1>1, <3>1, <3>2 DEF PhysicalSize
  <2>2. CASE sizes[i] = 1
    <3>1. PICK j \in 1..n : Near(sizes, n, i, j) /\ sizes[j] = 1 /\ N[i] = Dynamic(M[j].dim) /\ ~Fixed(M[j])
      BY <1>2, <2>2
    <3>2. N[i].dim = M[j].dim /\ ~Fixed(N[i])
      BY <3>1, DynamicIs
    <3>3. Taken(N, M[j].dim, i) = Taken(M, M[j].dim, i)
      BY <1>0, <1>8
    <3>4. Taken(M, M[j].dim, i) = Taken(M, M[j].dim, j)
      BY <3>1, TakenNear DEF sizes, n
    <3>5. TakenInside(N, i) = TakenInside(M, j)
      BY <3>2, <3>3, <3>4, TakenInsideIs
    <3>6. PhysicalSize(N, i, shape) = PhysicalSize(M, j, shape)
      BY <3>1, <3>2, <3>5 DEF PhysicalSize
    <3> QED
      BY <1>1, <2>2, <3>1, <3>6
  <2> QED
    BY <2>1, <2>2
<1>11. PhysicalShape(N, shape) = sizes
  <2>1. PhysicalShape(N, shape) = [i \in 1..n |-> PhysicalSize(N, i, shape)]
    BY <1>3 DEF PhysicalShape
  <2>2. sizes = [i \in 1..n |-> PhysicalSize(M, i, shape)]
    BY <1>0 DEF PhysicalShape, sizes
  <2>3. \A i \in 1..n : PhysicalSize(N, i, shape) = PhysicalSize(M, i, shape)
    BY <1>1, <1>10
  <2> QED
    BY <2>1, <2>2, <2>3
<1>12. NoneWhole(M, shape) => NoneWhole(N, shape)
  <2>1. SUFFICES ASSUME NoneWhole(M, shape), NEW i \in 1..n, N[i] = Packed(N[i].dim, shape[N[i].dim])
                 PROVE  \E j \in DOMAIN N \ {i} : N[j].dim = N[i].dim /\ N[j].kind = "Packed"
    BY <1>3 DEF NoneWhole
  <2>2. Fixed(N[i]) /\ N[i] = M[i]
    <3>1. Fixed(N[i])
      BY <2>1, PackedIs
    <3> QED
      BY <1>7, <3>1
  <2>3. PICK j \in DOMAIN M \ {i} : M[j].dim = M[i].dim /\ M[j].kind = "Packed"
    BY <1>0, <2>1, <2>2 DEF NoneWhole
  <2>4. N[j] = M[j]
    BY <1>0, <1>7, <2>3 DEF Fixed
  <2> QED
    BY <1>0, <1>3, <2>2, <2>3, <2>4
<1>13. ~HasNoncanonSizeOne(N, shape)
  <2>1. SUFFICES ASSUME NEW i \in 1..n - 1, sizes[i] = 1, sizes[i + 1] = 1, N[i].dim > N[i + 1].dim
                 PROVE  FALSE
    BY <1>2, <1>11 DEF HasNoncanonSizeOne
  <2>2. i \in 1..n /\ i + 1 \in 1..n /\ i < i + 1
    BY <1>0
  <2>3. Near(sizes, n, i, i + 1)
    BY <1>0, <2>1, <2>2 DEF Near
  <2>4. N[i].dim < N[i + 1].dim
    BY <1>2, <2>2, <2>3
  <2>5. N[i].dim \in Nat /\ N[i + 1].dim \in Nat
    BY <1>4, <2>1, <2>2
  <2> QED
    BY <2>1, <2>4, <2>5
<1> QED
  BY <1>6, <1>9, <1>11, <1>12, <1>13 DEF sizes

\* Sorted runs stay as they are.
LEMMA SortedRuns ==
    ASSUME NEW M, NEW rank \in Nat, IsLayout(M, rank), NEW shape, IsShape(shape, rank), AppliesTo(M, shape),
           ~HasNoncanonSizeOne(M, shape),
           NEW i \in 1..Len(M), NEW j \in 1..Len(M), i < j, Near(PhysicalShape(M, shape), Len(M), i, j)
    PROVE  M[i].dim < M[j].dim
<1> DEFINE sizes == PhysicalShape(M, shape)
           n == Len(M)
           Bad == {k \in Nat : k \in 1..n /\ i < k /\ Near(sizes, n, i, k) /\ ~(M[i].dim < M[k].dim)}
<1>0. /\ n \in Nat
      /\ \A x \in 1..n : /\ M[x].dim \in Nat
                         /\ sizes[x] = 1 => ~Fixed(M[x])
                         /\ ~Fixed(M[x]) => \A y \in 1..x - 1 : M[y].dim # M[x].dim
  BY LayoutDivides, SizesAre
<1>1. ASSUME NEW k \in 1..n, k + 1 \in 1..n, sizes[k] = 1, sizes[k + 1] = 1
      PROVE  M[k].dim < M[k + 1].dim
  <2>1. k \in 1..n - 1
    BY <1>0, <1>1
  <2>2. ~(M[k].dim > M[k + 1].dim)
    BY <1>1, <2>1 DEF HasNoncanonSizeOne
  <2>3. k \in 1..(k + 1) - 1
    BY <1>0
  <2>4. M[k].dim # M[k + 1].dim
    BY <1>0, <1>1, <2>3
  <2> QED
    BY <1>0, <1>1, <2>2, <2>4
<1> HIDE DEF sizes, n
<1>2. SUFFICES ASSUME Bad # {}
               PROVE  FALSE
  BY <1>0 DEF sizes, n
<1>3. PICK k \in Bad : \A m \in Bad : k <= m
  BY <1>2, LeastNat
<1>4. k \in Nat /\ k \in 1..n /\ i < k /\ Near(sizes, n, i, k) /\ ~(M[i].dim < M[k].dim)
  BY <1>3
<1>a. i \in 1..n
  BY DEF n
<1>5. k - 1 \in 1..n /\ (k - 1) + 1 = k /\ sizes[k - 1] = 1 /\ sizes[k] = 1
  BY <1>0, <1>4, <1>a DEF Near
<1>6. M[k - 1].dim < M[k].dim
  <2>1. (k - 1) + 1 \in 1..n /\ sizes[(k - 1) + 1] = 1
    BY <1>4, <1>5
  <2>2. M[k - 1].dim < M[(k - 1) + 1].dim
    BY <1>1, <1>5, <2>1
  <2> QED
    BY <1>5, <2>2
<1>7. CASE i = k - 1
  BY <1>4, <1>6, <1>7
<1>8. CASE i # k - 1
  <2>1. i < k - 1 /\ k - 1 \in Nat /\ ~(k <= k - 1)
    BY <1>0, <1>4, <1>8, <1>a
  <2>2. Near(sizes, n, i, k - 1)
    BY <1>0, <1>4, <1>5, <1>a, <2>1 DEF Near
  <2>3. k - 1 \notin Bad
    BY <1>3, <2>1
  <2>4. M[i].dim < M[k - 1].dim
    BY <1>5, <2>1, <2>2, <2>3
  <2> QED
    BY <1>0, <1>4, <1>5, <1>6, <1>a, <2>4
<1> QED
  BY <1>7, <1>8

\* So sorting them changes nothing.
LEMMA ReorderSame ==
    ASSUME NEW M, NEW rank \in Nat, IsLayout(M, rank), NEW shape, IsShape(shape, rank), AppliesTo(M, shape),
           ~HasNoncanonSizeOne(M, shape)
    PROVE  ReorderSizeOne(M, shape) = M
<1> DEFINE sizes == PhysicalShape(M, shape)
           n == Len(M)
           N == ReorderSizeOne(M, shape)
           Bad == {k \in Nat : k \in 1..n /\ N[k] # M[k]}
<1>0. /\ n \in Nat /\ DOMAIN M = 1..n /\ M \in Seq(PhysDims)
      /\ \A x \in 1..n : /\ M[x].dim \in Nat
                         /\ ~Fixed(M[x]) => M[x] = Dynamic(M[x].dim)
                         /\ sizes[x] = 1 => ~Fixed(M[x])
  <2>1. M \in Seq(PhysDims)
    BY DEF IsLayout
  <2>2. n \in Nat /\ DOMAIN M = 1..n
    BY <2>1, LenProperties
  <2>3. \A x \in 1..n : M[x].dim \in 1..rank
    BY LayoutDivides
  <2>4. \A x \in 1..n : ~Fixed(M[x]) => M[x] = Dynamic(M[x].dim)
    <3>1. TAKE x \in 1..n
    <3>2. M[x] \in PhysDims
      BY <2>1, <2>2
    <3>3. M[x].kind = "Dynamic" => M[x].size = 0
      BY <2>2 DEF IsLayout
    <3> QED
      BY <3>2, <3>3 DEF PhysDims, Fixed, Dynamic
  <2>5. \A x \in 1..n : sizes[x] = 1 => ~Fixed(M[x])
    BY SizesAre
  <2> QED
    BY <2>1, <2>2, <2>3, <2>4, <2>5
<1>1. Reordered(M, N, sizes)
  BY ReorderIs
<1>2. \A x, y \in 1..n : x < y /\ Near(sizes, n, x, y) => M[x].dim < M[y].dim
  BY SortedRuns
<1> HIDE DEF sizes, n, N
<1>3. /\ N \in Seq(PhysDims) /\ Len(N) = n
      /\ \A i \in 1..n : sizes[i] # 1 => N[i] = M[i]
      /\ \A i \in 1..n : sizes[i] = 1 =>
            \E j \in 1..n : /\ Near(sizes, n, i, j) /\ sizes[j] = 1
                            /\ N[i] = Dynamic(M[j].dim) /\ ~Fixed(M[j])
      /\ \A j \in 1..n : sizes[j] = 1 =>
            \E i \in 1..n : Near(sizes, n, i, j) /\ sizes[i] = 1 /\ N[i] = Dynamic(M[j].dim)
      /\ \A i, j \in 1..n : i < j /\ Near(sizes, n, i, j) => N[i].dim < N[j].dim
  BY <1>1 DEF Reordered, n
<1>4. Bad = {}
  <2>1. SUFFICES ASSUME Bad # {}
                 PROVE  FALSE
    OBVIOUS
  <2>2. PICK i \in Bad : \A m \in Bad : i <= m
    BY <2>1, LeastNat
  <2>3. i \in 1..n /\ i \in Nat /\ N[i] # M[i] /\ \A m \in 1..n : m < i => N[m] = M[m]
    <3>1. i \in 1..n /\ i \in Nat /\ N[i] # M[i]
      BY <2>2
    <3>2. ASSUME NEW m \in 1..n, m < i
          PROVE  N[m] = M[m]
      <4>1. m \notin Bad /\ m \in Nat
        BY <1>0, <2>2, <3>1, <3>2
      <4> QED
        BY <4>1
    <3> QED
      BY <3>1, <3>2
  <2>4. sizes[i] = 1
    BY <1>3, <2>3
  <2>5. PICK j \in 1..n : Near(sizes, n, i, j) /\ sizes[j] = 1 /\ N[i] = Dynamic(M[j].dim)
    BY <1>3, <2>3, <2>4
  <2>6. PICK k \in 1..n : Near(sizes, n, k, i) /\ sizes[k] = 1 /\ N[k] = Dynamic(M[i].dim)
    BY <1>3, <2>3, <2>4
  <2>7. N[i].dim = M[j].dim /\ N[k].dim = M[i].dim
    BY <2>5, <2>6, DynamicIs
  <2>8. M[i] = Dynamic(M[i].dim) /\ i # j
    BY <1>0, <2>3, <2>4, <2>5
  <2>9. Near(sizes, n, j, i) /\ Near(sizes, n, i, k)
    BY <1>0, <2>3, <2>5, <2>6 DEF Near
  <2>10. ~(j < i)
    <3>1. SUFFICES ASSUME j < i
                   PROVE  FALSE
      OBVIOUS
    <3>2. N[j] = M[j] /\ N[j].dim < N[i].dim
      BY <1>3, <2>3, <2>9, <3>1
    <3> QED
      BY <1>0, <2>7, <3>2
  <2>11. M[i].dim < N[i].dim
    BY <1>0, <1>2, <2>3, <2>5, <2>7, <2>8, <2>10
  <2>12. ~(k < i)
    <3>1. SUFFICES ASSUME k < i
                   PROVE  FALSE
      OBVIOUS
    <3>2. N[k] = M[k] /\ M[k].dim < M[i].dim
      BY <1>2, <2>3, <2>6, <3>1
    <3> QED
      BY <1>0, <2>3, <2>7, <3>2
  <2>13. k # i
    BY <2>6, <2>8, <2>3
  <2>14. N[i].dim < N[k].dim
    BY <1>0, <1>3, <2>3, <2>9, <2>12, <2>13
  <2> QED
    BY <1>0, <2>3, <2>5, <2>7, <2>11, <2>14
<1>5. \A i \in 1..n : N[i] = M[i]
  BY <1>0, <1>4
<1>6. DOMAIN N = 1..n
  BY <1>3, LenProperties
<1>7. N = M
  <2>1. N = [i \in 1..n |-> N[i]] /\ M = [i \in 1..n |-> M[i]]
    BY <1>0, <1>3, <1>6
  <2> QED
    BY <1>5, <2>1
<1> QED
  BY <1>7 DEF N

-----------------------------------------------------------------------------
(* update_for_tiling.                                                      *)

\* What is_canonical asks of a layout, with what of it is contiguous.
CanonicalLayout(layout, shape, contig) ==
    /\ AllOnes(shape) => IsRowMajor(layout)
    /\ NoneWhole(layout, shape)
    /\ ~HasNoncanonSizeOne(layout, shape)
    /\ contig \in 0..Len(layout)
    /\ contig < Len(layout) => PhysicalSize(layout, Len(layout) - contig, shape) # 1

\* increase_contig_through_ones stops at a size that is not 1, and stays there.
LEMMA ContigIncreased ==
    ASSUME NEW M, NEW rank \in Nat, IsLayout(M, rank), NEW shape, IsShape(shape, rank), AppliesTo(M, shape),
           NEW contig \in Nat
    PROVE  LET u == IncreaseContig(M, shape, contig)
           IN  /\ u.layout = M /\ u.contig \in 0..Len(M)
               /\ u.contig < Len(M) => PhysicalSize(M, Len(M) - u.contig, shape) # 1
               /\ contig \in 0..Len(M) /\ (contig < Len(M) => PhysicalSize(M, Len(M) - contig, shape) # 1)
                     => u.contig = contig
<1> DEFINE n == Len(M)
           sizes == PhysicalShape(M, shape)
           others == {i \in 1..n - contig : sizes[i] # 1}
           c == IF others = {} THEN n ELSE n - Max(others)
<1>0. n \in Nat
  BY LayoutDivides
<1>1. IncreaseContig(M, shape, contig) = [layout |-> M, contig |-> c]
  BY DEF IncreaseContig
<1>2. \A i \in 1..n : sizes[i] = PhysicalSize(M, i, shape)
  BY SizesAre
<1> HIDE DEF n, sizes
<1>3. CASE others = {}
  <2>1. c = n
    BY <1>3
  <2>2. contig \in 0..n /\ (contig < n => PhysicalSize(M, n - contig, shape) # 1) => contig = n
    <3>1. SUFFICES ASSUME contig \in 0..n, contig < n => PhysicalSize(M, n - contig, shape) # 1, contig < n
                   PROVE  FALSE
      BY <1>0
    <3>2. n - contig \in 1..n - contig /\ n - contig \in 1..n
      BY <1>0, <3>1
    <3>3. n - contig \in others
      BY <1>2, <3>1, <3>2
    <3> QED
      BY <1>3, <3>3
  <2> QED
    BY <1>0, <1>1, <2>1, <2>2 DEF n
<1>4. CASE others # {}
  <2>1. others \in SUBSET (0..n) /\ others \in SUBSET (1..n)
    BY <1>0
  <2>2. PICK m \in others : m = Max(others) /\ \A i \in others : i <= m
    <3>1. Max(others) \in others /\ \A i \in others : i <= Max(others)
      BY <1>0, <1>4, <2>1, MaxNat
    <3> QED
      BY <3>1
  <2>3. m \in 1..n /\ m <= n - contig /\ sizes[m] # 1 /\ c = n - m
    BY <1>0, <1>4, <2>2
  <2>4. c \in 0..n /\ n - c = m /\ PhysicalSize(M, n - c, shape) # 1
    <3>1. c \in 0..n /\ n - c = m
      BY <1>0, <2>3
    <3> QED
      BY <1>2, <2>3, <3>1
  <2>5. contig \in 0..n /\ (contig < n => PhysicalSize(M, n - contig, shape) # 1) => c = contig
    <3>1. SUFFICES ASSUME contig \in 0..n, contig < n => PhysicalSize(M, n - contig, shape) # 1
                   PROVE  c = contig
      OBVIOUS
    <3>2. contig < n
      BY <1>0, <2>3
    <3>3. n - contig \in 1..n - contig /\ n - contig \in 1..n
      BY <1>0, <3>1, <3>2
    <3>4. n - contig \in others
      BY <1>2, <3>1, <3>2, <3>3
    <3>5. n - contig <= m
      BY <2>2, <3>4
    <3> QED
      BY <1>0, <2>3, <3>5
  <2> HIDE DEF c
  <2> QED
    BY <1>1, <2>4, <2>5 DEF n
<1> QED
  BY <1>3, <1>4

-----------------------------------------------------------------------------
(* The layout of a tile.                                                   *)

\* Row-major is a canonical layout of every shape.
LEMMA RowMajorIs ==
    ASSUME NEW rank \in Nat, NEW shape, IsShape(shape, rank)
    PROVE  /\ IsLayout(RowMajor(rank), rank) /\ AppliesTo(RowMajor(rank), shape)
           /\ CanonicalLayout(RowMajor(rank), shape, rank)
           /\ IsRowMajor(RowMajor(rank)) /\ Len(RowMajor(rank)) = rank
<1> DEFINE L == RowMajor(rank)
<1>1. /\ DOMAIN L = 1..rank /\ \A i \in 1..rank : L[i] = Dynamic(i)
      /\ \A i \in 1..rank : L[i] \in PhysDims
  BY DEF RowMajor, Dynamic, PhysDims
<1>2. L \in Seq(PhysDims) /\ Len(L) = rank
  <2>1. L = [i \in 1..rank |-> L[i]]
    BY <1>1 DEF RowMajor
  <2>2. [i \in 1..rank |-> L[i]] \in [1..rank -> PhysDims]
    BY <1>1
  <2>3. L \in [1..rank -> PhysDims]
    BY <2>1, <2>2
  <2>4. L \in Seq(PhysDims)
    BY <2>3, SeqDef
  <2> QED
    BY <1>1, <2>4, LenProperties
<1>3. \A i \in 1..rank : L[i].dim = i /\ L[i].kind = "Dynamic" /\ L[i].size = 0 /\ ~Fixed(L[i])
  BY <1>1, DynamicIs
<1> HIDE DEF L
<1>4. IsLayout(L, rank)
  <2>1. {L[i].dim : i \in DOMAIN L} = 1..rank
    BY <1>1, <1>3
  <2>2. \A i \in DOMAIN L : L[i].size = 0 /\ \A j \in 1..i - 1 : L[j].dim # L[i].dim
    BY <1>1, <1>3
  <2> QED
    BY <1>1, <1>2, <1>3, <2>1, <2>2 DEF IsLayout
<1>5. AppliesTo(L, shape)
  <2>1. \A i \in DOMAIN L : ~Fixed(L[i])
    BY <1>1, <1>3
  <2>2. ASSUME NEW i \in DOMAIN L, \A j \in 1..i : L[j].dim = L[i].dim => j = i /\ Fixed(L[j])
        PROVE  FALSE
    <3>1. i \in 1..i
      BY <1>1
    <3> QED
      BY <2>1, <2>2, <3>1
  <2> QED
    BY <2>1, <2>2 DEF AppliesTo
<1>6. NoneWhole(L, shape)
  BY <1>1, <1>3, PackedIs DEF NoneWhole
<1>7. ~HasNoncanonSizeOne(L, shape)
  BY <1>2, <1>3 DEF HasNoncanonSizeOne
<1>8. IsRowMajor(L)
  BY <1>1 DEF IsRowMajor
<1>9. CanonicalLayout(L, shape, rank)
  BY <1>2, <1>6, <1>7, <1>8 DEF CanonicalLayout
<1> QED
  BY <1>2, <1>4, <1>5, <1>8, <1>9 DEF L

\* What is contiguous in a tile is a number of dimensions,
LEMMA LowerContigNat ==
    ASSUME NEW layout, NEW rank \in Nat, IsLayout(layout, rank), NEW from, NEW to, NEW contig \in Nat
    PROVE  LowerContig(layout, from, to, contig) \in Nat
<1> DEFINE broken == {i \in DOMAIN layout : PhysicalShape(layout, from)[i] # PhysicalShape(layout, to)[i]}
<1>0. Len(layout) \in Nat /\ DOMAIN layout = 1..Len(layout)
  BY LayoutDivides
<1>1. LowerContig(layout, from, to, contig)
        = IF broken = {} THEN contig ELSE Min({contig, Len(layout) - Max(broken) + 1})
  BY DEF LowerContig
<1>2. broken \subseteq 1..Len(layout) /\ broken \in SUBSET (0..Len(layout))
  BY <1>0
<1> HIDE DEF broken
<1>3. CASE broken # {}
  <2>1. Max(broken) \in broken
    BY <1>0, <1>2, <1>3, MaxNat
  <2>2. Len(layout) - Max(broken) + 1 \in Nat
    <3>1. Max(broken) \in 1..Len(layout)
      BY <1>2, <2>1
    <3>2. PICK m : m = Max(broken)
      OBVIOUS
    <3> QED
      BY <1>0, <3>1, <3>2
  <2>3. PICK m \in Nat : m = Len(layout) - Max(broken) + 1
    BY <2>2
  <2>4. Min({contig, m}) \in Nat
    BY MinNat
  <2> QED
    BY <1>1, <1>3, <2>3, <2>4
<1> QED
  BY <1>1, <1>3

\* and stays one when packings are dropped.
LEMMA DropContigNat ==
    ASSUME NEW layout, NEW rank \in Nat, IsLayout(layout, rank), NEW shape, IsShape(shape, rank),
           AppliesTo(layout, shape), NEW contig \in Nat
    PROVE  DropUnneededPackings(layout, shape, contig).contig \in Nat
<1> DEFINE n == Len(layout)
           T == {j \in GoneIn(layout, shape) : j > n - contig /\ ~Fixed(layout[j])}
<1>0. n \in Nat
  BY LayoutDivides
<1>1. GoneIn(layout, shape) \subseteq 1..n
  BY GoneMeans
<1>2. DropUnneededPackings(layout, shape, contig).contig = contig - Cardinality(T)
  BY DropMeans
<1> HIDE DEF n
<1>3. T \subseteq n - contig + 1..n
  BY <1>0, <1>1
<1>4. IsFiniteSet(n - contig + 1..n) /\ Cardinality(n - contig + 1..n) = contig
  <2>1. n - contig + 1 \in Int /\ n \in Int
    BY <1>0
  <2>2. /\ IsFiniteSet(n - contig + 1..n)
        /\ Cardinality(n - contig + 1..n) = IF n - contig + 1 > n THEN 0 ELSE n - (n - contig + 1) + 1
    BY <2>1, FS_Interval
  <2> QED
    BY <1>0, <2>2
<1>5. IsFiniteSet(T) /\ Cardinality(T) <= contig
  BY <1>3, <1>4, FS_Subset
<1>6. Cardinality(T) \in Nat
  BY <1>5, FS_CardinalityType
<1> HIDE DEF T
<1> QED
  BY <1>2, <1>5, <1>6

\* What a tile's layout is: one of its own shape, and canonical.
LEMMA UpdateForTilingIs ==
    ASSUME NEW layout, NEW rank \in Nat, IsLayout(layout, rank), NEW from, NEW shape, IsShape(shape, rank),
           AllOnes(shape) \/ AppliesTo(layout, shape), NEW contig \in Nat
    PROVE  LET u == UpdateForTiling(layout, from, shape, contig)
           IN  /\ IsLayout(u.layout, rank) /\ AppliesTo(u.layout, shape)
               /\ CanonicalLayout(u.layout, shape, u.contig)
<1> DEFINE u == UpdateForTiling(layout, from, shape, contig)
<1>1. CASE AllOnes(shape)
  <2>1. u = [layout |-> RowMajor(rank), contig |-> rank]
    BY <1>1 DEF UpdateForTiling, IsShape
  <2>2. u.layout = RowMajor(rank) /\ u.contig = rank
    BY <2>1
  <2> QED
    BY <2>2, RowMajorIs
<1>2. CASE ~AllOnes(shape)
  <2>1. PICK c \in Nat : c = LowerContig(layout, from, shape, contig)
    BY LowerContigNat
  <2>2. PICK M : M = Without(MarkedIn(layout, shape), GoneIn(layout, shape))
    OBVIOUS
  <2>3. IsLayout(M, rank) /\ AppliesTo(M, shape) /\ NoneWhole(M, shape)
    BY <1>2, <2>2, DropApplies
  <2>4. PICK b \in Nat : b = DropUnneededPackings(layout, shape, c).contig
    BY <1>2, DropContigNat
  <2>5. DropUnneededPackings(layout, shape, c).layout = M
    BY <2>2, DropMeans
  <2>6. PICK N : N = ReorderSizeOne(M, shape)
    OBVIOUS
  <2>7. u = IncreaseContig(N, shape, b)
    BY <1>2, <2>1, <2>4, <2>5, <2>6 DEF UpdateForTiling, CanonicalizeOnes
  <2>8. Reordered(M, N, PhysicalShape(M, shape))
    BY <2>3, <2>6, ReorderIs
  <2>9. IsLayout(N, rank) /\ AppliesTo(N, shape) /\ NoneWhole(N, shape) /\ ~HasNoncanonSizeOne(N, shape)
    BY <2>3, <2>8, ReorderedApplies
  <2>10. /\ u.layout = N /\ u.contig \in 0..Len(N)
         /\ u.contig < Len(N) => PhysicalSize(N, Len(N) - u.contig, shape) # 1
    BY <2>7, <2>9, ContigIncreased
  <2> HIDE DEF u
  <2>11. CanonicalLayout(N, shape, u.contig)
    BY <1>2, <2>9, <2>10 DEF CanonicalLayout
  <2> QED
    BY <2>9, <2>10, <2>11 DEF u
<1> QED
  BY <1>1, <1>2

\* What is canonical stays as it is.
LEMMA UpdateSame ==
    ASSUME NEW layout, NEW rank \in Nat, IsLayout(layout, rank), NEW shape, IsShape(shape, rank),
           AppliesTo(layout, shape), NEW contig, CanonicalLayout(layout, shape, contig)
    PROVE  UpdateForTiling(layout, shape, shape, contig) = [layout |-> layout, contig |-> contig]
<1> DEFINE n == Len(layout)
<1>0. /\ n \in Nat /\ DOMAIN layout = 1..n /\ layout \in Seq(PhysDims)
      /\ \A d \in 1..rank : \E i \in 1..n : layout[i].dim = d
      /\ \A i \in 1..n : layout[i].dim \in 1..rank
  BY LayoutDivides DEF IsLayout
<1>n. n \in Nat
  BY <1>0
<1>d. \A i \in 1..n : layout[i].dim \in 1..rank
  BY LayoutDivides
<1>1. CASE AllOnes(shape)
  <2>1. IsRowMajor(layout)
    BY <1>1 DEF CanonicalLayout
  <2>2. \A i \in 1..n : layout[i] = Dynamic(i) /\ layout[i].dim = i
    BY <1>0, <2>1, DynamicIs DEF IsRowMajor
  <2>3. n = rank
    <3>1. n \in 1..n => n <= rank
      <4>1. SUFFICES ASSUME n \in 1..n
                     PROVE  n <= rank
        OBVIOUS
      <4>2. \A i \in 1..n : layout[i].dim \in 1..rank /\ layout[i].dim = i
        BY <1>d, <2>2, Zenon
      <4> HIDE DEF n
      <4>3. layout[n].dim \in 1..rank /\ layout[n].dim = n
        BY <4>1, <4>2
      <4> QED
        BY <1>n, <4>3
    <3>2. rank \in 1..rank => rank <= n
      BY <1>0, <2>2
    <3> HIDE DEF n
    <3> QED
      BY <1>n, <3>1, <3>2
  <2>4. layout = [i \in 1..n |-> layout[i]]
    BY <1>0
  <2>5. layout = RowMajor(rank)
    BY <2>2, <2>3, <2>4 DEF RowMajor
  <2>6. UpdateForTiling(layout, shape, shape, contig) = [layout |-> RowMajor(rank), contig |-> rank]
    BY <1>1 DEF UpdateForTiling, IsShape
  <2>7. contig = n
    <3>1. contig \in 0..n /\ (contig < n => PhysicalSize(layout, n - contig, shape) # 1)
      BY DEF CanonicalLayout
    <3>2. ASSUME NEW i \in 1..n
          PROVE  PhysicalSize(layout, i, shape) = 1
      <4>1. ~Fixed(layout[i]) /\ shape[i] = 1
        BY <1>1, <2>2, <2>3, <3>2, DynamicIs DEF AllOnes, IsShape
      <4>2. Inside(layout, i, i) = {}
        BY <1>0, <2>2, DynamicIs DEF Inside
      <4>3. Taken(layout, i, i) = 1
        BY <1>0, <4>2, LayoutDivides, TakenNat
      <4>4. TakenInside(layout, i) = Taken(layout, i, i)
        BY <2>2, TakenInsideIs
      <4> QED
        BY <2>2, <4>1, <4>3, <4>4 DEF PhysicalSize
    <3>3. contig < n => n - contig \in 1..n
      BY <1>0, <3>1
    <3> HIDE DEF n
    <3> QED
      BY <1>n, <3>1, <3>2, <3>3
  <2> QED
    BY <2>3, <2>5, <2>6, <2>7
<1>2. CASE ~AllOnes(shape)
  <2>0. /\ NoneWhole(layout, shape) /\ ~HasNoncanonSizeOne(layout, shape) /\ contig \in 0..Len(layout)
        /\ contig < Len(layout) => PhysicalSize(layout, Len(layout) - contig, shape) # 1
    BY DEF CanonicalLayout
  <2>9. contig \in Nat
    <3>1. contig \in 0..n
      BY <2>0
    <3> QED
      BY <1>0, <3>1
  <2>1. LowerContig(layout, shape, shape, contig) = contig
    BY DEF LowerContig
  <2>2. ClearedIn(layout, shape) = {}
    <3>1. ASSUME NEW i \in ClearedIn(layout, shape)
          PROVE  FALSE
      <4>1. i \in 1..n /\ PackingsIn(layout, layout[i].dim) = {i} /\ shape[layout[i].dim] = layout[i].size
        BY <1>0, <3>1 DEF ClearedIn
      <4>2. layout[i].kind = "Packed" /\ layout[i] \in PhysDims
        BY <1>0, <4>1 DEF PackingsIn
      <4>3. layout[i] = Packed(layout[i].dim, shape[layout[i].dim])
        BY <4>1, <4>2 DEF PhysDims, Packed
      <4>4. PICK j \in DOMAIN layout \ {i} : layout[j].dim = layout[i].dim /\ layout[j].kind = "Packed"
        BY <1>0, <2>0, <4>1, <4>3 DEF NoneWhole
      <4> QED
        BY <1>0, <4>1, <4>4 DEF PackingsIn
    <3> QED
      BY <3>1
  <2>3. GoneIn(layout, shape) = {} /\ MarkedIn(layout, shape) = layout
    <3>1. layout = [i \in 1..n |-> layout[i]]
      BY <1>0
    <3> QED
      BY <1>0, <2>2, <3>1 DEF GoneIn, MarkedIn
  <2>4. PICK T : T = {j \in GoneIn(layout, shape) : j > Len(layout) - contig /\ ~Fixed(layout[j])}
    OBVIOUS
  <2>5. T = {} /\ Cardinality(T) = 0
    <3>1. T = {}
      BY <2>3, <2>4
    <3> QED
      BY <3>1, FS_EmptySet
  <2>6. Without(layout, {}) = layout
    BY <1>0, WithoutNone
  <2>7. DropUnneededPackings(layout, shape, contig) = [layout |-> layout, contig |-> contig]
    <3>1. contig - Cardinality(T) = contig
      BY <2>5, <2>9
    <3> QED
      BY <2>3, <2>4, <2>6, <3>1, DropMeans
  <2>8. ReorderSizeOne(layout, shape) = layout
    BY <2>0, ReorderSame
  <2>10. PICK u : u = IncreaseContig(layout, shape, contig)
    OBVIOUS
  <2>11. u.layout = layout /\ u.contig = contig
    BY <2>0, <2>9, <2>10, ContigIncreased
  <2>12. u = [layout |-> u.layout, contig |-> u.contig]
    BY <2>10 DEF IncreaseContig
  <2>13. UpdateForTiling(layout, shape, shape, contig) = u
    BY <1>2, <2>1, <2>7, <2>8, <2>10 DEF UpdateForTiling, CanonicalizeOnes
  <2> QED
    BY <2>11, <2>12, <2>13
<1> QED
  BY <1>1, <1>2

-----------------------------------------------------------------------------
(* Neighbouring packings, joined.                                          *)

\* What of a layout can be said without its rank; whether it has a dimension.
PhysOK(p) == p \in PhysDims /\ (Fixed(p) => p.size > 1) /\ (p.kind = "OddEven" => p.size % 2 = 0)
             /\ (~Fixed(p) => p.size = 0)
Has(L, d) == \E i \in 1..Len(L) : L[i].dim = d
PartLayout(L) ==
    /\ L \in Seq(PhysDims) /\ Divides(L) /\ Len(L) \in Nat /\ DOMAIN L = 1..Len(L)
    /\ \A i \in 1..Len(L) : PhysOK(L[i])
    /\ \A i \in 1..Len(L) : ~Fixed(L[i]) => \A j \in 1..i - 1 : L[j].dim # L[i].dim

\* Layouts of the same dimensions, with as much of each in packings.
SameParts(M, L) ==
    \A d \in Nat : /\ Has(M, d) <=> Has(L, d)
                   /\ HasDynamic(M, d) <=> HasDynamic(L, d)
                   /\ Taken(M, d, 0) = Taken(L, d, 0)

\* A layout, by its parts.
LEMMA LayoutParts ==
    ASSUME NEW L, NEW rank \in Nat
    PROVE  IsLayout(L, rank) <=> PartLayout(L) /\ (\A d \in Nat : Has(L, d) <=> d \in 1..rank)
<1>1. ASSUME IsLayout(L, rank)
      PROVE  PartLayout(L) /\ \A d \in Nat : Has(L, d) <=> d \in 1..rank
  <2>1. /\ Divides(L) /\ Len(L) \in Nat /\ DOMAIN L = 1..Len(L)
        /\ \A i \in 1..Len(L) : L[i] \in PhysDims /\ L[i].dim \in 1..rank
        /\ \A i \in 1..Len(L) : ~Fixed(L[i]) => \A j \in 1..i - 1 : L[j].dim # L[i].dim
    BY <1>1, LayoutDivides
  <2>2. \A d \in 1..rank : \E i \in 1..Len(L) : L[i].dim = d
    BY <1>1, LayoutDivides
  <2>3. \A i \in 1..Len(L) : /\ L[i].kind = "Dynamic" => L[i].size = 0
                             /\ L[i].kind = "Packed" => L[i].size > 1
                             /\ L[i].kind = "OddEven" => L[i].size > 1 /\ L[i].size % 2 = 0
    BY <1>1, <2>1 DEF IsLayout
  <2>4. \A i \in 1..Len(L) : PhysOK(L[i])
    BY <2>1, <2>3 DEF PhysOK, PhysDims, Fixed
  <2>5. \A d \in Nat : Has(L, d) <=> d \in 1..rank
    BY <2>1, <2>2 DEF Has
  <2>6. L \in Seq(PhysDims)
    BY <2>1 DEF Divides
  <2> QED
    BY <2>1, <2>4, <2>5, <2>6 DEF PartLayout
<1>2. ASSUME PartLayout(L), \A d \in Nat : Has(L, d) <=> d \in 1..rank
      PROVE  IsLayout(L, rank)
  <2>1. /\ L \in Seq(PhysDims) /\ Len(L) \in Nat /\ DOMAIN L = 1..Len(L)
        /\ \A i \in 1..Len(L) : PhysOK(L[i])
        /\ \A i \in 1..Len(L) : ~Fixed(L[i]) => \A j \in 1..i - 1 : L[j].dim # L[i].dim
    BY <1>2 DEF PartLayout
  <2>2. \A i \in 1..Len(L) : L[i].dim \in Nat
    BY <2>1 DEF PhysOK, PhysDims
  <2>3. {L[i].dim : i \in DOMAIN L} = 1..rank
    <3>1. ASSUME NEW i \in DOMAIN L
          PROVE  L[i].dim \in 1..rank
      <4>1. i \in 1..Len(L) /\ L[i].dim \in Nat
        BY <2>1, <2>2
      <4>2. Has(L, L[i].dim)
        BY <4>1 DEF Has
      <4> QED
        BY <1>2, <4>1, <4>2
    <3>2. ASSUME NEW d \in 1..rank
          PROVE  \E i \in DOMAIN L : d = L[i].dim
      <4>1. Has(L, d)
        BY <1>2
      <4> QED
        BY <2>1, <4>1 DEF Has
    <3> QED
      BY <3>1, <3>2
  <2>4. ASSUME NEW i \in DOMAIN L
        PROVE  CASE L[i].kind = "Dynamic" -> L[i].size = 0 /\ \A j \in 1..i - 1 : L[j].dim # L[i].dim
                 [] L[i].kind = "Packed" -> L[i].size > 1
                 [] L[i].kind = "OddEven" -> L[i].size > 1 /\ L[i].size % 2 = 0
    <3>1. PhysOK(L[i]) /\ (~Fixed(L[i]) => \A j \in 1..i - 1 : L[j].dim # L[i].dim)
      BY <2>1
    <3>2. L[i].kind \in {"Dynamic", "Packed", "OddEven"}
      BY <3>1 DEF PhysOK, PhysDims
    <3> QED
      BY <3>1, <3>2 DEF PhysOK, Fixed
  <2> QED
    BY <2>1, <2>3, <2>4 DEF IsLayout
<1> QED
  BY <1>1, <1>2

\* One physical dimension more, innermost.
LEMMA AppendParts ==
    ASSUME NEW L, PartLayout(L), NEW p, PhysOK(p), ~Fixed(p) => ~Has(L, p.dim)
    PROVE  /\ PartLayout(Append(L, p)) /\ Len(Append(L, p)) = Len(L) + 1
           /\ \A i \in 1..Len(L) : Append(L, p)[i] = L[i]
           /\ Append(L, p)[Len(L) + 1] = p
<1> DEFINE M == Append(L, p)
           n == Len(L)
<1>0. /\ L \in Seq(PhysDims) /\ n \in Nat /\ DOMAIN L = 1..n
      /\ \A i \in 1..n : PhysOK(L[i])
      /\ \A i \in 1..n : ~Fixed(L[i]) => \A j \in 1..i - 1 : L[j].dim # L[i].dim
  BY DEF PartLayout
<1>1. p \in PhysDims
  BY DEF PhysOK
<1>2. M \in Seq(PhysDims) /\ Len(M) = n + 1 /\ M[n + 1] = p /\ \A i \in 1..n : M[i] = L[i]
  BY <1>0, <1>1, AppendProperties
<1>3. DOMAIN M = 1..n + 1
  BY <1>2, LenProperties
<1> HIDE DEF M, n
<1>4. \A i \in 1..n + 1 : i \in 1..n \/ i = n + 1
  BY <1>0
<1>5. \A i \in 1..n + 1 : PhysOK(M[i])
  BY <1>0, <1>2, <1>4
<1>6. ASSUME NEW i \in 1..n + 1, ~Fixed(M[i]), NEW j \in 1..i - 1
      PROVE  M[j].dim # M[i].dim
  <2>1. j \in 1..n /\ M[j] = L[j]
    BY <1>0, <1>2
  <2>2. CASE i = n + 1
    BY <1>2, <1>6, <2>1, <2>2 DEF Has, n
  <2>3. CASE i \in 1..n
    BY <1>0, <1>2, <1>6, <2>1, <2>3
  <2> QED
    BY <1>4, <2>2, <2>3
<1>7. Divides(M)
  BY <1>2, <1>3, <1>5 DEF Divides, PhysOK
<1>8. n + 1 \in Nat
  BY <1>0
<1>9. PartLayout(M)
  BY <1>2, <1>3, <1>5, <1>6, <1>7, <1>8 DEF PartLayout
<1> QED
  BY <1>2, <1>9 DEF M, n

\* It takes its size of its dimension, and nothing of the others.
LEMMA AppendTakes ==
    ASSUME NEW L, PartLayout(L), NEW p, PhysOK(p), ~Fixed(p) => ~Has(L, p.dim), NEW d \in Nat
    PROVE  /\ Taken(Append(L, p), d, 0) = IF p.dim = d /\ Fixed(p) THEN Taken(L, d, 0) * p.size ELSE Taken(L, d, 0)
           /\ Has(Append(L, p), d) <=> Has(L, d) \/ p.dim = d
           /\ HasDynamic(Append(L, p), d) <=> HasDynamic(L, d) \/ (p.dim = d /\ ~Fixed(p))
<1> DEFINE M == Append(L, p)
           n == Len(L)
           S == Inside(M, d, 0)
           T == Inside(L, d, 0)
           f == [j \in S |-> M[j].size]
<1>0. n \in Nat /\ DOMAIN L = 1..n /\ Divides(L)
  BY DEF PartLayout
<1>1. /\ PartLayout(M) /\ Len(M) = n + 1 /\ M[n + 1] = p /\ \A i \in 1..n : M[i] = L[i]
  BY AppendParts
<1>2. Divides(M)
  BY <1>1 DEF PartLayout
<1> HIDE DEF M, n
<1>3. \A i \in 1..n + 1 : i \in 1..n \/ i = n + 1
  BY <1>0
<1>4. 1..n \subseteq 1..n + 1 /\ n + 1 \in 1..n + 1 /\ 0 + 1 = 1 /\ n + 1 \notin 1..n
  BY <1>0
<1>5. Has(M, d) <=> Has(L, d) \/ p.dim = d
  <2>1. Has(M, d) => Has(L, d) \/ p.dim = d
    BY <1>1, <1>3 DEF Has, n
  <2>2. Has(L, d) => Has(M, d)
    BY <1>1, <1>4 DEF Has, n
  <2>3. p.dim = d => Has(M, d)
    BY <1>1, <1>4 DEF Has, n
  <2> QED
    BY <2>1, <2>2, <2>3
<1>6. HasDynamic(M, d) <=> HasDynamic(L, d) \/ (p.dim = d /\ ~Fixed(p))
  <2>1. HasDynamic(M, d) => HasDynamic(L, d) \/ (p.dim = d /\ ~Fixed(p))
    BY <1>1, <1>3 DEF HasDynamic, n
  <2>2. HasDynamic(L, d) => HasDynamic(M, d)
    BY <1>1, <1>4 DEF HasDynamic, n
  <2>3. p.dim = d /\ ~Fixed(p) => HasDynamic(M, d)
    BY <1>1, <1>4 DEF HasDynamic, n
  <2> QED
    BY <2>1, <2>2, <2>3
<1>7. T = {j \in 1..n : L[j].dim = d /\ Fixed(L[j])} /\ S = {j \in 1..n + 1 : M[j].dim = d /\ Fixed(M[j])}
  BY <1>1, <1>4 DEF Inside, n
<1>8. Taken(L, d, 0) = Product([j \in T |-> M[j].size])
  <2>1. \A j \in T : M[j].size = L[j].size
    BY <1>1, <1>7
  <2>2. [j \in T |-> M[j].size] = [j \in T |-> L[j].size]
    BY <2>1
  <2> QED
    BY <2>2 DEF Taken
<1>9. CASE ~(p.dim = d /\ Fixed(p))
  <2>1. \A j : j \in S <=> j \in T
    BY <1>1, <1>3, <1>4, <1>7, <1>9
  <2>2. S = T
    BY <2>1, Zenon
  <2>3. Taken(M, d, 0) = Taken(L, d, 0)
    BY <1>8, <2>2 DEF Taken
  <2> QED
    BY <1>5, <1>6, <1>9, <2>3 DEF M
<1>10. CASE p.dim = d /\ Fixed(p)
  <2>1. n + 1 \in S /\ S \ {n + 1} = T
    <3>1. \A j : j \in S \ {n + 1} <=> j \in T
      BY <1>1, <1>3, <1>4, <1>7, <1>10
    <3>2. n + 1 \in S
      BY <1>1, <1>4, <1>7, <1>10
    <3> QED
      BY <3>1, <3>2, Zenon
  <2>2. IsFiniteSet(S)
    <3>1. IsFiniteSet(1..n + 1)
      BY <1>0, FS_Interval
    <3>2. S \in SUBSET (1..n + 1)
      BY <1>7
    <3> QED
      BY <3>1, <3>2, FS_Subset
  <2>3. f \in [S -> Nat \ {0}]
    <3>1. ASSUME NEW j \in S
          PROVE  M[j].size \in Nat \ {0}
      <4>1. j \in 1..Len(M) /\ Fixed(M[j])
        BY <1>1, <1>7
      <4> QED
        BY <1>2, <4>1, FixedSize
    <3> QED
      BY <3>1
  <2>4. Restrict(f, T) = [j \in T |-> M[j].size] /\ f[n + 1] = p.size
    BY <1>1, <2>1 DEF Restrict
  <2>5. Taken(M, d, 0) = Product(f) /\ Taken(L, d, 0) = Product(Restrict(f, T))
    BY <1>8, <2>4 DEF Taken
  <2> HIDE DEF S, T, f
  <2>6. Product(f) = f[n + 1] * Product(Restrict(f, S \ {n + 1}))
    BY <2>1, <2>2, <2>3, ProductTakes
  <2>7. Taken(M, d, 0) = p.size * Taken(L, d, 0)
    BY <2>1, <2>4, <2>5, <2>6
  <2>8. Taken(L, d, 0) \in Nat /\ p.size \in Nat
    <3>1. Taken(L, d, 0) \in Nat
      BY <1>0, TakenNat DEF n
    <3> QED
      BY <3>1 DEF PhysOK, PhysDims
  <2>9. Taken(M, d, 0) = Taken(L, d, 0) * p.size
    <3>1. \A a, b \in Nat : a * b = b * a
      OBVIOUS
    <3> QED
      BY <2>7, <2>8, <3>1
  <2> QED
    BY <1>5, <1>6, <1>10, <2>9 DEF M
<1> QED
  BY <1>9, <1>10

\* The last physical dimension apart.
LEMMA LastApart ==
    ASSUME NEW m, PartLayout(m), m # <<>>
    PROVE  /\ Len(m) \in 1..Len(m)
           /\ \E F : PartLayout(F) /\ m = Append(F, m[Len(m)]) /\ Len(F) = Len(m) - 1
                     /\ (~Fixed(m[Len(m)]) => ~Has(F, m[Len(m)].dim))
                     /\ \A i \in 1..Len(F) : F[i] = m[i]
<1> DEFINE n == Len(m)
           F == [i \in 1..n - 1 |-> m[i]]
<1>0. /\ m \in Seq(PhysDims) /\ n \in Nat /\ DOMAIN m = 1..n /\ n # 0
      /\ \A i \in 1..n : PhysOK(m[i])
      /\ \A i \in 1..n : ~Fixed(m[i]) => \A j \in 1..i - 1 : m[j].dim # m[i].dim
  <2>1. n # 0
    BY EmptySeq DEF PartLayout
  <2> QED
    BY <2>1 DEF PartLayout
<1> HIDE DEF n
<1>1. n \in 1..n /\ n - 1 \in Nat /\ \A i \in 1..n - 1 : i \in 1..n /\ i < n
  BY <1>0
<1>2. \A i \in 1..n - 1 : F[i] = m[i] /\ PhysOK(F[i]) /\ F[i] \in PhysDims
  BY <1>0, <1>1 DEF PhysOK
<1>3. F \in Seq(PhysDims) /\ Len(F) = n - 1 /\ DOMAIN F = 1..n - 1
  <2>1. F \in [1..n - 1 -> PhysDims]
    BY <1>2
  <2>2. F \in Seq(PhysDims)
    BY <1>1, <2>1, SeqDef
  <2>3. DOMAIN F = 1..n - 1
    OBVIOUS
  <2> QED
    BY <1>1, <2>2, <2>3, LenProperties
<1> HIDE DEF F
<1>4. Divides(F)
  BY <1>2, <1>3 DEF Divides, PhysOK
<1>5. \A i \in 1..n - 1 : ~Fixed(F[i]) => \A j \in 1..i - 1 : F[j].dim # F[i].dim
  <2>1. TAKE i \in 1..n - 1
  <2>2. \A j \in 1..i - 1 : j \in 1..n - 1
    BY <1>1
  <2> QED
    BY <1>0, <1>1, <1>2, <2>2
<1>6. PartLayout(F)
  BY <1>1, <1>2, <1>3, <1>4, <1>5 DEF PartLayout
<1>7. ~Fixed(m[n]) => ~Has(F, m[n].dim)
  BY <1>0, <1>1, <1>2, <1>3 DEF Has
<1>8. m = Append(F, m[n])
  <2>1. PICK p : p = m[n]
    OBVIOUS
  <2>2. p \in PhysDims /\ PhysOK(p)
    BY <1>0, <1>1, <2>1 DEF PhysOK
  <2>3. Append(F, p) \in Seq(PhysDims) /\ Len(Append(F, p)) = (n - 1) + 1
        /\ Append(F, p)[(n - 1) + 1] = p /\ \A i \in 1..n - 1 : Append(F, p)[i] = F[i]
    BY <1>3, <2>2, AppendProperties
  <2>4. (n - 1) + 1 = n
    BY <1>0
  <2>5. DOMAIN Append(F, p) = 1..n
    BY <2>3, <2>4, LenProperties
  <2>6. \A i \in 1..n : i \in 1..n - 1 \/ i = n
    BY <1>0
  <2>7. \A i \in 1..n : Append(F, p)[i] = m[i]
    BY <1>2, <2>1, <2>3, <2>4, <2>6
  <2>8. m = [i \in 1..n |-> m[i]] /\ Append(F, p) = [i \in 1..n |-> Append(F, p)[i]]
    <3>1. PICK G \in Seq(PhysDims) : G = Append(F, p)
      BY <2>3
    <3>2. G \in [1..n -> PhysDims] /\ m \in [1..n -> PhysDims]
      BY <1>0, <2>3, <2>4, <3>1, LenProperties DEF n
    <3>3. G = [i \in 1..n |-> G[i]] /\ m = [i \in 1..n |-> m[i]]
      BY <3>2
    <3> QED
      BY <3>1, <3>3
  <2> QED
    BY <2>1, <2>7, <2>8
<1> QED
  BY <1>1, <1>2, <1>3, <1>6, <1>7, <1>8 DEF n

\* Joined: as much of each dimension as if the packing were there by itself.
LEMMA JoinedAlike ==
    ASSUME NEW m, PartLayout(m), NEW L, PartLayout(L), SameParts(m, L),
           NEW p, PhysOK(p), ~Fixed(p) => ~Has(L, p.dim)
    PROVE  PartLayout(Joined(m, p)) /\ SameParts(Joined(m, p), Append(L, p))
<1>0. p.dim \in Nat /\ (~Fixed(p) => ~Has(m, p.dim))
  BY DEF PhysOK, PhysDims, SameParts
<1> DEFINE n == Len(m)
           q == m[n]
           joins == /\ m # <<>> /\ p.kind = "Packed" /\ q.kind = "Packed" /\ q.dim = p.dim
<1>1. CASE ~joins
  <2>1. Joined(m, p) = Append(m, p)
    BY <1>1 DEF Joined
  <2>2. PartLayout(Append(m, p))
    BY <1>0, AppendParts
  <2>3. ASSUME NEW d \in Nat
        PROVE  /\ Has(Append(m, p), d) <=> Has(Append(L, p), d)
               /\ HasDynamic(Append(m, p), d) <=> HasDynamic(Append(L, p), d)
               /\ Taken(Append(m, p), d, 0) = Taken(Append(L, p), d, 0)
    <3>1. /\ Has(m, d) <=> Has(L, d)
          /\ HasDynamic(m, d) <=> HasDynamic(L, d)
          /\ Taken(m, d, 0) = Taken(L, d, 0)
      BY DEF SameParts
    <3>2. /\ Taken(Append(m, p), d, 0) = IF p.dim = d /\ Fixed(p) THEN Taken(m, d, 0) * p.size ELSE Taken(m, d, 0)
          /\ Has(Append(m, p), d) <=> Has(m, d) \/ p.dim = d
          /\ HasDynamic(Append(m, p), d) <=> HasDynamic(m, d) \/ (p.dim = d /\ ~Fixed(p))
      BY <1>0, AppendTakes
    <3>3. /\ Taken(Append(L, p), d, 0) = IF p.dim = d /\ Fixed(p) THEN Taken(L, d, 0) * p.size ELSE Taken(L, d, 0)
          /\ Has(Append(L, p), d) <=> Has(L, d) \/ p.dim = d
          /\ HasDynamic(Append(L, p), d) <=> HasDynamic(L, d) \/ (p.dim = d /\ ~Fixed(p))
      BY AppendTakes
    <3> QED
      BY <3>1, <3>2, <3>3
  <2>4. SameParts(Append(m, p), Append(L, p))
    BY <2>3 DEF SameParts
  <2> QED
    BY <2>1, <2>2, <2>4
<1>2. CASE joins
  <2>1. PICK F : /\ PartLayout(F) /\ m = Append(F, q) /\ Len(F) = n - 1
                 /\ (~Fixed(q) => ~Has(F, q.dim)) /\ \A i \in 1..Len(F) : F[i] = m[i]
    BY <1>2, LastApart
  <2>2. n \in 1..n /\ PhysOK(q)
    <3>1. n \in 1..n
      BY <1>2, LastApart
    <3> QED
      BY <3>1 DEF PartLayout
  <2>3. Fixed(p) /\ Fixed(q) /\ q.dim = p.dim /\ p.kind = "Packed" /\ q.kind = "Packed"
    BY <1>2 DEF Fixed
  <2>4. PICK s \in Nat, t \in Nat : s = q.size /\ t = p.size /\ s > 1 /\ t > 1
    BY <2>2, <2>3 DEF PhysOK, PhysDims
  <2>5. s * t > 1 /\ s * t \in Nat
    <3>1. s * t \in Nat /\ 1 * t + t <= s * t
      BY <2>4, Multiples
    <3>2. PICK z \in Nat : z = s * t
      BY <3>1
    <3> QED
      BY <2>4, <3>1, <3>2
  <2>6. PICK r : r = Packed(p.dim, s * t)
    OBVIOUS
  <2>7. r.dim = p.dim /\ r.kind = "Packed" /\ r.size = s * t /\ Fixed(r)
    BY <2>6, PackedIs
  <2>8. PhysOK(r)
    <3>1. p.dim \in Nat \ {0}
      BY DEF PhysOK, PhysDims
    <3>2. r \in PhysDims
      BY <2>5, <2>6, <3>1 DEF Packed, PhysDims
    <3> QED
      BY <2>5, <2>7, <3>2 DEF PhysOK
  <2>9. Joined(m, p) = [m EXCEPT ![n] = r]
    BY <1>2, <2>4, <2>6 DEF Joined
  <2>10. Joined(m, p) = Append(F, r)
    <3>1. n \in Nat /\ DOMAIN m = 1..n /\ n # 0
      BY <2>2 DEF PartLayout
    <3>2. /\ Len(Append(F, r)) = (n - 1) + 1 /\ Append(F, r)[(n - 1) + 1] = r
          /\ \A i \in 1..n - 1 : Append(F, r)[i] = F[i]
          /\ PartLayout(Append(F, r))
      BY <2>1, <2>7, <2>8, AppendParts
    <3> HIDE DEF n, q
    <3>3. (n - 1) + 1 = n
      BY <3>1
    <3>4. DOMAIN Append(F, r) = 1..n
      BY <3>2, <3>3 DEF PartLayout
    <3>5. \A i \in 1..n : i \in 1..n - 1 \/ i = n
      BY <3>1
    <3>6. \A i \in 1..n : Append(F, r)[i] = [m EXCEPT ![n] = r][i]
      BY <2>1, <3>1, <3>2, <3>3, <3>5
    <3>7. [m EXCEPT ![n] = r] = [i \in 1..n |-> [m EXCEPT ![n] = r][i]]
      BY <3>1
    <3>8. Append(F, r) = [i \in 1..n |-> Append(F, r)[i]]
      <4>1. PICK G \in Seq(PhysDims) : G = Append(F, r)
        BY <3>2 DEF PartLayout
      <4>2. G \in [1..n -> PhysDims]
        BY <3>2, <3>3, <4>1, LenProperties
      <4>3. G = [i \in 1..n |-> G[i]]
        BY <4>2
      <4> QED
        BY <4>1, <4>3
    <3> QED
      BY <2>9, <3>6, <3>7, <3>8
  <2>11. PartLayout(Append(F, r))
    BY <2>1, <2>7, <2>8, AppendParts
  <2>12. ASSUME NEW d \in Nat
         PROVE  /\ Has(Append(F, r), d) <=> Has(Append(L, p), d)
                /\ HasDynamic(Append(F, r), d) <=> HasDynamic(Append(L, p), d)
                /\ Taken(Append(F, r), d, 0) = Taken(Append(L, p), d, 0)
    <3>1. /\ Has(m, d) <=> Has(L, d)
          /\ HasDynamic(m, d) <=> HasDynamic(L, d)
          /\ Taken(m, d, 0) = Taken(L, d, 0)
      BY DEF SameParts
    <3>2. /\ Taken(Append(F, r), d, 0) = IF r.dim = d /\ Fixed(r) THEN Taken(F, d, 0) * r.size ELSE Taken(F, d, 0)
          /\ Has(Append(F, r), d) <=> Has(F, d) \/ r.dim = d
          /\ HasDynamic(Append(F, r), d) <=> HasDynamic(F, d) \/ (r.dim = d /\ ~Fixed(r))
      BY <2>1, <2>7, <2>8, AppendTakes
    <3>3. /\ Taken(Append(L, p), d, 0) = IF p.dim = d /\ Fixed(p) THEN Taken(L, d, 0) * p.size ELSE Taken(L, d, 0)
          /\ Has(Append(L, p), d) <=> Has(L, d) \/ p.dim = d
          /\ HasDynamic(Append(L, p), d) <=> HasDynamic(L, d) \/ (p.dim = d /\ ~Fixed(p))
      BY AppendTakes
    <3>4. PICK qq : qq = q
      OBVIOUS
    <3>5. /\ Taken(Append(F, qq), d, 0) = IF qq.dim = d /\ Fixed(qq) THEN Taken(F, d, 0) * qq.size ELSE Taken(F, d, 0)
          /\ Has(Append(F, qq), d) <=> Has(F, d) \/ qq.dim = d
          /\ HasDynamic(Append(F, qq), d) <=> HasDynamic(F, d) \/ (qq.dim = d /\ ~Fixed(qq))
      BY <2>1, <2>2, <3>4, AppendTakes
    <3>6. m = Append(F, qq) /\ qq.dim = p.dim /\ qq.size = s /\ Fixed(qq)
      BY <2>1, <2>3, <2>4, <3>4
    <3> HIDE DEF q, n
    <3>7. PICK a \in Nat : a = Taken(F, d, 0)
      <4>1. Divides(F) /\ Len(F) \in Nat /\ 0 \in 0..Len(F)
        BY <2>1 DEF PartLayout
      <4> QED
        BY <4>1, TakenNat
    <3>8. (a * s) * t = a * (s * t)
      OBVIOUS
    <3>9. Taken(Append(F, r), d, 0) = Taken(Append(L, p), d, 0)
      <4>1. CASE p.dim = d
        <5>1. Taken(Append(F, r), d, 0) = a * (s * t)
          BY <2>7, <3>2, <3>7, <4>1
        <5>2. Taken(m, d, 0) = a * s
          BY <3>5, <3>6, <3>7, <4>1
        <5>3. Taken(Append(L, p), d, 0) = (a * s) * t
          BY <2>3, <2>4, <3>1, <3>3, <4>1, <5>2
        <5> QED
          BY <3>8, <5>1, <5>3
      <4>2. CASE p.dim # d
        BY <2>7, <3>1, <3>2, <3>3, <3>5, <3>6, <4>2
      <4> QED
        BY <4>1, <4>2
    <3>10. Has(Append(F, r), d) <=> Has(Append(L, p), d)
      BY <2>7, <3>1, <3>2, <3>3, <3>5, <3>6
    <3>11. HasDynamic(Append(F, r), d) <=> HasDynamic(Append(L, p), d)
      BY <2>3, <2>7, <3>1, <3>2, <3>3, <3>5, <3>6
    <3> QED
      BY <3>9, <3>10, <3>11
  <2>13. SameParts(Append(F, r), Append(L, p))
    BY <2>12 DEF SameParts
  <2> QED
    BY <2>10, <2>11, <2>13
<1> QED
  BY <1>1, <1>2

JoinsTo(f, dims, k) == f = [n \in 0..k |-> IF n = 0 THEN <<>> ELSE Joined(f[n - 1], dims[n])]

\* Joining one by one makes something of every prefix.
LEMMA JoinsExist ==
    ASSUME NEW dims, NEW n \in Nat
    PROVE  \E f : JoinsTo(f, dims, n)
<1> DEFINE Bad == {k \in Nat : \A f : ~JoinsTo(f, dims, k)}
<1>1. SUFFICES ASSUME Bad # {}
               PROVE  FALSE
  OBVIOUS
<1>2. PICK k \in Bad : \A i \in Bad : k <= i
  BY <1>1, LeastNat
<1>a. k \in Nat /\ \A f : ~JoinsTo(f, dims, k)
  BY <1>2
<1>3. CASE k = 0
  <2> DEFINE f == [i \in 0..k |-> <<>>]
  <2>1. \A i \in 0..k : i = 0
    BY <1>3
  <2>2. f = [i \in 0..k |-> IF i = 0 THEN <<>> ELSE Joined(f[i - 1], dims[i])]
    BY <2>1
  <2>3. JoinsTo(f, dims, k)
    BY <2>2 DEF JoinsTo
  <2> QED
    BY <1>a, <2>3
<1>4. CASE k # 0
  <2>1. k - 1 \in Nat /\ ~(k <= k - 1)
    BY <1>a, <1>4
  <2>2. k - 1 \notin Bad
    BY <1>2, <2>1
  <2>3. PICK f : JoinsTo(f, dims, k - 1)
    BY <2>1, <2>2
  <2> DEFINE g == [i \in 0..k |-> IF i = k THEN Joined(f[k - 1], dims[k]) ELSE f[i]]
  <2>4. \A i \in 0..k - 1 : f[i] = IF i = 0 THEN <<>> ELSE Joined(f[i - 1], dims[i])
    BY <2>3 DEF JoinsTo
  <2>5. \A i \in 0..k - 1 : g[i] = f[i] /\ i \in 0..k
    BY <1>a
  <2>6. g[k] = Joined(f[k - 1], dims[k]) /\ k - 1 \in 0..k - 1 /\ k \in 0..k
    BY <1>a, <2>1
  <2> HIDE DEF g
  <2>7. ASSUME NEW i \in 0..k
        PROVE  g[i] = IF i = 0 THEN <<>> ELSE Joined(g[i - 1], dims[i])
    <3>1. CASE i = k
      <4>1. g[k - 1] = f[k - 1]
        BY <2>5, <2>6
      <4> QED
        BY <1>4, <2>6, <3>1, <4>1
    <3>2. CASE i # k
      <4>1. i \in 0..k - 1 /\ (i # 0 => i - 1 \in 0..k - 1)
        BY <1>a, <3>2
      <4>2. g[i] = f[i] /\ (i # 0 => g[i - 1] = f[i - 1])
        BY <2>5, <4>1
      <4> QED
        BY <2>4, <4>1, <4>2
    <3> QED
      BY <3>1, <3>2
  <2>8. g = [i \in 0..k |-> IF i = 0 THEN <<>> ELSE Joined(g[i - 1], dims[i])]
    <3>1. g = [i \in 0..k |-> g[i]]
      BY DEF g
    <3> QED
      BY <2>7, <3>1
  <2>9. JoinsTo(g, dims, k)
    BY <2>8 DEF JoinsTo
  <2> QED
    BY <1>a, <2>9
<1> QED
  BY <1>3, <1>4

\* Layout::new joins one by one.
LEMMA NewLayoutJoins ==
    ASSUME NEW dims, Len(dims) \in Nat
    PROVE  \E f : JoinsTo(f, dims, Len(dims)) /\ NewLayout(dims) = f[Len(dims)]
<1> DEFINE joined[n \in 0..Len(dims)] == IF n = 0 THEN <<>> ELSE Joined(joined[n - 1], dims[n])
<1>1. joined = CHOOSE f : f = [n \in 0..Len(dims) |-> IF n = 0 THEN <<>> ELSE Joined(f[n - 1], dims[n])]
  BY DEF joined
<1>2. joined = CHOOSE f : JoinsTo(f, dims, Len(dims))
  BY <1>1, Zenon DEF JoinsTo
<1>3. JoinsTo(joined, dims, Len(dims))
  BY <1>2, JoinsExist
<1>4. NewLayout(dims) = joined[Len(dims)]
  BY DEF NewLayout
<1> QED
  BY <1>3, <1>4

\* So its result takes what the parts it is given take.
LEMMA NewLayoutAlike ==
    ASSUME NEW dims, PartLayout(dims)
    PROVE  PartLayout(NewLayout(dims)) /\ SameParts(NewLayout(dims), dims)
<1> DEFINE n == Len(dims)
           Prefix(k) == [i \in 1..k |-> dims[i]]
<1>0. /\ dims \in Seq(PhysDims) /\ n \in Nat /\ DOMAIN dims = 1..n
      /\ \A i \in 1..n : PhysOK(dims[i]) /\ dims[i] \in PhysDims
      /\ \A i \in 1..n : ~Fixed(dims[i]) => \A j \in 1..i - 1 : dims[j].dim # dims[i].dim
  BY DEF PartLayout, PhysOK
<1>1. PICK f : JoinsTo(f, dims, n) /\ NewLayout(dims) = f[n]
  BY <1>0, NewLayoutJoins
<1>2. \A k \in 0..n : f[k] = IF k = 0 THEN <<>> ELSE Joined(f[k - 1], dims[k])
  BY <1>1 DEF JoinsTo
<1> HIDE DEF n
<1>3. ASSUME NEW k \in 0..n
      PROVE  /\ PartLayout(Prefix(k)) /\ Len(Prefix(k)) = k
             /\ k # 0 => Prefix(k) = Append(Prefix(k - 1), dims[k]) /\ k \in 1..n
                         /\ (~Fixed(dims[k]) => ~Has(Prefix(k - 1), dims[k].dim))
  <2> DEFINE P == Prefix(k)
  <2>1. k \in Nat /\ \A i \in 1..k : i \in 1..n
    BY <1>0
  <2>2. \A i \in 1..k : P[i] = dims[i] /\ P[i] \in PhysDims /\ PhysOK(P[i])
    BY <1>0, <2>1
  <2>3. P \in [1..k -> PhysDims] /\ DOMAIN P = 1..k
    BY <2>2
  <2>4. P \in Seq(PhysDims) /\ Len(P) = k
    <3>1. P \in Seq(PhysDims)
      BY <2>1, <2>3, SeqDef
    <3> QED
      BY <2>1, <2>3, <3>1, LenProperties
  <2> HIDE DEF P
  <2>5. Divides(P)
    BY <2>2, <2>3, <2>4 DEF Divides, PhysOK
  <2>6. \A i \in 1..k : ~Fixed(P[i]) => \A j \in 1..i - 1 : P[j].dim # P[i].dim
    <3>1. TAKE i \in 1..k
    <3>2. \A j \in 1..i - 1 : j \in 1..k
      BY <2>1
    <3> QED
      BY <1>0, <2>1, <2>2, <3>2
  <2>7. PartLayout(P)
    BY <2>1, <2>2, <2>3, <2>4, <2>5, <2>6 DEF PartLayout
  <2>8. ASSUME k # 0
        PROVE  P = Append(Prefix(k - 1), dims[k]) /\ k \in 1..n /\ (~Fixed(dims[k]) => ~Has(Prefix(k - 1), dims[k].dim))
    <3>1. P # <<>> /\ k \in 1..n /\ k \in 1..k
      BY <1>0, <2>1, <2>4, <2>8
    <3>2. PICK F : /\ PartLayout(F) /\ P = Append(F, P[k]) /\ Len(F) = k - 1
                   /\ (~Fixed(P[k]) => ~Has(F, P[k].dim))
                   /\ \A i \in 1..Len(F) : F[i] = P[i]
      BY <2>4, <2>7, <3>1, LastApart
    <3>3. \A i \in 1..k - 1 : F[i] = dims[i]
      BY <2>1, <2>2, <3>2
    <3>4. F = Prefix(k - 1)
      <4>1. F \in [1..k - 1 -> PhysDims]
        BY <3>2, LenProperties DEF PartLayout
      <4>2. F = [i \in 1..k - 1 |-> F[i]]
        BY <4>1
      <4> QED
        BY <3>3, <4>2
    <3>5. P[k] = dims[k]
      BY <2>2, <3>1
    <3> QED
      BY <3>1, <3>2, <3>4, <3>5
  <2> QED
    BY <2>4, <2>7, <2>8 DEF P
<1> HIDE DEF Prefix
<1> DEFINE C(k) == PartLayout(f[k]) /\ SameParts(f[k], Prefix(k))
           Bad == {k \in Nat : k \in 0..n /\ ~C(k)}
<1>4. C(0)
  <2>1. 0 \in 0..n
    BY <1>0
  <2>2. f[0] = <<>>
    BY <1>2, <2>1
  <2>3. PartLayout(Prefix(0)) /\ Len(Prefix(0)) = 0
    BY <1>3, <2>1
  <2>4. Prefix(0) = <<>>
    BY <2>3, EmptySeq DEF PartLayout
  <2>5. SameParts(Prefix(0), Prefix(0))
    BY DEF SameParts
  <2> QED
    BY <2>2, <2>3, <2>4, <2>5
<1>5. Bad = {}
  <2>1. SUFFICES ASSUME Bad # {}
                 PROVE  FALSE
    OBVIOUS
  <2>2. PICK k \in Bad : \A i \in Bad : k <= i
    BY <2>1, LeastNat
  <2>3. k \in Nat /\ k \in 0..n /\ ~C(k)
    BY <2>2
  <2>4. k # 0
    BY <1>4, <2>3
  <2>5. k - 1 \in Nat /\ k - 1 \in 0..n /\ ~(k <= k - 1) /\ k \in 1..n
    BY <1>0, <2>3, <2>4
  <2>6. k - 1 \notin Bad
    BY <2>2, <2>5
  <2>7. C(k - 1)
    BY <2>5, <2>6
  <2>8. f[k] = Joined(f[k - 1], dims[k])
    BY <1>2, <2>3, <2>4
  <2>9. PICK P : P = Prefix(k - 1)
    OBVIOUS
  <2>10. PICK m : m = f[k - 1]
    OBVIOUS
  <2>11. PICK p : p = dims[k]
    OBVIOUS
  <2>12. /\ PartLayout(P) /\ Prefix(k) = Append(P, p) /\ (~Fixed(p) => ~Has(P, p.dim)) /\ PhysOK(p)
    BY <1>0, <1>3, <2>3, <2>4, <2>5, <2>9, <2>11
  <2>13. PartLayout(m) /\ SameParts(m, P)
    BY <2>7, <2>9, <2>10
  <2>14. PartLayout(Joined(m, p)) /\ SameParts(Joined(m, p), Append(P, p))
    BY <2>12, <2>13, JoinedAlike
  <2>15. C(k)
    BY <2>8, <2>10, <2>11, <2>12, <2>14
  <2> QED
    BY <2>3, <2>15
<1>6. C(n)
  <2>1. n \in Nat /\ n \in 0..n
    BY <1>0
  <2> QED
    BY <1>5, <2>1
<1>7. Prefix(n) = dims
  <2>1. dims = [i \in 1..n |-> dims[i]]
    BY <1>0
  <2> QED
    BY <2>1 DEF Prefix
<1> QED
  BY <1>1, <1>6, <1>7

\* And it applies to what they apply to.
LEMMA NewLayoutApplies ==
    ASSUME NEW dims, NEW rank \in Nat, IsLayout(dims, rank), NEW shape, IsShape(shape, rank), AppliesTo(dims, shape)
    PROVE  IsLayout(NewLayout(dims), rank) /\ AppliesTo(NewLayout(dims), shape)
<1>1. PICK N : N = NewLayout(dims)
  OBVIOUS
<1>2. PartLayout(dims) /\ \A d \in Nat : Has(dims, d) <=> d \in 1..rank
  BY LayoutParts
<1>3. PartLayout(N) /\ SameParts(N, dims)
  BY <1>1, <1>2, NewLayoutAlike
<1>4. \A d \in Nat : Has(N, d) <=> d \in 1..rank
  BY <1>2, <1>3 DEF SameParts
<1>5. IsLayout(N, rank)
  BY <1>3, <1>4, LayoutParts
<1>6. ASSUME NEW d \in 1..rank
      PROVE  Spans(N, d, shape[d])
  <2>1. Spans(dims, d, shape[d])
    BY AppliesSpans
  <2>2. d \in Nat
    OBVIOUS
  <2>3. (HasDynamic(N, d) <=> HasDynamic(dims, d)) /\ Taken(N, d, 0) = Taken(dims, d, 0)
    BY <1>3, <2>2 DEF SameParts
  <2> QED
    BY <2>1, <2>3 DEF Spans
<1>7. AppliesTo(N, shape)
  BY <1>5, <1>6, SpansApplies
<1> QED
  BY <1>1, <1>5, <1>7

-----------------------------------------------------------------------------
(* Dropped and swapped dimensions.                                         *)

\* Without the outermost dimensions' numbers: what is left applies to what is left.
LEMMA DroppedApplies ==
    ASSUME NEW L, NEW rank \in Nat, IsLayout(L, rank), NEW shape, IsShape(shape, rank), AppliesTo(L, shape),
           NEW r \in 0..rank, NEW part, IsShape(part, r), \A d \in 1..r : part[d] = shape[d],
           NEW gone, gone = {i \in DOMAIN L : L[i].dim \in r + 1..rank}
    PROVE  IsLayout(Without(L, gone), r) /\ AppliesTo(Without(L, gone), part)
<1>0. /\ Divides(L) /\ Len(L) \in Nat /\ DOMAIN L = 1..Len(L)
      /\ \A i \in 1..Len(L) : L[i] \in PhysDims /\ L[i].dim \in 1..rank
      /\ \A d \in 1..rank : \E i \in 1..Len(L) : L[i].dim = d
  BY LayoutDivides
<1>1. PartLayout(L)
  BY LayoutParts
<1>2. L \in Seq(PhysDims)
  BY <1>1 DEF PartLayout
<1>3. PICK M : M = Without(L, gone)
  OBVIOUS
<1>4. M \in Seq(PhysDims) /\ \E pos : Keeps(M, L, gone, pos)
  BY <1>2, <1>3, WithoutIs
<1>5. PICK pos : Keeps(M, L, gone, pos)
  BY <1>4
<1>6. Len(M) \in Nat /\ DOMAIN M = 1..Len(M)
  BY <1>4, LenProperties
<1>7. /\ pos \in [1..Len(M) -> 1..Len(L)]
      /\ \A k \in 1..Len(M) : pos[k] \notin gone /\ M[k] = L[pos[k]]
      /\ \A i \in 1..Len(L) : i \notin gone => \E k \in 1..Len(M) : pos[k] = i
      /\ \A k, m \in 1..Len(M) : k < m <=> pos[k] < pos[m]
  BY <1>5 DEF Keeps
<1>8. r \in Nat /\ \A d \in 1..r : d \in 1..rank /\ d \notin r + 1..rank
  OBVIOUS
<1>9. \A k \in 1..Len(M) : M[k] \in PhysDims /\ PhysOK(M[k]) /\ M[k].dim \in 1..r
  <2>1. TAKE k \in 1..Len(M)
  <2>2. pos[k] \in 1..Len(L) /\ pos[k] \notin gone /\ M[k] = L[pos[k]]
    BY <1>7
  <2>3. PhysOK(L[pos[k]]) /\ L[pos[k]] \in PhysDims /\ L[pos[k]].dim \in 1..rank
    BY <1>0, <1>1, <2>2 DEF PartLayout
  <2>4. L[pos[k]].dim \notin r + 1..rank
    BY <1>0, <2>2
  <2>5. PICK d \in 1..rank : d = L[pos[k]].dim
    BY <2>3
  <2>6. d \in 1..r
    BY <2>4, <2>5
  <2> QED
    BY <2>2, <2>3, <2>5, <2>6
<1>10. \A i \in 1..Len(L) : L[i].dim \in 1..r => i \notin gone
  BY <1>8
<1>11. ASSUME NEW k \in 1..Len(M), ~Fixed(M[k]), NEW j \in 1..k - 1
       PROVE  M[j].dim # M[k].dim
  <2>1. j \in 1..Len(M) /\ j < k
    BY <1>6
  <2>2. pos[j] \in 1..Len(L) /\ pos[k] \in 1..Len(L) /\ pos[j] < pos[k] /\ M[k] = L[pos[k]] /\ M[j] = L[pos[j]]
    BY <1>7, <2>1
  <2>3. pos[j] \in 1..pos[k] - 1
    BY <1>0, <2>2
  <2> QED
    BY <1>1, <1>11, <2>2, <2>3 DEF PartLayout
<1>12. Divides(M)
  BY <1>4, <1>6, <1>9 DEF Divides, PhysOK
<1>13. PartLayout(M)
  BY <1>4, <1>6, <1>9, <1>11, <1>12 DEF PartLayout
<1>14. ASSUME NEW d \in 1..r
       PROVE  /\ \E k \in 1..Len(M) : M[k].dim = d
              /\ HasDynamic(L, d) => HasDynamic(M, d)
  <2>1. PICK i \in 1..Len(L) : L[i].dim = d
    BY <1>0, <1>8
  <2>2. PICK k \in 1..Len(M) : pos[k] = i
    BY <1>7, <1>10, <2>1
  <2>3. HasDynamic(L, d) => HasDynamic(M, d)
    <3>1. SUFFICES ASSUME NEW h \in 1..Len(L), L[h].dim = d, ~Fixed(L[h])
                   PROVE  HasDynamic(M, d)
      BY DEF HasDynamic
    <3>2. PICK g \in 1..Len(M) : pos[g] = h
      BY <1>7, <1>10, <3>1
    <3>3. M[g] = L[h]
      BY <1>7, <3>2
    <3> QED
      BY <3>1, <3>3 DEF HasDynamic
  <2> QED
    BY <1>7, <2>1, <2>2, <2>3
<1>15. IsLayout(M, r)
  <2>1. ASSUME NEW d \in Nat
        PROVE  Has(M, d) <=> d \in 1..r
    BY <1>9, <1>14 DEF Has
  <2> QED
    BY <1>8, <1>13, <2>1, LayoutParts
<1>16. ASSUME NEW d \in 1..r
       PROVE  Spans(M, d, part[d])
  <2>1. d \in 1..rank /\ part[d] = shape[d]
    BY <1>8
  <2>2. Spans(L, d, shape[d])
    BY <2>1, AppliesSpans
  <2>3. SamePackings(L, M, d, d, pos)
    <3>1. \A k \in 1..Len(M) : M[k].dim = d /\ Fixed(M[k])
             => L[pos[k]].dim = d /\ Fixed(L[pos[k]]) /\ L[pos[k]].size = M[k].size
      BY <1>7
    <3>2. ASSUME NEW i \in 1..Len(L), L[i].dim = d, Fixed(L[i])
          PROVE  \E k \in 1..Len(M) : pos[k] = i /\ M[k].dim = d /\ Fixed(M[k])
      <4>1. PICK k \in 1..Len(M) : pos[k] = i
        BY <1>7, <1>10, <3>2
      <4>2. M[k] = L[i]
        BY <1>7, <4>1
      <4> QED
        BY <3>2, <4>1, <4>2
    <3> QED
      BY <1>7, <3>1, <3>2 DEF SamePackings
  <2>4. Taken(M, d, 0) = Taken(L, d, 0)
    BY <1>0, <1>12, <2>3, TakenAlike
  <2>5. HasDynamic(L, d) => HasDynamic(M, d)
    BY <1>14
  <2> QED
    BY <2>1, <2>2, <2>4, <2>5 DEF Spans
<1>17. AppliesTo(M, part)
  BY <1>8, <1>15, <1>16, SpansApplies
<1> QED
  BY <1>3, <1>15, <1>17

\* dim_drop.
LEMMA DimDropApplies ==
    ASSUME NEW L, NEW rank \in Nat, IsLayout(L, rank), NEW shape, IsShape(shape, rank), AppliesTo(L, shape),
           NEW r \in 0..rank, NEW part, IsShape(part, r), \A d \in 1..r : part[d] = shape[d],
           NEW contig \in 0..Len(L)
    PROVE  LET u == DimDrop(L, r + 1..rank, contig)
           IN  IsLayout(u.layout, r) /\ AppliesTo(u.layout, part) /\ u.contig \in Nat
<1>1. PICK gone : gone = {i \in DOMAIN L : L[i].dim \in r + 1..rank}
  OBVIOUS
<1>2. PICK M : M = Without(L, gone)
  OBVIOUS
<1>3. IsLayout(M, r) /\ AppliesTo(M, part)
  BY <1>1, <1>2, DroppedApplies
<1>4. r \in Nat
  OBVIOUS
<1>5. IsLayout(NewLayout(M), r) /\ AppliesTo(NewLayout(M), part)
  BY <1>3, <1>4, NewLayoutApplies
<1>6. PICK T : T = {i \in Len(L) - contig + 1..Len(L) : L[i].dim \in r + 1..rank}
  OBVIOUS
<1>7. DimDrop(L, r + 1..rank, contig) = [layout |-> NewLayout(M), contig |-> contig - Cardinality(T)]
  BY <1>1, <1>2, <1>6 DEF DimDrop, Quantify
<1>8. Len(L) \in Nat
  BY LayoutDivides
<1>9. PICK n \in Nat : n = Len(L)
  BY <1>8
<1>10. IsFiniteSet(n - contig + 1..n) /\ Cardinality(n - contig + 1..n) = contig
  <2>1. n - contig + 1 \in Int /\ n \in Int /\ contig \in 0..n
    BY <1>9
  <2>2. /\ IsFiniteSet(n - contig + 1..n)
        /\ Cardinality(n - contig + 1..n) = IF n - contig + 1 > n THEN 0 ELSE n - (n - contig + 1) + 1
    BY <2>1, FS_Interval
  <2> QED
    BY <2>1, <2>2
<1>11. T \subseteq n - contig + 1..n
  BY <1>6, <1>9
<1>12. IsFiniteSet(T) /\ Cardinality(T) <= contig
  BY <1>10, <1>11, FS_Subset
<1>13. Cardinality(T) \in Nat
  BY <1>12, FS_CardinalityType
<1>14. contig - Cardinality(T) \in Nat
  BY <1>9, <1>12, <1>13
<1> QED
  BY <1>5, <1>7, <1>14

\* swap_dims.
LEMMA SwapDimsApplies ==
    ASSUME NEW L, IsLayout(L, 2), NEW shape, IsShape(shape, 2), AppliesTo(L, shape),
           NEW swapped, IsShape(swapped, 2), swapped[1] = shape[2], swapped[2] = shape[1]
    PROVE  IsLayout(SwapDims(L), 2) /\ AppliesTo(SwapDims(L), swapped)
<1> DEFINE M == [i \in DOMAIN L |-> [L[i] EXCEPT !.dim = CASE @ = 1 -> 2 [] @ = 2 -> 1 [] OTHER -> @]]
           n == Len(L)
<1>0. /\ Divides(L) /\ n \in Nat /\ DOMAIN L = 1..n
      /\ \A i \in 1..n : L[i] \in PhysDims /\ L[i].dim \in 1..2
      /\ \A d \in 1..2 : \E i \in 1..n : L[i].dim = d
  <2>1. PICK rank \in Nat : rank = 2
    OBVIOUS
  <2>2. IsLayout(L, rank)
    BY <2>1
  <2>3. /\ Divides(L) /\ Len(L) \in Nat /\ DOMAIN L = 1..Len(L)
        /\ \A i \in 1..Len(L) : L[i] \in PhysDims /\ L[i].dim \in 1..rank
    BY <2>2, LayoutDivides
  <2>4. \A d \in 1..rank : \E i \in 1..Len(L) : L[i].dim = d
    <3>1. \A d \in Nat : Has(L, d) <=> d \in 1..rank
      BY <2>2, LayoutParts
    <3> QED
      BY <3>1 DEF Has
  <2> QED
    BY <2>1, <2>3, <2>4
<1>1. PartLayout(L)
  BY LayoutParts
<1>2. SwapDims(L) = NewLayout(M)
  BY DEF SwapDims
<1>3. \A i \in 1..n : /\ M[i].dim = 3 - L[i].dim /\ M[i].kind = L[i].kind /\ M[i].size = L[i].size
                      /\ M[i] \in PhysDims /\ M[i].dim \in 1..2 /\ (Fixed(M[i]) <=> Fixed(L[i]))
  <2>1. TAKE i \in 1..n
  <2>2. L[i] \in PhysDims /\ L[i].dim \in {1, 2}
    BY <1>0
  <2>3. M[i] = [L[i] EXCEPT !.dim = IF L[i].dim = 1 THEN 2 ELSE 1]
    BY <1>0, <2>2
  <2>4. M[i].dim = 3 - L[i].dim /\ M[i].kind = L[i].kind /\ M[i].size = L[i].size /\ M[i].dim \in 1..2
    BY <2>2, <2>3 DEF PhysDims
  <2>5. M[i] \in PhysDims
    BY <2>2, <2>3 DEF PhysDims
  <2> QED
    BY <2>4, <2>5 DEF Fixed
<1>4. M \in Seq(PhysDims) /\ Len(M) = n /\ DOMAIN M = 1..n
  <2>1. DOMAIN M = 1..n
    BY <1>0
  <2>2. M \in [1..n -> PhysDims]
    BY <1>0, <1>3
  <2>3. M \in Seq(PhysDims)
    BY <1>0, <2>2, SeqDef
  <2> QED
    BY <1>0, <2>1, <2>3, LenProperties
<1> HIDE DEF M
<1>5. \A i \in 1..n : PhysOK(M[i])
  <2>1. TAKE i \in 1..n
  <2>2. PhysOK(L[i])
    BY <1>1 DEF PartLayout
  <2> QED
    BY <1>3, <2>2 DEF PhysOK
<1>6. Divides(M)
  BY <1>4, <1>5 DEF Divides, PhysOK
<1>7. ASSUME NEW i \in 1..n, ~Fixed(M[i]), NEW j \in 1..i - 1
      PROVE  M[j].dim # M[i].dim
  <2>1. j \in 1..n
    BY <1>0
  <2>2. L[j].dim # L[i].dim
    BY <1>1, <1>3, <1>7 DEF PartLayout
  <2>3. L[j].dim \in 1..2 /\ L[i].dim \in 1..2 /\ M[j].dim = 3 - L[j].dim /\ M[i].dim = 3 - L[i].dim
    BY <1>0, <1>3, <2>1
  <2> QED
    BY <2>2, <2>3
<1>8. PartLayout(M)
  BY <1>0, <1>4, <1>5, <1>6, <1>7 DEF PartLayout
<1>9. ASSUME NEW d \in 1..2
      PROVE  /\ 3 - d \in 1..2 /\ swapped[d] = shape[3 - d]
             /\ \E i \in 1..n : M[i].dim = d
             /\ HasDynamic(L, 3 - d) => HasDynamic(M, d)
             /\ Taken(M, d, 0) = Taken(L, 3 - d, 0)
  <2>1. 3 - d \in 1..2 /\ swapped[d] = shape[3 - d]
    <3>1. d = 1 \/ d = 2
      OBVIOUS
    <3> QED
      BY <3>1
  <2>2. \A i \in 1..n : L[i].dim = 3 - d <=> M[i].dim = d
    <3>1. TAKE i \in 1..n
    <3>2. L[i].dim \in 1..2 /\ M[i].dim = 3 - L[i].dim
      BY <1>0, <1>3
    <3> QED
      BY <3>2
  <2>3. \E i \in 1..n : M[i].dim = d
    BY <1>0, <2>1, <2>2
  <2>4. HasDynamic(L, 3 - d) => HasDynamic(M, d)
    BY <1>3, <1>4, <2>2 DEF HasDynamic
  <2>5. PICK pos : pos = [i \in 1..n |-> i]
    OBVIOUS
  <2>6. SamePackings(L, M, 3 - d, d, pos)
    BY <1>3, <1>4, <2>2, <2>5 DEF SamePackings
  <2>7. Taken(M, d, 0) = Taken(L, 3 - d, 0)
    BY <1>0, <1>6, <2>6, TakenAlike
  <2> QED
    BY <2>1, <2>3, <2>4, <2>7
<1>10. IsLayout(M, 2)
  <2>1. ASSUME NEW d \in Nat
        PROVE  Has(M, d) <=> d \in 1..2
    BY <1>3, <1>4, <1>9 DEF Has
  <2> QED
    BY <1>8, <2>1, LayoutParts
<1>11. ASSUME NEW d \in 1..2
       PROVE  Spans(M, d, swapped[d])
  <2>1. Spans(L, 3 - d, shape[3 - d])
    BY <1>9, AppliesSpans
  <2> QED
    BY <1>9, <2>1 DEF Spans
<1>12. AppliesTo(M, swapped)
  BY <1>10, <1>11, SpansApplies
<1> QED
  BY <1>2, <1>10, <1>12, NewLayoutApplies

-----------------------------------------------------------------------------
(* The layouts a move may choose.                                          *)

\* The target's vector registers have 16 or 32 bytes.
LEMMA VectorBytesAre == AllVectorBytes = {16, 32}
<1>1. \A l \in CpuLevels : VectorBytes(l) = IF l = "VRF" THEN {16, 32} ELSE {}
  BY DEF VectorBytes
<1>2. "VRF" \in CpuLevels
  BY DEF CpuLevels
<1>3. \A b : b \in AllVectorBytes <=> b \in {16, 32}
  BY <1>1, <1>2 DEF AllVectorBytes
<1> QED
  BY <1>3, Zenon

\* Its elements have 1, 2 or 4.
LEMMA SizesOf ==
    ASSUME NEW dtype \in Dtypes
    PROVE  SizeOf[dtype] \in {1, 2, 4}
BY DEF Dtypes, SizeOf

\* So packings are larger than 1, and OddEven ones even.
LEMMA PackSizesAre ==
    ASSUME NEW dtype \in Dtypes
    PROVE  /\ \A n \in PackSizes(dtype) : n \in Nat /\ n > 1
           /\ \A n \in OddEvenSizes(dtype) : n \in Nat /\ n > 1 /\ n % 2 = 0
<1>1. PICK s \in {1, 2, 4} : s = SizeOf[dtype]
  BY SizesOf
<1>2. ASSUME NEW n \in PackSizes(dtype)
      PROVE  n \in Nat /\ n > 1
  <2>1. n = 2 \/ \E b \in {16, 32} : n = b \div s
    BY <1>1, <1>2, VectorBytesAre DEF PackSizes
  <2>2. \A b \in {16, 32} : b \div s \in Nat /\ b \div s > 1
    BY <1>1
  <2> QED
    BY <2>1, <2>2
<1>3. ASSUME NEW n \in OddEvenSizes(dtype)
      PROVE  n \in Nat /\ n > 1 /\ n % 2 = 0
  <2>1. \E b \in {16, 32} : n = (2 * b) \div s
    BY <1>1, <1>3, VectorBytesAre DEF OddEvenSizes
  <2>2. \A b \in {16, 32} : (2 * b) \div s \in Nat /\ (2 * b) \div s > 1 /\ ((2 * b) \div s) % 2 = 0
    <3>1. TAKE b \in {16, 32}
    <3>2. (2 * b) \div s \in {8, 16, 32, 64}
      BY <1>1
    <3> QED
      BY <3>2
  <2> QED
    BY <2>1, <2>2
<1> QED
  BY <1>2, <1>3

\* A layout without packings applies to every shape.
AllDynamic(L) == \A i \in 1..Len(L) : ~Fixed(L[i])

\* A layout without packings applies to every shape.
LEMMA DynamicApplies ==
    ASSUME NEW L, NEW rank \in Nat, IsLayout(L, rank), AllDynamic(L), NEW shape, IsShape(shape, rank)
    PROVE  /\ AppliesTo(L, shape)
           /\ \A d \in 1..rank : HasDynamic(L, d) /\ Taken(L, d, 0) = 1
<1>0. /\ Divides(L) /\ Len(L) \in Nat
      /\ \A d \in 1..rank : \E i \in 1..Len(L) : L[i].dim = d
  BY LayoutDivides
<1>1. ASSUME NEW d \in 1..rank
      PROVE  HasDynamic(L, d) /\ Taken(L, d, 0) = 1 /\ Spans(L, d, shape[d])
  <2>1. HasDynamic(L, d)
    BY <1>0 DEF AllDynamic, HasDynamic
  <2>2. Inside(L, d, 0) = {} /\ 0 \in 0..Len(L)
    BY <1>0 DEF AllDynamic, Inside
  <2>3. Taken(L, d, 0) = 1
    BY <1>0, <2>2, TakenNat
  <2>4. shape[d] \in Nat \ {0} /\ shape[d] = shape[d] * 1
    BY DEF IsShape
  <2>5. Spans(L, d, shape[d])
    BY <2>1, <2>3, <2>4 DEF Spans
  <2> QED
    BY <2>1, <2>3, <2>5
<1>2. AppliesTo(L, shape)
  BY <1>1, SpansApplies
<1> QED
  BY <1>1, <1>2

\* Those that the target starts from are such.
LEMMA UnpackedAre ==
    ASSUME NEW rank \in Nat, NEW L \in Unpacked(rank)
    PROVE  IsLayout(L, rank) /\ AllDynamic(L) /\ Len(L) = rank
<1>1. CASE L = RowMajor(rank)
  <2> DEFINE shape == [d \in 1..rank |-> 1]
  <2>1. shape \in Seq(Nat \ {0}) /\ DOMAIN shape = 1..rank /\ Len(shape) = rank
    <3>1. shape \in [1..rank -> Nat \ {0}] /\ DOMAIN shape = 1..rank
      OBVIOUS
    <3>2. shape \in Seq(Nat \ {0})
      BY <3>1, SeqDef
    <3> QED
      BY <3>1, <3>2, LenProperties
  <2>2. IsShape(shape, rank)
    BY <2>1 DEF IsShape
  <2>3. IsLayout(L, rank) /\ Len(L) = rank
    BY <1>1, <2>2, RowMajorIs
  <2>4. \A i \in 1..rank : L[i] = Dynamic(i)
    BY <1>1 DEF RowMajor
  <2> QED
    BY <2>3, <2>4, DynamicIs DEF AllDynamic
<1>2. ASSUME NEW p, p \in [1..rank -> 1..rank], \A i, j \in 1..rank : p[i] = p[j] => i = j,
             \A d \in 1..rank : \E i \in 1..rank : p[i] = d,
             L \in Seq(PhysDims), Len(L) = rank, \A i \in 1..rank : L[i] = Dynamic(p[i])
      PROVE  IsLayout(L, rank) /\ AllDynamic(L)
  <2>1. DOMAIN L = 1..rank
    BY <1>2, LenProperties
  <2>2. \A i \in 1..rank : L[i].dim = p[i] /\ L[i].kind = "Dynamic" /\ L[i].size = 0 /\ ~Fixed(L[i])
    <3>1. TAKE i \in 1..rank
    <3>2. PICK d : d = p[i]
      OBVIOUS
    <3>3. L[i] = Dynamic(d)
      BY <1>2, <3>2
    <3> QED
      BY <3>2, <3>3, DynamicIs
  <2>3. {L[i].dim : i \in DOMAIN L} = 1..rank
    <3>1. \A i \in DOMAIN L : L[i].dim \in 1..rank
      BY <1>2, <2>1, <2>2
    <3>2. ASSUME NEW d \in 1..rank
          PROVE  \E i \in DOMAIN L : d = L[i].dim
      <4>1. PICK i \in 1..rank : p[i] = d
        BY <1>2
      <4> QED
        BY <2>1, <2>2, <4>1
    <3> QED
      BY <3>1, <3>2
  <2>4. \A i \in DOMAIN L : L[i].size = 0 /\ \A j \in 1..i - 1 : L[j].dim # L[i].dim
    <3>1. TAKE i \in DOMAIN L
    <3>2. i \in 1..rank /\ L[i].size = 0 /\ L[i].dim = p[i]
      BY <2>1, <2>2
    <3>3. ASSUME NEW j \in 1..i - 1
          PROVE  L[j].dim # L[i].dim
      <4>1. j \in 1..rank /\ j # i
        BY <3>2
      <4>2. L[j].dim = p[j]
        BY <2>2, <4>1
      <4>3. p[j] # p[i]
        BY <1>2, <3>2, <4>1
      <4> QED
        BY <3>2, <4>2, <4>3
    <3> QED
      BY <3>2, <3>3
  <2>5. IsLayout(L, rank)
    BY <1>2, <2>1, <2>2, <2>3, <2>4 DEF IsLayout
  <2> QED
    BY <1>2, <2>2, <2>5 DEF AllDynamic
<1>3. CASE rank = 2 /\ L = ColMajor(2)
  <2> DEFINE p == [i \in 1..rank |-> 3 - i]
  <2>1. /\ p \in [1..rank -> 1..rank] /\ \A i, j \in 1..rank : p[i] = p[j] => i = j
        /\ \A d \in 1..rank : \E i \in 1..rank : p[i] = d
    <3>1. p[1] = 2 /\ p[2] = 1 /\ 1..rank = {1, 2}
      BY <1>3
    <3> QED
      BY <1>3, <3>1
  <2>2. L = [i \in 1..2 |-> Dynamic(2 + 1 - i)]
    BY <1>3 DEF ColMajor
  <2>3. \A i \in 1..rank : L[i] = Dynamic(p[i])
    BY <1>3, <2>2
  <2>4. \A i \in 1..rank : L[i] \in PhysDims
    BY <1>3, <2>2 DEF Dynamic, PhysDims
  <2>5. L \in [1..rank -> PhysDims] /\ DOMAIN L = 1..rank
    BY <1>3, <2>2, <2>4
  <2>6. L \in Seq(PhysDims)
    BY <2>5, SeqDef
  <2>7. Len(L) = rank
    BY <2>5, <2>6, LenProperties
  <2> HIDE DEF p
  <2>8. IsLayout(L, rank) /\ AllDynamic(L)
    BY <1>2, <2>1, <2>3, <2>6, <2>7
  <2> QED
    BY <2>7, <2>8
<1>4. CASE rank = 4 /\ L = NHWC
  <2> DEFINE p == [i \in 1..rank |-> CASE i = 1 -> 1 [] i = 2 -> 3 [] i = 3 -> 4 [] i = 4 -> 2]
  <2>0. 1..rank = {1, 2, 3, 4}
    BY <1>4
  <2>1. p[1] = 1 /\ p[2] = 3 /\ p[3] = 4 /\ p[4] = 2
    BY <2>0
  <2>2. /\ p \in [1..rank -> 1..rank] /\ \A i, j \in 1..rank : p[i] = p[j] => i = j
        /\ \A d \in 1..rank : \E i \in 1..rank : p[i] = d
    <3>1. \A i \in 1..rank : p[i] \in 1..rank
      BY <2>0, <2>1
    <3>2. p \in [1..rank -> 1..rank]
      BY <3>1
    <3> HIDE DEF p
    <3>3. \A i, j \in 1..rank : p[i] = p[j] => i = j
      <4>1. \A i, j \in {1, 2, 3, 4} : p[i] = p[j] => i = j
        BY <2>1
      <4> QED
        BY <2>0, <4>1, Zenon
    <3>4. \A d \in 1..rank : \E i \in 1..rank : p[i] = d
      <4>1. \A d \in {1, 2, 3, 4} : \E i \in {1, 2, 3, 4} : p[i] = d
        BY <2>1
      <4> QED
        BY <2>0, <4>1, Zenon
    <3> QED
      BY <3>2, <3>3, <3>4, Zenon
  <2> HIDE DEF p
  <2>3. L = <<Dynamic(1), Dynamic(3), Dynamic(4), Dynamic(2)>>
    BY <1>4 DEF NHWC
  <2>4. Dynamic(1) \in PhysDims /\ Dynamic(3) \in PhysDims /\ Dynamic(4) \in PhysDims /\ Dynamic(2) \in PhysDims
    BY DEF Dynamic, PhysDims
  <2>5. L \in Seq(PhysDims) /\ Len(L) = rank
    BY <1>4, <2>3, <2>4
  <2>6. \A i \in 1..rank : L[i] = Dynamic(p[i])
    BY <2>0, <2>1, <2>3
  <2>7. IsLayout(L, rank) /\ AllDynamic(L)
    BY <1>2, <2>2, <2>5, <2>6
  <2> QED
    BY <2>5, <2>7
<1>5. L = RowMajor(rank) \/ (rank = 2 /\ L = ColMajor(2)) \/ (rank = 4 /\ L = NHWC)
  BY DEF Unpacked
<1> QED
  BY <1>1, <1>3, <1>4, <1>5

\* With a packing that divides its dimension, it still applies.
LEMMA PackedApplies ==
    ASSUME NEW l, NEW rank \in Nat, IsLayout(l, rank), AllDynamic(l), NEW shape, IsShape(shape, rank),
           NEW p, PhysOK(p), Fixed(p), p.dim \in 1..rank, shape[p.dim] % p.size = 0
    PROVE  IsLayout(Append(l, p), rank) /\ AppliesTo(Append(l, p), shape)
<1>1. PartLayout(l) /\ \A d \in Nat : Has(l, d) <=> d \in 1..rank
  BY LayoutParts
<1>2. PICK M : M = Append(l, p)
  OBVIOUS
<1>3. PartLayout(M)
  BY <1>1, <1>2, AppendParts
<1>4. ASSUME NEW d \in Nat
      PROVE  /\ Taken(M, d, 0) = IF p.dim = d THEN Taken(l, d, 0) * p.size ELSE Taken(l, d, 0)
             /\ Has(M, d) <=> Has(l, d) \/ p.dim = d
             /\ HasDynamic(M, d) <=> HasDynamic(l, d)
  BY <1>1, <1>2, AppendTakes
<1>5. \A d \in Nat : Has(M, d) <=> d \in 1..rank
  BY <1>1, <1>4
<1>6. IsLayout(M, rank)
  BY <1>3, <1>5, LayoutParts
<1>7. p.size \in Nat \ {0}
  BY DEF PhysOK, PhysDims
<1>8. ASSUME NEW d \in 1..rank
      PROVE  Spans(M, d, shape[d])
  <2>1. HasDynamic(l, d) /\ Taken(l, d, 0) = 1 /\ d \in Nat
    BY DynamicApplies
  <2>2. HasDynamic(M, d)
    BY <1>4, <2>1
  <2>3. PICK n \in Nat \ {0} : n = shape[d]
    BY DEF IsShape
  <2>4. CASE p.dim = d
    <3>1. PICK s \in Nat \ {0} : s = p.size
      BY <1>7
    <3>2. Taken(M, d, 0) = 1 * s
      BY <1>4, <2>1, <2>4, <3>1
    <3>3. n % s = 0
      BY <2>3, <2>4, <3>1
    <3>4. n \div s \in Nat /\ n = (n \div s) * s
      BY <3>3, DivMultiple
    <3>5. PICK q \in Nat : q = n \div s
      BY <3>4
    <3>6. n = q * s /\ 1 * s = s
      BY <3>4, <3>5
    <3>7. q # 0
      <4>1. q = 0 => q * s = 0
        OBVIOUS
      <4> QED
        BY <3>6, <4>1
    <3>8. Taken(M, d, 0) = s /\ q \in Nat \ {0}
      BY <3>2, <3>6, <3>7
    <3> QED
      BY <2>2, <2>3, <3>6, <3>8 DEF Spans
  <2>5. CASE p.dim # d
    <3>1. Taken(M, d, 0) = 1 /\ n = n * 1
      BY <1>4, <2>1, <2>5
    <3> QED
      BY <2>2, <2>3, <3>1 DEF Spans
  <2> QED
    BY <2>4, <2>5
<1>9. AppliesTo(M, shape)
  BY <1>6, <1>8, SpansApplies
<1> QED
  BY <1>2, <1>6, <1>9

\* Which is what standard packings do.
LEMMA StandardApplies ==
    ASSUME NEW rank \in Nat, NEW shape, IsShape(shape, rank), NEW dtype \in Dtypes,
           NEW l \in Unpacked(rank), NEW layout \in StandardPackings(l, shape, dtype)
    PROVE  /\ IsLayout(layout, rank) /\ AppliesTo(layout, shape)
           /\ layout \in AllLayoutsForShape(shape, dtype)
<1> DEFINE last == Max({1} \cup {d \in DOMAIN shape : shape[d] # 1})
           outer == {d \in {l[i].dim : i \in 1..last - 1} : shape[d] # 1}
<1>0. DOMAIN shape = 1..rank /\ Len(shape) = rank /\ \A d \in 1..rank : shape[d] \in Nat \ {0}
  BY DEF IsShape
<1>1. IsLayout(l, rank) /\ AllDynamic(l) /\ Len(l) = rank
  BY UnpackedAre
<1>2. \A i \in 1..rank : l[i].dim \in 1..rank
  BY <1>1, LayoutDivides
<1>3. outer \subseteq 1..rank
  <2>1. PICK S : S = {1} \cup {d \in DOMAIN shape : shape[d] # 1}
    OBVIOUS
  <2>2. S \in SUBSET (0..rank + 1) /\ S # {}
    BY <1>0, <2>1
  <2>3. rank + 1 \in Nat
    OBVIOUS
  <2>4. Max(S) \in S
    BY <2>2, <2>3, MaxNat
  <2>5. last \in S
    BY <2>1, <2>4
  <2>6. last = 1 \/ last \in 1..rank
    BY <1>0, <2>1, <2>5
  <2>7. \A i \in 1..last - 1 : i \in 1..rank
    BY <2>6
  <2> HIDE DEF last
  <2> QED
    BY <1>2, <2>7
<1> HIDE DEF outer
<1>4. CASE \E x \in {y \in outer \X PackSizes(dtype) : y[2] < shape[y[1]] /\ shape[y[1]] % y[2] = 0} :
              layout = Append(l, Packed(x[1], x[2]))
  <2>1. PICK x \in outer \X PackSizes(dtype) : shape[x[1]] % x[2] = 0 /\ layout = Append(l, Packed(x[1], x[2]))
    BY <1>4
  <2>2. PICK d \in 1..rank, n \in PackSizes(dtype) : d = x[1] /\ n = x[2]
    BY <1>3, <2>1
  <2>3. n \in Nat /\ n > 1
    BY PackSizesAre
  <2>4. PICK p : p = Packed(d, n)
    OBVIOUS
  <2>5. p.dim = d /\ p.kind = "Packed" /\ p.size = n /\ Fixed(p)
    BY <2>4, PackedIs
  <2>6. PhysOK(p)
    <3>1. p \in PhysDims
      BY <2>3, <2>4 DEF PhysDims, Packed
    <3> QED
      BY <2>3, <2>5, <3>1 DEF PhysOK
  <2>7. layout = Append(l, p) /\ shape[d] % n = 0
    BY <2>1, <2>2, <2>4
  <2>8. IsLayout(layout, rank) /\ AppliesTo(layout, shape)
    BY <1>1, <2>5, <2>6, <2>7, PackedApplies
  <2>9. layout \in AllLayoutsForShape(shape, dtype)
    <3> DEFINE Dividing(sizes) == {y \in (DOMAIN shape) \X sizes : shape[y[1]] % y[2] = 0}
    <3>1. <<d, n>> \in Dividing(PackSizes(dtype))
      BY <1>0, <2>7
    <3>2. layout \in {Append(k, Packed(y[1], y[2])) : k \in Unpacked(Len(shape)), y \in Dividing(PackSizes(dtype))}
      <4>1. layout = Append(l, Packed(<<d, n>>[1], <<d, n>>[2])) /\ l \in Unpacked(Len(shape))
        BY <1>0, <2>4, <2>7
      <4> HIDE DEF Dividing
      <4> QED
        BY <3>1, <4>1
    <3> QED
      BY <3>2 DEF AllLayoutsForShape
  <2> QED
    BY <2>8, <2>9
<1>5. CASE \E x \in {y \in outer \X OddEvenSizes(dtype) : y[2] <= shape[y[1]] /\ shape[y[1]] % y[2] = 0} :
              layout = Append(l, OddEven(x[1], x[2]))
  <2>1. PICK x \in outer \X OddEvenSizes(dtype) : shape[x[1]] % x[2] = 0 /\ layout = Append(l, OddEven(x[1], x[2]))
    BY <1>5
  <2>2. PICK d \in 1..rank, n \in OddEvenSizes(dtype) : d = x[1] /\ n = x[2]
    BY <1>3, <2>1
  <2>3. n \in Nat /\ n > 1 /\ n % 2 = 0
    BY PackSizesAre
  <2>4. PICK p : p = OddEven(d, n)
    OBVIOUS
  <2>5. p.dim = d /\ p.kind = "OddEven" /\ p.size = n /\ Fixed(p)
    BY <2>4 DEF OddEven, Fixed
  <2>6. PhysOK(p)
    <3>1. p \in PhysDims
      BY <2>3, <2>4 DEF PhysDims, OddEven
    <3> QED
      BY <2>3, <2>5, <3>1 DEF PhysOK
  <2>7. layout = Append(l, p) /\ shape[d] % n = 0
    BY <2>1, <2>2, <2>4
  <2>8. IsLayout(layout, rank) /\ AppliesTo(layout, shape)
    BY <1>1, <2>5, <2>6, <2>7, PackedApplies
  <2>9. layout \in AllLayoutsForShape(shape, dtype)
    <3> DEFINE Dividing(sizes) == {y \in (DOMAIN shape) \X sizes : shape[y[1]] % y[2] = 0}
    <3>1. <<d, n>> \in Dividing(OddEvenSizes(dtype))
      BY <1>0, <2>7
    <3>2. layout \in {Append(k, OddEven(y[1], y[2])) : k \in Unpacked(Len(shape)), y \in Dividing(OddEvenSizes(dtype))}
      <4>1. layout = Append(l, OddEven(<<d, n>>[1], <<d, n>>[2])) /\ l \in Unpacked(Len(shape))
        BY <1>0, <2>4, <2>7
      <4> HIDE DEF Dividing
      <4> QED
        BY <3>1, <4>1
    <3> QED
      BY <3>2 DEF AllLayoutsForShape
  <2> QED
    BY <2>8, <2>9
<1>6. \/ \E x \in {y \in outer \X PackSizes(dtype) : y[2] < shape[y[1]] /\ shape[y[1]] % y[2] = 0} :
            layout = Append(l, Packed(x[1], x[2]))
      \/ \E x \in {y \in outer \X OddEvenSizes(dtype) : y[2] <= shape[y[1]] /\ shape[y[1]] % y[2] = 0} :
            layout = Append(l, OddEven(x[1], x[2]))
  BY DEF StandardPackings, outer
<1> QED
  BY <1>4, <1>5, <1>6

\* So every layout that a move may choose applies, and precompute enumerates it.
LEMMA DestinationsApply ==
    ASSUME NEW rank \in Nat, NEW shape, IsShape(shape, rank), NEW dtype \in Dtypes,
           NEW layout \in MoveDestinationLayouts(shape, dtype)
    PROVE  /\ IsLayout(layout, rank) /\ AppliesTo(layout, shape)
           /\ layout \in AllLayoutsForShape(shape, dtype)
<1>0. Len(shape) = rank
  BY DEF IsShape
<1>1. RowMajor(rank) \in Unpacked(rank)
  BY DEF Unpacked
<1> DEFINE base == IF AllOnes(shape) THEN {RowMajor(Len(shape))} ELSE Unpacked(Len(shape))
<1>2. base \subseteq Unpacked(rank)
  BY <1>0, <1>1
<1>3. layout \in base \/ \E l \in base : layout \in StandardPackings(l, shape, dtype)
  BY DEF MoveDestinationLayouts
<1> HIDE DEF base
<1>4. CASE layout \in base
  <2>1. layout \in Unpacked(rank)
    BY <1>2, <1>4
  <2>2. IsLayout(layout, rank) /\ AllDynamic(layout)
    BY <2>1, UnpackedAre
  <2>3. AppliesTo(layout, shape)
    BY <2>2, DynamicApplies
  <2>4. layout \in AllLayoutsForShape(shape, dtype)
    BY <1>0, <2>1 DEF AllLayoutsForShape
  <2> QED
    BY <2>2, <2>3, <2>4
<1>5. CASE \E l \in base : layout \in StandardPackings(l, shape, dtype)
  <2>1. PICK l \in Unpacked(rank) : layout \in StandardPackings(l, shape, dtype)
    BY <1>2, <1>5
  <2> QED
    BY <2>1, StandardApplies
<1> QED
  BY <1>3, <1>4, <1>5

-----------------------------------------------------------------------------
(* Multiples of powers of two.                                             *)

\* A power of two is a multiple of those below it.
LEMMA PowerDivides ==
    ASSUME NEW m, IsPowerOfTwo(m), NEW n, IsPowerOfTwo(n), m <= n
    PROVE  /\ m \in Nat \ {0} /\ n \in Nat \ {0}
           /\ \E q \in Nat \ {0} : n = q * m
<1>1. PICK a \in Exponents, b \in Exponents : m = PowerOfTwo[a] /\ n = PowerOfTwo[b]
  BY DEF IsPowerOfTwo
<1>2. m \in Nat \ {0} /\ n \in Nat \ {0}
  BY <1>1, PowersGrow
<1>3. a <= b
  <2>1. b < a => n < m
    BY <1>1, PowersGrow
  <2>2. a \in Nat /\ b \in Nat
    BY DEF Exponents
  <2> QED
    BY <1>2, <2>1, <2>2
<1> DEFINE Bad == {j \in Nat : j \in Exponents /\ a <= j /\ ~\E q \in Nat \ {0} : PowerOfTwo[j] = q * m}
<1>4. Bad = {}
  <2>1. SUFFICES ASSUME Bad # {}
                 PROVE  FALSE
    OBVIOUS
  <2>2. PICK j \in Bad : \A i \in Bad : j <= i
    BY <2>1, LeastNat
  <2>3. j # a
    <3>1. PowerOfTwo[a] = 1 * m
      BY <1>1, <1>2
    <3> QED
      BY <2>2, <3>1
  <2>4. j - 1 \in Nat /\ j - 1 \in Exponents /\ a <= j - 1 /\ j \in Exponents \ {0}
    BY <2>2, <2>3 DEF Exponents
  <2>5. j - 1 \notin Bad
    BY <2>2, <2>4
  <2>6. PICK q \in Nat \ {0} : PowerOfTwo[j - 1] = q * m
    BY <2>4, <2>5
  <2>7. PowerOfTwo[j] = 2 * (q * m)
    BY <2>4, <2>6, PowersGrow
  <2>8. 2 * (q * m) = (2 * q) * m /\ 2 * q \in Nat \ {0}
    BY <1>2
  <2> QED
    BY <2>2, <2>7, <2>8
<1>5. \E q \in Nat \ {0} : PowerOfTwo[b] = q * m
  <2>1. b \in Nat /\ b \notin Bad
    BY <1>4 DEF Exponents
  <2> QED
    BY <1>3, <2>1
<1> QED
  BY <1>1, <1>2, <1>5

\* So many tiles that divide what they are tiles of.
LEMMA ExactTiles ==
    ASSUME NEW m \in Nat \ {0}, NEW q \in Nat \ {0}
    PROVE  CeilDiv(q * m, m) = q /\ (q * m) \div m = q
<1>1. q * m \in Nat
  OBVIOUS
<1>2. (q * m + (m - 1)) \div m = q
  <2>1. m - 1 \in 0..m - 1
    OBVIOUS
  <2> QED
    BY <2>1, DivModUnique
<1>3. (q * m + 0) \div m = q
  <2>1. 0 \in 0..m - 1
    OBVIOUS
  <2> QED
    BY <2>1, DivModUnique
<1>4. q * m + m - 1 = q * m + (m - 1) /\ q * m = q * m + 0
  BY <1>1
<1> QED
  BY <1>2, <1>3, <1>4 DEF CeilDiv

-----------------------------------------------------------------------------
(* Products of the same factors.                                           *)

\* A match of the factors that are not 1.
NotOne(S, f) == {x \in S : f[x] # 1}
Matches(S, f, T, g, h) ==
    /\ h \in [NotOne(S, f) -> NotOne(T, g)]
    /\ \A x \in NotOne(S, f) : g[h[x]] = f[x]
    /\ \A x, z \in NotOne(S, f) : h[x] = h[z] => x = z
    /\ \A y \in NotOne(T, g) : \E x \in NotOne(S, f) : h[x] = y

\* Finitely many numbers to be multiplied.
Factors(S, f) == IsFiniteSet(S) /\ f \in [S -> Nat \ {0}]

\* What is left of factors.
RestOf(f, S, x) == Restrict(f, S \ {x})
LEMMA FactorsLeft ==
    ASSUME NEW S, NEW f, Factors(S, f), NEW x \in S
    PROVE  /\ Factors(S \ {x}, RestOf(f, S, x))
           /\ \A z \in S \ {x} : RestOf(f, S, x)[z] = f[z]
           /\ Product(RestOf(f, S, x)) \in Nat \ {0}
           /\ Product(f) = f[x] * Product(RestOf(f, S, x))
<1>1. RestOf(f, S, x) \in [S \ {x} -> Nat \ {0}] /\ \A z \in S \ {x} : RestOf(f, S, x)[z] = f[z]
  BY DEF RestOf, Restrict, Factors
<1>2. IsFiniteSet(S \ {x})
  BY FS_Subset DEF Factors
<1> QED
  BY <1>1, <1>2, ProductTakes DEF Factors, RestOf

\* A factor of 1 may be left out.
LEMMA FactorOne ==
    ASSUME NEW S, NEW f, Factors(S, f), NEW x \in S, f[x] = 1
    PROVE  Product(f) = Product(RestOf(f, S, x))
<1>1. Product(RestOf(f, S, x)) \in Nat \ {0} /\ Product(f) = f[x] * Product(RestOf(f, S, x))
  BY FactorsLeft
<1>2. PICK p \in Nat \ {0} : p = Product(RestOf(f, S, x)) /\ Product(f) = f[x] * p
  BY <1>1
<1> QED
  BY <1>2

\* Factors that are all 1 have product 1.
LEMMA ProductOfOnes ==
    ASSUME NEW S, NEW f, Factors(S, f), \A x \in S : f[x] = 1
    PROVE  Product(f) = 1
<1> DEFINE Bad == {n \in Nat : \E T, g : /\ Factors(T, g) /\ Cardinality(T) = n
                                         /\ \A x \in T : g[x] = 1
                                         /\ Product(g) # 1}
<1>1. Bad = {}
  <2>1. SUFFICES ASSUME Bad # {}
                 PROVE  FALSE
    OBVIOUS
  <2>2. PICK n \in Bad : \A i \in Bad : n <= i
    BY <2>1, LeastNat
  <2>3. PICK T, g : Factors(T, g) /\ Cardinality(T) = n /\ (\A x \in T : g[x] = 1) /\ Product(g) # 1
    BY <2>2
  <2>4. PICK x : x \in T
    <3>1. T # {}
      BY <2>3, ProductOfNone DEF Factors
    <3> QED
      BY <3>1
  <2> DEFINE r == RestOf(g, T, x)
  <2>5. Factors(T \ {x}, r) /\ (\A z \in T \ {x} : r[z] = 1) /\ Product(g) = Product(r)
    <3>1. Factors(T, g) /\ x \in T /\ g[x] = 1
      BY <2>3, <2>4
    <3>2. Factors(T \ {x}, RestOf(g, T, x)) /\ \A z \in T \ {x} : RestOf(g, T, x)[z] = g[z]
      BY <3>1, FactorsLeft
    <3>3. Product(g) = Product(RestOf(g, T, x))
      BY <3>1, FactorOne
    <3> QED
      BY <2>3, <3>2, <3>3
  <2>6. Cardinality(T \ {x}) = n - 1 /\ n - 1 \in Nat
    <3>1. IsFiniteSet(T)
      BY <2>3 DEF Factors
    <3> QED
      <4>1. Cardinality(T \ {x}) = Cardinality(T) - 1
        BY <2>4, <3>1, FS_RemoveElement
      <4>2. Cardinality(T \ {x}) \in Nat
        BY <3>1, FS_RemoveElement, FS_CardinalityType
      <4> QED
        BY <2>3, <4>1, <4>2
  <2>7. n - 1 \in Bad
    <3> HIDE DEF r
    <3> QED
      BY <2>3, <2>5, <2>6
  <2> QED
    BY <2>2, <2>6, <2>7
<1>2. Cardinality(S) \in Nat
  BY FS_CardinalityType DEF Factors
<1>3. Cardinality(S) \notin Bad
  BY <1>1
<1> QED
  BY <1>2, <1>3

\* Factors without one of them, and what that changes.
Fewer(S, f, x) ==
    /\ Factors(S \ {x}, RestOf(f, S, x)) /\ Product(RestOf(f, S, x)) \in Nat
    /\ Product(f) = f[x] * Product(RestOf(f, S, x))
    /\ Cardinality(S) \in Nat /\ Cardinality(S) - 1 \in Nat
    /\ Cardinality(S \ {x}) = Cardinality(S) - 1
    /\ NotOne(S \ {x}, RestOf(f, S, x)) = NotOne(S, f) \ {x}
    /\ \A z \in S \ {x} : RestOf(f, S, x)[z] = f[z]
LEMMA FewerFactors ==
    ASSUME NEW S, NEW f, Factors(S, f), NEW x \in S
    PROVE  Fewer(S, f, x)
<1>1. Cardinality(S) \in Nat /\ Cardinality(S \ {x}) \in Nat /\ Cardinality(S \ {x}) = Cardinality(S) - 1
  BY FS_RemoveElement, FS_CardinalityType DEF Factors
<1>2. \A z \in S \ {x} : RestOf(f, S, x)[z] = f[z]
  <2>1. /\ Factors(S \ {x}, RestOf(f, S, x))
        /\ \A z \in S \ {x} : RestOf(f, S, x)[z] = f[z]
        /\ Product(RestOf(f, S, x)) \in Nat \ {0}
        /\ Product(f) = f[x] * Product(RestOf(f, S, x))
    BY FactorsLeft, Zenon
  <2> QED
    BY <2>1, Zenon
<1>3. NotOne(S \ {x}, RestOf(f, S, x)) = NotOne(S, f) \ {x}
  BY <1>2 DEF NotOne
<1>4. Cardinality(S) - 1 \in Nat
  BY <1>1
<1>5. /\ Factors(S \ {x}, RestOf(f, S, x)) /\ Product(RestOf(f, S, x)) \in Nat
      /\ Product(f) = f[x] * Product(RestOf(f, S, x))
  BY FactorsLeft
<1> QED
  BY <1>1, <1>2, <1>3, <1>4, <1>5 DEF Fewer

\* Matched factors have the same product.
LEMMA SameProduct ==
    ASSUME NEW S, NEW f, Factors(S, f), NEW T, NEW g, Factors(T, g), NEW h, Matches(S, f, T, g, h)
    PROVE  Product(f) = Product(g)
<1> DEFINE Bad == {n \in Nat : \E A, a, B, b, m :
                      /\ Factors(A, a) /\ Factors(B, b) /\ Matches(A, a, B, b, m)
                      /\ Cardinality(A) = n /\ Product(a) # Product(b)}
<1>1. Bad = {}
  <2>1. SUFFICES ASSUME Bad # {}
                 PROVE  FALSE
    OBVIOUS
  <2>2. PICK n \in Bad : \A i \in Bad : n <= i
    BY <2>1, LeastNat
  <2>3. PICK A, a, B, b, m : /\ Factors(A, a) /\ Factors(B, b) /\ Matches(A, a, B, b, m)
                             /\ Cardinality(A) = n /\ Product(a) # Product(b)
    BY <2>2
  <2>4. ASSUME NEW k \in Nat, k < n, NEW C, NEW c, NEW D, NEW d, NEW o,
               Factors(C, c), Factors(D, d), Matches(C, c, D, d, o), Cardinality(C) = k
        PROVE  Product(c) = Product(d)
    <3>1. k \notin Bad
      BY <2>2, <2>4
    <3> QED
      BY <2>4, <3>1
  <2> HIDE DEF Bad
  <2>5. CASE \E x \in A : a[x] = 1
    <3>1. PICK x \in A : a[x] = 1
      BY <2>5
    <3>2. /\ Factors(A \ {x}, RestOf(a, A, x)) /\ Product(a) = Product(RestOf(a, A, x))
          /\ Cardinality(A \ {x}) = n - 1 /\ n - 1 \in Nat /\ n \in Nat
          /\ NotOne(A \ {x}, RestOf(a, A, x)) = NotOne(A, a) \ {x}
          /\ \A z \in A \ {x} : RestOf(a, A, x)[z] = a[z]
      <4>1. Fewer(A, a, x)
        BY <2>3, <3>1, FewerFactors
      <4>2. Product(a) = Product(RestOf(a, A, x))
        BY <2>3, <3>1, FactorOne
      <4> QED
        BY <2>3, <4>1, <4>2 DEF Fewer
    <3>3. NotOne(A \ {x}, RestOf(a, A, x)) = NotOne(A, a) /\ \A z \in NotOne(A, a) : z \in A \ {x}
      BY <3>1, <3>2 DEF NotOne
    <3>4. Matches(A \ {x}, RestOf(a, A, x), B, b, m)
      BY <2>3, <3>2, <3>3 DEF Matches
    <3>5. Product(RestOf(a, A, x)) = Product(b)
      BY <2>3, <2>4, <3>2, <3>4
    <3> QED
      BY <2>3, <3>2, <3>5
  <2>6. CASE A = {}
    <3>1. NotOne(B, b) = {}
      BY <2>3, <2>6 DEF Matches, NotOne
    <3>2. Product(b) = 1
      BY <2>3, <3>1, ProductOfOnes DEF NotOne
    <3>3. Product(a) = 1
      BY <2>3, <2>6, ProductOfNone DEF Factors
    <3> QED
      BY <2>3, <3>2, <3>3
  <2>7. CASE A # {} /\ \A x \in A : a[x] # 1
    <3>1. PICK x \in A : x \in NotOne(A, a)
      BY <2>7 DEF NotOne
    <3>2. PICK y \in B : y = m[x] /\ b[y] = a[x] /\ y \in NotOne(B, b)
      BY <2>3, <3>1 DEF Matches, NotOne
    <3>3. /\ Factors(A \ {x}, RestOf(a, A, x)) /\ Product(RestOf(a, A, x)) \in Nat
          /\ Product(a) = a[x] * Product(RestOf(a, A, x))
          /\ Cardinality(A \ {x}) = n - 1 /\ n - 1 \in Nat /\ n \in Nat
          /\ NotOne(A \ {x}, RestOf(a, A, x)) = NotOne(A, a) \ {x}
          /\ \A z \in A \ {x} : RestOf(a, A, x)[z] = a[z]
      <4>1. Fewer(A, a, x)
        BY <2>3, <3>1, FewerFactors
      <4> QED
        BY <2>3, <4>1 DEF Fewer
    <3>4. /\ Factors(B \ {y}, RestOf(b, B, y)) /\ Product(b) = b[y] * Product(RestOf(b, B, y))
          /\ NotOne(B \ {y}, RestOf(b, B, y)) = NotOne(B, b) \ {y}
          /\ \A z \in B \ {y} : RestOf(b, B, y)[z] = b[z]
      <4>1. Fewer(B, b, y)
        BY <2>3, <3>2, FewerFactors
      <4> QED
        BY <4>1 DEF Fewer
    <3> DEFINE o == [z \in NotOne(A, a) \ {x} |-> m[z]]
    <3>5. Matches(A \ {x}, RestOf(a, A, x), B \ {y}, RestOf(b, B, y), o)
      <4>1. o \in [NotOne(A, a) \ {x} -> NotOne(B, b) \ {y}]
        BY <2>3, <3>1, <3>2 DEF Matches
      <4>2. \A z \in NotOne(A, a) \ {x} : RestOf(b, B, y)[o[z]] = RestOf(a, A, x)[z]
        <5>1. \A z \in NotOne(A, a) \ {x} : z \in A \ {x} /\ o[z] \in B \ {y} /\ o[z] = m[z] /\ b[m[z]] = a[z]
          BY <2>3, <4>1 DEF Matches, NotOne
        <5> HIDE DEF o
        <5> QED
          BY <3>3, <3>4, <5>1
      <4>3. \A z, v \in NotOne(A, a) \ {x} : o[z] = o[v] => z = v
        BY <2>3 DEF Matches
      <4>4. \A v \in NotOne(B, b) \ {y} : \E z \in NotOne(A, a) \ {x} : o[z] = v
        BY <2>3, <3>2 DEF Matches
      <4> HIDE DEF o
      <4> QED
        BY <3>3, <3>4, <4>1, <4>2, <4>3, <4>4 DEF Matches
    <3>6. Product(RestOf(a, A, x)) = Product(RestOf(b, B, y))
      <4> HIDE DEF o
      <4> QED
        BY <2>4, <3>3, <3>4, <3>5
    <3> QED
      BY <2>3, <3>2, <3>3, <3>4, <3>6
  <2> QED
    BY <2>5, <2>6, <2>7
<1>2. Cardinality(S) \in Nat
  BY FS_CardinalityType DEF Factors
<1>3. Cardinality(S) \notin Bad
  BY <1>1
<1> QED
  BY <1>2, <1>3
=============================================================================
