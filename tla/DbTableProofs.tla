--------------------------- MODULE DbTableProofs ---------------------------
(***************************************************************************)
(* For every table: any number of dimensions, sizes of blocks, results and *)
(* peaks, any number of threads whose puts interleave.  A put fills its    *)
(* box and nothing else (TableIsCellStore), and an entry is a result that  *)
(* covers the limits below it (EntriesAreResults, HitsAreClosedDownwards). *)
(*                                                                         *)
(* First of arrays: the offsets of the points behind a prefix of their     *)
(* coordinates make up one stretch of the buffer (Behind), different       *)
(* prefixes have stretches apart (Apart), so that the tiles of a region    *)
(* are the region (TilesCover) and a fill is one of its cells              *)
(* (FillRegionIs), also when it runs on over what has no action            *)
(* (FillThroughIs, FillBlockIs).  Then of the pieces of a box: they fit    *)
(* their blocks and partition it (PieceFits, PieceOfCell, OnePiece).       *)
(* Last, as pieces are written in the order of their blocks, the cells     *)
(* below one that is written have been (BelowIsBefore).                    *)
(***************************************************************************)
EXTENDS DbTable, SequenceTheorems, WellFoundedInduction, TLAPS

-----------------------------------------------------------------------------
(* Numbers.  A fact about all numbers up to some is proved by the least that
   would be an exception.                                                  *)

\* A nonempty set of naturals has a least element.
LEMMA LeastNat ==
    ASSUME NEW T \in SUBSET Nat, T # {}
    PROVE  \E m \in T : \A n \in T : m <= n
<1>1. \E x \in T : \A y \in T : ~ (<<y, x>> \in OpToRel(<, Nat))
  BY NatLessThanWellFounded, WFMin
<1>2. PICK x \in T : \A y \in T : ~ (<<y, x>> \in OpToRel(<, Nat))
  BY <1>1
<1>3. \A y \in T : ~ (y < x)
  BY <1>2 DEF OpToRel
<1> QED
  BY <1>3

\* Induction, as a fact about sets: one that has 0 and, of each number below n that it
\* has, the next, has all numbers up to n.
LEMMA UpTo ==
    ASSUME NEW n \in Nat, NEW T, 0 \in T,
           \A m \in 0..n - 1 : m \in T => m + 1 \in T
    PROVE  0..n \subseteq T
<1> DEFINE Rest == (0..n) \ T
<1> SUFFICES ASSUME Rest # {} PROVE FALSE
  OBVIOUS
<1>1. PICK m \in Rest : \A j \in Rest : m <= j
  BY LeastNat, Rest \in SUBSET Nat
<1>2. m # 0 /\ m - 1 \in 0..n - 1 /\ m - 1 \notin Rest
  BY <1>1
<1> QED
  BY <1>1, <1>2

\* The same from n downwards.
LEMMA DownTo ==
    ASSUME NEW n \in Nat, NEW T, n \in T,
           \A m \in 0..n - 1 : m + 1 \in T => m \in T
    PROVE  0..n \subseteq T
<1> DEFINE U == {j \in 0..n : n - j \in T}
<1>1. 0..n \subseteq U
  <2> HIDE DEF U
  <2>1. 0 \in U
    BY DEF U
  <2>2. \A m \in 0..n - 1 : m \in U => m + 1 \in U
    <3> SUFFICES ASSUME NEW m \in 0..n - 1, m \in U PROVE m + 1 \in U
      OBVIOUS
    <3>1. n - m \in T /\ n - (m + 1) \in 0..n - 1 /\ (n - (m + 1)) + 1 = n - m
      BY DEF U
    <3>2. n - (m + 1) \in T
      BY <3>1
    <3> QED
      BY <3>2 DEF U
  <2> QED
    BY <2>1, <2>2, UpTo
<1> QED
  <2> SUFFICES ASSUME NEW j \in 0..n PROVE j \in T
    OBVIOUS
  <2>1. n - j \in U
    BY <1>1
  <2> QED
    BY <2>1

\* Products.
LEMMA Product ==
    ASSUME NEW a \in Nat \ {0}, NEW b \in Nat \ {0}
    PROVE  a * b \in Nat \ {0}
OBVIOUS

\* The order of products.
LEMMA Monotonic ==
    ASSUME NEW a \in Int, NEW b \in Int, NEW c \in Nat, a <= b
    PROVE  a * c <= b * c
<1>1. (b - a) * c \in Nat
  <2>1. b - a \in Nat
    OBVIOUS
  <2> QED
    BY <2>1
<1>2. (b - a) * c = b * c - a * c
  OBVIOUS
<1>3. a * c \in Int /\ b * c \in Int
  OBVIOUS
<1> QED
  BY <1>1, <1>2, <1>3

\* Of two multiples of c that lie less than c above the same number, one is not less.
LEMMA Multiples ==
    ASSUME NEW a \in Int, NEW b \in Int, NEW c \in Nat, a < b
    PROVE  a * c + c <= b * c
<1>1. (a + 1) * c <= b * c
  BY Monotonic
<1>2. (a + 1) * c = a * c + c
  OBVIOUS
<1> QED
  BY <1>1, <1>2

-----------------------------------------------------------------------------
(* The strides and offsets of an array (calculate_strides, data_offset).   *)

\* Sizes of dimensions.
Shapes == Seq(Nat \ {0})

StrideOf(s, shape, e) == IF e = Len(shape) THEN 1 ELSE shape[e + 1] * s[e + 1]
StrideFcn(shape) == CHOOSE s : s = [e \in 0..Len(shape) |-> StrideOf(s, shape, e)]

\* The recursion of calculate_strides has a solution.
LEMMA StridesExist ==
    ASSUME NEW shape \in Shapes
    PROVE  \E s : s = [e \in 0..Len(shape) |-> StrideOf(s, shape, e)]
<1> DEFINE n == Len(shape)
           From(m, s) == s = [e \in m..n |-> StrideOf(s, shape, e)]
           T == {m \in 0..n : \E s : From(m, s)}
<1>0. n \in Nat /\ \A e \in 1..n : shape[e] \in Nat \ {0}
  BY DEF Shapes
<1>1. n \in T
  <2> DEFINE s == [e \in n..n |-> 1]
  <2>1. From(n, s)
    BY <1>0 DEF StrideOf
  <2>2. \E x : From(n, x)
    BY <2>1, Zenon
  <2> QED
    BY <2>2, <1>0
<1>2. \A m \in 0..n - 1 : m + 1 \in T => m \in T
  <2> SUFFICES ASSUME NEW m \in 0..n - 1, m + 1 \in T PROVE m \in T
    OBVIOUS
  <2>1. PICK s : From(m + 1, s)
    OBVIOUS
  <2> DEFINE h == [e \in m..n |-> IF e = m THEN shape[m + 1] * s[m + 1] ELSE s[e]]
  <2>2. \A e \in m..n : h[e] = StrideOf(h, shape, e)
    <3> SUFFICES ASSUME NEW e \in m..n PROVE h[e] = StrideOf(h, shape, e)
      OBVIOUS
    <3>1. CASE e = m
      BY <3>1, <1>0 DEF StrideOf
    <3>2. CASE e # m
      <4>1. e \in m + 1..n /\ (e # n => e + 1 \in m + 1..n)
        BY <3>2, <1>0
      <4>2. h[e] = s[e] /\ s[e] = StrideOf(s, shape, e)
        BY <4>1, <3>2, <2>1
      <4>3. e # n => h[e + 1] = s[e + 1]
        BY <4>1, <1>0
      <4> QED
        BY <4>2, <4>3 DEF StrideOf
    <3> QED
      BY <3>1, <3>2
  <2>3. From(m, h)
    <3> DEFINE g == [e \in m..n |-> StrideOf(h, shape, e)]
    <3>1. \A e \in m..n : h[e] = g[e]
      BY <2>2
    <3> QED
      BY <3>1
  <2>4. \E x : From(m, x)
    BY <2>3, Zenon
  <2> QED
    BY <2>4, <1>0
<1>3. 0..n \subseteq T
  <2> HIDE DEF T
  <2> QED
    BY <1>0, <1>1, <1>2, DownTo
<1> QED
  BY <1>3, <1>0

\* Stride is a value of such a function.
LEMMA StrideIs ==
    ASSUME NEW shape \in Shapes, NEW d
    PROVE  Stride(shape, d) = StrideFcn(shape)[d]
BY DEF Stride, StrideFcn, StrideOf

\* What calculate_strides computes.
LEMMA Strides ==
    ASSUME NEW shape \in Shapes
    PROVE  /\ Stride(shape, Len(shape)) = 1
           /\ \A d \in 0..Len(shape) - 1 : Stride(shape, d) = shape[d + 1] * Stride(shape, d + 1)
           /\ \A d \in 0..Len(shape) : Stride(shape, d) \in Nat \ {0}
<1> DEFINE n == Len(shape)
           T == {d \in 0..n : Stride(shape, d) \in Nat \ {0}}
<1>0. n \in Nat /\ \A e \in 1..n : shape[e] \in Nat \ {0}
  BY DEF Shapes
<1>1. StrideFcn(shape) = [e \in 0..Len(shape) |-> StrideOf(StrideFcn(shape), shape, e)]
  BY StridesExist, Zenon DEF StrideFcn
<1>2. \A d \in 0..n : Stride(shape, d) = StrideOf(StrideFcn(shape), shape, d)
  <2> HIDE DEF n
  <2> QED
    BY <1>1, StrideIs DEF n
<1>3. Stride(shape, n) = 1
  BY <1>2, <1>0 DEF StrideOf
<1>4. ASSUME NEW d \in 0..n - 1 PROVE Stride(shape, d) = shape[d + 1] * Stride(shape, d + 1)
  BY <1>2, <1>0, StrideIs DEF StrideOf
<1>5. \A d \in 0..n - 1 : d + 1 \in T => d \in T
  <2> SUFFICES ASSUME NEW d \in 0..n - 1, d + 1 \in T PROVE d \in T
    OBVIOUS
  <2>1. shape[d + 1] \in Nat \ {0} /\ Stride(shape, d + 1) \in Nat \ {0}
    BY <1>0
  <2>2. shape[d + 1] * Stride(shape, d + 1) \in Nat \ {0}
    BY <2>1, Product
  <2> QED
    BY <2>2, <1>4
<1>6. n \in T
  BY <1>3, <1>0
<1>7. 0..n \subseteq T
  <2> HIDE DEF T
  <2> QED
    BY <1>0, <1>5, <1>6, DownTo
<1> QED
  BY <1>3, <1>4, <1>7

-----------------------------------------------------------------------------
(* Offsets. *)

OffsetStep(at, shape, pt, d) == IF d = 0 THEN 0 ELSE at[d - 1] + pt[d] * Stride(shape, d)
OffsetFcn(shape, pt) == CHOOSE at : at = [d \in 0..Len(pt) |-> OffsetStep(at, shape, pt, d)]

\* Offset is a value of such a function.
LEMMA OffsetIs ==
    ASSUME NEW shape, NEW pt
    PROVE  Offset(shape, pt) = OffsetFcn(shape, pt)[Len(pt)]
BY DEF Offset, OffsetFcn, OffsetStep

\* at holds the offsets of pt's leading coordinates.
Sums(at, shape, pt, m) ==
    /\ at[0] = 0 /\ \A d \in 0..m : at[d] \in Int
    /\ \A d \in 1..m : at[d] = at[d - 1] + pt[d] * Stride(shape, d)

\* The running sums of a point end in its offset.
LEMMA OffsetUnique ==
    ASSUME NEW shape \in Shapes, NEW m \in 0..Len(shape), NEW pt \in [1..m -> Int],
           NEW at, Sums(at, shape, pt, m)
    PROVE  Offset(shape, pt) = at[m]
<1> DEFINE f == OffsetFcn(shape, pt)
           T == {d \in 0..m : f[d] = at[d]}
<1>0. m \in Nat /\ Len(pt) = m
  BY DEF Shapes
<1>1. \E x : x = [d \in 0..Len(pt) |-> OffsetStep(x, shape, pt, d)]
  <2> DEFINE x == [d \in 0..m |-> at[d]]
             g == [d \in 0..m |-> OffsetStep(x, shape, pt, d)]
  <2>1. \A d \in 0..m : x[d] = g[d]
    BY <1>0 DEF Sums, OffsetStep
  <2>2. x = g
    BY <2>1
  <2> QED
    BY <2>2, <1>0
<1>2. f = [d \in 0..Len(pt) |-> OffsetStep(f, shape, pt, d)]
  BY <1>1, Zenon DEF OffsetFcn
<1>3. 0 \in T
  BY <1>0, <1>2 DEF OffsetStep, Sums
<1>4. \A d \in 0..m - 1 : d \in T => d + 1 \in T
  <2> SUFFICES ASSUME NEW d \in 0..m - 1, d \in T PROVE d + 1 \in T
    OBVIOUS
  <2>1. d + 1 \in 1..m /\ d + 1 \in 0..m /\ d + 1 # 0 /\ (d + 1) - 1 = d
    BY <1>0
  <2>2. f[d + 1] = f[d] + pt[d + 1] * Stride(shape, d + 1)
    <3> HIDE DEF f
    <3> QED
      BY <1>2, <1>0, <2>1 DEF OffsetStep
  <2>3. at[d + 1] = at[d] + pt[d + 1] * Stride(shape, d + 1)
    BY <2>1 DEF Sums
  <2> QED
    BY <2>1, <2>2, <2>3
<1>5. 0..m \subseteq T
  <2> HIDE DEF T
  <2> QED
    BY <1>0, <1>3, <1>4, UpTo
<1> QED
  BY <1>5, <1>0, OffsetIs

\* The offset of a point's first d coordinates.
OffsetTo(shape, pt, d) == Offset(shape, [e \in 1..d |-> pt[e]])

\* Every point has running sums.
LEMMA SumsExist ==
    ASSUME NEW shape \in Shapes, NEW m \in 0..Len(shape), NEW pt, \A d \in 1..m : pt[d] \in Int
    PROVE  \E at : Sums(at, shape, pt, m)
<1> DEFINE T == {j \in 0..m : \E at : Sums(at, shape, pt, j)}
<1>0. m \in Nat /\ \A d \in 1..m : Stride(shape, d) \in Nat
  BY Strides DEF Shapes
<1>1. 0 \in T
  <2>1. Sums([d \in 0..0 |-> 0], shape, pt, 0)
    BY DEF Sums
  <2> QED
    BY <2>1, <1>0
<1>2. \A j \in 0..m - 1 : j \in T => j + 1 \in T
  <2> SUFFICES ASSUME NEW j \in 0..m - 1, j \in T PROVE j + 1 \in T
    OBVIOUS
  <2>1. PICK at : Sums(at, shape, pt, j)
    OBVIOUS
  <2> DEFINE new == at[j] + pt[j + 1] * Stride(shape, j + 1)
             h == [d \in 0..j + 1 |-> IF d = j + 1 THEN new ELSE at[d]]
  <2>2. j + 1 \in 1..m /\ pt[j + 1] \in Int /\ Stride(shape, j + 1) \in Nat /\ at[j] \in Int
    BY <1>0, <2>1 DEF Sums
  <2>3. new \in Int
    BY <2>2
  <2>4. \A d \in 0..j + 1 : h[d] \in Int
    <3> HIDE DEF new
    <3> QED
      BY <2>1, <2>3 DEF Sums
  <2>5. h[0] = 0
    BY <2>1 DEF Sums
  <2>6. ASSUME NEW d \in 1..j + 1 PROVE h[d] = h[d - 1] + pt[d] * Stride(shape, d)
    <3>1. CASE d = j + 1
      BY <3>1, <2>2
    <3>2. CASE d # j + 1
      <4>1. d \in 1..j /\ h[d] = at[d] /\ h[d - 1] = at[d - 1]
        BY <3>2
      <4> QED
        BY <4>1, <2>1 DEF Sums
    <3> QED
      BY <3>1, <3>2
  <2>7. Sums(h, shape, pt, j + 1)
    <3> HIDE DEF h
    <3> QED
      BY <2>4, <2>5, <2>6 DEF Sums
  <2>8. \E x : Sums(x, shape, pt, j + 1)
    BY <2>7, Zenon
  <2> QED
    BY <2>8
<1>3. 0..m \subseteq T
  <2> HIDE DEF T
  <2> QED
    BY <1>0, <1>1, <1>2, UpTo
<1> QED
  BY <1>3, <1>0

\* The offset of a point's leading coordinates, from one to the next.
LEMMA Offsets ==
    ASSUME NEW shape \in Shapes, NEW m \in 0..Len(shape), NEW pt, \A d \in 1..m : pt[d] \in Int
    PROVE  /\ OffsetTo(shape, pt, 0) = 0
           /\ \A d \in 0..m : OffsetTo(shape, pt, d) \in Int
           /\ \A d \in 1..m : OffsetTo(shape, pt, d) = OffsetTo(shape, pt, d - 1) + pt[d] * Stride(shape, d)
<1>1. PICK at : Sums(at, shape, pt, m)
  BY SumsExist
<1>2. ASSUME NEW d \in 0..m PROVE OffsetTo(shape, pt, d) = at[d]
  <2> DEFINE q == [e \in 1..d |-> pt[e]]
  <2>1. d \in 0..Len(shape) /\ q \in [1..d -> Int]
    BY DEF Shapes
  <2>2. Sums(at, shape, q, d)
    BY <1>1 DEF Sums
  <2> HIDE DEF q
  <2>3. Offset(shape, q) = at[d]
    BY <2>1, <2>2, OffsetUnique
  <2> QED
    BY <2>3 DEF OffsetTo, q
<1>3. \A d \in 1..m : d \in 0..m /\ d - 1 \in 0..m
  BY DEF Shapes
<1>4. 0 \in 0..m
  BY DEF Shapes
<1> QED
  BY <1>1, <1>2, <1>3, <1>4 DEF Sums

\* The offset up to the last dimension is the offset.
LEMMA OffsetToAll ==
    ASSUME NEW shape, NEW m, NEW S, NEW pt \in [1..m -> S]
    PROVE  OffsetTo(shape, pt, m) = Offset(shape, pt)
<1>1. pt = [e \in 1..m |-> pt[e]]
  OBVIOUS
<1> QED
  BY <1>1 DEF OffsetTo

\* A point's first m coordinates are within the shape.
Within(shape, pt, m) == \A d \in 1..m : pt[d] \in Nat /\ pt[d] < shape[d]

\* The elements behind a prefix follow it without a gap.
LEMMA Behind ==
    ASSUME NEW shape \in Shapes, NEW m \in 0..Len(shape), NEW pt, Within(shape, pt, m),
           NEW j \in 0..m
    PROVE  /\ OffsetTo(shape, pt, j) <= OffsetTo(shape, pt, m)
           /\ OffsetTo(shape, pt, m) + Stride(shape, m) <= OffsetTo(shape, pt, j) + Stride(shape, j)
<1> DEFINE O(d) == OffsetTo(shape, pt, d)
           T == {d \in 0..m : O(d) <= O(m) /\ O(m) + Stride(shape, m) <= O(d) + Stride(shape, d)}
<1>0. m \in Nat /\ \A d \in 0..m : O(d) \in Int /\ Stride(shape, d) \in Nat
  <2>1. m \in Nat /\ \A d \in 0..m : d \in 0..Len(shape)
    BY DEF Shapes
  <2>2. \A d \in 1..m : pt[d] \in Int
    BY DEF Within
  <2> QED
    BY <2>1, <2>2, Offsets, Strides
<1>1. m \in T
  BY <1>0
<1>2. \A d \in 0..m - 1 : d + 1 \in T => d \in T
  <2> SUFFICES ASSUME NEW d \in 0..m - 1, d + 1 \in T PROVE d \in T
    OBVIOUS
  <2>1. O(d + 1) = O(d) + pt[d + 1] * Stride(shape, d + 1)
    <3>1. \A e \in 1..m : O(e) = O(e - 1) + pt[e] * Stride(shape, e)
      BY Offsets DEF Within
    <3>2. d + 1 \in 1..m /\ (d + 1) - 1 = d
      BY <1>0
    <3> QED
      BY <3>1, <3>2
  <2>2. Stride(shape, d) = shape[d + 1] * Stride(shape, d + 1)
    BY Strides, d \in 0..Len(shape) - 1 DEF Shapes
  <2>3. pt[d + 1] \in Nat /\ shape[d + 1] \in Nat /\ pt[d + 1] < shape[d + 1]
    BY d + 1 \in 1..m, d + 1 \in 1..Len(shape) DEF Within, Shapes
  <2>4. Stride(shape, d + 1) \in Nat /\ O(d) \in Int /\ O(m) \in Int /\ Stride(shape, d) \in Nat /\ Stride(shape, m) \in Nat
    BY <1>0
  <2>5. pt[d + 1] * Stride(shape, d + 1) + Stride(shape, d + 1) <= shape[d + 1] * Stride(shape, d + 1)
    <3> DEFINE p == pt[d + 1]
               q == shape[d + 1]
               y == Stride(shape, d + 1)
    <3>1. p \in Int /\ q \in Int /\ y \in Nat /\ p < q
      BY <2>3, <2>4
    <3> HIDE DEF p, q, y
    <3>2. p * y + y <= q * y
      BY <3>1, Multiples
    <3> QED
      BY <3>2 DEF p, q, y
  <2>6. pt[d + 1] * Stride(shape, d + 1) \in Nat
    BY <2>3, <2>4
  <2>7. O(d) <= O(d + 1) /\ O(d + 1) + Stride(shape, d + 1) <= O(d) + Stride(shape, d)
    <3> DEFINE x == pt[d + 1] * Stride(shape, d + 1)
               y == Stride(shape, d + 1)
    <3>1. x \in Nat /\ O(d + 1) = O(d) + x /\ x + y <= Stride(shape, d) /\ y \in Nat
      BY <2>1, <2>2, <2>5, <2>6, <2>4
    <3> HIDE DEF x, y, O
    <3> QED
      BY <3>1, <2>4 DEF y
  <2>8. O(d + 1) \in Int /\ d \in 0..m
    BY <1>0
  <2> HIDE DEF O
  <2> QED
    BY <2>4, <2>7, <2>8
<1>3. 0..m \subseteq T
  <2> HIDE DEF T
  <2> QED
    BY <1>0, <1>1, <1>2, DownTo
<1> QED
  BY <1>3

\* Points that agree up to a dimension have the same offset up to it.
LEMMA SameOffset ==
    ASSUME NEW shape, NEW pt, NEW q, NEW m, \A d \in 1..m : pt[d] = q[d]
    PROVE  OffsetTo(shape, pt, m) = OffsetTo(shape, q, m)
<1>1. [e \in 1..m |-> pt[e]] = [e \in 1..m |-> q[e]]
  OBVIOUS
<1> QED
  BY <1>1 DEF OffsetTo

\* Different prefixes have room between them for all the elements behind them.
LEMMA Apart ==
    ASSUME NEW shape \in Shapes, NEW m \in 0..Len(shape),
           NEW pt, Within(shape, pt, m), NEW q, Within(shape, q, m)
    PROVE  \/ \A d \in 1..m : pt[d] = q[d]
           \/ OffsetTo(shape, pt, m) + Stride(shape, m) <= OffsetTo(shape, q, m)
           \/ OffsetTo(shape, q, m) + Stride(shape, m) <= OffsetTo(shape, pt, m)
<1> DEFINE O(d) == OffsetTo(shape, pt, d)
           P(d) == OffsetTo(shape, q, d)
           S(d) == Stride(shape, d)
           T == {j \in 0..m : \/ \A d \in 1..j : pt[d] = q[d]
                              \/ O(j) + S(j) <= P(j)
                              \/ P(j) + S(j) <= O(j)}
<1>0. m \in Nat /\ \A d \in 0..m : O(d) \in Int /\ P(d) \in Int /\ S(d) \in Nat
  <2>1. m \in Nat /\ \A d \in 0..m : d \in 0..Len(shape)
    BY DEF Shapes
  <2>2. \A d \in 1..m : pt[d] \in Int /\ q[d] \in Int
    BY DEF Within
  <2> QED
    BY <2>1, <2>2, Offsets, Strides
<1>1. 0 \in T
  BY <1>0
<1>2. \A j \in 0..m - 1 : j \in T => j + 1 \in T
  <2> SUFFICES ASSUME NEW j \in 0..m - 1, j \in T PROVE j + 1 \in T
    OBVIOUS
  <2> DEFINE x == pt[j + 1]
             y == q[j + 1]
             s == S(j + 1)
             z == shape[j + 1]
  <2>1. j + 1 \in 1..m /\ j + 1 \in 0..m /\ j \in 0..m /\ (j + 1) - 1 = j /\ j \in 0..Len(shape) - 1
    BY <1>0 DEF Shapes
  <2>2. x \in Nat /\ y \in Nat /\ x < z /\ y < z /\ z \in Nat
    <3>1. z \in Nat
      BY <2>1, j + 1 \in 1..Len(shape) DEF Shapes
    <3> QED
      BY <2>1, <3>1 DEF Within
  <2>3. O(j + 1) = O(j) + x * s /\ P(j + 1) = P(j) + y * s
    <3>1. \A d \in 1..m : pt[d] \in Int /\ q[d] \in Int
      BY DEF Within
    <3>2. \A d \in 1..m : O(d) = O(d - 1) + pt[d] * S(d) /\ P(d) = P(d - 1) + q[d] * S(d)
      BY <3>1, Offsets
    <3> HIDE DEF O, P
    <3> QED
      BY <3>2, <2>1
  <2>4. S(j) = z * s
    BY <2>1, Strides
  <2>5. s \in Nat /\ O(j) \in Int /\ P(j) \in Int
    BY <1>0, <2>1
  <2>6. x * s + s <= z * s /\ y * s + s <= z * s /\ 0 <= x * s /\ 0 <= y * s
    <3> HIDE DEF x, y, z, s
    <3> QED
      BY <2>2, <2>5, Multiples
  <2>7. CASE O(j) + S(j) <= P(j) \/ P(j) + S(j) <= O(j)
    <3>1. \E u, v, w \in Int : u = x * s /\ v = y * s /\ w = z * s
      <4> HIDE DEF x, y, z, s
      <4> QED
        BY <2>2, <2>5
    <3>2. PICK u \in Int, v \in Int, w \in Int : u = x * s /\ v = y * s /\ w = z * s
      BY <3>1
    <3>3. u + s <= w /\ v + s <= w /\ 0 <= u /\ 0 <= v /\ O(j + 1) = O(j) + u /\ P(j + 1) = P(j) + v
          /\ S(j) = w
      BY <3>2, <2>3, <2>4, <2>6
    <3>4. O(j + 1) + S(j + 1) <= P(j + 1) \/ P(j + 1) + S(j + 1) <= O(j + 1)
      <4> HIDE DEF O, P, S, x, y, z
      <4> QED
        BY <3>3, <2>5, <2>7 DEF s
    <3> QED
      BY <3>4, <2>1
  <2>8. CASE \A d \in 1..j : pt[d] = q[d]
    <3>1. O(j) = P(j)
      BY <2>8, SameOffset
    <3>2. CASE x = y
      <4>1. \A d \in 1..j + 1 : pt[d] = q[d]
        BY <2>8, <3>2, <1>0
      <4> QED
        BY <4>1, <2>1
    <3>3. CASE x # y
      <4>1. x * s + s <= y * s \/ y * s + s <= x * s
        <5> HIDE DEF x, y, s
        <5> QED
          BY <3>3, <2>2, <2>5, Multiples
      <4>2. x * s \in Int /\ y * s \in Int
        <5> HIDE DEF x, y, s
        <5> QED
          BY <2>2, <2>5
      <4>3. O(j + 1) + S(j + 1) <= P(j + 1) \/ P(j + 1) + S(j + 1) <= O(j + 1)
        <5> DEFINE u == x * s
                   v == y * s
        <5>1. u \in Int /\ v \in Int /\ (u + s <= v \/ v + s <= u)
              /\ O(j + 1) = O(j) + u /\ P(j + 1) = O(j) + v
          BY <4>1, <4>2, <2>3, <3>1
        <5> HIDE DEF O, P, S, x, y, u, v
        <5> QED
          BY <5>1, <2>5 DEF s
      <4> QED
        BY <4>3, <2>1
    <3> QED
      BY <3>2, <3>3
  <2> QED
    BY <2>7, <2>8
<1>3. 0..m \subseteq T
  <2> HIDE DEF T
  <2> QED
    BY <1>0, <1>1, <1>2, UpTo
<1> QED
  BY <1>3, <1>0

-----------------------------------------------------------------------------
(* The tiles of a region (fill_region_ext).                                *)

Ranges == [lo : Nat, hi : Nat]

\* A region of an array: a range per dimension, none of them empty.
Regions(shape) ==
    {region \in [1..Len(shape) -> Ranges] :
        \A d \in 1..Len(shape) : region[d].lo < region[d].hi /\ region[d].hi <= shape[d]}

InRegion(region, pt, m) ==
    \A d \in 1..m : pt[d] \in Nat /\ region[d].lo <= pt[d] /\ pt[d] < region[d].hi

\* The points of the leading dimensions of a region.
LEMMA PointsAre ==
    ASSUME NEW n \in Nat, NEW region \in [1..n -> Ranges], NEW m \in 0..n, NEW pt
    PROVE  pt \in PointsOf(SubSeq(region, 1, m)) <=> pt \in [1..m -> Nat] /\ InRegion(region, pt, m)
<1> DEFINE part == [d \in 1..m |-> region[d]]
<1>1. SubSeq(region, 1, m) = part
  BY DEF Ranges
<1>2. Len(part) = m /\ DOMAIN part = 1..m /\ \A d \in 1..m : part[d] = region[d]
  OBVIOUS
<1>3. \A d \in 1..m : region[d].lo \in Nat /\ region[d].hi \in Nat
  BY DEF Ranges
<1> HIDE DEF part
<1> DEFINE Bounds == UNION {part[d].lo..part[d].hi - 1 : d \in DOMAIN part}
<1>4. PointsOf(part) = {x \in [1..m -> Bounds] : \A d \in 1..m : part[d].lo <= x[d] /\ x[d] < part[d].hi}
  BY <1>2 DEF PointsOf
<1>5. Bounds \subseteq Nat
  BY <1>2, <1>3
<1>6. ASSUME pt \in PointsOf(part) PROVE pt \in [1..m -> Nat] /\ InRegion(region, pt, m)
  <2>1. pt \in [1..m -> Nat]
    BY <1>4, <1>5, <1>6
  <2>2. \A d \in 1..m : part[d].lo <= pt[d] /\ pt[d] < part[d].hi
    BY <1>4, <1>6
  <2> QED
    BY <2>1, <2>2, <1>2 DEF InRegion
<1>7. ASSUME pt \in [1..m -> Nat], InRegion(region, pt, m) PROVE pt \in PointsOf(part)
  <2>1. ASSUME NEW d \in 1..m PROVE pt[d] \in part[d].lo..part[d].hi - 1
    BY <1>7, <1>2, <1>3 DEF InRegion
  <2>2. \A d \in 1..m : pt[d] \in Bounds
    BY <2>1, <1>2
  <2>3. pt \in [1..m -> Bounds]
    <3> HIDE DEF Bounds
    <3> QED
      BY <2>2, <1>7
  <2>4. \A d \in 1..m : part[d].lo <= pt[d] /\ pt[d] < part[d].hi
    BY <1>7, <1>2 DEF InRegion
  <2> HIDE DEF Bounds
  <2> QED
    BY <2>3, <2>4, <1>4
<1> QED
  BY <1>1, <1>6, <1>7

\* Behind the leading PrefixSize dimensions, the region has the array's full extent.
LEMMA PrefixFull ==
    ASSUME NEW shape \in Shapes, NEW region \in Regions(shape)
    PROVE  /\ PrefixSize(shape, region) \in 0..Len(shape)
           /\ \A d \in PrefixSize(shape, region) + 1..Len(shape) : region[d].lo = 0 /\ region[d].hi = shape[d]
<1> DEFINE n == Len(shape)
           Ps == {p \in 0..n : \A d \in p + 1..n : shape[d] = region[d].hi - region[d].lo}
<1>0. n \in Nat /\ \A d \in 1..n : shape[d] \in Nat /\ region[d].lo \in Nat /\ region[d].hi \in Nat
                                  /\ region[d].lo < region[d].hi /\ region[d].hi <= shape[d]
  BY DEF Shapes, Regions, Ranges
<1>1. n \in Ps
  BY <1>0
<1>2. PICK p \in Ps : \A x \in Ps : p <= x
  BY <1>1, LeastNat, Ps \in SUBSET Nat
<1>3. PrefixSize(shape, region) \in Ps
  <2>1. PrefixSize(shape, region) = CHOOSE x \in Ps : \A y \in Ps : x =< y
    BY Zenon DEF PrefixSize, Min
  <2> HIDE DEF Ps
  <2> QED
    BY <2>1, <1>2
<1>4. ASSUME NEW d \in PrefixSize(shape, region) + 1..n PROVE region[d].lo = 0 /\ region[d].hi = shape[d]
  <2>1. d \in 1..n
    BY <1>3, <1>0
  <2>2. shape[d] = region[d].hi - region[d].lo
    BY <1>3
  <2> QED
    BY <2>1, <2>2, <1>0
<1> QED
  BY <1>3, <1>4

\* What a tile at dimension p begins with, and how long it is.
TileIndex(shape, region, p, pt) == Offset(shape, pt) + region[p].lo * Stride(shape, p)
TileLen(shape, region, p) == (region[p].hi - region[p].lo) * Stride(shape, p)

\* The numbers of a region and its shape.
LEMMA RegionFacts ==
    ASSUME NEW shape \in Shapes, NEW region \in Regions(shape)
    PROVE  /\ Len(shape) \in Nat
           /\ \A d \in 1..Len(shape) :
                /\ shape[d] \in Nat /\ region[d].lo \in Nat /\ region[d].hi \in Nat
                /\ region[d].lo < region[d].hi /\ region[d].hi <= shape[d]
           /\ region \in [1..Len(shape) -> Ranges]
BY DEF Shapes, Regions, Ranges

\* The tiles of a region, by their leading coordinates.
LEMMA TilesAre ==
    ASSUME NEW shape \in Shapes, NEW region \in Regions(shape), NEW p, p = PrefixSize(shape, region)
    PROVE  /\ p = 0 => Tiles(shape, region) = {[index |-> 0, len |-> Volume(shape)]}
           /\ p # 0 => /\ \A t \in Tiles(shape, region) :
                            \E pt \in [1..p - 1 -> Nat] :
                                /\ InRegion(region, pt, p - 1)
                                /\ t = [index |-> TileIndex(shape, region, p, pt), len |-> TileLen(shape, region, p)]
                       /\ \A pt \in [1..p - 1 -> Nat] : InRegion(region, pt, p - 1) =>
                            [index |-> TileIndex(shape, region, p, pt), len |-> TileLen(shape, region, p)]
                                \in Tiles(shape, region)
<1>1. p \in 0..Len(shape) /\ Len(shape) \in Nat
  BY PrefixFull, RegionFacts
<1>2. CASE p = 0
  BY <1>2 DEF Tiles
<1>3. CASE p # 0
  <2>1. p - 1 \in 0..Len(shape)
    BY <1>1, <1>3
  <2>2. \A pt : pt \in PointsOf(SubSeq(region, 1, p - 1)) <=> pt \in [1..p - 1 -> Nat] /\ InRegion(region, pt, p - 1)
    BY <1>1, <2>1, PointsAre, RegionFacts
  <2>3. Tiles(shape, region) = {[index |-> TileIndex(shape, region, p, pt), len |-> TileLen(shape, region, p)] :
                                pt \in PointsOf(SubSeq(region, 1, p - 1))}
    BY <1>3 DEF Tiles, TileIndex, TileLen
  <2> QED
    BY <1>3, <2>2, <2>3
<1> QED
  BY <1>2, <1>3

\* A tile at dimension p lies among the elements behind its leading coordinates.
LEMMA TileBounds ==
    ASSUME NEW shape \in Shapes, NEW region \in Regions(shape), NEW p \in 1..Len(shape),
           NEW pt \in [1..p - 1 -> Nat], Within(shape, pt, p - 1)
    PROVE  LET index == TileIndex(shape, region, p, pt)
               len   == TileLen(shape, region, p)
               base  == OffsetTo(shape, pt, p - 1)
               step  == Stride(shape, p)
           IN  /\ index \in Int /\ len \in Nat \ {0} /\ base \in Int /\ step \in Nat \ {0}
               /\ index = base + region[p].lo * step
               /\ index + len = base + region[p].hi * step
               /\ base <= index /\ index + len <= base + Stride(shape, p - 1)
<1> DEFINE index == TileIndex(shape, region, p, pt)
           len   == TileLen(shape, region, p)
           base  == OffsetTo(shape, pt, p - 1)
           step  == Stride(shape, p)
           lo    == region[p].lo
           hi    == region[p].hi
           size  == shape[p]
<1>1. lo \in Nat /\ hi \in Nat /\ size \in Nat /\ lo < hi /\ hi <= size /\ p \in Nat \ {0}
  BY RegionFacts
<1>2. step \in Nat \ {0} /\ Stride(shape, p - 1) = size * step
  <2>1. p - 1 \in 0..Len(shape) - 1 /\ p \in 0..Len(shape) /\ (p - 1) + 1 = p
    BY RegionFacts
  <2> QED
    BY <2>1, Strides
<1>3. base \in Int /\ base = Offset(shape, pt)
  <2>1. p - 1 \in 0..Len(shape) /\ p - 1 \in 0..p - 1
    BY RegionFacts
  <2>2. \A d \in 1..p - 1 : pt[d] \in Int
    OBVIOUS
  <2> QED
    BY <2>1, <2>2, Offsets, OffsetToAll
<1>4. index = base + lo * step /\ len = (hi - lo) * step
  BY <1>3 DEF TileIndex, TileLen
<1> HIDE DEF index, len, base, step, lo, hi, size
<1>5. (hi - lo) * step = hi * step - lo * step /\ lo * step \in Nat /\ hi * step \in Nat
  BY <1>1, <1>2
<1>6. (hi - lo) * step \in Nat \ {0}
  <2>1. hi - lo \in Nat \ {0}
    BY <1>1
  <2> QED
    BY <2>1, <1>2, Product
<1>7. hi * step <= size * step
  BY <1>1, <1>2, Monotonic
<1>8. size * step \in Nat
  BY <1>1, <1>2
<1>9. /\ index \in Int /\ len \in Nat \ {0}
      /\ index + len = base + hi * step
      /\ base <= index /\ index + len <= base + Stride(shape, p - 1)
  <2>1. PICK u \in Nat, v \in Nat, w \in Nat : u = lo * step /\ v = hi * step /\ w = size * step
    BY <1>5, <1>8
  <2>2. index = base + u /\ len = v - u /\ v <= w /\ Stride(shape, p - 1) = w
    BY <2>1, <1>2, <1>4, <1>5, <1>7
  <2>3. len \in Nat \ {0}
    BY <1>4, <1>6
  <2>4. index + len = base + v
    BY <2>1, <2>2, <2>3, <1>3
  <2>5. base <= index /\ index + len <= base + Stride(shape, p - 1)
    BY <2>2, <2>4, <1>3
  <2> QED
    BY <2>2, <2>3, <2>4, <2>5, <2>1, <1>3
<1> QED
  BY <1>2, <1>3, <1>4, <1>9 DEF index, len, base, step, lo, hi

\* A region is within its shape.
LEMMA InRegionWithin ==
    ASSUME NEW shape \in Shapes, NEW region \in Regions(shape), NEW m \in 0..Len(shape), NEW pt,
           InRegion(region, pt, m)
    PROVE  Within(shape, pt, m)
<1> SUFFICES ASSUME NEW d \in 1..m PROVE pt[d] \in Nat /\ pt[d] < shape[d]
  BY DEF Within
<1>1. d \in 1..Len(shape)
  BY RegionFacts
<1> QED
  BY <1>1, RegionFacts DEF InRegion

\* Tiles stay within the buffer.
LEMMA TilesFit ==
    ASSUME NEW shape \in Shapes, NEW region \in Regions(shape), NEW t \in Tiles(shape, region)
    PROVE  /\ t.index \in Nat /\ t.len \in Nat \ {0}
           /\ t.index + t.len <= Volume(shape)
<1> DEFINE p == PrefixSize(shape, region)
<1>0. p \in 0..Len(shape) /\ Len(shape) \in Nat
  BY PrefixFull, RegionFacts
<1>1. CASE p = 0
  <2>1. t = [index |-> 0, len |-> Volume(shape)]
    BY <1>1, TilesAre
  <2>2. Volume(shape) \in Nat \ {0}
    BY <1>0, Strides DEF Volume
  <2> QED
    BY <2>1, <2>2
<1>2. CASE p # 0
  <2>1. PICK pt \in [1..p - 1 -> Nat] :
            /\ InRegion(region, pt, p - 1)
            /\ t = [index |-> TileIndex(shape, region, p, pt), len |-> TileLen(shape, region, p)]
    <3> HIDE DEF p
    <3> QED
      BY <1>2, TilesAre DEF p
  <2>2. p \in 1..Len(shape) /\ p - 1 \in 0..Len(shape) /\ 0 \in 0..p - 1 /\ 0 \in 0..Len(shape)
    BY <1>0, <1>2
  <2>3. Within(shape, pt, p - 1)
    BY <2>1, <2>2, InRegionWithin
  <2> HIDE DEF p
  <2>4. /\ t.index \in Int /\ t.len \in Nat \ {0} /\ OffsetTo(shape, pt, p - 1) \in Int
        /\ OffsetTo(shape, pt, p - 1) <= t.index
        /\ t.index + t.len <= OffsetTo(shape, pt, p - 1) + Stride(shape, p - 1)
    BY <2>1, <2>2, <2>3, TileBounds
  <2>5. /\ OffsetTo(shape, pt, 0) <= OffsetTo(shape, pt, p - 1)
        /\ OffsetTo(shape, pt, p - 1) + Stride(shape, p - 1) <= OffsetTo(shape, pt, 0) + Stride(shape, 0)
    BY <2>2, <2>3, Behind
  <2>6. OffsetTo(shape, pt, 0) = 0
    <3>1. \A d \in 1..p - 1 : pt[d] \in Int
      OBVIOUS
    <3> QED
      BY <3>1, <2>2, Offsets
  <2>7. Stride(shape, 0) \in Nat /\ Stride(shape, p - 1) \in Nat
    BY <2>2, Strides
  <2> QED
    BY <2>4, <2>5, <2>6, <2>7 DEF Volume
<1> QED
  BY <1>1, <1>2

\* The elements of the tiles are those of the region.
LEMMA TilesCover ==
    ASSUME NEW shape \in Shapes, NEW region \in Regions(shape),
           NEW q \in [1..Len(shape) -> Nat], Within(shape, q, Len(shape))
    PROVE  (\E t \in Tiles(shape, region) : Offset(shape, q) \in t.index..t.index + t.len - 1)
               <=> InRegion(region, q, Len(shape))
<1> DEFINE n == Len(shape)
           p == PrefixSize(shape, region)
           i == Offset(shape, q)
<1>0. /\ p \in 0..n /\ n \in Nat
      /\ \A d \in p + 1..n : region[d].lo = 0 /\ region[d].hi = shape[d]
  BY PrefixFull, RegionFacts
<1>1. /\ i \in Int /\ OffsetTo(shape, q, n) = i /\ OffsetTo(shape, q, 0) = 0 /\ Stride(shape, n) = 1
      /\ \A d \in 0..n : OffsetTo(shape, q, d) \in Int /\ Stride(shape, d) \in Nat \ {0}
  <2>1. OffsetTo(shape, q, n) = i
    BY OffsetToAll
  <2>2. n \in 0..Len(shape) /\ \A d \in 1..n : q[d] \in Int
    BY <1>0
  <2> QED
    BY <2>1, <2>2, Offsets, Strides
<1>2. \A j \in 0..n : OffsetTo(shape, q, j) <= i /\ i + 1 <= OffsetTo(shape, q, j) + Stride(shape, j)
  <2>1. n \in 0..Len(shape)
    BY <1>0
  <2> QED
    BY <2>1, <1>1, Behind
<1>3. InRegion(region, q, n) <=> InRegion(region, q, p)
  <2>1. ASSUME InRegion(region, q, p), NEW d \in p + 1..n
        PROVE  q[d] \in Nat /\ region[d].lo <= q[d] /\ q[d] < region[d].hi
    <3>1. d \in 1..n
      BY <1>0
    <3> QED
      BY <3>1, <1>0 DEF Within
  <2>2. 1..n = (1..p) \cup (p + 1..n)
    BY <1>0
  <2> QED
    BY <2>1, <2>2 DEF InRegion
<1>4. CASE p = 0
  <2>1. Tiles(shape, region) = {[index |-> 0, len |-> Volume(shape)]}
    BY <1>4, TilesAre
  <2>2. 0 <= i /\ i + 1 <= Volume(shape) /\ Volume(shape) \in Nat
    BY <1>0, <1>1, <1>2 DEF Volume
  <2>3. i \in 0..0 + Volume(shape) - 1
    BY <2>2, <1>1
  <2>4. InRegion(region, q, p)
    BY <1>4 DEF InRegion
  <2> HIDE DEF i, p
  <2> QED
    BY <2>1, <2>3, <2>4, <1>3 DEF i
<1>5. CASE p # 0
  <2> DEFINE step == Stride(shape, p)
             lo == region[p].lo
             hi == region[p].hi
             base == OffsetTo(shape, q, p - 1)
             at == q[p]
  <2>1. /\ p \in 1..n /\ p \in 0..n /\ p - 1 \in 0..n /\ lo \in Nat /\ hi \in Nat /\ at \in Nat
        /\ step \in Nat \ {0} /\ base \in Int
    BY <1>0, <1>1, <1>5, RegionFacts
  <2>2. OffsetTo(shape, q, p) = base + at * step
    <3>1. \A d \in 1..n : q[d] \in Int /\ n \in 0..Len(shape)
      BY <1>0
    <3> QED
      BY <3>1, <2>1, Offsets
  <2>3. base + at * step <= i /\ i + 1 <= base + at * step + step
    BY <2>1, <2>2, <1>2
  <2>4. ASSUME InRegion(region, q, p)
        PROVE  \E t \in Tiles(shape, region) : i \in t.index..t.index + t.len - 1
    <3> DEFINE pt == [d \in 1..p - 1 |-> q[d]]
               t == [index |-> TileIndex(shape, region, p, pt), len |-> TileLen(shape, region, p)]
    <3>1. \A d \in 1..p - 1 : d \in 1..p /\ d \in 1..n /\ pt[d] = q[d]
      BY <2>1
    <3>2. pt \in [1..p - 1 -> Nat] /\ InRegion(region, pt, p - 1)
      BY <3>1, <2>4 DEF InRegion
    <3> HIDE DEF pt, p
    <3>3. t \in Tiles(shape, region)
      BY <1>5, <3>2, TilesAre DEF p
    <3>4. Within(shape, pt, p - 1)
      BY <2>1, <3>2, InRegionWithin
    <3>5. OffsetTo(shape, pt, p - 1) = base
      BY <3>1, SameOffset
    <3>6. /\ t.index \in Int /\ t.len \in Nat /\ t.index = base + lo * step /\ t.index + t.len = base + hi * step
      <4>1. pt \in [1..p - 1 -> Nat] /\ t.index = TileIndex(shape, region, p, pt) /\ t.len = TileLen(shape, region, p)
        BY <3>2
      <4> HIDE DEF t
      <4> QED
        BY <4>1, <2>1, <3>4, <3>5, TileBounds
    <3>7. lo <= at /\ at < hi
      BY <2>1, <2>4 DEF InRegion
    <3>8. lo * step <= at * step /\ at * step + step <= hi * step
      <4> HIDE DEF lo, hi, step, at
      <4> QED
        BY <3>7, <2>1, Monotonic, Multiples
    <3>9. t.index <= i /\ i + 1 <= t.index + t.len
      <4>1. PICK u \in Nat, v \in Nat, w \in Nat : u = lo * step /\ v = hi * step /\ w = at * step
        <5> HIDE DEF lo, hi, step, at
        <5> QED
          BY <2>1
      <4>2. u <= w /\ w + step <= v /\ t.index = base + u /\ t.index + t.len = base + v
            /\ base + w <= i /\ i + 1 <= base + w + step
        BY <4>1, <3>8, <3>6, <2>3
      <4> HIDE DEF t, i, base, step, at
      <4> QED
        BY <4>2, <2>1, <1>1
    <3>10. i \in t.index..t.index + t.len - 1
      <4> HIDE DEF t, i
      <4> QED
        BY <3>6, <3>9, <1>1
    <3> HIDE DEF t, i
    <3> QED
      BY <3>3, <3>10
  <2>5. ASSUME NEW t \in Tiles(shape, region), i \in t.index..t.index + t.len - 1
        PROVE  InRegion(region, q, p)
    <3>1. PICK pt \in [1..p - 1 -> Nat] :
              /\ InRegion(region, pt, p - 1)
              /\ t = [index |-> TileIndex(shape, region, p, pt), len |-> TileLen(shape, region, p)]
      <4> HIDE DEF p
      <4> QED
        BY <1>5, TilesAre DEF p
    <3> HIDE DEF p
    <3>2. Within(shape, pt, p - 1)
      BY <3>1, <2>1, InRegionWithin
    <3> DEFINE other == OffsetTo(shape, pt, p - 1)
    <3>3. /\ t.index \in Int /\ t.len \in Nat /\ other \in Int
          /\ t.index = other + lo * step /\ t.index + t.len = other + hi * step
          /\ other <= t.index /\ t.index + t.len <= other + Stride(shape, p - 1)
      BY <2>1, <3>1, <3>2, TileBounds
    <3>4. t.index <= i /\ i + 1 <= t.index + t.len
      <4> HIDE DEF i
      <4> QED
        BY <2>5, <3>3, <1>1
    <3>5. base <= i /\ i + 1 <= base + Stride(shape, p - 1) /\ Stride(shape, p - 1) \in Nat
      BY <2>1, <1>2, <1>1
    <3>6. \A d \in 1..p - 1 : pt[d] = q[d]
      <4>1. Within(shape, q, p - 1)
        BY <2>1 DEF Within
      <4>2. ~(other + Stride(shape, p - 1) <= base) /\ ~(base + Stride(shape, p - 1) <= other)
        <5> DEFINE room == Stride(shape, p - 1)
        <5>1. other <= i /\ i + 1 <= other + room /\ base <= i /\ i + 1 <= base + room
              /\ room \in Nat /\ base \in Int /\ other \in Int
          <6>1. t.index \in Int /\ t.len \in Nat /\ i \in Int /\ room \in Nat
            BY <3>3, <3>5, <1>1
          <6>2. base <= i /\ i + 1 <= base + room
            BY <3>5
          <6>3. other <= t.index /\ t.index <= i /\ i + 1 <= t.index + t.len /\ t.index + t.len <= other + room
            BY <3>3, <3>4
          <6>4. base \in Int /\ other \in Int
            BY <3>3, <2>1
          <6> HIDE DEF i, base, other, room
          <6>5. other <= i /\ i + 1 <= other + room
            BY <6>1, <6>3, <6>4
          <6> QED
            BY <6>1, <6>2, <6>4, <6>5
        <5> HIDE DEF i, base, other, room
        <5> QED
          BY <5>1, <1>1 DEF room
      <4> QED
        BY <3>2, <4>1, <4>2, <2>1, Apart
    <3>7. other = base
      BY <3>6, SameOffset
    <3>8. lo <= at /\ at < hi
      <4>1. PICK u \in Nat, v \in Nat, w \in Nat : u = lo * step /\ v = hi * step /\ w = at * step
        <5> HIDE DEF lo, hi, step, at
        <5> QED
          BY <2>1
      <4>2. w < v /\ u < w + step
        <5>1. base + u <= i /\ i + 1 <= base + v /\ base + w <= i /\ i + 1 <= base + w + step
          BY <4>1, <3>3, <3>4, <3>7, <2>3
        <5>2. i \in Int /\ base \in Int /\ step \in Int
          BY <2>1, <1>1
        <5>3. u \in Int /\ v \in Int /\ w \in Int
          BY <4>1
        <5> HIDE DEF i, base, step, at
        <5>4. w < v
          BY <5>1, <5>2, <5>3
        <5>5. u < w + step
          BY <5>1, <5>2, <5>3
        <5> QED
          BY <5>4, <5>5
      <4>3. ~(hi <= at)
        <5> HIDE DEF lo, hi, step, at
        <5> QED
          BY <4>1, <4>2, <2>1, Monotonic
      <4>4. ~(at < lo)
        <5> HIDE DEF lo, hi, step, at
        <5> QED
          BY <4>1, <4>2, <2>1, Multiples
      <4> QED
        BY <4>3, <4>4, <2>1
    <3>9. ASSUME NEW d \in 1..p PROVE q[d] \in Nat /\ region[d].lo <= q[d] /\ q[d] < region[d].hi
      <4>1. CASE d = p
        BY <4>1, <3>8, <2>1
      <4>2. CASE d # p
        <5>1. d \in 1..p - 1
          BY <4>2, <2>1
        <5> QED
          BY <5>1, <3>1, <3>6 DEF InRegion
      <4> QED
        BY <4>1, <4>2
    <3> QED
      BY <3>9 DEF InRegion
  <2> HIDE DEF i, p
  <2> QED
    BY <2>4, <2>5, <1>3 DEF i
<1> QED
  BY <1>4, <1>5

-----------------------------------------------------------------------------
(* Arrays, and filling a region of one.                                    *)

\* Quotient and remainder.
LEMMA DivMod ==
    ASSUME NEW a \in Nat, NEW s \in Nat \ {0}
    PROVE  /\ a \div s \in Nat /\ a % s \in 0..s - 1
           /\ a = (a \div s) * s + (a % s)
<1>1. PICK d \in Nat : d = a \div s
  <2>1. a \div s \in Nat
    OBVIOUS
  <2> QED
    BY <2>1
<1>2. PICK r \in Nat : r = a % s
  OBVIOUS
<1>3. a = s * d + r
  <2>1. a = s * (a \div s) + (a % s)
    OBVIOUS
  <2> QED
    BY <2>1, <1>1, <1>2
<1>4. s * d = d * s
  OBVIOUS
<1>5. a = d * s + r
  BY <1>3, <1>4
<1>6. a = (a \div s) * s + (a % s)
  BY <1>1, <1>2, <1>5
<1>7. a % s \in 0..s - 1
  OBVIOUS
<1> QED
  BY <1>1, <1>6, <1>7

\* No others make up the number.
LEMMA DivModUnique ==
    ASSUME NEW a \in Nat, NEW s \in Nat \ {0}, NEW b \in Nat, NEW r \in 0..s - 1, a = b * s + r
    PROVE  a \div s = b /\ a % s = r
<1> DEFINE c == a \div s
           m == a % s
<1>1. c \in Nat /\ m \in 0..s - 1 /\ a = c * s + m
  BY DivMod
<1> HIDE DEF c, m
<1>2. ~(b < c)
  <2>1. b < c => b * s + s <= c * s
    BY <1>1, Multiples
  <2>2. PICK u \in Nat, v \in Nat : u = b * s /\ v = c * s
    BY <1>1
  <2> QED
    BY <1>1, <2>1, <2>2
<1>3. ~(c < b)
  <2>1. c < b => c * s + s <= b * s
    BY <1>1, Multiples
  <2>2. PICK u \in Nat, v \in Nat : u = b * s /\ v = c * s
    BY <1>1
  <2> QED
    BY <1>1, <2>1, <2>2
<1>4. b = c
  BY <1>1, <1>2, <1>3
<1>5. m = r
  <2>1. PICK u \in Nat : u = b * s
    OBVIOUS
  <2> QED
    BY <1>1, <1>4, <2>1
<1> QED
  BY <1>4, <1>5 DEF c, m

Arrays(shape, V) == [shape : {shape}, data : [0..Volume(shape) - 1 -> V]]

\* The points within an array of a shape.
Inside(shape) == {q \in [1..Len(shape) -> Nat] : Within(shape, q, Len(shape))}

\* Places of an array have offsets in its buffer.
LEMMA OffsetInside ==
    ASSUME NEW shape \in Shapes, NEW q \in Inside(shape)
    PROVE  Offset(shape, q) \in 0..Volume(shape) - 1
<1> DEFINE n == Len(shape)
<1>0. n \in Nat /\ n \in 0..Len(shape) /\ 0 \in 0..n /\ q \in [1..n -> Nat] /\ Within(shape, q, n)
  BY DEF Shapes, Inside
<1>1. /\ OffsetTo(shape, q, 0) <= OffsetTo(shape, q, n)
      /\ OffsetTo(shape, q, n) + Stride(shape, n) <= OffsetTo(shape, q, 0) + Stride(shape, 0)
  BY <1>0, Behind
<1>2. OffsetTo(shape, q, 0) = 0 /\ OffsetTo(shape, q, n) \in Int
  <2>1. \A d \in 1..n : q[d] \in Int
    BY <1>0
  <2> QED
    BY <2>1, <1>0, Offsets
<1>3. Stride(shape, n) = 1 /\ Stride(shape, 0) \in Nat
  BY <1>0, Strides
<1>4. OffsetTo(shape, q, n) = Offset(shape, q)
  BY <1>0, OffsetToAll
<1> QED
  BY <1>1, <1>2, <1>3, <1>4 DEF Volume

\* Different points have different elements.
LEMMA OffsetDistinct ==
    ASSUME NEW shape \in Shapes, NEW q \in Inside(shape), NEW r \in Inside(shape),
           Offset(shape, q) = Offset(shape, r)
    PROVE  q = r
<1> DEFINE n == Len(shape)
<1>0. /\ n \in Nat /\ n \in 0..Len(shape) /\ q \in [1..n -> Nat] /\ Within(shape, q, n)
      /\ r \in [1..n -> Nat] /\ Within(shape, r, n)
  BY DEF Shapes, Inside
<1>1. OffsetTo(shape, q, n) = Offset(shape, q) /\ OffsetTo(shape, r, n) = Offset(shape, r)
  BY <1>0, OffsetToAll
<1>2. Stride(shape, n) = 1 /\ Offset(shape, q) \in Int
  BY <1>0, Strides, OffsetInside
<1>3. \A d \in 1..n : q[d] = r[d]
  <2>1. ~(OffsetTo(shape, q, n) + Stride(shape, n) <= OffsetTo(shape, r, n))
    BY <1>1, <1>2
  <2>2. ~(OffsetTo(shape, r, n) + Stride(shape, n) <= OffsetTo(shape, q, n))
    BY <1>1, <1>2
  <2> QED
    BY <2>1, <2>2, <1>0, Apart
<1> QED
  BY <1>0, <1>3

\* A new array holds its value everywhere.
LEMMA NewArrayIs ==
    ASSUME NEW shape \in Shapes, NEW V, NEW v \in V
    PROVE  /\ NewArray(shape, v) \in Arrays(shape, V)
           /\ \A q \in Inside(shape) : At(NewArray(shape, v), q) = v
<1>1. NewArray(shape, v) \in Arrays(shape, V)
  BY DEF NewArray, Arrays
<1>2. ASSUME NEW q \in Inside(shape) PROVE At(NewArray(shape, v), q) = v
  BY OffsetInside DEF At, NewArray
<1> QED
  BY <1>1, <1>2

\* fill_region sets the region's elements and no other.
THEOREM FillRegionIs ==
    ASSUME NEW shape \in Shapes, NEW region \in Regions(shape), NEW V, NEW a \in Arrays(shape, V), NEW v \in V
    PROVE  /\ FillRegion(a, region, v) \in Arrays(shape, V)
           /\ \A q \in Inside(shape) :
                At(FillRegion(a, region, v), q) = IF InRegion(region, q, Len(shape)) THEN v ELSE At(a, q)
<1> DEFINE covered == UNION {t.index..(t.index + t.len - 1) : t \in Tiles(shape, region)}
           data == [i \in DOMAIN a.data |-> IF i \in covered THEN v ELSE a.data[i]]
<1>1. a.shape = shape /\ a.data \in [0..Volume(shape) - 1 -> V] /\ a = [shape |-> shape, data |-> a.data]
  BY DEF Arrays
<1>2. FillRegion(a, region, v) = [a EXCEPT !.data = data]
  BY <1>1 DEF FillRegion
<1>3. FillRegion(a, region, v) = [shape |-> shape, data |-> data]
  <2> HIDE DEF data
  <2> QED
    BY <1>1, <1>2
<1>4. data \in [0..Volume(shape) - 1 -> V]
  <2> HIDE DEF covered
  <2> QED
    BY <1>1
<1>5. ASSUME NEW q \in Inside(shape)
      PROVE  data[Offset(shape, q)] = IF InRegion(region, q, Len(shape)) THEN v ELSE a.data[Offset(shape, q)]
  <2>1. Offset(shape, q) \in DOMAIN a.data
    BY <1>1, OffsetInside
  <2>2. Offset(shape, q) \in covered <=> \E t \in Tiles(shape, region) : Offset(shape, q) \in t.index..t.index + t.len - 1
    OBVIOUS
  <2>3. Offset(shape, q) \in covered <=> InRegion(region, q, Len(shape))
    <3>1. q \in [1..Len(shape) -> Nat] /\ Within(shape, q, Len(shape))
      BY DEF Inside
    <3> HIDE DEF covered
    <3> QED
      BY <2>2, <3>1, TilesCover
  <2> HIDE DEF covered
  <2> QED
    BY <2>1, <2>3
<1> HIDE DEF data
<1> QED
  BY <1>1, <1>3, <1>4, <1>5 DEF At, Arrays

-----------------------------------------------------------------------------
(* Arrays with a last dimension for the k results (fill_broadcast_1d).     *)

\* The shape of the arrays that hold k results per point.
Deep(shape, kk) == Append(shape, kk)

\* The shape of an array with a place for each of kk results.
LEMMA DeepShape ==
    ASSUME NEW shape \in Shapes, NEW kk \in Nat \ {0}
    PROVE  /\ Deep(shape, kk) \in Shapes /\ Len(Deep(shape, kk)) = Len(shape) + 1
           /\ \A d \in 1..Len(shape) : Deep(shape, kk)[d] = shape[d]
           /\ Deep(shape, kk)[Len(shape) + 1] = kk
BY DEF Deep, Shapes

\* Its strides are kk times those of the places.
LEMMA DeepStrides ==
    ASSUME NEW shape \in Shapes, NEW kk \in Nat \ {0}
    PROVE  \A d \in 0..Len(shape) : Stride(Deep(shape, kk), d) = Stride(shape, d) * kk
<1> DEFINE n == Len(shape)
           T == {d \in 0..n : Stride(Deep(shape, kk), d) = Stride(shape, d) * kk}
<1>0. n \in Nat
  BY DEF Shapes
<1>1. /\ Stride(Deep(shape, kk), n + 1) = 1
      /\ \A d \in 0..n : Stride(Deep(shape, kk), d) = Deep(shape, kk)[d + 1] * Stride(Deep(shape, kk), d + 1)
  <2> DEFINE deep == Deep(shape, kk)
  <2>1. deep \in Shapes /\ Len(deep) = n + 1
    BY DeepShape
  <2> HIDE DEF deep
  <2>2. \A d \in 0..n : d \in 0..Len(deep) - 1
    BY <2>1, <1>0
  <2>3. Stride(deep, n + 1) = 1 /\ \A d \in 0..n : Stride(deep, d) = deep[d + 1] * Stride(deep, d + 1)
    BY <2>1, <2>2, Strides
  <2> QED
    BY <2>3 DEF deep
<1>2. /\ Stride(shape, n) = 1
      /\ \A d \in 0..n - 1 : Stride(shape, d) = shape[d + 1] * Stride(shape, d + 1)
      /\ \A d \in 0..n : Stride(shape, d) \in Nat
  BY Strides
<1>3. n \in T
  <2>1. n \in 0..n
    BY <1>0
  <2>2. Stride(Deep(shape, kk), n) = kk * 1
    BY <2>1, <1>1, DeepShape
  <2> QED
    BY <2>1, <2>2, <1>2
<1>4. \A d \in 0..n - 1 : d + 1 \in T => d \in T
  <2> SUFFICES ASSUME NEW d \in 0..n - 1, d + 1 \in T PROVE d \in T
    OBVIOUS
  <2> DEFINE x == shape[d + 1]
             y == Stride(shape, d + 1)
  <2>1. d + 1 \in 1..n /\ d \in 0..n /\ d + 1 \in 0..n
    BY <1>0
  <2>2. x \in Nat /\ y \in Nat
    BY <2>1, <1>2 DEF Shapes
  <2>3. Stride(Deep(shape, kk), d) = x * Stride(Deep(shape, kk), d + 1)
    BY <1>1, <2>1, DeepShape
  <2>4. Stride(Deep(shape, kk), d) = x * (y * kk)
    BY <2>3
  <2>5. x * (y * kk) = (x * y) * kk
    <3> HIDE DEF x, y
    <3> QED
      BY <2>2
  <2>6. Stride(shape, d) = x * y
    BY <1>2
  <2> HIDE DEF x, y
  <2> QED
    BY <2>1, <2>4, <2>5, <2>6
<1>5. 0..n \subseteq T
  <2> HIDE DEF T
  <2> QED
    BY <1>0, <1>3, <1>4, DownTo
<1> QED
  BY <1>5

\* The i-th result of a point is the i-th of the k elements that are the point's.
LEMMA DeepOffset ==
    ASSUME NEW shape \in Shapes, NEW kk \in Nat \ {0}, NEW q \in Inside(shape), NEW i \in Nat
    PROVE  Offset(Deep(shape, kk), Append(q, i)) = Offset(shape, q) * kk + i
<1> DEFINE n == Len(shape)
           deep == Deep(shape, kk)
           r == Append(q, i)
           T == {d \in 0..n : OffsetTo(deep, r, d) = OffsetTo(shape, q, d) * kk}
<1>0. /\ n \in Nat /\ n \in 0..Len(shape) /\ q \in [1..n -> Nat]
      /\ deep \in Shapes /\ Len(deep) = n + 1
  <2>1. deep \in Shapes /\ Len(deep) = n + 1
    BY DeepShape
  <2>2. n \in Nat
    BY DEF Shapes
  <2> QED
    BY <2>1, <2>2 DEF Inside
<1>1. /\ r \in [1..n + 1 -> Nat] /\ r[n + 1] = i
      /\ \A d \in 1..n : r[d] = q[d]
  <2>1. q \in Seq(Nat) /\ Len(q) = n
    BY <1>0
  <2>2. r \in Seq(Nat) /\ Len(r) = n + 1
    BY <2>1
  <2>3. r[n + 1] = i
    BY <2>1, <1>0
  <2>4. \A d \in 1..n : r[d] = q[d]
    BY <2>1, <1>0
  <2> HIDE DEF r
  <2> QED
    BY <2>2, <2>3, <2>4
<1> HIDE DEF deep, r
<1>2. /\ OffsetTo(shape, q, 0) = 0
      /\ \A d \in 0..n : OffsetTo(shape, q, d) \in Int
      /\ \A d \in 1..n : OffsetTo(shape, q, d) = OffsetTo(shape, q, d - 1) + q[d] * Stride(shape, d)
  <2>1. \A d \in 1..n : q[d] \in Int
    BY <1>0
  <2> QED
    BY <2>1, <1>0, Offsets
<1>3. /\ OffsetTo(deep, r, 0) = 0
      /\ \A d \in 1..n + 1 : OffsetTo(deep, r, d) = OffsetTo(deep, r, d - 1) + r[d] * Stride(deep, d)
  <2>1. n + 1 \in 0..Len(deep) /\ \A d \in 1..n + 1 : r[d] \in Int
    BY <1>0, <1>1
  <2> QED
    BY <2>1, <1>0, Offsets
<1>4. 0 \in T
  BY <1>0, <1>2, <1>3
<1>5. \A d \in 0..n - 1 : d \in T => d + 1 \in T
  <2> SUFFICES ASSUME NEW d \in 0..n - 1, d \in T PROVE d + 1 \in T
    OBVIOUS
  <2> DEFINE x == q[d + 1]
             y == Stride(shape, d + 1)
             o == OffsetTo(shape, q, d)
  <2>1. d + 1 \in 1..n /\ d + 1 \in 0..n /\ d + 1 \in 1..n + 1 /\ (d + 1) - 1 = d /\ d \in 0..n
    BY <1>0
  <2>2. x \in Nat /\ y \in Nat /\ o \in Int
    BY <2>1, <1>0, <1>2, Strides
  <2>3. Stride(deep, d + 1) = y * kk
    BY <2>1, DeepStrides DEF deep
  <2>4. OffsetTo(deep, r, d + 1) = o * kk + x * (y * kk)
    <3>1. OffsetTo(deep, r, d + 1) = OffsetTo(deep, r, d) + r[d + 1] * Stride(deep, d + 1)
      BY <1>3, <2>1
    <3>2. r[d + 1] = x /\ OffsetTo(deep, r, d) = o * kk
      BY <1>1, <2>1
    <3> QED
      BY <3>1, <3>2, <2>3
  <2>5. OffsetTo(shape, q, d + 1) = o + x * y
    BY <1>2, <2>1
  <2>6. (o + x * y) * kk = o * kk + x * (y * kk)
    <3> HIDE DEF x, y, o
    <3> QED
      BY <2>2
  <2> HIDE DEF x, y, o
  <2> QED
    BY <2>1, <2>4, <2>5, <2>6
<1>6. 0..n \subseteq T
  <2> HIDE DEF T
  <2> QED
    BY <1>0, <1>4, <1>5, UpTo
<1>7. OffsetTo(deep, r, n) = OffsetTo(shape, q, n) * kk
  BY <1>6, <1>0
<1>8. Stride(deep, n + 1) = 1
  BY <1>0, Strides
<1>9. OffsetTo(deep, r, n + 1) = OffsetTo(deep, r, n) + i
  <2>1. n + 1 \in 1..n + 1 /\ (n + 1) - 1 = n
    BY <1>0
  <2>2. OffsetTo(deep, r, n + 1) = OffsetTo(deep, r, n) + r[n + 1] * Stride(deep, n + 1)
    BY <2>1, <1>3
  <2> QED
    BY <2>2, <1>8, <1>1
<1>10. OffsetTo(deep, r, n + 1) = Offset(deep, r) /\ OffsetTo(shape, q, n) = Offset(shape, q)
  BY <1>0, <1>1, OffsetToAll
<1> QED
  BY <1>7, <1>9, <1>10 DEF deep, r

\* A region's points, each with all k results.
DeepRegion(region, kk) == Append(region, [lo |-> 0, hi |-> kk])

\* A region, with all kk places.
LEMMA DeepRegionIs ==
    ASSUME NEW shape \in Shapes, NEW kk \in Nat \ {0}, NEW region \in Regions(shape)
    PROVE  /\ DeepRegion(region, kk) \in Regions(Deep(shape, kk))
           /\ \A d \in 1..Len(shape) : DeepRegion(region, kk)[d] = region[d]
           /\ DeepRegion(region, kk)[Len(shape) + 1] = [lo |-> 0, hi |-> kk]
<1> DEFINE n == Len(shape)
           ext == DeepRegion(region, kk)
           last == [lo |-> 0, hi |-> kk]
<1>0. n \in Nat /\ region \in [1..n -> Ranges] /\ last \in Ranges
  BY RegionFacts DEF Ranges
<1>1. region \in Seq(Ranges) /\ Len(region) = n
  BY <1>0
<1>2. ext \in Seq(Ranges) /\ Len(ext) = n + 1
  BY <1>0, <1>1 DEF DeepRegion
<1>3. /\ \A d \in 1..n : ext[d] = region[d]
      /\ ext[n + 1] = last
  BY <1>0, <1>1 DEF DeepRegion
<1>4. ASSUME NEW d \in 1..n + 1 PROVE ext[d].lo < ext[d].hi /\ ext[d].hi <= Deep(shape, kk)[d]
  <2>1. CASE d = n + 1
    <3>1. Deep(shape, kk)[n + 1] = kk
      BY DeepShape
    <3> QED
      BY <2>1, <3>1, <1>3
  <2>2. CASE d # n + 1
    <3>1. d \in 1..n
      BY <2>2, <1>0
    <3> QED
      BY <3>1, <1>3, DeepShape, RegionFacts
  <2> QED
    BY <2>1, <2>2
<1>5. Len(Deep(shape, kk)) = n + 1
  BY DeepShape
<1> HIDE DEF ext
<1>6. ext \in [1..n + 1 -> Ranges]
  BY <1>2
<1>7. ext \in Regions(Deep(shape, kk))
  BY <1>4, <1>5, <1>6 DEF Regions
<1> QED
  BY <1>3, <1>7 DEF ext

\* A place of a point is in the array as the point is in the shape.
LEMMA DeepPoint ==
    ASSUME NEW shape \in Shapes, NEW kk \in Nat \ {0}, NEW q \in Inside(shape), NEW i \in 0..kk - 1
    PROVE  /\ Append(q, i) \in Inside(Deep(shape, kk))
           /\ \A region \in Regions(shape) :
                InRegion(DeepRegion(region, kk), Append(q, i), Len(shape) + 1) <=> InRegion(region, q, Len(shape))
<1> DEFINE n == Len(shape)
           r == Append(q, i)
<1>0. n \in Nat /\ q \in [1..n -> Nat] /\ \A d \in 1..n : q[d] < shape[d]
  BY DEF Shapes, Inside, Within
<1>1. q \in Seq(Nat) /\ Len(q) = n
  BY <1>0
<1>2. r \in Seq(Nat) /\ Len(r) = n + 1
  BY <1>1
<1>3. r[n + 1] = i /\ \A d \in 1..n : r[d] = q[d]
  BY <1>0, <1>1
<1> HIDE DEF r
<1>4. r \in [1..n + 1 -> Nat]
  BY <1>2
<1>5. ASSUME NEW d \in 1..n + 1 PROVE r[d] \in Nat /\ r[d] < Deep(shape, kk)[d]
  <2>1. CASE d = n + 1
    <3>1. Deep(shape, kk)[n + 1] = kk
      BY DeepShape
    <3> QED
      BY <2>1, <3>1, <1>3
  <2>2. CASE d # n + 1
    <3>1. d \in 1..n
      BY <2>2, <1>0
    <3> QED
      BY <3>1, <1>3, <1>0, DeepShape
  <2> QED
    BY <2>1, <2>2
<1>6. r \in Inside(Deep(shape, kk))
  BY <1>4, <1>5, DeepShape DEF Inside, Within
<1>7. ASSUME NEW region \in Regions(shape)
      PROVE  InRegion(DeepRegion(region, kk), r, n + 1) <=> InRegion(region, q, n)
  <2> DEFINE ext == DeepRegion(region, kk)
  <2>1. (\A d \in 1..n : ext[d] = region[d]) /\ ext[n + 1] = [lo |-> 0, hi |-> kk]
    BY DeepRegionIs
  <2> HIDE DEF ext
  <2>2. 1..n + 1 = (1..n) \cup {n + 1}
    BY <1>0
  <2>3. ext[n + 1].lo <= r[n + 1] /\ r[n + 1] < ext[n + 1].hi /\ r[n + 1] \in Nat
    BY <2>1, <1>3
  <2>4. InRegion(ext, r, n + 1) <=> InRegion(ext, r, n)
    BY <2>2, <2>3 DEF InRegion
  <2>5. InRegion(ext, r, n) <=> InRegion(region, q, n)
    BY <2>1, <1>3 DEF InRegion
  <2> QED
    BY <2>4, <2>5 DEF ext
<1> QED
  BY <1>6, <1>7 DEF r

\* A fill that runs on ends with the last of the elements that it may run through.
LEMMA FillEndIs ==
    ASSUME NEW shape \in Shapes, NEW filled \in Arrays(shape, Nat), NEW end \in 0..Volume(shape)
    PROVE  /\ FillEnd(filled, end) \in end..Volume(shape)
           /\ \A i \in end..FillEnd(filled, end) - 1 : filled.data[i] <= 1
<1> DEFINE size == Volume(shape)
           Ends == {e \in end..size : \A i \in end..e - 1 : filled.data[i] <= 1}
           Rests == {size - e : e \in Ends}
<1>0. size \in Nat /\ filled.shape = shape
  <2>1. Len(shape) \in Nat
    BY DEF Shapes
  <2> QED
    BY <2>1, Strides DEF Volume, Arrays
<1>1. end \in Ends
  BY <1>0
<1>2. Rests \in SUBSET Nat /\ Rests # {}
  BY <1>0, <1>1
<1>3. PICK x \in Rests : \A y \in Rests : x <= y
  <2> HIDE DEF Rests
  <2> QED
    BY <1>2, LeastNat
<1>4. \E e \in Ends : \A f \in Ends : e >= f
  <2>1. PICK e \in Ends : x = size - e
    BY <1>3
  <2>2. ASSUME NEW f \in Ends PROVE e >= f
    <3>1. size - e <= size - f
      BY <1>3, <2>1
    <3> QED
      BY <3>1, <1>0
  <2> QED
    BY <2>2
<1>5. FillEnd(filled, end) = CHOOSE e \in Ends : \A f \in Ends : e >= f
  BY <1>0 DEF FillEnd, Max
<1>6. FillEnd(filled, end) \in Ends
  <2> HIDE DEF Ends
  <2> QED
    BY <1>4, <1>5
<1> QED
  BY <1>6

\* The buffer has kk places for each place of the shape.
LEMMA DeepVolume ==
    ASSUME NEW shape \in Shapes, NEW kk \in Nat \ {0}
    PROVE  Volume(Deep(shape, kk)) = Volume(shape) * kk /\ Volume(shape) \in Nat
<1>1. 0 \in 0..Len(shape)
  BY DEF Shapes
<1> QED
  BY <1>1, DeepStrides, Strides DEF Volume

\* fill_broadcast_1d of a single result, which may run on through elements of filled
\* that say that their point has none.
LEMMA FillThroughIs ==
    ASSUME NEW shape \in Shapes, NEW region \in Regions(shape), NEW V, NEW a \in Arrays(Deep(shape, 1), V),
           NEW v \in V, NEW filled \in Arrays(shape, Nat)
    PROVE  LET new == FillThrough(a, DeepRegion(region, 1), v, filled)
           IN  /\ new \in Arrays(Deep(shape, 1), V)
               /\ \A q \in Inside(shape) :
                    /\ InRegion(region, q, Len(shape)) => At(new, Append(q, 0)) = v
                    /\ ~InRegion(region, q, Len(shape)) /\ At(filled, q) >= 2 =>
                          At(new, Append(q, 0)) = At(a, Append(q, 0))
<1> DEFINE deep == Deep(shape, 1)
           ext == DeepRegion(region, 1)
           Covers(t, i) == i \in t.index..(FillEnd(filled, t.index + t.len) - 1)
           covered == UNION {t.index..(FillEnd(filled, t.index + t.len) - 1) : t \in Tiles(deep, ext)}
           data == [i \in DOMAIN a.data |-> IF i \in covered THEN v ELSE a.data[i]]
           new == FillThrough(a, ext, v, filled)
           n == Len(shape)
<1>0. deep \in Shapes /\ ext \in Regions(deep) /\ Len(deep) = n + 1 /\ Volume(deep) = Volume(shape) /\ Volume(shape) \in Nat
  <2>1. deep \in Shapes /\ Len(deep) = n + 1
    BY DeepShape
  <2>2. ext \in Regions(deep)
    <3>1. 1 \in Nat \ {0}
      OBVIOUS
    <3> QED
      BY <3>1, DeepRegionIs
  <2>3. Volume(deep) = Volume(shape) * 1 /\ Volume(shape) \in Nat
    BY DeepVolume
  <2> QED
    BY <2>1, <2>2, <2>3
<1>1. a.shape = deep /\ a.data \in [0..Volume(deep) - 1 -> V] /\ a = [shape |-> deep, data |-> a.data]
  BY DEF Arrays
<1>2. new = [a EXCEPT !.data = data]
  BY <1>1 DEF FillThrough
<1>3. new = [shape |-> deep, data |-> data]
  <2> HIDE DEF data, new, deep
  <2> QED
    BY <1>1, <1>2
<1>4. data \in [0..Volume(deep) - 1 -> V]
  <2> HIDE DEF covered, deep
  <2> QED
    BY <1>1
<1>5. \A i : i \in covered <=> \E t \in Tiles(deep, ext) : Covers(t, i)
  OBVIOUS
<1>6. ASSUME NEW t \in Tiles(deep, ext)
      PROVE  /\ t.index \in Nat /\ t.len \in Nat /\ t.index + t.len \in 0..Volume(shape)
             /\ FillEnd(filled, t.index + t.len) \in t.index + t.len..Volume(shape)
             /\ \A i \in t.index + t.len..FillEnd(filled, t.index + t.len) - 1 : filled.data[i] <= 1
  <2> HIDE DEF deep, ext
  <2>1. t.index \in Nat /\ t.len \in Nat /\ t.index + t.len <= Volume(deep)
    BY <1>0, TilesFit
  <2>2. t.index + t.len \in 0..Volume(shape)
    BY <2>1, <1>0
  <2> QED
    BY <2>1, <2>2, FillEndIs
<1>7. ASSUME NEW q \in Inside(shape)
      PROVE  /\ InRegion(region, q, n) => data[Offset(deep, Append(q, 0))] = v
             /\ ~InRegion(region, q, n) /\ At(filled, q) >= 2 =>
                   data[Offset(deep, Append(q, 0))] = a.data[Offset(deep, Append(q, 0))]
  <2> DEFINE r == Append(q, 0)
             i == Offset(deep, r)
  <2>1. r \in Inside(deep) /\ (InRegion(ext, r, n + 1) <=> InRegion(region, q, n))
    BY DeepPoint
  <2>2. i = Offset(shape, q) * 1 + 0
    BY DeepOffset
  <2>3. Offset(shape, q) \in 0..Volume(shape) - 1
    BY OffsetInside
  <2>4. i = Offset(shape, q) /\ i \in 0..Volume(shape) - 1
    <3> HIDE DEF i
    <3> QED
      BY <2>2, <2>3, <1>0
  <2>5. r \in [1..Len(deep) -> Nat] /\ Within(deep, r, Len(deep))
    BY <2>1 DEF Inside
  <2>6. (\E t \in Tiles(deep, ext) : i \in t.index..t.index + t.len - 1) <=> InRegion(ext, r, Len(deep))
    <3> HIDE DEF deep, ext, r
    <3> QED
      BY <2>5, <1>0, TilesCover
  <2> HIDE DEF i, r, deep, ext
  <2>7. ASSUME InRegion(region, q, n) PROVE i \in covered
    <3>1. PICK t \in Tiles(deep, ext) : i \in t.index..t.index + t.len - 1
      BY <2>7, <2>6, <2>1, <1>0
    <3>2. Covers(t, i)
      <4>1. PICK f \in Nat : f = FillEnd(filled, t.index + t.len) /\ t.index + t.len <= f
        BY <1>6, <1>0
      <4> QED
        BY <3>1, <4>1, <1>6
    <3> QED
      BY <3>2, <1>5
  <2>8. ASSUME ~InRegion(region, q, n), At(filled, q) >= 2 PROVE i \notin covered
    <3> SUFFICES ASSUME NEW t \in Tiles(deep, ext), Covers(t, i) PROVE FALSE
      BY <1>5
    <3>1. i \notin t.index..t.index + t.len - 1
      BY <2>8, <2>6, <2>1, <1>0
    <3>2. i \in t.index + t.len..FillEnd(filled, t.index + t.len) - 1
      <4>1. PICK f \in Nat : f = FillEnd(filled, t.index + t.len) /\ t.index + t.len <= f
        BY <1>6, <1>0
      <4> QED
        BY <3>1, <4>1, <1>6, <2>4, <1>0
    <3>3. filled.data[i] <= 1
      BY <3>2, <1>6
    <3>4. filled.data[i] = At(filled, q)
      BY <2>4 DEF At, Arrays
    <3>5. At(filled, q) \in Nat
      BY <2>4, <3>4, <1>0 DEF Arrays
    <3> QED
      BY <3>3, <3>4, <3>5, <2>8
  <2>9. i \in DOMAIN a.data
    BY <1>1, <1>0, <2>4
  <2> HIDE DEF covered
  <2> QED
    BY <2>7, <2>8, <2>9 DEF i, r
<1>8. \A x : At(new, x) = data[Offset(deep, x)] /\ At(a, x) = a.data[Offset(deep, x)]
  <2> HIDE DEF data, new, deep
  <2> QED
    BY <1>1, <1>3 DEF At
<1>9. new \in Arrays(deep, V)
  <2> HIDE DEF data, new, deep
  <2> QED
    BY <1>3, <1>4 DEF Arrays
<1> HIDE DEF data
<1> QED
  BY <1>7, <1>8, <1>9

\* fill_broadcast_1d with room for several results, element by element.
Broadcast(a, region, values, kk) ==
    LET ext == DeepRegion(region, kk)
        Hit(i) == \E pt \in PointsOf(ext) : Offset(a.shape, pt) = i
    IN  [a EXCEPT !.data = [i \in DOMAIN @ |-> IF i % kk < Len(values) /\ Hit(i)
                                               THEN values[(i % kk) + 1] ELSE @[i]]]

\* With room for several results, each place takes the result of its number.
LEMMA BroadcastIs ==
    ASSUME NEW shape \in Shapes, NEW kk \in Nat \ {0}, NEW region \in Regions(shape), NEW V,
           NEW a \in Arrays(Deep(shape, kk), V), NEW values \in Seq(V)
    PROVE  LET new == Broadcast(a, region, values, kk)
           IN  /\ new \in Arrays(Deep(shape, kk), V)
               /\ \A q \in Inside(shape) : \A j \in 0..kk - 1 :
                    /\ InRegion(region, q, Len(shape)) /\ j < Len(values) =>
                          At(new, Append(q, j)) = values[j + 1]
                    /\ ~InRegion(region, q, Len(shape)) => At(new, Append(q, j)) = At(a, Append(q, j))
<1> DEFINE deep == Deep(shape, kk)
           ext == DeepRegion(region, kk)
           Hit(i) == \E pt \in PointsOf(ext) : Offset(deep, pt) = i
           data == [i \in DOMAIN a.data |-> IF i % kk < Len(values) /\ Hit(i) THEN values[(i % kk) + 1] ELSE a.data[i]]
           new == Broadcast(a, region, values, kk)
           n == Len(shape)
<1>0. deep \in Shapes /\ ext \in Regions(deep) /\ Len(deep) = n + 1 /\ n \in Nat
  <2>1. deep \in Shapes /\ Len(deep) = n + 1
    BY DeepShape
  <2>2. n \in Nat
    BY DEF Shapes
  <2> QED
    BY <2>1, <2>2, DeepRegionIs
<1>1. a.shape = deep /\ a.data \in [0..Volume(deep) - 1 -> V] /\ a = [shape |-> deep, data |-> a.data]
  BY DEF Arrays
<1>2. new = [a EXCEPT !.data = data]
  BY <1>1 DEF Broadcast
<1>3. new = [shape |-> deep, data |-> data]
  <2> HIDE DEF data, new, deep
  <2> QED
    BY <1>1, <1>2
<1>4. data \in [0..Volume(deep) - 1 -> V]
  <2>0. Len(values) \in Nat /\ \A j \in 1..Len(values) : values[j] \in V
    OBVIOUS
  <2>1. ASSUME NEW i \in DOMAIN a.data, i % kk < Len(values) PROVE values[(i % kk) + 1] \in V
    <3>1. i \in Nat
      BY <1>1
    <3>2. i % kk \in 0..kk - 1
      BY <3>1, DivMod
    <3> QED
      BY <3>2, <2>1, <2>0
  <2> HIDE DEF Hit, deep
  <2> QED
    BY <1>1, <2>1
<1>5. ASSUME NEW q \in Inside(shape), NEW j \in 0..kk - 1
      PROVE  /\ InRegion(region, q, n) /\ j < Len(values) => data[Offset(deep, Append(q, j))] = values[j + 1]
             /\ ~InRegion(region, q, n) => data[Offset(deep, Append(q, j))] = a.data[Offset(deep, Append(q, j))]
  <2> DEFINE r == Append(q, j)
             i == Offset(deep, r)
  <2>1. r \in Inside(deep) /\ (InRegion(ext, r, n + 1) <=> InRegion(region, q, n))
    BY DeepPoint
  <2>2. i \in DOMAIN a.data /\ i \in Nat
    <3> HIDE DEF r, deep
    <3>1. i \in 0..Volume(deep) - 1
      BY <2>1, <1>0, OffsetInside
    <3>2. DOMAIN a.data = 0..Volume(deep) - 1
      BY <1>1
    <3>3. Volume(deep) \in Nat
      BY <1>0, Strides DEF Volume
    <3> HIDE DEF i
    <3> QED
      BY <3>1, <3>2, <3>3
  <2>3. i % kk = j
    <3>1. i = Offset(shape, q) * kk + j
      BY DeepOffset
    <3>2. Offset(shape, q) \in Nat
      BY OffsetInside
    <3> HIDE DEF i
    <3> QED
      BY <3>1, <3>2, <2>2, DivModUnique
  <2>4. \A pt : pt \in PointsOf(ext) <=> pt \in [1..n + 1 -> Nat] /\ InRegion(ext, pt, n + 1)
    <3> HIDE DEF ext, deep
    <3>1. ext \in [1..n + 1 -> Ranges] /\ n + 1 \in Nat /\ n + 1 \in 0..n + 1
      BY <1>0 DEF Regions
    <3>2. SubSeq(ext, 1, n + 1) = ext
      BY <3>1
    <3> QED
      BY <3>1, <3>2, PointsAre
  <2> HIDE DEF r, ext, deep
  <2>5. Hit(i) <=> InRegion(ext, r, n + 1)
    <3>1. ASSUME InRegion(ext, r, n + 1) PROVE Hit(i)
      <4>1. r \in PointsOf(ext)
        BY <3>1, <2>1, <2>4, <1>0 DEF Inside
      <4> QED
        BY <4>1
    <3>2. ASSUME NEW pt \in PointsOf(ext), Offset(deep, pt) = i PROVE InRegion(ext, r, n + 1)
      <4>1. pt \in [1..n + 1 -> Nat] /\ InRegion(ext, pt, n + 1)
        BY <2>4
      <4>2. Within(deep, pt, n + 1)
        BY <4>1, <1>0, InRegionWithin
      <4>3. pt \in Inside(deep)
        BY <4>1, <4>2, <1>0 DEF Inside
      <4>4. pt = r
        BY <4>3, <2>1, <3>2, <1>0, OffsetDistinct
      <4> QED
        BY <4>1, <4>4
    <3> QED
      BY <3>1, <3>2
  <2>6. data[i] = IF j < Len(values) /\ InRegion(region, q, n) THEN values[j + 1] ELSE a.data[i]
    <3> HIDE DEF i, Hit
    <3> QED
      BY <2>2, <2>3, <2>5, <2>1
  <2> HIDE DEF data, i
  <2> QED
    BY <2>6 DEF i, r
<1>8. \A x : At(new, x) = data[Offset(deep, x)] /\ At(a, x) = a.data[Offset(deep, x)]
  <2> HIDE DEF data, new, deep
  <2> QED
    BY <1>1, <1>3 DEF At
<1>9. new \in Arrays(deep, V)
  <2> HIDE DEF data, new, deep
  <2> QED
    BY <1>3, <1>4 DEF Arrays
<1> HIDE DEF data
<1> QED
  BY <1>5, <1>8, <1>9

\* A sequence of one.
LEMMA OneValue ==
    ASSUME NEW V, NEW s \in Seq(V), s # <<>>, Len(s) <= 1
    PROVE  Len(s) = 1 /\ Head(s) = s[1] /\ Head(s) \in V
<1>1. Len(s) \in Nat \ {0}
  BY EmptySeq
<1>2. \A n \in Nat \ {0} : n <= 1 => n = 1
  OBVIOUS
<1>3. Len(s) = 1
  BY <1>1, <1>2, Zenon
<1>4. Head(s) \in V
  BY HeadTailProperties
<1>5. Head(s) = s[1]
  BY <1>3
<1> QED
  BY <1>3, <1>4, <1>5

\* fill_broadcast_1d: the points of the region have the values, and those elsewhere
\* that have results keep them.
LEMMA FillBroadcastIs ==
    ASSUME NEW shape \in Shapes, NEW kk \in Nat \ {0}, NEW region \in Regions(shape), NEW V,
           NEW a \in Arrays(Deep(shape, kk), V), NEW values \in Seq(V), Len(values) <= kk,
           NEW filled \in Arrays(shape, Nat)
    PROVE  LET new == FillBroadcast(a, region, values, filled)
           IN  /\ new \in Arrays(Deep(shape, kk), V)
               /\ \A q \in Inside(shape) : \A j \in 0..kk - 1 :
                    /\ InRegion(region, q, Len(shape)) /\ j < Len(values) =>
                          At(new, Append(q, j)) = values[j + 1]
                    /\ ~InRegion(region, q, Len(shape)) /\ At(filled, q) >= 2 =>
                          At(new, Append(q, j)) = At(a, Append(q, j))
<1>0. a.shape[Len(a.shape)] = kk
  <2>1. a.shape = Deep(shape, kk)
    BY DEF Arrays
  <2>2. Len(Deep(shape, kk)) = Len(shape) + 1 /\ Deep(shape, kk)[Len(shape) + 1] = kk
    BY DeepShape
  <2> QED
    BY <2>1, <2>2, Zenon
<1>1. FillBroadcast(a, region, values, filled) =
         CASE values = <<>> -> a
           [] kk = 1 /\ values # <<>> -> FillThrough(a, DeepRegion(region, kk), Head(values), filled)
           [] OTHER -> Broadcast(a, region, values, kk)
  BY <1>0 DEF FillBroadcast, Broadcast, DeepRegion
<1>2. CASE values = <<>>
  <2>1. FillBroadcast(a, region, values, filled) = a
    BY <1>1, <1>2
  <2> QED
    BY <2>1, <1>2
<1>3. CASE values # <<>> /\ kk = 1
  <2>1. FillBroadcast(a, region, values, filled) = FillThrough(a, DeepRegion(region, 1), Head(values), filled)
    BY <1>1, <1>3
  <2>2. Len(values) = 1 /\ Head(values) = values[1] /\ Head(values) \in V
    BY <1>3, OneValue
  <2>3. a \in Arrays(Deep(shape, 1), V)
    BY <1>3
  <2>4. \A j \in 0..kk - 1 : j = 0
    BY <1>3
  <2> QED
    BY <2>1, <2>2, <2>3, <2>4, <1>3, FillThroughIs
<1>4. CASE values # <<>> /\ kk # 1
  <2>1. FillBroadcast(a, region, values, filled) = Broadcast(a, region, values, kk)
    BY <1>1, <1>4
  <2> QED
    BY <2>1, BroadcastIs
<1> QED
  BY <1>2, <1>3, <1>4

-----------------------------------------------------------------------------
(* Blocks.                                                                 *)

Values == Payloads \cup {None}

\* The blocks of a shape.
BlocksOf(shape) == [filled : Arrays(shape, 0..k + 1), data : Arrays(Deep(shape, k), Values)]

\* Arrays of some values are arrays of more.
LEMMA ArraysMonotonic ==
    ASSUME NEW shape, NEW V, NEW W, V \subseteq W
    PROVE  Arrays(shape, V) \subseteq Arrays(shape, W)
BY DEF Arrays

\* What an array holds at a place.
LEMMA AtIn ==
    ASSUME NEW shape \in Shapes, NEW V, NEW a \in Arrays(shape, V), NEW q \in Inside(shape)
    PROVE  At(a, q) \in V
BY OffsetInside DEF At, Arrays

\* A new block has nothing anywhere (WholeBlock::empty).
LEMMA EmptyBlockIs ==
    ASSUME k \in Nat \ {0}, NEW shape \in Shapes
    PROVE  /\ EmptyBlock(shape) \in BlocksOf(shape)
           /\ \A q \in Inside(shape) : GetInBlock(EmptyBlock(shape), q) = None
<1>1. 0 \in 0..k + 1 /\ None \in Values
  BY DEF Values
<1>2. /\ NewArray(shape, 0) \in Arrays(shape, 0..k + 1)
      /\ \A q \in Inside(shape) : At(NewArray(shape, 0), q) = 0
  BY <1>1, NewArrayIs
<1>3. NewArray(Deep(shape, k), None) \in Arrays(Deep(shape, k), Values)
  <2>1. Deep(shape, k) \in Shapes
    BY DeepShape
  <2> QED
    BY <1>1, <2>1, NewArrayIs
<1>4. EmptyBlock(shape) = [filled |-> NewArray(shape, 0), data |-> NewArray(Deep(shape, k), None)]
  BY DEF EmptyBlock, Deep
<1>5. EmptyBlock(shape) \in BlocksOf(shape)
  BY <1>2, <1>3, <1>4 DEF BlocksOf
<1>6. EmptyBlock(shape).filled = NewArray(shape, 0)
  BY <1>4
<1> QED
  BY <1>2, <1>5, <1>6 DEF GetInBlock

\* A result takes the cells of the region; all others give what they gave.
THEOREM FillBlockIs ==
    ASSUME k \in Nat \ {0}, NEW shape \in Shapes, NEW region \in Regions(shape),
           NEW block \in BlocksOf(shape), NEW r \in Results, Len(r) <= k
    PROVE  /\ FillBlock(block, region, r) \in BlocksOf(shape)
           /\ \A q \in Inside(shape) :
                GetInBlock(FillBlock(block, region, r), q) =
                    IF InRegion(region, q, Len(shape)) THEN r ELSE GetInBlock(block, q)
<1> DEFINE size == Len(r)
           old == block.filled
           filled == FillRegion(old, region, size + 1)
           data == FillBroadcast(block.data, region, r, filled)
           new == FillBlock(block, region, r)
           n == Len(shape)
<1>0. r \in Seq(Payloads) /\ r \in Seq(Values)
  <2>1. r \in Seq(Payloads)
    BY DbTableAssumption
  <2>2. Payloads \subseteq Values
    BY DEF Values
  <2> QED
    BY <2>1, <2>2, SeqMonotonic
<1>1. size \in Nat /\ size + 1 \in 0..k + 1 /\ size + 1 - 1 = size
  <2>1. size \in Nat
    BY <1>0, LenProperties
  <2>2. \A m \in Nat : m <= k => m + 1 \in 0..k + 1 /\ m + 1 - 1 = m
    OBVIOUS
  <2> QED
    BY <2>1, <2>2, Zenon
<1>2. old \in Arrays(shape, 0..k + 1) /\ block.data \in Arrays(Deep(shape, k), Values)
  BY DEF BlocksOf
<1>3. /\ filled \in Arrays(shape, 0..k + 1)
      /\ \A q \in Inside(shape) : At(filled, q) = IF InRegion(region, q, n) THEN size + 1 ELSE At(old, q)
  <2> HIDE DEF old, size
  <2> QED
    BY <1>1, <1>2, FillRegionIs
<1>4. filled \in Arrays(shape, Nat)
  <2>1. 0..k + 1 \subseteq Nat
    OBVIOUS
  <2> HIDE DEF filled
  <2> QED
    BY <2>1, <1>3, ArraysMonotonic
<1>5. /\ data \in Arrays(Deep(shape, k), Values)
      /\ \A q \in Inside(shape) : \A j \in 0..k - 1 :
            /\ InRegion(region, q, n) /\ j < size => At(data, Append(q, j)) = r[j + 1]
            /\ ~InRegion(region, q, n) /\ At(filled, q) >= 2 =>
                  At(data, Append(q, j)) = At(block.data, Append(q, j))
  <2> HIDE DEF filled
  <2> QED
    BY <1>0, <1>2, <1>4, FillBroadcastIs
<1>6. new = [filled |-> filled, data |-> data]
  BY DEF FillBlock
<1> HIDE DEF filled, data, new
<1>7. new \in BlocksOf(shape) /\ new.filled = filled /\ new.data = data
  BY <1>3, <1>5, <1>6 DEF BlocksOf
<1>8. ASSUME NEW q \in Inside(shape), InRegion(region, q, n) PROVE GetInBlock(new, q) = r
  <2>1. At(filled, q) = size + 1
    BY <1>3, <1>8
  <2>2. GetInBlock(new, q) = [i \in 1..size |-> At(data, Append(q, i - 1))]
    <3> HIDE DEF size
    <3> QED
      BY <2>1, <1>1, <1>7 DEF GetInBlock
  <2>3. \A i \in 1..size : At(data, Append(q, i - 1)) = r[i]
    <3> SUFFICES ASSUME NEW i \in 1..size PROVE At(data, Append(q, i - 1)) = r[i]
      OBVIOUS
    <3> HIDE DEF size
    <3>1. i - 1 \in 0..k - 1 /\ i - 1 < size /\ (i - 1) + 1 = i
      BY <1>1
    <3> QED
      BY <3>1, <1>5, <1>8
  <2>4. r = [i \in 1..size |-> r[i]]
    BY <1>0, LenProperties
  <2> HIDE DEF size
  <2> QED
    BY <2>2, <2>3, <2>4
<1>9. ASSUME NEW q \in Inside(shape), ~InRegion(region, q, n) PROVE GetInBlock(new, q) = GetInBlock(block, q)
  <2> DEFINE m == At(filled, q)
  <2>1. m = At(old, q) /\ m \in 0..k + 1
    <3> HIDE DEF old
    <3>1. At(filled, q) = At(old, q)
      BY <1>3, <1>9
    <3> QED
      BY <3>1, <1>2, AtIn
  <2> HIDE DEF m
  <2>2. CASE m = 0
    BY <2>1, <2>2, <1>7 DEF GetInBlock, m
  <2>3. CASE m # 0
    <3>1. \A i \in 1..m - 1 : At(data, Append(q, i - 1)) = At(block.data, Append(q, i - 1))
      <4> SUFFICES ASSUME NEW i \in 1..m - 1 PROVE At(data, Append(q, i - 1)) = At(block.data, Append(q, i - 1))
        OBVIOUS
      <4>1. i - 1 \in 0..k - 1 /\ m >= 2
        BY <2>1
      <4> QED
        BY <4>1, <1>5, <1>9 DEF m
    <3>2. GetInBlock(new, q) = [i \in 1..m - 1 |-> At(data, Append(q, i - 1))]
      BY <2>3, <1>7 DEF GetInBlock, m
    <3>3. GetInBlock(block, q) = [i \in 1..m - 1 |-> At(block.data, Append(q, i - 1))]
      BY <2>1, <2>3 DEF GetInBlock
    <3> QED
      BY <3>1, <3>2, <3>3
  <2> QED
    BY <2>2, <2>3
<1> QED
  BY <1>7, <1>8, <1>9 DEF new

-----------------------------------------------------------------------------
(* Coordinates.                                                            *)

\* Coordinates of a Spec of the table and limits make a point.
LEMMA PointOf ==
    ASSUME NEW p \in SpecPts, NEW m \in Limits
    PROVE  p \o m \in Points
BY DEF Points

\* The dimensions of a table.
LEMMA RankIs ==
    /\ PrefixLen \in Nat /\ Len(LevelMax) \in Nat /\ Rank \in Nat /\ Rank = PrefixLen + Len(LevelMax)
    /\ \A d \in 1..Rank : BlockSize(d) \in Nat \ {0}
    /\ \A d \in PrefixLen + 1..Rank : LevelMax[d - PrefixLen] \in Nat
<1>1. LevelMax \in Seq(Nat) /\ SpecPts # {} /\ (\A p \in SpecPts : p \in Seq(Nat) /\ Len(p) = PrefixLen)
      /\ \A d \in 1..Rank : BlockSize(d) \in Nat \ {0}
  BY DbTableAssumption
<1>2. PrefixLen \in Nat
  <2>1. PICK p \in SpecPts : TRUE
    BY <1>1
  <2>2. p \in Seq(Nat) /\ Len(p) = PrefixLen
    BY <1>1
  <2> QED
    BY <2>2, LenProperties
<1>3. Len(LevelMax) \in Nat /\ \A l \in 1..Len(LevelMax) : LevelMax[l] \in Nat
  BY <1>1, LenProperties, ElementOfSeq
<1>4. Rank = PrefixLen + Len(LevelMax)
  BY DEF Rank
<1>5. \A a \in Nat, b \in Nat : \A d \in a + 1..a + b : d - a \in 1..b
  OBVIOUS
<1>6. ASSUME NEW d \in PrefixLen + 1..Rank PROVE LevelMax[d - PrefixLen] \in Nat
  BY <1>2, <1>3, <1>4, <1>5
<1>7. Rank \in Nat
  BY <1>2, <1>3, <1>4
<1> QED
  BY <1>1, <1>2, <1>3, <1>4, <1>6, <1>7

\* Functions on 1..n are sequences.
LEMMA AsSeq ==
    ASSUME NEW n \in Nat, NEW f \in [1..n -> Nat]
    PROVE  f \in Seq(Nat) /\ Len(f) = n
OBVIOUS

\* Limits are at most the target's.
LEMMA LimitsAre ==
    ASSUME NEW m
    PROVE  m \in Limits <=> /\ m \in [1..Len(LevelMax) -> Nat]
                            /\ \A l \in 1..Len(LevelMax) : m[l] <= LevelMax[l]
<1> DEFINE Bounds == UNION {0..LevelMax[l] : l \in Levels}
<1>1. Levels = 1..Len(LevelMax)
  BY DEF Levels
<1>2. \A l \in Levels : LevelMax[l] \in Nat
  BY <1>1, DbTableAssumption, ElementOfSeq
<1>3. Limits = {x \in [Levels -> Bounds] : \A l \in Levels : x[l] <= LevelMax[l]}
  BY DEF Limits
<1>4. Bounds \subseteq Nat
  BY <1>2
<1>5. ASSUME m \in [Levels -> Nat], \A l \in Levels : m[l] <= LevelMax[l] PROVE m \in [Levels -> Bounds]
  <2>1. ASSUME NEW l \in Levels PROVE m[l] \in Bounds
    <3>1. m[l] \in 0..LevelMax[l]
      BY <1>5, <1>2
    <3> QED
      BY <3>1
  <2> HIDE DEF Bounds
  <2> QED
    BY <2>1, <1>5
<1> HIDE DEF Bounds
<1> QED
  BY <1>1, <1>3, <1>4, <1>5

\* A point's coordinates.
LEMMA PointIs ==
    ASSUME NEW pt \in Points
    PROVE  /\ pt \in [1..Rank -> Nat]
           /\ \A d \in PrefixLen + 1..Rank : pt[d] <= LevelMax[d - PrefixLen]
<1>1. PICK p \in SpecPts, m \in Limits : pt = p \o m
  BY DEF Points
<1>2. p \in Seq(Nat) /\ Len(p) = PrefixLen
  BY DbTableAssumption
<1>3. m \in [1..Len(LevelMax) -> Nat] /\ \A l \in 1..Len(LevelMax) : m[l] <= LevelMax[l]
  BY LimitsAre
<1>4. m \in Seq(Nat) /\ Len(m) = Len(LevelMax)
  BY <1>3, RankIs
<1>5. pt \in Seq(Nat) /\ Len(pt) = Rank /\
      \A i \in 1..Rank : pt[i] = IF i <= PrefixLen THEN p[i] ELSE m[i - PrefixLen]
  <2>1. /\ p \o m \in Seq(Nat)
        /\ Len(p \o m) = Len(p) + Len(m)
        /\ \A i \in 1..Len(p) + Len(m) : (p \o m)[i] = IF i <= Len(p) THEN p[i] ELSE m[i - Len(p)]
    BY <1>2, <1>4, ConcatProperties
  <2> QED
    BY <2>1, <1>1, <1>2, <1>4, RankIs
<1>6. pt \in [1..Rank -> Nat]
  BY <1>5, LenProperties
<1>7. ASSUME NEW d \in PrefixLen + 1..Rank PROVE pt[d] <= LevelMax[d - PrefixLen]
  <2>1. \A a \in Nat, b \in Nat : \A x \in a + 1..a + b : x - a \in 1..b /\ x \in 1..a + b /\ ~(x <= a)
    OBVIOUS
  <2>2. d - PrefixLen \in 1..Len(LevelMax) /\ d \in 1..Rank /\ ~(d <= PrefixLen)
    BY <2>1, RankIs
  <2> QED
    BY <2>2, <1>3, <1>5
<1> QED
  BY <1>6, <1>7

\* Points differ from others of their Spec in the limits only.
LEMMA PointClosed ==
    ASSUME NEW pt \in Points, NEW q \in [1..Rank -> Nat],
           \A d \in 1..PrefixLen : q[d] = pt[d],
           \A d \in PrefixLen + 1..Rank : q[d] <= LevelMax[d - PrefixLen]
    PROVE  q \in Points
<1>1. PICK p \in SpecPts, m \in Limits : pt = p \o m
  BY DEF Points
<1>2. p \in Seq(Nat) /\ Len(p) = PrefixLen
  BY DbTableAssumption
<1> DEFINE x == [l \in 1..Len(LevelMax) |-> q[PrefixLen + l]]
<1>3. \A a \in Nat, b \in Nat : \A l \in 1..b : a + l \in a + 1..a + b /\ a + l \in 1..a + b /\ (a + l) - a = l
  OBVIOUS
<1>4. \A l \in 1..Len(LevelMax) : PrefixLen + l \in PrefixLen + 1..Rank /\ PrefixLen + l \in 1..Rank
                                 /\ (PrefixLen + l) - PrefixLen = l
  BY <1>3, RankIs
<1>5. x \in [1..Len(LevelMax) -> Nat]
  BY <1>4
<1>6. x \in Limits
  <2>1. \A l \in 1..Len(LevelMax) : x[l] <= LevelMax[l]
    BY <1>4
  <2> HIDE DEF x
  <2> QED
    BY <2>1, <1>5, LimitsAre
<1>7. x \in Seq(Nat) /\ Len(x) = Len(LevelMax)
  <2> HIDE DEF x
  <2> QED
    BY <1>5, RankIs, AsSeq
<1>8. m \in Seq(Nat) /\ Len(m) = Len(LevelMax)
  <2>1. m \in [1..Len(LevelMax) -> Nat]
    BY LimitsAre
  <2> QED
    BY <2>1, RankIs, AsSeq
<1>9. /\ p \o x \in Seq(Nat) /\ Len(p \o x) = Rank
      /\ \A i \in 1..Rank : (p \o x)[i] = IF i <= PrefixLen THEN p[i] ELSE x[i - PrefixLen]
  <2>1. /\ p \o x \in Seq(Nat)
        /\ Len(p \o x) = Len(p) + Len(x)
        /\ \A i \in 1..Len(p) + Len(x) : (p \o x)[i] = IF i <= Len(p) THEN p[i] ELSE x[i - Len(p)]
    <3> HIDE DEF x
    <3> QED
      BY <1>2, <1>7, ConcatProperties
  <2> HIDE DEF x
  <2> QED
    BY <2>1, <1>2, <1>7, RankIs
<1>10. \A i \in 1..PrefixLen : p[i] = pt[i]
  <2>1. \A i \in 1..Len(p) + Len(m) : (p \o m)[i] = IF i <= Len(p) THEN p[i] ELSE m[i - Len(p)]
    BY <1>2, <1>8, ConcatProperties
  <2>2. \A a \in Nat, b \in Nat : \A i \in 1..a : i \in 1..a + b /\ i <= a
    OBVIOUS
  <2> QED
    BY <2>1, <2>2, <1>1, <1>2, <1>8, RankIs
<1>11. ASSUME NEW i \in 1..Rank PROVE (p \o x)[i] = q[i]
  <2>1. CASE i <= PrefixLen
    <3>1. i \in 1..PrefixLen
      BY <2>1, RankIs
    <3> QED
      BY <3>1, <2>1, <1>9, <1>10
  <2>2. CASE ~(i <= PrefixLen)
    <3>1. \A a \in Nat, b \in Nat : \A j \in 1..a + b : ~(j <= a) => j - a \in 1..b /\ a + (j - a) = j
      OBVIOUS
    <3>2. i - PrefixLen \in 1..Len(LevelMax) /\ PrefixLen + (i - PrefixLen) = i
      BY <2>2, <3>1, RankIs
    <3> QED
      BY <2>2, <3>2, <1>9
  <2> QED
    BY <2>1, <2>2
<1>12. p \o x = q
  <2>1. p \o x \in [1..Rank -> Nat]
    BY <1>9, LenProperties
  <2>2. PICK z : z = p \o x
    OBVIOUS
  <2>3. z \in [1..Rank -> Nat] /\ \A i \in 1..Rank : z[i] = q[i]
    <3> HIDE DEF x
    <3> QED
      BY <2>1, <2>2, <1>11
  <2>4. z = [i \in 1..Rank |-> z[i]] /\ q = [i \in 1..Rank |-> q[i]]
    BY <2>3
  <2>5. [i \in 1..Rank |-> z[i]] = [i \in 1..Rank |-> q[i]]
    BY <2>3
  <2> HIDE DEF x
  <2> QED
    BY <2>2, <2>4, <2>5
<1>13. p \o x \in Points
  <2>1. p \in SpecPts /\ x \in Limits
    BY <1>1, <1>6
  <2> HIDE DEF x
  <2> QED
    BY <2>1, PointOf
<1> HIDE DEF x
<1> QED
  BY <1>12, <1>13

-----------------------------------------------------------------------------
(* The blocks that a put cuts its box into.                                *)

\* What a put fills of block b along one dimension.
RangeIn(bottom, top, size, b) ==
    [block |-> b,
     lo    |-> IF b = bottom \div size THEN bottom % size ELSE 0,
     hi    |-> IF b = top \div size THEN (top % size) + 1 ELSE size]

\* The quotients of ordered numbers are ordered.
LEMMA DivMonotonic ==
    ASSUME NEW a \in Nat, NEW b \in Nat, a <= b, NEW s \in Nat \ {0}
    PROVE  a \div s <= b \div s
<1> DEFINE x == a \div s
           y == b \div s
<1>1. x \in Nat /\ (a % s) \in 0..s - 1 /\ a = x * s + (a % s)
  BY DivMod
<1>2. y \in Nat /\ (b % s) \in 0..s - 1 /\ b = y * s + (b % s)
  BY DivMod
<1> HIDE DEF x, y
<1> SUFFICES ASSUME y < x PROVE FALSE
  BY <1>1, <1>2 DEF x, y
<1>3. y * s + s <= x * s
  BY <1>1, <1>2, Multiples
<1>4. PICK u \in Nat : u = x * s
  BY <1>1
<1>5. PICK w \in Nat : w = y * s
  BY <1>2
<1>6. PICK i \in 0..s - 1 : i = (a % s)
  BY <1>1
<1>7. PICK j \in 0..s - 1 : j = (b % s)
  BY <1>2
<1>8. a = u + i /\ b = w + j /\ w + s <= u
  BY <1>1, <1>2, <1>3, <1>4, <1>5, <1>6, <1>7
<1> QED
  BY <1>4, <1>5, <1>6, <1>7, <1>8

\* The end of a range, one past its top, in its block.
LEMMA EndOfRange ==
    ASSUME NEW top \in Nat, NEW size \in Nat \ {0}
    PROVE  /\ (top + 1 + size - 1) \div size = (top \div size) + 1
           /\ (top % size) + 1 = size => (top + 1) % size = 0
           /\ (top % size) + 1 # size => (top + 1) % size = (top % size) + 1
<1>1. PICK q \in Nat, r \in 0..size - 1 : q = top \div size /\ r = (top % size) /\ top = q * size + r
  BY DivMod
<1>2. PICK u \in Nat : u = q * size
  BY <1>1
<1>3. (q + 1) * size = u + size
  BY <1>1, <1>2
<1>4. (top + 1 + size - 1) \div size = q + 1
  <2>1. top + 1 + size - 1 = (q + 1) * size + r
    BY <1>1, <1>2, <1>3
  <2>2. top + 1 + size - 1 \in Nat /\ q + 1 \in Nat
    BY <1>1
  <2> QED
    BY <2>1, <2>2, <1>1, DivModUnique
<1>5. r + 1 = size => (top + 1) % size = 0
  <2> SUFFICES ASSUME r + 1 = size PROVE (top + 1) % size = 0
    OBVIOUS
  <2>1. top + 1 = (q + 1) * size + 0
    BY <1>1, <1>2, <1>3
  <2>2. top + 1 \in Nat /\ q + 1 \in Nat /\ 0 \in 0..size - 1
    BY <1>1
  <2> QED
    BY <2>1, <2>2, DivModUnique
<1>6. r + 1 # size => (top + 1) % size = r + 1
  <2> SUFFICES ASSUME r + 1 # size PROVE (top + 1) % size = r + 1
    OBVIOUS
  <2>1. top + 1 = q * size + (r + 1)
    BY <1>1, <1>2
  <2>2. PICK w \in 0..size - 1 : w = r + 1
    <3>1. r + 1 \in 0..size - 1
      BY <1>1
    <3> QED
      BY <3>1
  <2>3. top + 1 \in Nat /\ top + 1 = q * size + w
    BY <2>1, <2>2
  <2>4. (top + 1) % size = w
    <3>1. PICK a \in Nat : a = top + 1 /\ a = q * size + w
      BY <2>3
    <3>2. a \div size = q /\ a % size = w
      BY <3>1, DivModUnique
    <3> QED
      BY <3>1, <3>2
  <2> QED
    BY <2>2, <2>4
<1> QED
  BY <1>1, <1>4, <1>5, <1>6

\* iter_blocks_in_single_dim_range cuts a range at the borders of the blocks.
LEMMA RangesAre ==
    ASSUME NEW bottom \in Nat, NEW top \in Nat, bottom <= top, NEW size \in Nat \ {0}
    PROVE  BlocksInRange(bottom, top, size) =
              {RangeIn(bottom, top, size, b) : b \in (bottom \div size)..(top \div size)}
<1>1. PICK q \in Nat, r \in 0..size - 1 : q = top \div size /\ r = (top % size) /\ top = q * size + r
  BY DivMod
<1>2. PICK f \in Nat, s \in 0..size - 1 : f = bottom \div size /\ s = (bottom % size) /\ bottom = f * size + s
  BY DivMod
<1>3. f <= q
  BY <1>1, <1>2, DivMonotonic
<1> DEFINE end == top + 1
           last == (end + size - 1) \div size
           e == end % size
           full == IF e = 0 THEN last ELSE last - 1
           prefix == [block |-> f, lo |-> s, hi |-> size]
           suffix == [block |-> last - 1, lo |-> 0, hi |-> e]
           R(b) == [block |-> b, lo |-> IF b = f THEN s ELSE 0, hi |-> IF b = q THEN r + 1 ELSE size]
<1>4. last = q + 1 /\ (r + 1 = size => e = 0) /\ (r + 1 # size => e = r + 1)
  BY <1>1, EndOfRange
<1>5. BlocksInRange(bottom, top, size) =
        IF f = last - 1
        THEN {[block |-> f, lo |-> s, hi |-> Min({s + (end - bottom), size})]}
        ELSE {prefix} \cup {[block |-> b, lo |-> 0, hi |-> size] : b \in f + 1..full - 1}
                \cup (IF e = 0 THEN {} ELSE {suffix})
  BY <1>2 DEF BlocksInRange
<1>6. {RangeIn(bottom, top, size, b) : b \in (bottom \div size)..(top \div size)} = {R(b) : b \in f..q}
  BY <1>1, <1>2 DEF RangeIn
<1>7. CASE f = q
  <2>1. s + (end - bottom) = r + 1
    <3>1. PICK u \in Nat : u = q * size
      BY <1>1
    <3> QED
      BY <3>1, <1>1, <1>2, <1>7
  <2>2. Min({s + (end - bottom), size}) = r + 1
    <3>1. r + 1 \in Int /\ size \in Int /\ r + 1 <= size
      BY <1>1
    <3> QED
      BY <2>1, <3>1 DEF Min
  <2>3. f = last - 1
    BY <1>4, <1>7, <1>2
  <2>4. {R(b) : b \in f..q} = {[block |-> f, lo |-> s, hi |-> r + 1]}
    BY <1>7, <1>2
  <2> HIDE DEF R, end, last, e, full, prefix, suffix
  <2> QED
    BY <1>5, <1>6, <2>2, <2>3, <2>4
<1>8. CASE f # q
  <2>1. f < q /\ f # last - 1 /\ last - 1 = q
    BY <1>3, <1>4, <1>8, <1>1, <1>2
  <2> DEFINE Mid == {[block |-> b, lo |-> 0, hi |-> size] : b \in f + 1..full - 1}
             Suf == IF e = 0 THEN {} ELSE {suffix}
  <2>2. BlocksInRange(bottom, top, size) = {prefix} \cup Mid \cup Suf
    BY <1>5, <2>1
  <2>3. prefix = R(f)
    BY <1>8
  <2>4. Mid \cup Suf = {R(b) : b \in f + 1..q}
    <3>1. CASE e = 0
      <4>1. full - 1 = q /\ r + 1 = size
        BY <3>1, <1>4, <1>1
      <4>2. \A b \in f + 1..q : [block |-> b, lo |-> 0, hi |-> size] = R(b)
        BY <4>1, <1>2
      <4>3. Suf = {}
        BY <3>1
      <4>4. Mid = {R(b) : b \in f + 1..q}
        <5>1. f + 1..full - 1 = f + 1..q
          BY <4>1
        <5> HIDE DEF R, full, e, last, end
        <5> QED
          BY <4>2, <5>1
      <4> HIDE DEF Mid, Suf, R
      <4> QED
        BY <4>3, <4>4
    <3>2. CASE e # 0
      <4>1. full - 1 = q - 1 /\ r + 1 = e
        BY <3>2, <1>4, <1>1
      <4>2. \A b \in f + 1..q - 1 : [block |-> b, lo |-> 0, hi |-> size] = R(b)
        BY <1>1, <1>2
      <4>3. Suf = {R(q)}
        <5>1. suffix = R(q)
          BY <2>1, <4>1, <1>8
        <5> HIDE DEF R, suffix, e
        <5> QED
          BY <5>1, <3>2
      <4>4. Mid = {R(b) : b \in f + 1..q - 1}
        <5>1. f + 1..full - 1 = f + 1..q - 1
          BY <4>1
        <5> HIDE DEF R, full, e, last, end
        <5> QED
          BY <4>2, <5>1
      <4>5. f + 1..q = (f + 1..q - 1) \cup {q}
        BY <2>1, <1>1, <1>2
      <4> HIDE DEF Mid, Suf, R
      <4> QED
        BY <4>3, <4>4, <4>5
    <3> QED
      BY <3>1, <3>2
  <2>5. f..q = {f} \cup (f + 1..q)
    BY <2>1, <1>1, <1>2
  <2> HIDE DEF Mid, Suf, R, prefix
  <2>6. {R(b) : b \in f..q} = {R(f)} \cup {R(b) : b \in f + 1..q}
    BY <2>5, Zenon
  <2>7. {prefix} \cup Mid \cup Suf = {R(f)} \cup {R(b) : b \in f + 1..q}
    BY <2>3, <2>4
  <2> QED
    BY <1>6, <2>2, <2>6, <2>7, Zenon
<1> QED
  BY <1>7, <1>8

\* The cells of a piece along one dimension are those of its block that are in the range.
LEMMA RangeFacts ==
    ASSUME NEW bottom \in Nat, NEW top \in Nat, bottom <= top, NEW size \in Nat \ {0},
           NEW piece \in BlocksInRange(bottom, top, size)
    PROVE  /\ piece = RangeIn(bottom, top, size, piece.block)
           /\ piece.block \in Nat /\ piece.lo \in Nat /\ piece.hi \in Nat
           /\ piece.lo < piece.hi /\ piece.hi <= size
           /\ piece.block * size + piece.hi <= top + 1
           /\ \A x \in Nat : x \div size = piece.block =>
                 (piece.lo <= (x % size) /\ (x % size) < piece.hi <=> bottom <= x /\ x <= top)
<1>1. PICK q \in Nat, r \in 0..size - 1 : q = top \div size /\ r = (top % size) /\ top = q * size + r
  BY DivMod
<1>2. PICK f \in Nat, s \in 0..size - 1 : f = bottom \div size /\ s = (bottom % size) /\ bottom = f * size + s
  BY DivMod
<1>3. PICK b \in f..q : piece = RangeIn(bottom, top, size, b)
  BY RangesAre, <1>1, <1>2
<1>4. /\ piece.block = b
      /\ piece.lo = IF b = f THEN s ELSE 0
      /\ piece.hi = IF b = q THEN r + 1 ELSE size
  BY <1>1, <1>2, <1>3 DEF RangeIn
<1>5. b \in Nat /\ f <= b /\ b <= q
  BY <1>1, <1>2
<1>6. PICK ub \in Nat, uf \in Nat, uq \in Nat : ub = b * size /\ uf = f * size /\ uq = q * size
  <2>1. b * size \in Nat /\ f * size \in Nat /\ q * size \in Nat
    BY <1>1, <1>2, <1>5
  <2> QED
    BY <2>1
<1>7. (b = f => ub = uf) /\ (b = q => ub = uq)
  BY <1>6
<1>8. b # f => uf + size <= ub
  <2> SUFFICES ASSUME b # f PROVE f * size + size <= b * size
    BY <1>6
  <2>1. f < b
    BY <1>5, <1>2
  <2> QED
    BY <2>1, <1>5, <1>2, Multiples
<1>9. b # q => ub + size <= uq
  <2> SUFFICES ASSUME b # q PROVE b * size + size <= q * size
    BY <1>6
  <2>1. b < q
    BY <1>5, <1>1
  <2> QED
    BY <2>1, <1>5, <1>1, Multiples
<1>10. top = uq + r /\ bottom = uf + s
  BY <1>1, <1>2, <1>6
<1>11. piece.lo \in Nat /\ piece.hi \in Nat /\ piece.lo < piece.hi /\ piece.hi <= size /\ ub + piece.hi <= top + 1
  BY <1>4, <1>7, <1>8, <1>9, <1>10, <1>1, <1>2
<1>12. ASSUME NEW x \in Nat, x \div size = b
       PROVE  piece.lo <= (x % size) /\ (x % size) < piece.hi <=> bottom <= x /\ x <= top
  <2>1. PICK y \in 0..size - 1 : y = (x % size) /\ x = ub + y
    BY <1>12, <1>6, DivMod
  <2>2. piece.lo <= y <=> bottom <= x
    BY <2>1, <1>4, <1>7, <1>8, <1>10, <1>1, <1>2
  <2>3. y < piece.hi <=> x <= top
    BY <2>1, <1>4, <1>7, <1>9, <1>10, <1>1, <1>2
  <2> QED
    BY <2>1, <2>2, <2>3
<1> QED
  BY <1>3, <1>4, <1>5, <1>6, <1>11, <1>12

\* Every coordinate in the range is in some block's piece of it.
LEMMA RangeCovers ==
    ASSUME NEW bottom \in Nat, NEW top \in Nat, NEW size \in Nat \ {0},
           NEW x \in Nat, bottom <= x, x <= top
    PROVE  RangeIn(bottom, top, size, x \div size) \in BlocksInRange(bottom, top, size)
<1>1. bottom \div size <= x \div size /\ x \div size <= top \div size
  BY DivMonotonic
<1>2. x \div size \in Nat /\ top \div size \in Nat /\ bottom \div size \in Nat
  BY DivMod
<1>3. x \div size \in (bottom \div size)..(top \div size)
  BY <1>1, <1>2
<1>4. bottom <= top
  OBVIOUS
<1>5. RangeIn(bottom, top, size, x \div size) \in BlocksInRange(bottom, top, size)
  BY <1>3, <1>4, RangesAre
<1> QED
  BY <1>5

\* The greatest of a set of bounded naturals that has 0.
LEMMA MaxOf ==
    ASSUME NEW S \in SUBSET Nat, 0 \in S, NEW bound \in Nat, \A x \in S : x <= bound
    PROVE  Max(S) \in S /\ \A x \in S : x <= Max(S)
<1> DEFINE T == {n \in Nat : \A x \in S : x <= n}
<1>1. PICK m \in T : \A n \in T : m <= n
  <2>1. bound \in T
    OBVIOUS
  <2> HIDE DEF T
  <2>2. T # {}
    BY <2>1
  <2>3. T \in SUBSET Nat
    BY DEF T
  <2> QED
    BY <2>2, <2>3, LeastNat
<1>2. m \in S
  <2> SUFFICES ASSUME m \notin S PROVE FALSE
    OBVIOUS
  <2>1. m \in Nat /\ m # 0
    BY <1>1
  <2>2. \A x \in S : x <= m - 1
    BY <2>1, <1>1
  <2>3. m - 1 \in T
    BY <2>1, <2>2
  <2> QED
    BY <2>1, <2>3, <1>1
<1>3. \A y \in S : m >= y
  BY <1>1
<1>4. Max(S) = CHOOSE x \in S : \A y \in S : x >= y
  BY DEF Max
<1>5. Max(S) \in S /\ \A y \in S : Max(S) >= y
  <2> HIDE DEF T
  <2> QED
    BY <1>2, <1>3, <1>4
<1> QED
  BY <1>5

\* What a put of r at pt fills starts at Bottom: pt's own coordinates, and limits above
\* the peaks that do not depend on pt.
LEMMA BottomIs ==
    ASSUME NEW pt \in Points, NEW r \in Results
    PROVE  /\ Bottom(pt, r) \in [1..Rank -> Nat]
           /\ \A d \in 1..PrefixLen : Bottom(pt, r)[d] = pt[d]
           /\ \A q \in Points : \A d \in PrefixLen + 1..Rank : Bottom(q, r)[d] = Bottom(pt, r)[d]
<1>1. PrefixLen \in Nat /\ Rank \in Nat /\ PrefixLen <= Rank
  BY RankIs
<1>2. pt \in [1..Rank -> Nat]
  BY PointIs
<1>3. \A d \in 1..PrefixLen : d \in 1..Rank /\ d <= PrefixLen
  BY <1>1
<1>4. \A d \in PrefixLen + 1..Rank : d \in 1..Rank /\ ~(d <= PrefixLen)
  BY <1>1
<1> DEFINE Peaks(d) == {0} \cup {PeaksOf[r[i]][d - PrefixLen] : i \in DOMAIN r}
<1>5. ASSUME NEW d \in PrefixLen + 1..Rank PROVE Max(Peaks(d)) \in Nat
  <2>1. PICK l \in 1..Len(LevelMax) : l = d - PrefixLen
    <3>1. \A a \in Nat, b \in Nat : \A x \in a + 1..a + b : x - a \in 1..b
      OBVIOUS
    <3>2. d - PrefixLen \in 1..Len(LevelMax)
      BY <3>1, RankIs
    <3> QED
      BY <3>2
  <2>2. LevelMax[l] \in Nat
    BY <2>1, RankIs
  <2>3. \A i \in DOMAIN r : PeaksOf[r[i]][l] \in Nat /\ PeaksOf[r[i]][l] <= LevelMax[l]
    <3>1. \A i \in DOMAIN r : r[i] \in Payloads
      <4>1. r \in Seq(Payloads)
        BY DbTableAssumption
      <4> QED
        BY <4>1
    <3>2. \A i \in DOMAIN r : PeaksOf[r[i]] \in Limits
      BY <3>1, DbTableAssumption
    <3> QED
      BY <3>2, LimitsAre
  <2>4. Peaks(d) \in SUBSET Nat /\ 0 \in Peaks(d) /\ \A x \in Peaks(d) : x <= LevelMax[l]
    BY <2>1, <2>2, <2>3
  <2> HIDE DEF Peaks
  <2> QED
    BY <2>2, <2>4, MaxOf
<1>6. \A q : Bottom(q, r) = [d \in 1..Rank |-> IF d <= PrefixLen THEN q[d] ELSE Max(Peaks(d))]
  BY DEF Bottom
<1> HIDE DEF Peaks
<1>7. \A d \in 1..Rank : ~(d <= PrefixLen) => d \in PrefixLen + 1..Rank
  BY <1>1
<1>8. Bottom(pt, r) \in [1..Rank -> Nat]
  BY <1>2, <1>5, <1>6, <1>7
<1>9. \A d \in 1..PrefixLen : Bottom(pt, r)[d] = pt[d]
  BY <1>3, <1>6
<1>10. \A q : \A d \in PrefixLen + 1..Rank : Bottom(q, r)[d] = Max(Peaks(d))
  BY <1>4, <1>6
<1> QED
  BY <1>8, <1>9, <1>10

\* The blocks of a table: those with a cell.
TableBlocks ==
    {b \in [1..Rank -> Nat] :
        \A d \in PrefixLen + 1..Rank : b[d] * BlockSize(d) <= LevelMax[d - PrefixLen]}

\* A block's shape is the largest that fits the block size and the table.
LEMMA BlockShapeIs ==
    ASSUME NEW b \in TableBlocks
    PROVE  /\ BlockShape(b) \in Shapes /\ Len(BlockShape(b)) = Rank
           /\ \A d \in 1..Rank : \A h \in Nat :
                h <= BlockSize(d) /\ (d > PrefixLen => b[d] * BlockSize(d) + h <= LevelMax[d - PrefixLen] + 1)
                    => h <= BlockShape(b)[d]
<1>1. PrefixLen \in Nat /\ Rank \in Nat /\ b \in [1..Rank -> Nat]
  BY RankIs DEF TableBlocks
<1>2. \A d \in 1..Rank : d > PrefixLen => d \in PrefixLen + 1..Rank /\ d - PrefixLen \in Int /\ ~(d <= PrefixLen)
  BY <1>1
<1>3. ASSUME NEW d \in 1..Rank
      PROVE  /\ BlockShape(b)[d] \in Nat \ {0}
             /\ \A h \in Nat :
                  h <= BlockSize(d) /\ (d > PrefixLen => b[d] * BlockSize(d) + h <= LevelMax[d - PrefixLen] + 1)
                    => h <= BlockShape(b)[d]
  <2>1. BlockSize(d) \in Nat \ {0}
    BY RankIs
  <2>2. BlockShape(b)[d] = IF DbShape(d) = -1 THEN BlockSize(d)
                           ELSE Min({BlockSize(d), DbShape(d) - b[d] * BlockSize(d)})
    BY DEF BlockShape
  <2>3. CASE d <= PrefixLen
    <3>1. BlockShape(b)[d] = BlockSize(d)
      BY <2>2, <2>3 DEF DbShape
    <3> QED
      BY <3>1, <2>1
  <2>4. CASE ~(d <= PrefixLen)
    <3>1. d > PrefixLen /\ d \in PrefixLen + 1..Rank
      BY <2>4, <1>1
    <3>2. PICK max \in Nat : max = LevelMax[d - PrefixLen]
      BY <3>1, RankIs
    <3>3. PICK u \in Nat : u = b[d] * BlockSize(d)
      <4>1. b[d] * BlockSize(d) \in Nat
        BY <1>1, <2>1
      <4> QED
        BY <4>1
    <3>4. u <= max
      BY <3>1, <3>2, <3>3 DEF TableBlocks
    <3>5. DbShape(d) = max + 1
      BY <2>4, <3>2 DEF DbShape
    <3>6. BlockShape(b)[d] = Min({BlockSize(d), max + 1 - u})
      <4>1. DbShape(d) # -1
        BY <3>2, <3>5
      <4>2. DbShape(d) - b[d] * BlockSize(d) = max + 1 - u
        BY <3>3, <3>5
      <4> QED
        BY <2>2, <4>1, <4>2, Zenon
    <3>7. PICK s \in Nat \ {0} : s = BlockSize(d)
      BY <2>1
    <3>8. PICK v \in Nat \ {0} : v = max + 1 - u
      <4>1. max + 1 - u \in Nat \ {0}
        BY <3>2, <3>3, <3>4
      <4> QED
        BY <4>1
    <3>9. Min({s, v}) \in {s, v} /\ Min({s, v}) <= s /\ Min({s, v}) <= v
      BY <3>7, <3>8 DEF Min
    <3>10. BlockShape(b)[d] \in {s, v}
      BY <3>6, <3>7, <3>8, <3>9
    <3>11. ASSUME NEW h \in Nat, h <= s, u + h <= max + 1 PROVE h <= BlockShape(b)[d]
      <4>1. h <= v
        BY <3>11, <3>8, <3>2, <3>3
      <4> QED
        BY <3>10, <3>11, <4>1
    <3> QED
      BY <3>1, <3>2, <3>3, <3>7, <3>8, <3>10, <3>11
  <2> QED
    BY <2>3, <2>4
<1>4. BlockShape(b) \in [1..Rank -> Nat \ {0}]
  <2>1. BlockShape(b) = [d \in 1..Rank |-> BlockShape(b)[d]]
    BY DEF BlockShape
  <2> QED
    BY <2>1, <1>3
<1>5. \A n \in Nat : \A f \in [1..n -> Nat \ {0}] : f \in Seq(Nat \ {0}) /\ Len(f) = n
  OBVIOUS
<1>6. BlockShape(b) \in Shapes /\ Len(BlockShape(b)) = Rank
  BY <1>1, <1>4, <1>5, Zenon DEF Shapes
<1> QED
  BY <1>3, <1>6

\* Every point has a block and a place in it.
LEMMA PointInBlock ==
    ASSUME NEW q \in Points
    PROVE  /\ BlockPt(q) \in TableBlocks
           /\ InnerPt(q) \in Inside(BlockShape(BlockPt(q)))
           /\ \A d \in 1..Rank : q[d] = BlockPt(q)[d] * BlockSize(d) + InnerPt(q)[d]
<1> DEFINE b == BlockPt(q)
           x == InnerPt(q)
<1>1. q \in [1..Rank -> Nat] /\ \A d \in PrefixLen + 1..Rank : q[d] <= LevelMax[d - PrefixLen]
  BY PointIs
<1>2. PrefixLen \in Nat /\ Rank \in Nat
  BY RankIs
<1>3. \A d \in 1..Rank : /\ b[d] \in Nat /\ x[d] \in 0..BlockSize(d) - 1
                         /\ q[d] = b[d] * BlockSize(d) + x[d]
                         /\ BlockSize(d) \in Nat \ {0}
  <2> SUFFICES ASSUME NEW d \in 1..Rank
               PROVE  /\ b[d] \in Nat /\ x[d] \in 0..BlockSize(d) - 1
                      /\ q[d] = b[d] * BlockSize(d) + x[d]
                      /\ BlockSize(d) \in Nat \ {0}
    OBVIOUS
  <2>1. BlockSize(d) \in Nat \ {0} /\ q[d] \in Nat
    BY <1>1, RankIs
  <2>2. b[d] = q[d] \div BlockSize(d) /\ x[d] = (q[d] % BlockSize(d))
    BY DEF BlockPt, InnerPt
  <2> QED
    BY <2>1, <2>2, DivMod
<1>4. b = [d \in 1..Rank |-> b[d]] /\ x = [d \in 1..Rank |-> x[d]]
  BY DEF BlockPt, InnerPt
<1> HIDE DEF b, x
<1>5. b \in [1..Rank -> Nat] /\ x \in [1..Rank -> Nat]
  <2>1. \A d \in 1..Rank : x[d] \in Nat
    BY <1>3
  <2> QED
    BY <1>3, <1>4, <2>1
<1>6. b \in TableBlocks
  <2> SUFFICES ASSUME NEW d \in PrefixLen + 1..Rank PROVE b[d] * BlockSize(d) <= LevelMax[d - PrefixLen]
    BY <1>5 DEF TableBlocks
  <2>1. d \in 1..Rank
    BY <1>2
  <2>2. PICK u \in Nat : u = b[d] * BlockSize(d)
    <3>1. b[d] * BlockSize(d) \in Nat
      BY <2>1, <1>3
    <3> QED
      BY <3>1
  <2>3. q[d] = u + x[d] /\ x[d] \in Nat /\ q[d] <= LevelMax[d - PrefixLen] /\ LevelMax[d - PrefixLen] \in Nat
    BY <2>1, <2>2, <1>1, <1>3, <1>5, RankIs
  <2> QED
    BY <2>2, <2>3
<1>7. BlockShape(b) \in Shapes /\ Len(BlockShape(b)) = Rank
  BY <1>6, BlockShapeIs
<1>8. ASSUME NEW d \in 1..Rank PROVE x[d] < BlockShape(b)[d]
  <2>1. PICK h \in Nat : h = x[d] + 1
    BY <1>3
  <2>2. h <= BlockSize(d)
    BY <2>1, <1>3
  <2>3. d > PrefixLen => b[d] * BlockSize(d) + h <= LevelMax[d - PrefixLen] + 1
    <3> SUFFICES ASSUME d > PrefixLen PROVE b[d] * BlockSize(d) + h <= LevelMax[d - PrefixLen] + 1
      OBVIOUS
    <3>1. d \in PrefixLen + 1..Rank
      BY <1>2
    <3>2. PICK u \in Nat : u = b[d] * BlockSize(d)
      <4>1. b[d] * BlockSize(d) \in Nat
        BY <1>3
      <4> QED
        BY <4>1
    <3>3. q[d] = u + x[d] /\ x[d] \in Nat /\ q[d] <= LevelMax[d - PrefixLen] /\ LevelMax[d - PrefixLen] \in Nat
      BY <3>1, <3>2, <1>1, <1>3, <1>5, RankIs
    <3>4. u + h <= LevelMax[d - PrefixLen] + 1
      BY <3>2, <3>3, <2>1
    <3> QED
      BY <3>2, <3>4
  <2>4. h <= BlockShape(b)[d]
    BY <2>2, <2>3, <1>6, BlockShapeIs
  <2>5. BlockShape(b)[d] \in Nat
    BY <1>7 DEF Shapes
  <2> QED
    BY <2>1, <2>4, <2>5, <1>3
<1>9. x \in Inside(BlockShape(b))
  BY <1>5, <1>7, <1>8 DEF Inside, Within
<1> QED
  BY <1>3, <1>6, <1>9 DEF b, x

\* A put's result fits its Spec's limits, and the database has room for it.
Fits(pt, r) ==
    /\ pt \in Points /\ r \in Results /\ Len(r) <= k
    /\ \A d \in 1..Rank : Bottom(pt, r)[d] <= pt[d]

RegionOf(piece) == [d \in 1..Rank |-> [lo |-> piece[d].lo, hi |-> piece[d].hi]]

\* The points of a region, of all its dimensions.
LEMMA PointsOfAll ==
    ASSUME NEW n \in Nat, NEW region \in [1..n -> Ranges], NEW x
    PROVE  x \in PointsOf(region) <=> x \in [1..n -> Nat] /\ InRegion(region, x, n)
<1>1. SubSeq(region, 1, n) = region
  BY DEF Ranges
<1>2. n \in 0..n
  OBVIOUS
<1>3. x \in PointsOf(SubSeq(region, 1, n)) <=> x \in [1..n -> Nat] /\ InRegion(region, x, n)
  BY <1>2, PointsAre
<1> QED
  BY <1>1, <1>3

\* A piece has a range of each dimension's.
LEMMA PiecesAre ==
    ASSUME NEW pt, NEW r, NEW f
    PROVE  f \in Pieces(pt, r) <=>
              /\ f = [d \in 1..Rank |-> f[d]]
              /\ \A d \in 1..Rank : f[d] \in BlocksInRange(Bottom(pt, r)[d], pt[d], BlockSize(d))
<1> DEFINE per == [d \in 1..Rank |-> BlocksInRange(Bottom(pt, r)[d], pt[d], BlockSize(d))]
           All == UNION {per[d] : d \in 1..Rank}
<1>1. Pieces(pt, r) = {g \in [1..Rank -> All] : \A d \in 1..Rank : g[d] \in per[d]}
  BY DEF Pieces
<1>2. \A d \in 1..Rank : per[d] = BlocksInRange(Bottom(pt, r)[d], pt[d], BlockSize(d))
  OBVIOUS
<1> HIDE DEF per
<1>3. \A d \in 1..Rank : per[d] \subseteq All
  OBVIOUS
<1> HIDE DEF All
<1>4. f \in [1..Rank -> All] <=> f = [d \in 1..Rank |-> f[d]] /\ \A d \in 1..Rank : f[d] \in All
  OBVIOUS
<1> QED
  BY <1>1, <1>2, <1>3, <1>4

\* One dimension of a piece.
LEMMA PieceDim ==
    ASSUME NEW pt, NEW r, Fits(pt, r), NEW piece \in Pieces(pt, r), NEW d \in 1..Rank
    PROVE  /\ pt[d] \in Nat /\ Bottom(pt, r)[d] \in Nat /\ BlockSize(d) \in Nat \ {0}
           /\ Bottom(pt, r)[d] <= pt[d]
           /\ piece[d] \in BlocksInRange(Bottom(pt, r)[d], pt[d], BlockSize(d))
           /\ piece[d] = RangeIn(Bottom(pt, r)[d], pt[d], BlockSize(d), piece[d].block)
           /\ piece[d].block \in Nat /\ piece[d].lo \in Nat /\ piece[d].hi \in Nat
           /\ piece[d].lo < piece[d].hi /\ piece[d].hi <= BlockSize(d)
           /\ piece[d].block * BlockSize(d) + piece[d].hi <= pt[d] + 1
           /\ \A x \in Nat : x \div BlockSize(d) = piece[d].block =>
                 (piece[d].lo <= (x % BlockSize(d)) /\ (x % BlockSize(d)) < piece[d].hi
                    <=> Bottom(pt, r)[d] <= x /\ x <= pt[d])
<1>1. pt[d] \in Nat /\ Bottom(pt, r)[d] \in Nat /\ BlockSize(d) \in Nat \ {0} /\ Bottom(pt, r)[d] <= pt[d]
  BY PointIs, BottomIs, RankIs DEF Fits
<1>2. piece[d] \in BlocksInRange(Bottom(pt, r)[d], pt[d], BlockSize(d))
  BY PiecesAre
<1> QED
  BY <1>1, <1>2, RangeFacts

\* A piece is of a block of the table and within its shape.
LEMMA PieceFits ==
    ASSUME NEW pt, NEW r, Fits(pt, r), NEW piece \in Pieces(pt, r)
    PROVE  /\ BlockOf(piece) \in TableBlocks
           /\ RegionOf(piece) \in Regions(BlockShape(BlockOf(piece)))
           /\ RegionOf(piece) \in [1..Rank -> Ranges]
<1> DEFINE b == BlockOf(piece)
<1>1. pt \in [1..Rank -> Nat] /\ \A d \in PrefixLen + 1..Rank : pt[d] <= LevelMax[d - PrefixLen]
  BY PointIs DEF Fits
<1>2. PrefixLen \in Nat /\ Rank \in Nat /\ \A d \in PrefixLen + 1..Rank : LevelMax[d - PrefixLen] \in Nat
  BY RankIs
<1>3. \A d \in 1..Rank : b[d] = piece[d].block
  BY DEF BlockOf
<1>4. b \in [1..Rank -> Nat]
  BY PieceDim DEF BlockOf
<1>5. \A d \in 1..Rank : b[d] * BlockSize(d) \in Nat /\ b[d] * BlockSize(d) + piece[d].hi <= pt[d] + 1
                         /\ piece[d].hi \in Nat \ {0} /\ pt[d] \in Nat
  <2> SUFFICES ASSUME NEW d \in 1..Rank
               PROVE  b[d] * BlockSize(d) \in Nat /\ b[d] * BlockSize(d) + piece[d].hi <= pt[d] + 1
                      /\ piece[d].hi \in Nat \ {0} /\ pt[d] \in Nat
    OBVIOUS
  <2>1. b[d] \in Nat /\ BlockSize(d) \in Nat /\ pt[d] \in Nat
    BY <1>4, PieceDim
  <2>2. b[d] * BlockSize(d) + piece[d].hi <= pt[d] + 1
    BY <1>3, PieceDim
  <2>3. piece[d].hi \in Nat \ {0}
    BY PieceDim
  <2> QED
    BY <2>1, <2>2, <2>3
<1> HIDE DEF b
<1>6. b \in TableBlocks
  <2> SUFFICES ASSUME NEW d \in PrefixLen + 1..Rank PROVE b[d] * BlockSize(d) <= LevelMax[d - PrefixLen]
    BY <1>4 DEF TableBlocks
  <2>1. d \in 1..Rank
    BY <1>2
  <2>2. PICK u \in Nat : u = b[d] * BlockSize(d)
    BY <2>1, <1>5
  <2>3. u + piece[d].hi <= pt[d] + 1 /\ piece[d].hi \in Nat \ {0} /\ pt[d] \in Nat /\ pt[d] <= LevelMax[d - PrefixLen]
    BY <1>1, <1>5, <2>1, <2>2
  <2> QED
    BY <2>2, <2>3, <1>2
<1>7. RegionOf(piece) \in [1..Rank -> Ranges]
  BY PieceDim DEF RegionOf, Ranges
<1>8. BlockShape(b) \in Shapes /\ Len(BlockShape(b)) = Rank
  BY <1>6, BlockShapeIs
<1>9. ASSUME NEW d \in 1..Rank PROVE RegionOf(piece)[d].lo < RegionOf(piece)[d].hi /\ RegionOf(piece)[d].hi <= BlockShape(b)[d]
  <2>1. RegionOf(piece)[d].lo = piece[d].lo /\ RegionOf(piece)[d].hi = piece[d].hi
    BY DEF RegionOf
  <2>2. piece[d].lo < piece[d].hi /\ piece[d].hi \in Nat /\ piece[d].hi <= BlockSize(d)
    BY PieceDim
  <2>3. d > PrefixLen => b[d] * BlockSize(d) + piece[d].hi <= LevelMax[d - PrefixLen] + 1
    <3> SUFFICES ASSUME d > PrefixLen PROVE b[d] * BlockSize(d) + piece[d].hi <= LevelMax[d - PrefixLen] + 1
      OBVIOUS
    <3>1. d \in PrefixLen + 1..Rank
      BY <1>2
    <3>2. PICK u \in Nat : u = b[d] * BlockSize(d)
      BY <1>5
    <3>3. u + piece[d].hi <= pt[d] + 1 /\ piece[d].hi \in Nat /\ pt[d] \in Nat /\ pt[d] <= LevelMax[d - PrefixLen]
      BY <1>1, <1>5, <3>1, <3>2
    <3>4. PICK max \in Nat : max = LevelMax[d - PrefixLen]
      BY <3>1, <1>2
    <3>5. u + piece[d].hi <= max + 1
      BY <3>2, <3>3, <3>4
    <3> QED
      BY <3>2, <3>4, <3>5
  <2>4. piece[d].hi <= BlockShape(b)[d]
    BY <2>2, <2>3, <1>6, BlockShapeIs
  <2> QED
    BY <2>1, <2>2, <2>4
<1> QED
  BY <1>6, <1>7, <1>8, <1>9 DEF b, Regions

\* Which cells of its block a piece has: those in the box of the put.
LEMMA PieceCells ==
    ASSUME NEW pt, NEW r, Fits(pt, r), NEW piece \in Pieces(pt, r),
           NEW q \in Points, BlockPt(q) = BlockOf(piece)
    PROVE  InRegion(RegionOf(piece), InnerPt(q), Rank) <=> q \in Box(pt, r)
<1>1. q \in [1..Rank -> Nat]
  BY PointIs
<1>2. ASSUME NEW d \in 1..Rank
      PROVE  (/\ InnerPt(q)[d] \in Nat
              /\ RegionOf(piece)[d].lo <= InnerPt(q)[d] /\ InnerPt(q)[d] < RegionOf(piece)[d].hi)
                <=> Bottom(pt, r)[d] <= q[d] /\ q[d] <= pt[d]
  <2>1. InnerPt(q)[d] = (q[d] % BlockSize(d)) /\ BlockPt(q)[d] = q[d] \div BlockSize(d)
    BY DEF InnerPt, BlockPt
  <2>2. BlockOf(piece)[d] = piece[d].block
    BY DEF BlockOf
  <2>3. q[d] \div BlockSize(d) = piece[d].block
    BY <1>2, <2>1, <2>2
  <2>4. RegionOf(piece)[d].lo = piece[d].lo /\ RegionOf(piece)[d].hi = piece[d].hi
    BY DEF RegionOf
  <2>5. q[d] \in Nat /\ BlockSize(d) \in Nat \ {0}
    BY <1>1, PieceDim
  <2>6. (q[d] % BlockSize(d)) \in Nat
    <3>1. PICK a \in Nat, s \in Nat \ {0} : a = q[d] /\ s = BlockSize(d)
      BY <2>5
    <3>2. (a % s) \in 0..s - 1
      BY DivMod
    <3> QED
      BY <3>1, <3>2
  <2>7. piece[d].lo <= (q[d] % BlockSize(d)) /\ (q[d] % BlockSize(d)) < piece[d].hi
           <=> Bottom(pt, r)[d] <= q[d] /\ q[d] <= pt[d]
    BY <2>3, <2>5, PieceDim
  <2> QED
    BY <2>1, <2>4, <2>6, <2>7
<1>3. q \in Box(pt, r) <=> \A d \in 1..Rank : Bottom(pt, r)[d] <= q[d] /\ q[d] <= pt[d]
  BY DEF Box
<1> QED
  BY <1>2, <1>3 DEF InRegion

\* Each cell of a box is of some piece's block.
LEMMA PieceOfCell ==
    ASSUME NEW pt, NEW r, Fits(pt, r), NEW q \in Box(pt, r)
    PROVE  \E piece \in Pieces(pt, r) : BlockOf(piece) = BlockPt(q)
<1>1. q \in Points /\ \A d \in 1..Rank : Bottom(pt, r)[d] <= q[d] /\ q[d] <= pt[d]
  BY DEF Box
<1> DEFINE P(d) == RangeIn(Bottom(pt, r)[d], pt[d], BlockSize(d), q[d] \div BlockSize(d))
           piece == [d \in 1..Rank |-> P(d)]
<1>2. ASSUME NEW d \in 1..Rank PROVE P(d) \in BlocksInRange(Bottom(pt, r)[d], pt[d], BlockSize(d))
  <2>1. q[d] \in Nat /\ pt[d] \in Nat /\ Bottom(pt, r)[d] \in Nat /\ BlockSize(d) \in Nat \ {0}
    BY <1>1, PointIs, BottomIs, RankIs DEF Fits
  <2> HIDE DEF P
  <2> QED
    BY <1>1, <2>1, RangeCovers DEF P
<1>3. ASSUME NEW d \in 1..Rank
      PROVE  piece[d] \in BlocksInRange(Bottom(pt, r)[d], pt[d], BlockSize(d)) /\ piece[d].block = q[d] \div BlockSize(d)
  <2>1. P(d).block = q[d] \div BlockSize(d)
    BY DEF RangeIn
  <2>2. piece[d] = P(d)
    OBVIOUS
  <2> QED
    BY <1>2, <2>1, <2>2
<1>4. piece = [d \in 1..Rank |-> piece[d]]
  OBVIOUS
<1> HIDE DEF piece, P
<1>5. piece \in Pieces(pt, r)
  BY <1>3, <1>4, PiecesAre
<1>6. BlockOf(piece) = BlockPt(q)
  BY <1>3 DEF BlockOf, BlockPt
<1> QED
  BY <1>5, <1>6

\* A put has at most one piece of a block.
LEMMA OnePiece ==
    ASSUME NEW pt, NEW r, Fits(pt, r), NEW p \in Pieces(pt, r), NEW s \in Pieces(pt, r),
           BlockOf(p) = BlockOf(s)
    PROVE  p = s
<1>1. ASSUME NEW d \in 1..Rank PROVE p[d] = s[d]
  <2>1. p[d].block = BlockOf(p)[d] /\ s[d].block = BlockOf(s)[d]
    BY DEF BlockOf
  <2>2. p[d] = RangeIn(Bottom(pt, r)[d], pt[d], BlockSize(d), p[d].block)
    BY PieceDim
  <2>3. s[d] = RangeIn(Bottom(pt, r)[d], pt[d], BlockSize(d), s[d].block)
    BY PieceDim
  <2> QED
    BY <2>1, <2>2, <2>3
<1>2. p = [d \in 1..Rank |-> p[d]] /\ s = [d \in 1..Rank |-> s[d]]
  BY PiecesAre
<1> QED
  BY <1>1, <1>2

\* A block and a place in it are those of the point with these coordinates.
LEMMA PlaceIs ==
    ASSUME NEW pt, NEW r, Fits(pt, r), NEW piece \in Pieces(pt, r),
           NEW x \in [1..Rank -> Nat], InRegion(RegionOf(piece), x, Rank)
    PROVE  LET q == GlobalPt(BlockOf(piece), x)
           IN  q \in Box(pt, r) /\ BlockPt(q) = BlockOf(piece)
<1> DEFINE q == GlobalPt(BlockOf(piece), x)
<1>1. ASSUME NEW d \in 1..Rank
      PROVE  /\ q[d] \in Nat /\ q[d] \div BlockSize(d) = piece[d].block
             /\ Bottom(pt, r)[d] <= q[d] /\ q[d] <= pt[d]
  <2>1. q[d] = BlockSize(d) * piece[d].block + x[d]
    BY DEF GlobalPt, BlockOf
  <2>2. PICK s \in Nat \ {0}, b \in Nat, h \in Nat, l \in Nat :
            s = BlockSize(d) /\ b = piece[d].block /\ h = piece[d].hi /\ l = piece[d].lo
    BY PieceDim
  <2>3. x[d] \in Nat /\ l <= x[d] /\ x[d] < h
    BY <2>2 DEF InRegion, RegionOf
  <2>4. h <= s
    BY <2>2, PieceDim
  <2>5. PICK y \in 0..s - 1 : y = x[d]
    <3>1. x[d] \in 0..s - 1
      BY <2>2, <2>3, <2>4
    <3> QED
      BY <3>1
  <2>6. q[d] = b * s + y /\ q[d] \in Nat
    <3>1. PICK u \in Nat : u = b * s
      <4>1. b * s \in Nat
        BY <2>2
      <4> QED
        BY <4>1
    <3>2. s * b = b * s
      BY <2>2
    <3>3. q[d] = u + y
      BY <2>1, <2>2, <2>5, <3>1, <3>2
    <3> QED
      BY <3>1, <3>3, <2>5
  <2> HIDE DEF q
  <2>7. PICK z \in Nat : z = q[d] /\ z = b * s + y
    BY <2>6
  <2>8. z \div s = b /\ (z % s) = y
    <3>1. z = b * s + y
      BY <2>7
    <3>2. z \in Nat /\ b \in Nat /\ s \in Nat \ {0} /\ y \in 0..s - 1
      BY <2>2, <2>5, <2>7
    <3> QED
      BY <3>1, <3>2, DivModUnique, Zenon
  <2>9. \A i \in Nat : i \div s = b =>
           (l <= (i % s) /\ (i % s) < h <=> Bottom(pt, r)[d] <= i /\ i <= pt[d])
    BY <2>2, PieceDim
  <2>10. Bottom(pt, r)[d] <= q[d] /\ q[d] <= pt[d]
    BY <2>3, <2>5, <2>7, <2>8, <2>9
  <2> QED
    BY <2>2, <2>7, <2>8, <2>10
<1>2. q = [d \in 1..Rank |-> q[d]]
  BY DEF GlobalPt
<1> HIDE DEF q
<1>3. q \in [1..Rank -> Nat]
  BY <1>1, <1>2
<1>4. pt \in Points /\ r \in Results /\ PrefixLen \in Nat /\ Rank \in Nat /\ PrefixLen <= Rank
  BY RankIs DEF Fits
<1>5. \A d \in 1..PrefixLen : q[d] = pt[d]
  <2> SUFFICES ASSUME NEW d \in 1..PrefixLen PROVE q[d] = pt[d]
    OBVIOUS
  <2>1. d \in 1..Rank
    BY <1>4
  <2>2. pt[d] \in Nat /\ Bottom(pt, r)[d] = pt[d]
    BY <2>1, <1>4, PointIs, BottomIs
  <2> QED
    BY <1>1, <2>1, <2>2
<1>6. \A d \in PrefixLen + 1..Rank : q[d] <= LevelMax[d - PrefixLen]
  <2> SUFFICES ASSUME NEW d \in PrefixLen + 1..Rank PROVE q[d] <= LevelMax[d - PrefixLen]
    OBVIOUS
  <2>1. d \in 1..Rank
    BY <1>4
  <2>2. pt[d] \in Nat /\ pt[d] <= LevelMax[d - PrefixLen] /\ LevelMax[d - PrefixLen] \in Nat
    BY <2>1, <1>4, PointIs, RankIs
  <2>3. q[d] \in Nat /\ q[d] <= pt[d]
    BY <1>1, <2>1
  <2>4. PICK i \in Nat, j \in Nat, n \in Nat : i = q[d] /\ j = pt[d] /\ n = LevelMax[d - PrefixLen]
    BY <2>2, <2>3
  <2>5. i <= n
    BY <2>2, <2>3, <2>4
  <2> QED
    BY <2>4, <2>5
<1>7. q \in Points
  BY <1>3, <1>4, <1>5, <1>6, PointClosed
<1>8. q \in Box(pt, r)
  BY <1>1, <1>7 DEF Box
<1>9. BlockPt(q) = BlockOf(piece)
  BY <1>1 DEF BlockPt, BlockOf
<1> QED
  BY <1>8, <1>9 DEF q

\* What a piece fills.
LEMMA CellsAre ==
    ASSUME NEW pt, NEW r, Fits(pt, r), NEW piece \in Pieces(pt, r)
    PROVE  /\ CellsOf(piece) = {q \in Box(pt, r) : BlockPt(q) = BlockOf(piece)}
           /\ CellsOf(piece) # {}
<1> DEFINE b == BlockOf(piece)
           region == RegionOf(piece)
<1>1. CellsOf(piece) = {GlobalPt(b, x) : x \in PointsOf(region)}
  BY DEF CellsOf, RegionOf
<1>2. \A x : x \in PointsOf(region) <=> x \in [1..Rank -> Nat] /\ InRegion(region, x, Rank)
  BY PieceFits, PointsOfAll, RankIs
<1>3. ASSUME NEW q \in CellsOf(piece) PROVE q \in Box(pt, r) /\ BlockPt(q) = b
  BY <1>1, <1>2, PlaceIs
<1>4. ASSUME NEW q \in Box(pt, r), BlockPt(q) = b PROVE q \in CellsOf(piece)
  <2>1. q \in Points /\ q \in [1..Rank -> Nat]
    BY PointIs DEF Box
  <2>2. InRegion(region, InnerPt(q), Rank)
    BY <1>4, <2>1, PieceCells
  <2>3. InnerPt(q) \in [1..Rank -> Nat]
    <3>1. InnerPt(q) = [d \in 1..Rank |-> InnerPt(q)[d]]
      BY DEF InnerPt
    <3>2. \A d \in 1..Rank : InnerPt(q)[d] \in Nat
      BY <2>2 DEF InRegion
    <3> QED
      BY <3>1, <3>2
  <2>4. GlobalPt(b, InnerPt(q)) = q
    <3>1. \A d \in 1..Rank : q[d] = BlockPt(q)[d] * BlockSize(d) + InnerPt(q)[d]
      BY <2>1, PointInBlock
    <3>2. \A d \in 1..Rank : BlockSize(d) \in Nat /\ b[d] \in Nat
      BY PieceDim DEF BlockOf
    <3>3. \A d \in 1..Rank : BlockSize(d) * b[d] + InnerPt(q)[d] = q[d]
      <4> SUFFICES ASSUME NEW d \in 1..Rank PROVE BlockSize(d) * b[d] + InnerPt(q)[d] = q[d]
        OBVIOUS
      <4>1. BlockSize(d) * b[d] = b[d] * BlockSize(d)
        BY <3>2
      <4>2. q[d] = b[d] * BlockSize(d) + InnerPt(q)[d]
        BY <3>1, <1>4
      <4> QED
        BY <4>1, <4>2
    <3>4. GlobalPt(b, InnerPt(q)) = [d \in 1..Rank |-> BlockSize(d) * b[d] + InnerPt(q)[d]]
      BY DEF GlobalPt
    <3>5. q = [d \in 1..Rank |-> q[d]]
      BY <2>1
    <3> QED
      BY <3>3, <3>4, <3>5
  <2> QED
    BY <1>1, <1>2, <2>2, <2>3, <2>4
<1>5. CellsOf(piece) # {}
  <2> DEFINE x == [d \in 1..Rank |-> piece[d].lo]
  <2>1. x \in [1..Rank -> Nat]
    BY PieceDim
  <2>2. InRegion(region, x, Rank)
    BY PieceDim DEF InRegion, RegionOf
  <2> HIDE DEF x
  <2> QED
    BY <1>1, <1>2, <2>1, <2>2
<1> QED
  BY <1>3, <1>4, <1>5

-----------------------------------------------------------------------------
(* The order in which a put writes its blocks.                             *)

\* The order of a put's blocks is strict.
LEMMA PrecedesIsStrict ==
    ASSUME NEW b \in [1..Rank -> Nat], NEW c \in [1..Rank -> Nat], Precedes(b, c)
    PROVE  b # c /\ ~Precedes(c, b)
<1>0. Rank \in Nat
  BY RankIs
<1>1. PICK d \in 1..Rank : b[d] < c[d] /\ \A e \in 1..d - 1 : b[e] = c[e]
  BY DEF Precedes
<1>2. b # c
  BY <1>1
<1>3. ASSUME Precedes(c, b) PROVE FALSE
  <2>1. PICK i \in 1..Rank : c[i] < b[i] /\ \A e \in 1..i - 1 : c[e] = b[e]
    BY <1>3 DEF Precedes
  <2>2. CASE i < d
    <3>1. i \in 1..d - 1
      BY <2>2, <1>0
    <3>2. b[i] = c[i] /\ b[i] \in Nat /\ c[i] \in Nat
      BY <3>1, <1>1
    <3> QED
      BY <3>2, <2>1
  <2>3. CASE d < i
    <3>1. d \in 1..i - 1
      BY <2>3, <1>0
    <3>2. c[d] = b[d] /\ b[d] \in Nat /\ c[d] \in Nat
      BY <3>1, <2>1
    <3> QED
      BY <3>2, <1>1
  <2>4. CASE d = i
    <3>1. b[d] \in Nat /\ c[d] \in Nat
      BY <1>1
    <3> QED
      BY <3>1, <2>4, <1>1, <2>1
  <2> QED
    BY <2>2, <2>3, <2>4, <1>0
<1> QED
  BY <1>2, <1>3

\* A block none of whose coordinates is greater comes first.
LEMMA LowerPrecedes ==
    ASSUME NEW b \in [1..Rank -> Nat], NEW c \in [1..Rank -> Nat], b # c,
           \A d \in 1..Rank : b[d] <= c[d]
    PROVE  Precedes(b, c)
<1>0. Rank \in Nat
  BY RankIs
<1> DEFINE T == {d \in 1..Rank : b[d] # c[d]}
<1>1. T # {}
  BY <1>0
<1>2. PICK d \in T : \A e \in T : d <= e
  <2>1. T \in SUBSET Nat
    BY <1>0
  <2> HIDE DEF T
  <2> QED
    BY <1>1, <2>1, LeastNat
<1>3. d \in 1..Rank /\ b[d] # c[d] /\ b[d] \in Nat /\ c[d] \in Nat
  BY <1>2
<1>4. ASSUME NEW e \in 1..d - 1 PROVE b[e] = c[e]
  <2>1. e \in 1..Rank /\ e < d
    BY <1>0, <1>3
  <2>2. e \notin T
    <3> HIDE DEF T
    <3> QED
      BY <1>2, <2>1, <1>3
  <2> QED
    BY <2>1, <2>2
<1>5. b[d] < c[d]
  BY <1>3
<1> QED
  BY <1>3, <1>4, <1>5 DEF Precedes

\* The box of a result below a cell of a put's box is part of it.
LEMMA BoxInBox ==
    ASSUME NEW pt, NEW r, Fits(pt, r), NEW q \in Box(pt, r)
    PROVE  Box(q, r) \subseteq Box(pt, r)
<1>1. pt \in Points /\ r \in Results /\ PrefixLen \in Nat /\ Rank \in Nat
  BY RankIs DEF Fits
<1>2. q \in Points /\ \A d \in 1..Rank : Bottom(pt, r)[d] <= q[d] /\ q[d] <= pt[d]
  BY DEF Box
<1> SUFFICES ASSUME NEW x \in Box(q, r) PROVE x \in Box(pt, r)
  OBVIOUS
<1>3. x \in Points /\ \A d \in 1..Rank : Bottom(q, r)[d] <= x[d] /\ x[d] <= q[d]
  BY DEF Box
<1>4. ASSUME NEW d \in 1..Rank PROVE Bottom(pt, r)[d] <= x[d] /\ x[d] <= pt[d]
  <2>1. /\ pt[d] \in Nat /\ q[d] \in Nat /\ x[d] \in Nat
        /\ Bottom(pt, r)[d] \in Nat /\ Bottom(q, r)[d] \in Nat
    BY <1>1, <1>2, <1>3, PointIs, BottomIs
  <2>2. x[d] <= pt[d]
    BY <2>1, <1>2, <1>3
  <2>3. CASE d <= PrefixLen
    <3>1. d \in 1..PrefixLen
      BY <2>3, <1>1
    <3>2. Bottom(pt, r)[d] = pt[d] /\ Bottom(q, r)[d] = q[d]
      BY <3>1, <1>1, <1>2, BottomIs
    <3> QED
      BY <2>1, <2>2, <3>2, <1>2, <1>3
  <2>4. CASE ~(d <= PrefixLen)
    <3>1. d \in PrefixLen + 1..Rank
      BY <2>4, <1>1
    <3>2. Bottom(q, r)[d] = Bottom(pt, r)[d]
      BY <3>1, <1>1, <1>2, BottomIs
    <3> QED
      BY <2>2, <3>2, <1>3
  <2> QED
    BY <2>3, <2>4
<1> QED
  BY <1>3, <1>4 DEF Box

\* Cells below another are of its block or of one that a put writes before.
LEMMA BelowIsBefore ==
    ASSUME NEW p \in Points, NEW q \in Points, \A d \in 1..Rank : q[d] <= p[d]
    PROVE  BlockPt(q) = BlockPt(p) \/ Precedes(BlockPt(q), BlockPt(p))
<1>1. BlockPt(p) \in [1..Rank -> Nat] /\ BlockPt(q) \in [1..Rank -> Nat]
  BY PointInBlock DEF TableBlocks
<1>2. ASSUME NEW d \in 1..Rank PROVE BlockPt(q)[d] <= BlockPt(p)[d]
  <2>1. q[d] \in Nat /\ p[d] \in Nat /\ BlockSize(d) \in Nat \ {0} /\ q[d] <= p[d]
    BY PointIs, RankIs
  <2>2. BlockPt(q)[d] = q[d] \div BlockSize(d) /\ BlockPt(p)[d] = p[d] \div BlockSize(d)
    BY DEF BlockPt
  <2> QED
    BY <2>1, <2>2, DivMonotonic
<1> QED
  BY <1>1, <1>2, LowerPrecedes

\* The point of a put is in its box.
LEMMA OwnBox ==
    ASSUME NEW pt, NEW r, Fits(pt, r)
    PROVE  pt \in Box(pt, r)
<1>1. \A d \in 1..Rank : pt[d] \in Nat
  BY PointIs DEF Fits
<1> QED
  BY <1>1 DEF Fits, Box

-----------------------------------------------------------------------------
(* The invariant.                                                          *)

\* A put in progress for pt: what is left of it are pieces of its box, and the cells
\* of the box that have nothing yet are in blocks that are left.
PutFor(t, pt) ==
    /\ Fits(pt, put[t].result)
    /\ put[t].left # {} /\ put[t].left \subseteq Pieces(pt, put[t].result)
    /\ \A q \in Box(pt, put[t].result) :
          Get(q) = None => \E piece \in put[t].left : BlockOf(piece) = BlockPt(q)

BlocksOK == \A b \in DOMAIN blocks : b \in TableBlocks /\ blocks[b] \in BlocksOf(BlockShape(b))

PutsOK ==
    /\ put \in [Threads -> [left : SUBSET UNION {Pieces(pt, r) : pt \in Points, r \in Results},
                            result : Results \cup {None}]]
    /\ \A t \in Threads : put[t] = NoPut \/ \E pt \in Points : PutFor(t, pt)

\* The inductive invariant.
TableInv ==
    /\ k \in Nat \ {0}
    /\ BlocksOK
    /\ PutsOK
    /\ NoGarbage
    /\ HitsCoverBelow

\* The write of a piece of a put of r for pt.
Writes(piece, pt, r) ==
    LET b == BlockOf(piece)
        before == IF b \in DOMAIN blocks THEN blocks[b] ELSE EmptyBlock(BlockShape(b))
    IN  /\ k' = k
        /\ blocks' = [c \in DOMAIN blocks \cup {b} |->
                        IF c = b THEN FillBlock(before, RegionOf(piece), r) ELSE blocks[c]]

\* A write fills the piece's cells and no others.
LEMMA WriteFills ==
    ASSUME k \in Nat \ {0}, BlocksOK, NEW pt, NEW r, Fits(pt, r), NEW piece \in Pieces(pt, r),
           Writes(piece, pt, r)
    PROVE  /\ BlocksOK'
           /\ \A q \in Points : Get(q)' = IF q \in CellsOf(piece) THEN r ELSE Get(q)
<1> DEFINE b == BlockOf(piece)
           region == RegionOf(piece)
           shape == BlockShape(b)
           before == IF b \in DOMAIN blocks THEN blocks[b] ELSE EmptyBlock(shape)
           after == FillBlock(before, region, r)
<1>1. b \in TableBlocks /\ region \in Regions(shape) /\ region \in [1..Rank -> Ranges]
  BY PieceFits
<1>2. shape \in Shapes /\ Len(shape) = Rank
  BY <1>1, BlockShapeIs
<1>3. r \in Results /\ Len(r) <= k
  BY DEF Fits
<1>4. before \in BlocksOf(shape)
  BY <1>2, EmptyBlockIs DEF BlocksOK
<1>5. /\ after \in BlocksOf(shape)
      /\ \A x \in Inside(shape) :
            GetInBlock(after, x) = IF InRegion(region, x, Rank) THEN r ELSE GetInBlock(before, x)
  <2> HIDE DEF shape, region, before
  <2>1. /\ after \in BlocksOf(shape)
        /\ \A x \in Inside(shape) :
            GetInBlock(after, x) = IF InRegion(region, x, Len(shape)) THEN r ELSE GetInBlock(before, x)
    BY <1>1, <1>2, <1>3, <1>4, FillBlockIs
  <2> QED
    BY <2>1, <1>2
<1>6. k' = k /\ blocks' = [c \in DOMAIN blocks \cup {b} |-> IF c = b THEN after ELSE blocks[c]]
  BY DEF Writes
<1>7. \A x \in Inside(shape) : b \notin DOMAIN blocks => GetInBlock(before, x) = None
  <2> SUFFICES ASSUME b \notin DOMAIN blocks PROVE \A x \in Inside(shape) : GetInBlock(before, x) = None
    OBVIOUS
  <2>1. before = EmptyBlock(shape)
    OBVIOUS
  <2> HIDE DEF before, shape
  <2> QED
    BY <2>1, <1>2, EmptyBlockIs
<1>8. b \in DOMAIN blocks => before = blocks[b]
  OBVIOUS
<1> HIDE DEF after, before
<1>9. BlocksOK'
  <2> SUFFICES ASSUME NEW c \in DOMAIN blocks' PROVE c \in TableBlocks /\ blocks'[c] \in BlocksOf(BlockShape(c))
    BY <1>6 DEF BlocksOK, BlocksOf, Values
  <2>1. CASE c = b
    BY <2>1, <1>1, <1>5, <1>6
  <2>2. CASE c # b
    BY <2>2, <1>6 DEF BlocksOK
  <2> QED
    BY <2>1, <2>2
<1>10. ASSUME NEW q \in Points PROVE Get(q)' = IF q \in CellsOf(piece) THEN r ELSE Get(q)
  <2>1. Get(q)' = IF BlockPt(q) \in DOMAIN blocks' THEN GetInBlock(blocks'[BlockPt(q)], InnerPt(q)) ELSE None
    BY DEF Get
  <2>2. Get(q) = IF BlockPt(q) \in DOMAIN blocks THEN GetInBlock(blocks[BlockPt(q)], InnerPt(q)) ELSE None
    BY DEF Get
  <2>3. CASE BlockPt(q) # b
    <3>1. Get(q)' = Get(q)
      BY <2>1, <2>2, <2>3, <1>6
    <3>2. q \notin CellsOf(piece)
      BY <2>3, CellsAre
    <3> QED
      BY <3>1, <3>2
  <2>4. CASE BlockPt(q) = b
    <3>1. InnerPt(q) \in Inside(shape)
      BY <2>4, PointInBlock
    <3>2. Get(q)' = GetInBlock(after, InnerPt(q))
      BY <2>1, <2>4, <1>6
    <3>3. Get(q) = GetInBlock(before, InnerPt(q))
      <4>1. CASE b \in DOMAIN blocks
        BY <4>1, <2>2, <2>4, <1>8
      <4>2. CASE b \notin DOMAIN blocks
        BY <4>2, <2>2, <2>4, <1>7, <3>1
      <4> QED
        BY <4>1, <4>2
    <3>4. InRegion(region, InnerPt(q), Rank) <=> q \in Box(pt, r)
      BY <2>4, PieceCells
    <3>5. q \in CellsOf(piece) <=> q \in Box(pt, r)
      BY <2>4, CellsAre
    <3> QED
      BY <3>1, <3>2, <3>3, <3>4, <3>5, <1>5
  <2> QED
    BY <2>3, <2>4
<1> QED
  BY <1>9, <1>10

\* A put is under way or not.
LEMMA PutIs ==
    ASSUME PutsOK, NEW t \in Threads
    PROVE  put[t] = [left |-> put[t].left, result |-> put[t].result]
BY DEF PutsOK

\* One round of put's loop.
LEMMA WriteIs ==
    ASSUME TableInv, NEW t \in Threads, WriteBlock(t)
    PROVE  \E pt \in Points : \E piece \in put[t].left :
              /\ PutFor(t, pt)
              /\ piece \in Pieces(pt, put[t].result)
              /\ \A other \in put[t].left \ {piece} : Precedes(BlockOf(piece), BlockOf(other))
              /\ Writes(piece, pt, put[t].result)
              /\ put' = [put EXCEPT ![t] = IF put[t].left \ {piece} = {} THEN NoPut
                                           ELSE [left |-> put[t].left \ {piece}, result |-> put[t].result]]
<1>1. PICK piece \in put[t].left :
        LET b      == BlockOf(piece)
            region == [d \in 1..Rank |-> [lo |-> piece[d].lo, hi |-> piece[d].hi]]
            before == IF b \in DOMAIN blocks THEN blocks[b] ELSE EmptyBlock(BlockShape(b))
            left   == put[t].left \ {piece}
        IN  /\ \A other \in left : Precedes(b, BlockOf(other))
            /\ blocks' = [c \in DOMAIN blocks \cup {b} |->
                            IF c = b THEN FillBlock(before, region, put[t].result)
                                     ELSE blocks[c]]
            /\ put' = [put EXCEPT ![t] = IF left = {} THEN NoPut ELSE [@ EXCEPT !.left = left]]
            /\ UNCHANGED <<k, puts>>
  BY DEF WriteBlock
<1>2. PICK pt \in Points : PutFor(t, pt)
  <2>1. put[t] # NoPut
    BY <1>1 DEF NoPut
  <2> QED
    BY <2>1 DEF TableInv, PutsOK
<1>3. piece \in Pieces(pt, put[t].result)
  BY <1>2 DEF PutFor
<1>4. Writes(piece, pt, put[t].result)
  BY <1>1 DEF Writes, RegionOf
<1>5. [put[t] EXCEPT !.left = put[t].left \ {piece}] = [left |-> put[t].left \ {piece}, result |-> put[t].result]
  <2>1. put[t] = [left |-> put[t].left, result |-> put[t].result]
    BY PutIs DEF TableInv
  <2> QED
    BY <2>1
<1>6. put' = [put EXCEPT ![t] = IF put[t].left \ {piece} = {} THEN NoPut
                                ELSE [left |-> put[t].left \ {piece}, result |-> put[t].result]]
  <2>1. put' = [put EXCEPT ![t] = IF put[t].left \ {piece} = {} THEN NoPut
                                  ELSE [put[t] EXCEPT !.left = put[t].left \ {piece}]]
    BY <1>1
  <2> QED
    BY <2>1, <1>5
<1> QED
  BY <1>1, <1>2, <1>3, <1>4, <1>6

\* An empty table.
LEMMA InitTable == Init => TableInv
<1> SUFFICES ASSUME Init PROVE TableInv
  OBVIOUS
<1>1. k \in Nat \ {0}
  BY DbTableAssumption DEF Init
<1>2. DOMAIN blocks = {} /\ put = [t \in Threads |-> NoPut]
  BY DEF Init
<1>3. \A pt : Get(pt) = None
  BY <1>2 DEF Get
<1>4. BlocksOK
  BY <1>2 DEF BlocksOK
<1>5. PutsOK
  BY <1>2 DEF PutsOK, NoPut
<1>6. NoGarbage /\ HitsCoverBelow
  BY <1>3, DbTableAssumption DEF NoGarbage, HitsCoverBelow
<1> QED
  BY <1>1, <1>4, <1>5, <1>6 DEF TableInv

\* A put that begins has all of its box's pieces to write.
LEMMA BeginTable ==
    ASSUME TableInv, NEW t \in Threads, BeginPut(t)
    PROVE  TableInv'
<1>1. PICK pt \in Points, r \in Results :
        /\ Len(r) <= k /\ \A d \in 1..Rank : Bottom(pt, r)[d] <= pt[d]
        /\ put' = [put EXCEPT ![t] = [left |-> Pieces(pt, r), result |-> r]]
  BY DEF BeginPut
<1>2. k' = k /\ blocks' = blocks
  BY DEF BeginPut
<1>3. \A q : Get(q)' = Get(q)
  BY <1>2 DEF Get
<1>4. Fits(pt, r)
  BY <1>1 DEF Fits
<1>5. put \in [Threads -> [left : SUBSET UNION {Pieces(x, s) : x \in Points, s \in Results},
                           result : Results \cup {None}]]
  BY DEF TableInv, PutsOK
<1>6. put'[t] = [left |-> Pieces(pt, r), result |-> r] /\ \A u \in Threads \ {t} : put'[u] = put[u]
  BY <1>1, <1>5
<1>7. PutFor(t, pt)'
  <2>1. Fits(pt, put[t].result)'
    BY <1>2, <1>4, <1>6 DEF Fits
  <2>2. Pieces(pt, r) # {}
    BY <1>4, OwnBox, PieceOfCell
  <2>3. \A q \in Box(pt, r) : \E piece \in Pieces(pt, r) : BlockOf(piece) = BlockPt(q)
    BY <1>4, PieceOfCell
  <2> QED
    BY <2>1, <2>2, <2>3, <1>6 DEF PutFor
<1>8. ASSUME NEW u \in Threads \ {t} PROVE put'[u] = NoPut \/ \E x \in Points : PutFor(u, x)'
  <2>1. put[u] = NoPut \/ \E x \in Points : PutFor(u, x)
    BY DEF TableInv, PutsOK
  <2>2. ASSUME NEW x \in Points, PutFor(u, x) PROVE PutFor(u, x)'
    BY <2>2, <1>2, <1>3, <1>6 DEF PutFor, Fits
  <2> QED
    BY <2>1, <2>2, <1>6
<1>9. put' \in [Threads -> [left : SUBSET UNION {Pieces(x, s) : x \in Points, s \in Results},
                            result : Results \cup {None}]]
  <2>1. Pieces(pt, r) \in SUBSET UNION {Pieces(x, s) : x \in Points, s \in Results}
    BY <1>1
  <2> QED
    BY <2>1, <1>1, <1>5
<1>10. PutsOK'
  <2>1. \A u \in Threads : put'[u] = NoPut \/ \E x \in Points : PutFor(u, x)'
    BY <1>7, <1>8
  <2> QED
    BY <2>1, <1>9 DEF PutsOK, NoPut
<1>11. k' \in Nat \ {0} /\ BlocksOK'
  BY <1>2 DEF TableInv, BlocksOK, BlocksOf, Values
<1>12. NoGarbage' /\ HitsCoverBelow'
  BY <1>3 DEF TableInv, NoGarbage, HitsCoverBelow
<1> QED
  BY <1>10, <1>11, <1>12 DEF TableInv

\* A round of put's loop: the cells of one block are filled, those below them have been.
LEMMA WriteTable ==
    ASSUME TableInv, NEW t \in Threads, WriteBlock(t)
    PROVE  TableInv'
<1>1. PICK pt \in Points, piece \in put[t].left :
        /\ PutFor(t, pt)
        /\ piece \in Pieces(pt, put[t].result)
        /\ \A other \in put[t].left \ {piece} : Precedes(BlockOf(piece), BlockOf(other))
        /\ Writes(piece, pt, put[t].result)
        /\ put' = [put EXCEPT ![t] = IF put[t].left \ {piece} = {} THEN NoPut
                                     ELSE [left |-> put[t].left \ {piece}, result |-> put[t].result]]
  BY WriteIs
<1>0. PICK r, rest : r = put[t].result /\ rest = put[t].left \ {piece}
  OBVIOUS
<1>2. Fits(pt, r) /\ k \in Nat \ {0} /\ BlocksOK
  BY <1>0, <1>1 DEF PutFor, TableInv
<1>3. r \in Results /\ r # None
  BY <1>2, DbTableAssumption DEF Fits
<1>4. /\ BlocksOK'
      /\ \A q \in Points : Get(q)' = IF q \in CellsOf(piece) THEN r ELSE Get(q)
  BY <1>0, <1>1, <1>2, WriteFills
<1>5. CellsOf(piece) = {q \in Box(pt, r) : BlockPt(q) = BlockOf(piece)}
  BY <1>0, <1>1, <1>2, CellsAre
<1>6. k' = k
  BY <1>1 DEF Writes
<1>7. \A q \in Points : Get(q)' = None => Get(q) = None
  BY <1>3, <1>4
<1>8. put \in [Threads -> [left : SUBSET UNION {Pieces(x, s) : x \in Points, s \in Results},
                           result : Results \cup {None}]]
  BY DEF TableInv, PutsOK
<1>9. /\ put'[t] = IF rest = {} THEN NoPut ELSE [left |-> rest, result |-> r]
      /\ \A u \in Threads \ {t} : put'[u] = put[u]
  BY <1>0, <1>1, <1>8
<1>10. \A x, s : \A q \in Box(x, s) : q \in Points
  BY DEF Box
<1>11. PutsOK'
  <2>1. put' \in [Threads -> [left : SUBSET UNION {Pieces(x, s) : x \in Points, s \in Results},
                              result : Results \cup {None}]]
    <3>1. put[t] \in [left : SUBSET UNION {Pieces(x, s) : x \in Points, s \in Results},
                      result : Results \cup {None}]
      BY <1>8
    <3>2. rest \in SUBSET UNION {Pieces(x, s) : x \in Points, s \in Results}
      BY <1>0, <3>1
    <3>3. NoPut \in [left : SUBSET UNION {Pieces(x, s) : x \in Points, s \in Results},
                     result : Results \cup {None}]
      BY DEF NoPut
    <3> QED
      BY <1>0, <1>1, <1>3, <1>8, <3>2, <3>3
  <2>2. rest # {} => PutFor(t, pt)'
    <3> SUFFICES ASSUME rest # {} PROVE PutFor(t, pt)'
      OBVIOUS
    <3>1. put'[t].left = rest /\ put'[t].result = r
      BY <1>9
    <3>2. Fits(pt, r)'
      BY <1>2, <1>6 DEF Fits
    <3>3. rest \subseteq Pieces(pt, r)
      BY <1>0, <1>1 DEF PutFor
    <3>4. ASSUME NEW q \in Box(pt, r), Get(q)' = None
          PROVE  \E other \in rest : BlockOf(other) = BlockPt(q)
      <4>1. q \in Points /\ Get(q) = None /\ q \notin CellsOf(piece)
        BY <3>4, <1>3, <1>4, <1>7, <1>10
      <4>2. PICK other \in put[t].left : BlockOf(other) = BlockPt(q)
        BY <4>1, <1>0, <1>1 DEF PutFor
      <4>3. other # piece
        BY <4>1, <4>2, <1>5
      <4> QED
        BY <4>2, <4>3, <1>0
    <3>5. Fits(pt, put[t].result)'
      BY <3>1, <3>2
    <3> QED
      BY <3>1, <3>3, <3>4, <3>5 DEF PutFor
  <2>3. put'[t] = NoPut \/ PutFor(t, pt)'
    BY <2>2, <1>9
  <2>4. ASSUME NEW u \in Threads \ {t} PROVE put'[u] = NoPut \/ \E x \in Points : PutFor(u, x)'
    <3>1. put[u] = NoPut \/ \E x \in Points : PutFor(u, x)
      BY DEF TableInv, PutsOK
    <3>2. ASSUME NEW x \in Points, PutFor(u, x) PROVE PutFor(u, x)'
      <4>1. put'[u] = put[u]
        BY <1>9
      <4>2. Fits(x, put[u].result)'
        BY <3>2, <4>1, <1>6 DEF PutFor, Fits
      <4>3. \A q \in Box(x, put[u].result) :
               Get(q)' = None => \E p \in put[u].left : BlockOf(p) = BlockPt(q)
        BY <3>2, <1>7, <1>10 DEF PutFor
      <4> QED
        BY <3>2, <4>1, <4>2, <4>3 DEF PutFor
    <3> QED
      BY <3>1, <3>2, <1>9
  <2> QED
    BY <2>1, <2>3, <2>4 DEF PutsOK, NoPut
<1>12. NoGarbage'
  BY <1>3, <1>4 DEF TableInv, NoGarbage
<1>13. ASSUME NEW p \in Points, Get(p)' \in Results, NEW q \in Box(p, Get(p)'), Get(q)' = None PROVE FALSE
  <2>1. q \in Points /\ Get(q) = None /\ q \notin CellsOf(piece)
    BY <1>13, <1>3, <1>4, <1>7, <1>10
  <2>2. CASE p \notin CellsOf(piece)
    <3>1. Get(p) = Get(p)'
      BY <2>2, <1>4
    <3> QED
      BY <3>1, <2>1, <1>13 DEF TableInv, HitsCoverBelow
  <2>3. CASE p \in CellsOf(piece)
    <3>1. p \in Box(pt, r) /\ BlockPt(p) = BlockOf(piece)
      BY <2>3, <1>5
    <3>2. q \in Box(p, r)
      BY <2>3, <1>4, <1>13
    <3>3. q \in Box(pt, r)
      BY <3>1, <3>2, <1>2, BoxInBox
    <3>4. PICK other \in put[t].left : BlockOf(other) = BlockPt(q)
      BY <3>3, <2>1, <1>0, <1>1 DEF PutFor
    <3>5. \A d \in 1..Rank : q[d] <= p[d]
      BY <3>2 DEF Box
    <3>6. BlockPt(q) = BlockPt(p) \/ Precedes(BlockPt(q), BlockPt(p))
      BY <3>5, <2>1, <1>13, BelowIsBefore
    <3>7. BlockPt(q) # BlockPt(p)
      BY <3>1, <3>3, <2>1, <1>5
    <3>8. Precedes(BlockOf(piece), BlockOf(other))
      BY <3>1, <3>4, <3>7, <1>1
    <3>9. BlockPt(q) \in [1..Rank -> Nat] /\ BlockPt(p) \in [1..Rank -> Nat]
      BY <2>1, PointInBlock DEF TableBlocks
    <3> QED
      BY <3>1, <3>4, <3>6, <3>7, <3>8, <3>9, PrecedesIsStrict
  <2> QED
    BY <2>2, <2>3
<1>14. HitsCoverBelow'
  BY <1>13 DEF HitsCoverBelow
<1> QED
  BY <1>2, <1>4, <1>6, <1>11, <1>12, <1>14 DEF TableInv

\* Every step keeps the invariant.
LEMMA StepTable == TableInv /\ [Next]_vars => TableInv'
<1> SUFFICES ASSUME TableInv, [Next]_vars PROVE TableInv'
  OBVIOUS
<1>1. CASE Next
  BY <1>1, BeginTable, WriteTable DEF Next
<1>2. CASE UNCHANGED vars
  <2>1. k' = k /\ blocks' = blocks /\ put' = put
    BY <1>2 DEF vars
  <2>2. \A q : Get(q)' = Get(q)
    BY <2>1 DEF Get
  <2>3. BlocksOK'
    BY <2>1 DEF TableInv, BlocksOK, BlocksOf, Values
  <2>4. PutsOK'
    BY <2>1, <2>2 DEF TableInv, PutsOK, PutFor, Fits
  <2> QED
    BY <2>1, <2>2, <2>3, <2>4 DEF TableInv, NoGarbage, HitsCoverBelow
<1> QED
  BY <1>1, <1>2

-----------------------------------------------------------------------------
(* A table is a CellStore.                                                 *)

\* The variables of the CellStore that a table is.
CellsNow == [pt \in Points |-> Get(pt)]
CellsIn(pieces) == UNION {CellsOf(piece) : piece \in pieces}
OwedOf(p) == CellsIn(p.left)
OwedNow == [t \in Threads |-> [left |-> OwedOf(put[t]), result |-> put[t].result]]

\* What is owed for a put that begins is its box.
LEMMA PiecesMakeBox ==
    ASSUME NEW pt, NEW r, Fits(pt, r)
    PROVE  CellsIn(Pieces(pt, r)) = Box(pt, r)
<1>1. \A piece \in Pieces(pt, r) : CellsOf(piece) = {q \in Box(pt, r) : BlockPt(q) = BlockOf(piece)}
  BY CellsAre
<1>2. \A q \in Box(pt, r) : \E piece \in Pieces(pt, r) : BlockOf(piece) = BlockPt(q)
  BY PieceOfCell
<1> QED
  BY <1>1, <1>2 DEF CellsIn

\* The pieces of a put have no cell in common.
LEMMA PiecesAreApart ==
    ASSUME NEW pt, NEW r, Fits(pt, r), NEW left \in SUBSET Pieces(pt, r), NEW piece \in left
    PROVE  /\ CellsOf(piece) \subseteq CellsIn(left)
           /\ CellsIn(left \ {piece}) = CellsIn(left) \ CellsOf(piece)
           /\ CellsIn(left \ {piece}) = {} <=> left \ {piece} = {}
<1>1. \A p \in left : CellsOf(p) = {q \in Box(pt, r) : BlockPt(q) = BlockOf(p)}
  BY CellsAre
<1>2. \A p \in left : BlockOf(p) = BlockOf(piece) => p = piece
  BY OnePiece
<1>3. \A p \in left \ {piece} : CellsOf(p) \cap CellsOf(piece) = {}
  BY <1>1, <1>2
<1>4. \A pieces, x : x \in CellsIn(pieces) <=> \E p \in pieces : x \in CellsOf(p)
  BY DEF CellsIn
<1>5. \A x : x \in CellsIn(left \ {piece}) <=> x \in CellsIn(left) /\ x \notin CellsOf(piece)
  BY <1>3, <1>4
<1>6. CellsIn(left \ {piece}) = CellsIn(left) \ CellsOf(piece)
  BY <1>5
<1>7. \A p \in left : CellsOf(p) # {}
  BY CellsAre
<1>8. CellsIn(left \ {piece}) = {} <=> left \ {piece} = {}
  <2>1. ASSUME NEW p \in left \ {piece} PROVE CellsIn(left \ {piece}) # {}
    <3>1. PICK x : x \in CellsOf(p)
      BY <1>7
    <3>2. x \in CellsIn(left \ {piece})
      BY <1>4, <3>1
    <3> QED
      BY <3>2
  <2>2. left \ {piece} = {} => CellsIn(left \ {piece}) = {}
    BY <1>4
  <2> QED
    BY <2>1, <2>2
<1> QED
  BY <1>4, <1>6, <1>8

\* An empty table is an empty CellStore.
LEMMA InitCells == Init => Cells!Init
<1> SUFFICES ASSUME Init PROVE Cells!Init
  OBVIOUS
<1>1. DOMAIN blocks = {} /\ put = [t \in Threads |-> NoPut]
  BY DEF Init
<1>2. \A pt : Get(pt) = None
  BY <1>1 DEF Get
<1>3. \A t \in Threads : OwedOf(put[t]) = {} /\ put[t].result = None
  BY <1>1 DEF OwedOf, CellsIn, NoPut
<1>4. CellsNow = [pt \in Points |-> None]
  BY <1>2 DEF CellsNow
<1>5. OwedNow = [t \in Threads |-> Cells!NoPut]
  BY <1>3 DEF OwedNow, Cells!NoPut
<1> QED
  BY <1>4, <1>5 DEF Cells!Init, CellsNow, OwedNow, OwedOf, CellsIn

\* A put begins with its box owed.
LEMMA BeginCells ==
    ASSUME TableInv, NEW t \in Threads, BeginPut(t)
    PROVE  Cells!Begin(t)
<1>1. PICK pt \in Points, r \in Results :
        /\ Len(r) <= k /\ \A d \in 1..Rank : Bottom(pt, r)[d] <= pt[d]
        /\ put' = [put EXCEPT ![t] = [left |-> Pieces(pt, r), result |-> r]]
  BY DEF BeginPut
<1>2. put[t] = NoPut /\ blocks' = blocks
  BY DEF BeginPut
<1>3. \A q : Get(q)' = Get(q)
  BY <1>2 DEF Get
<1>4. Fits(pt, r)
  BY <1>1 DEF Fits
<1>5. CellsIn(Pieces(pt, r)) = Box(pt, r) /\ Box(pt, r) # {}
  BY <1>4, PiecesMakeBox, OwnBox
<1>6. DOMAIN put = Threads
  BY DEF TableInv, PutsOK
<1>7. put'[t] = [left |-> Pieces(pt, r), result |-> r] /\ \A u \in Threads \ {t} : put'[u] = put[u]
  BY <1>1, <1>6
<1>8. OwedNow[t] = Cells!NoPut
  BY <1>2 DEF OwedNow, OwedOf, CellsIn, NoPut, Cells!NoPut
<1>9. OwedNow' = [OwedNow EXCEPT ![t] = [left |-> Box(pt, r), result |-> r]]
  <2>1. OwedOf(put'[t]) = Box(pt, r) /\ put'[t].result = r
    BY <1>5, <1>7 DEF OwedOf
  <2>2. OwedNow' = [u \in Threads |-> [left |-> OwedOf(put'[u]), result |-> put'[u].result]]
    BY DEF OwedNow, OwedOf, CellsIn
  <2>3. \A u \in Threads : [left |-> OwedOf(put'[u]), result |-> put'[u].result] =
            [OwedNow EXCEPT ![t] = [left |-> Box(pt, r), result |-> r]][u]
    BY <2>1, <1>7 DEF OwedNow
  <2>4. [OwedNow EXCEPT ![t] = [left |-> Box(pt, r), result |-> r]] =
            [u \in Threads |-> [OwedNow EXCEPT ![t] = [left |-> Box(pt, r), result |-> r]][u]]
    BY DEF OwedNow
  <2> QED
    BY <2>2, <2>3, <2>4
<1>10. CellsNow' = CellsNow
  BY <1>3 DEF CellsNow
<1>11. OwedNow'[t].result = r
  BY <1>9 DEF OwedNow
<1> QED
  BY <1>1, <1>5, <1>8, <1>9, <1>10, <1>11 DEF Cells!Begin, CellsNow, OwedNow, OwedOf, CellsIn

FillNow(t) ==
    LET now == OwedNow[t].left \ OwedNow'[t].left
    IN  /\ now # {}
        /\ OwedNow'[t].left \subseteq OwedNow[t].left
        /\ OwedNow' = [OwedNow EXCEPT ![t] =
                          IF OwedNow'[t].left = {} THEN Cells!NoPut
                          ELSE [left |-> OwedNow[t].left \ now, result |-> OwedNow[t].result]]
        /\ CellsNow' = [pt \in Points |-> IF pt \in now THEN OwedNow[t].result ELSE CellsNow[pt]]

\* Fill of the CellStore, said of what the table makes of its variables.
LEMMA FillIs == ASSUME NEW t PROVE FillNow(t) => Cells!Fill(t)
BY Zenon DEF FillNow, Cells!Fill, CellsNow, OwedNow, OwedOf, CellsIn

\* A round of put's loop fills some of what is owed.
LEMMA WriteCells ==
    ASSUME TableInv, NEW t \in Threads, WriteBlock(t)
    PROVE  Cells!Fill(t)
<1>1. PICK pt \in Points, piece \in put[t].left :
        /\ PutFor(t, pt)
        /\ piece \in Pieces(pt, put[t].result)
        /\ Writes(piece, pt, put[t].result)
        /\ put' = [put EXCEPT ![t] = IF put[t].left \ {piece} = {} THEN NoPut
                                     ELSE [left |-> put[t].left \ {piece}, result |-> put[t].result]]
  BY WriteIs
<1>2. PICK r, left, now : r = put[t].result /\ left = put[t].left /\ now = CellsOf(piece)
  OBVIOUS
<1>3. Fits(pt, r) /\ left \subseteq Pieces(pt, r) /\ piece \in left
  BY <1>1, <1>2 DEF PutFor
<1>4. \A q \in Points : Get(q)' = IF q \in now THEN r ELSE Get(q)
  BY <1>1, <1>2, <1>3, WriteFills DEF TableInv
<1>5. now # {}
  BY <1>2, <1>3, CellsAre
<1>6. /\ now \subseteq CellsIn(left)
      /\ CellsIn(left \ {piece}) = CellsIn(left) \ now
      /\ CellsIn(left \ {piece}) = {} <=> left \ {piece} = {}
  <2>1. left \in SUBSET Pieces(pt, r) /\ piece \in left
    BY <1>3
  <2> QED
    BY <2>1, <1>2, <1>3, PiecesAreApart
<1>7. DOMAIN put = Threads
  BY DEF TableInv, PutsOK
<1>8. /\ put'[t] = IF left \ {piece} = {} THEN NoPut ELSE [left |-> left \ {piece}, result |-> r]
      /\ \A u \in Threads \ {t} : put'[u] = put[u]
  BY <1>1, <1>2, <1>7
<1>9. PICK all : all = OwedOf(put[t])
  OBVIOUS
<1>10. all = CellsIn(left) /\ now \subseteq all
  BY <1>2, <1>6, <1>9 DEF OwedOf
<1>11. OwedOf(put'[t]) = all \ now
  <2>1. CASE left \ {piece} = {}
    <3>1. put'[t].left = {}
      BY <2>1, <1>8 DEF NoPut
    <3> QED
      BY <2>1, <3>1, <1>6, <1>10 DEF OwedOf
  <2>2. CASE left \ {piece} # {}
    <3>1. put'[t].left = left \ {piece}
      BY <2>2, <1>8
    <3> QED
      BY <3>1, <1>6, <1>10 DEF OwedOf
  <2> QED
    BY <2>1, <2>2
<1>12. put'[t].result = IF all \ now = {} THEN None ELSE r
  BY <1>6, <1>8, <1>10 DEF NoPut
<1>13. OwedNow[t] = [left |-> all, result |-> r]
  BY <1>2, <1>9 DEF OwedNow
<1>14. OwedNow'[t] = [left |-> all \ now, result |-> IF all \ now = {} THEN None ELSE r]
  <2>1. OwedNow' = [u \in Threads |-> [left |-> OwedOf(put'[u]), result |-> put'[u].result]]
    BY DEF OwedNow, OwedOf, CellsIn
  <2> QED
    BY <2>1, <1>11, <1>12
<1>15. OwedNow' = [OwedNow EXCEPT ![t] = IF all \ now = {} THEN Cells!NoPut
                                         ELSE [left |-> all \ now, result |-> r]]
  <2> DEFINE new == [OwedNow EXCEPT ![t] = IF all \ now = {} THEN Cells!NoPut
                                           ELSE [left |-> all \ now, result |-> r]]
  <2>1. OwedNow' = [u \in Threads |-> OwedNow'[u]] /\ new = [u \in Threads |-> new[u]]
    BY DEF OwedNow
  <2>2. OwedNow'[t] = new[t]
    BY <1>14 DEF OwedNow, Cells!NoPut
  <2>3. \A u \in Threads \ {t} : OwedNow'[u] = new[u]
    BY <1>8 DEF OwedNow, OwedOf, CellsIn
  <2> HIDE DEF new
  <2>4. OwedNow' = new
    BY <2>1, <2>2, <2>3
  <2> QED
    BY <2>4 DEF new
<1>16. CellsNow' = [q \in Points |-> IF q \in now THEN r ELSE CellsNow[q]]
  BY <1>4 DEF CellsNow
<1>17. OwedNow[t].left \ OwedNow'[t].left = now /\ OwedNow'[t].left \subseteq OwedNow[t].left
  BY <1>10, <1>13, <1>14
<1>18. OwedNow' = [OwedNow EXCEPT ![t] =
                     IF OwedNow'[t].left = {} THEN Cells!NoPut
                     ELSE [left |-> OwedNow[t].left \ now, result |-> OwedNow[t].result]]
  BY <1>13, <1>14, <1>15
<1>20. CellsNow' = [q \in Points |-> IF q \in now THEN OwedNow[t].result ELSE CellsNow[q]]
  BY <1>13, <1>16
<1> QED
  <2>1. FillNow(t)
    BY <1>5, <1>17, <1>18, <1>20 DEF FillNow
  <2> QED
    BY <2>1, FillIs

\* What is left of a put is within its blocks.
LEMMA LeftFits == TableInv => PiecesFit
<1> SUFFICES ASSUME TableInv, NEW t \in Threads, NEW piece \in put[t].left, NEW d \in 1..Rank
             PROVE  /\ 0 <= piece[d].lo /\ piece[d].lo < piece[d].hi
                    /\ piece[d].hi <= BlockShape(BlockOf(piece))[d]
  BY DEF PiecesFit
<1>1. PICK pt \in Points : PutFor(t, pt)
  <2>1. put[t] # NoPut
    BY DEF NoPut
  <2> QED
    BY <2>1 DEF TableInv, PutsOK
<1>2. Fits(pt, put[t].result) /\ piece \in Pieces(pt, put[t].result)
  BY <1>1 DEF PutFor
<1>3. /\ BlockOf(piece) \in TableBlocks
      /\ RegionOf(piece) \in Regions(BlockShape(BlockOf(piece)))
  BY <1>2, PieceFits
<1>4. Len(BlockShape(BlockOf(piece))) = Rank
  BY <1>3, BlockShapeIs
<1>5. RegionOf(piece)[d].lo = piece[d].lo /\ RegionOf(piece)[d].hi = piece[d].hi
  BY DEF RegionOf
<1>6. piece[d].lo \in Nat
  BY <1>2, PieceDim
<1> QED
  BY <1>3, <1>4, <1>5, <1>6 DEF Regions

-----------------------------------------------------------------------------

\* The invariant, for every shape of blocks, number of results and peaks.
THEOREM TableIsSound == Spec => []TableInv
<1>1. Init => TableInv
  BY InitTable
<1>2. TableInv /\ [Next]_vars => TableInv'
  BY StepTable
<1> QED
  BY <1>1, <1>2, PTL DEF Spec

\* What a put is about to write is within its block: data_offset, which checks no
\* coordinate by itself, never reaches another Spec's entry.
THEOREM WritesStayInBlocks == Spec => []PiecesFit
<1>1. TableInv => PiecesFit
  BY LeftFits
<1> QED
  BY <1>1, TableIsSound, PTL

\* Every entry is a result that was put: what fill_region_ext writes past its region,
\* over entries that have no action, is never read.
THEOREM EntriesAreResults == Spec => []NoGarbage
<1>1. TableInv => NoGarbage
  BY DEF TableInv
<1> QED
  BY <1>1, TableIsSound, PTL

\* An entry covers all lower limits down to its results' peaks, whatever puts are half
\* done: search and precompute take a hit for the box below it.
THEOREM HitsAreClosedDownwards == Spec => []HitsCoverBelow
<1>1. TableInv => HitsCoverBelow
  BY DEF TableInv
<1> QED
  BY <1>1, TableIsSound, PTL

\* A put fills its box, whole and with its result, and nothing else (put_range_to_fill,
\* iter_blocks_in_single_dim_range, fill_region_ext), however puts interleave.
THEOREM TableIsCellStore == Spec => ImplementsCells
<1>1. Init => Cells!Init
  BY InitCells
<1>2. TableInv /\ [Next]_vars => [Cells!Next]_<<CellsNow, OwedNow>>
  <2> SUFFICES ASSUME TableInv, [Next]_vars PROVE [Cells!Next]_<<CellsNow, OwedNow>>
    OBVIOUS
  <2>1. CASE Next
    BY <2>1, BeginCells, WriteCells DEF Next, Cells!Next
  <2>2. CASE UNCHANGED vars
    <3>1. k' = k /\ blocks' = blocks /\ put' = put
      BY <2>2 DEF vars
    <3>2. CellsNow' = CellsNow /\ OwedNow' = OwedNow
      BY <3>1 DEF CellsNow, OwedNow, OwedOf, CellsIn, Get
    <3> QED
      BY <3>2
  <2> QED
    BY <2>1, <2>2
<1>3. TableInv /\ [Next]_vars => [Cells!Next]_<<[pt \in Points |-> Get(pt)],
        [t \in Threads |-> [left |-> UNION {CellsOf(piece) : piece \in put[t].left}, result |-> put[t].result]]>>
  BY <1>2 DEF CellsNow, OwedNow, OwedOf, CellsIn
<1> QED
  BY <1>1, <1>3, TableIsSound, PTL DEF Spec, ImplementsCells, Cells!Spec
=============================================================================
