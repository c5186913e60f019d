-------------------------- MODULE MemoryPlanProofs --------------------------
(***************************************************************************)
(* Memory limits, peaks and costs in every plan: whatever the target's     *)
(* memories, the Impls' allocations and costs, and however many Specs.     *)
(*                                                                         *)
(* Limits are rounded down and peaks up, so that an Impl whose sub-Specs   *)
(* keep to their limits keeps to its own (PeaksSound), and under any       *)
(* limits that its peaks keep to it applies with room for those sub-Specs  *)
(* (ChosenInBox).  Main costs grow with those of the sub-Specs             *)
(* (MainCostGrows) as long as no loop's overhead wraps a u32: then what is *)
(* found with less memory is found with more (AppliesGrows), and in the    *)
(* box between a solution's limits and its peaks nothing better can be     *)
(* (SameMainInBox), by induction over the order in which Specs are planned. *)
(***************************************************************************)
EXTENDS MemoryPlan, SequenceTheorems, WellFoundedInduction, TLAPS

\* A nonempty set of naturals has a least element.
LEMMA LeastNat ==
    ASSUME NEW T \in SUBSET Nat, T # {}
    PROVE  \E m \in T : \A n \in T : m <= n
<1>1. \E x \in T : \A y \in T : ~ (<<y, x>> \in OpToRel(<, Nat))
  BY NatLessThanWellFounded, WFMin
<1>2. PICK x \in T : \A y \in T : ~ (<<y, x>> \in OpToRel(<, Nat))
  BY <1>1
<1>3. \A y \in T : ~ (y < x)
  BY <1>2 DEF OpToRel
<1> QED
  BY <1>3

\* Its least element is what Min chooses.
LEMMA MinNat ==
    ASSUME NEW T \in SUBSET Nat, T # {}
    PROVE  Min(T) \in T /\ \A n \in T : Min(T) <= n
BY LeastNat DEF Min

\* And a bounded one has a greatest element, which Max chooses.
LEMMA MaxNat ==
    ASSUME NEW b \in Nat, NEW T \in SUBSET (0..b), T # {}
    PROVE  Max(T) \in T /\ \A n \in T : n <= Max(T)
<1> DEFINE Gaps == {b - n : n \in T}
<1>1. Gaps # {} /\ Gaps \in SUBSET Nat
  <2>1. \A n \in T : n \in Nat /\ b - n \in Nat
    OBVIOUS
  <2>2. Gaps # {}
    OBVIOUS
  <2> QED
    BY <2>1, <2>2
<1>2. PICK gap \in Gaps : \A g \in Gaps : gap <= g
  BY <1>1, LeastNat
<1>3. PICK m \in T : gap = b - m
  BY <1>2
<1>4. \A n \in T : n <= m
  <2> SUFFICES ASSUME NEW n \in T
               PROVE  n <= m
    OBVIOUS
  <2>1. gap <= b - n
    BY <1>2
  <2>2. n \in Nat /\ m \in Nat
    BY <1>3
  <2> QED
    BY <1>3, <2>1, <2>2
<1>5. \A n \in T : m >= n
  BY <1>4
<1>6. \A n \in T : Max(T) >= n
  BY <1>5 DEF Max
<1>7. Max(T) \in T
  BY <1>5 DEF Max
<1> QED
  BY <1>6, <1>7
-----------------------------------------------------------------------------
(* Powers of two, by induction on the power: where a function as wanted on *)
(* 0..n were missing for some n, there would be a least such n.            *)

IsPower(f, n) == /\ f \in [0..n -> Nat] /\ f[0] = 1
                 /\ \A i \in 1..n : f[i] = 2 * f[i - 1]

LEMMA PowerExists ==
    ASSUME NEW n \in Nat
    PROVE  \E f : IsPower(f, n)
<1> DEFINE Bad == {k \in Nat : \A f : ~IsPower(f, k)}
<1>1. SUFFICES ASSUME Bad # {}
               PROVE  FALSE
  OBVIOUS
<1>2. PICK k \in Bad : \A i \in Bad : k <= i
  BY <1>1, LeastNat
<1>3. CASE k = 0
  <2>1. IsPower([i \in 0..k |-> 1], k)
    BY <1>3 DEF IsPower
  <2> QED
    BY <1>2, <2>1
<1>4. CASE k # 0
  <2>1. k - 1 \in Nat /\ k - 1 \notin Bad
    BY <1>2, <1>4
  <2>2. PICK f : IsPower(f, k - 1)
    BY <2>1
  <2> DEFINE g == [i \in 0..k |-> IF i = k THEN 2 * f[k - 1] ELSE f[i]]
  <2>3. f \in [0..(k - 1) -> Nat] /\ f[k - 1] \in Nat /\ k \in Nat
    BY <2>1, <2>2 DEF IsPower
  <2>4. g \in [0..k -> Nat]
    BY <2>3
  <2>5. g[0] = 1
    BY <1>4, <2>2, <2>3 DEF IsPower
  <2>6. ASSUME NEW i \in 1..k
        PROVE  g[i] = 2 * g[i - 1]
    BY <2>2, <2>3 DEF IsPower
  <2>7. IsPower(g, k)
    BY <2>4, <2>5, <2>6 DEF IsPower
  <2> QED
    BY <1>2, <2>7
<1> QED
  BY <1>3, <1>4

LEMMA PowerOfTwoIs == IsPower(PowerOfTwo, SizeBits)
<1>1. PICK f : IsPower(f, SizeBits)
  BY PowerExists, MemoryPlanAssumption
<1>2. f = [n \in Scales |-> IF n = 0 THEN 1 ELSE 2 * f[n - 1]]
  BY <1>1, MemoryPlanAssumption DEF IsPower, Scales
<1>3. PowerOfTwo = [n \in Scales |-> IF n = 0 THEN 1 ELSE 2 * PowerOfTwo[n - 1]]
  BY <1>2 DEF PowerOfTwo
<1>4. SizeBits \in Nat
  BY MemoryPlanAssumption
<1>5. PowerOfTwo[0] = 1
  BY <1>3, <1>4 DEF Scales
<1>6. \A i \in 1..SizeBits : PowerOfTwo[i] = 2 * PowerOfTwo[i - 1]
  BY <1>3, <1>4 DEF Scales
<1>7. \A i \in Scales : PowerOfTwo[i] = f[i]
  <2> DEFINE Bad == {i \in Nat : i \in Scales /\ PowerOfTwo[i] # f[i]}
  <2>1. SUFFICES ASSUME Bad # {}
                 PROVE  FALSE
    BY DEF Scales
  <2>2. PICK k \in Bad : \A i \in Bad : k <= i
    BY <2>1, LeastNat
  <2>3. k # 0
    BY <1>1, <1>5, <2>2 DEF IsPower
  <2>4. k - 1 \in Nat /\ k - 1 \in Scales /\ k \in 1..SizeBits
    BY <1>4, <2>2, <2>3 DEF Scales
  <2>5. PowerOfTwo[k - 1] = f[k - 1]
    BY <2>2, <2>4
  <2> QED
    BY <1>1, <1>6, <2>2, <2>4, <2>5 DEF IsPower
<1>8. PowerOfTwo = f
  BY <1>1, <1>3, <1>4, <1>7 DEF IsPower, Scales
<1> QED
  BY <1>1, <1>8

\* More bits are more bytes.
LEMMA PowerGrows ==
    ASSUME NEW i \in Scales, NEW j \in Scales, i < j
    PROVE  PowerOfTwo[i] \in Nat \ {0} /\ PowerOfTwo[i] < PowerOfTwo[j]
<1>1. /\ SizeBits \in Nat /\ PowerOfTwo[0] = 1
      /\ \A k \in Scales : PowerOfTwo[k] \in Nat
      /\ \A k \in 1..SizeBits : PowerOfTwo[k] = 2 * PowerOfTwo[k - 1]
  BY PowerOfTwoIs, MemoryPlanAssumption DEF IsPower, Scales
<1>2. \A k \in Scales : PowerOfTwo[k] # 0
  <2> DEFINE Bad == {k \in Nat : k \in Scales /\ PowerOfTwo[k] = 0}
  <2>1. SUFFICES ASSUME Bad # {}
                 PROVE  FALSE
    BY DEF Scales
  <2>2. PICK k \in Bad : \A n \in Bad : k <= n
    BY <2>1, LeastNat
  <2>3. k # 0
    BY <1>1, <2>2
  <2>4. k - 1 \in Nat /\ k - 1 \in Scales /\ k \in 1..SizeBits
    BY <1>1, <2>2, <2>3 DEF Scales
  <2>5. PowerOfTwo[k - 1] # 0 /\ PowerOfTwo[k - 1] \in Nat
    BY <1>1, <2>2, <2>4
  <2> QED
    BY <1>1, <2>2, <2>4, <2>5
<1>3. \A k \in Scales : i < k => PowerOfTwo[i] < PowerOfTwo[k]
  <2> DEFINE Bad == {k \in Nat : k \in Scales /\ i < k /\ ~(PowerOfTwo[i] < PowerOfTwo[k])}
  <2>1. SUFFICES ASSUME Bad # {}
                 PROVE  FALSE
    BY DEF Scales
  <2>2. PICK k \in Bad : \A n \in Bad : k <= n
    BY <2>1, LeastNat
  <2>3. k # 0 /\ i \in Nat
    BY <1>1, <2>2 DEF Scales
  <2>4. k - 1 \in Nat /\ k - 1 \in Scales /\ k \in 1..SizeBits
    BY <1>1, <2>2, <2>3 DEF Scales
  <2>5. i = k - 1 \/ PowerOfTwo[i] < PowerOfTwo[k - 1]
    BY <2>2, <2>3, <2>4
  <2>6. PowerOfTwo[k - 1] \in Nat \ {0} /\ PowerOfTwo[i] \in Nat /\ PowerOfTwo[k] = 2 * PowerOfTwo[k - 1]
    BY <1>1, <1>2, <2>4
  <2> QED
    BY <2>2, <2>5, <2>6
<1> QED
  BY <1>1, <1>2, <1>3

LEMMA BytesGrow ==
    /\ \A b \in Scales : Bytes(b) \in Nat
    /\ \A b, c \in Scales : b < c => Bytes(b) < Bytes(c)
    /\ \A b, c \in Scales : b <= c => Bytes(b) <= Bytes(c)
    /\ \A b, c \in Scales : Bytes(b) <= Bytes(c) => b <= c
    /\ Bytes(0) = 0
<1>1. SizeBits \in Nat
  BY MemoryPlanAssumption
<1>2. \A b \in Scales : Bytes(b) \in Nat
  BY <1>1, PowerOfTwoIs DEF IsPower, Scales, Bytes
<1>3. ASSUME NEW b \in Scales, NEW c \in Scales, b < c
      PROVE  Bytes(b) < Bytes(c)
  <2>1. c - 1 \in Scales /\ c # 0
    BY <1>1, <1>3 DEF Scales
  <2>2. CASE b = 0
    <3>1. PowerOfTwo[c - 1] \in Nat \ {0}
      <4>1. c - 1 \in Scales /\ 0 \in Scales /\ PowerOfTwo[0] = 1
        BY <1>1, <2>1, PowerOfTwoIs DEF IsPower, Scales
      <4>2. c - 1 = 0 \/ 0 < c - 1
        BY <1>1, <2>1 DEF Scales
      <4>3. PowerOfTwo[c - 1] \in Nat
        BY <4>1, PowerOfTwoIs DEF IsPower, Scales
      <4> QED
        BY <4>1, <4>2, <4>3, PowerGrows
    <3> QED
      BY <2>1, <2>2, <3>1 DEF Bytes
  <2>3. CASE b # 0
    <3>1. b - 1 \in Scales /\ b - 1 < c - 1
      BY <1>1, <1>3, <2>3 DEF Scales
    <3>2. PowerOfTwo[b - 1] < PowerOfTwo[c - 1]
      BY <2>1, <3>1, PowerGrows
    <3> QED
      BY <2>1, <2>3, <3>2 DEF Bytes
  <2> QED
    BY <2>2, <2>3
<1>4. ASSUME NEW b \in Scales, NEW c \in Scales, b <= c
      PROVE  Bytes(b) <= Bytes(c)
  <2>1. b = c \/ b < c
    BY <1>1, <1>4 DEF Scales
  <2>2. Bytes(b) \in Nat /\ Bytes(c) \in Nat
    BY <1>2
  <2> QED
    BY <1>3, <2>1, <2>2
<1>5. ASSUME NEW b \in Scales, NEW c \in Scales, Bytes(b) <= Bytes(c)
      PROVE  b <= c
  <2>1. b <= c \/ c < b
    BY <1>1 DEF Scales
  <2>2. Bytes(b) \in Nat /\ Bytes(c) \in Nat
    BY <1>2
  <2> QED
    BY <1>3, <1>5, <2>1, <2>2
<1>6. Bytes(0) = 0
  BY DEF Bytes
<1> QED
  BY <1>2, <1>3, <1>4, <1>5, <1>6

\* What rounding down and rounding up return, up to the size of b bits.
LEMMA RoundDown ==
    ASSUME NEW b \in Scales, NEW x \in Nat, x <= Bytes(b)
    PROVE  /\ PrevPowerOfTwo(x) \in Scales /\ PrevPowerOfTwo(x) <= b
           /\ Bytes(PrevPowerOfTwo(x)) <= x
           /\ \A c \in Scales : Bytes(c) <= x => c <= PrevPowerOfTwo(x)
<1> DEFINE T == {n \in Scales : Bytes(n) <= x}
<1>1. SizeBits \in Nat /\ b \in Nat
  BY MemoryPlanAssumption DEF Scales
<1>2. 0 \in T
  BY <1>1, BytesGrow DEF Scales
<1>3. ASSUME NEW n \in T
      PROVE  n \in 0..b
  <2>1. Bytes(n) \in Nat /\ Bytes(b) \in Nat /\ Bytes(n) <= x
    BY BytesGrow
  <2>2. Bytes(n) <= Bytes(b)
    BY <2>1
  <2>3. n <= b
    BY <2>2, BytesGrow
  <2> QED
    BY <1>1, <2>3 DEF Scales
<1>4. T \in SUBSET (0..b) /\ T # {}
  BY <1>2, <1>3
<1>5. Max(T) \in T /\ \A n \in T : n <= Max(T)
  <2> HIDE DEF T
  <2> QED
    BY <1>1, <1>4, MaxNat
<1>6. PrevPowerOfTwo(x) = Max(T)
  BY DEF PrevPowerOfTwo
<1>7. Max(T) <= b
  <2> HIDE DEF T
  <2>1. Max(T) \in 0..b
    BY <1>3, <1>5
  <2> QED
    BY <2>1
<1> QED
  BY <1>5, <1>6, <1>7

LEMMA RoundUp ==
    ASSUME NEW b \in Scales, NEW x \in Nat, x <= Bytes(b)
    PROVE  /\ NextBinaryPower(x) \in Scales /\ NextBinaryPower(x) <= b
           /\ x <= Bytes(NextBinaryPower(x))
<1> DEFINE T == {n \in Scales : Bytes(n) >= x}
<1>1. SizeBits \in Nat
  BY MemoryPlanAssumption
<1>2. b \in T
  BY BytesGrow
<1>3. T \in SUBSET Nat /\ T # {}
  BY <1>1, <1>2 DEF Scales
<1>4. Min(T) \in T /\ \A n \in T : Min(T) <= n
  <2> HIDE DEF T
  <2> QED
    BY <1>3, MinNat
<1>5. NextBinaryPower(x) = Min(T)
  BY DEF NextBinaryPower
<1>6. Bytes(Min(T)) >= x /\ Bytes(Min(T)) \in Nat
  BY <1>4, BytesGrow
<1> QED
  BY <1>2, <1>4, <1>5, <1>6
-----------------------------------------------------------------------------
(* The order of costs.                                                     *)

Peak == [Levels -> Scales]

LEMMA LevelTypes ==
    /\ SizeBits \in Nat /\ MainMax \in Nat /\ \A b \in Scales : b \in Nat
    /\ \A l \in Levels : l \in Nat /\ l # 0 /\ LevelMax[l] \in Scales
<1>1. Len(LevelMax) \in Nat /\ LevelMax \in [1..Len(LevelMax) -> Scales]
  BY MemoryPlanAssumption
<1> QED
  BY <1>1, MemoryPlanAssumption DEF Levels, Scales

LEMMA CostTypes ==
    ASSUME NEW c \in Costs
    PROVE  c.main \in Nat /\ c.main <= MainMax /\ c.depth \in Nat /\ c.peaks \in Peak
<1>1. c.main \in 0..MainMax /\ c.depth \in 0..255 /\ c.peaks \in Peak
  BY DEF Costs, Peak
<1> QED
  BY <1>1, LevelTypes

LEMMA LexTotal ==
    ASSUME NEW p \in Peak, NEW q \in Peak
    PROVE  p = q \/ LexLess(p, q) \/ LexLess(q, p)
<1> DEFINE Differ == {l \in Levels : p[l] # q[l]}
<1>1. Differ \in SUBSET Nat
  BY MemoryPlanAssumption DEF Levels
<1>2. CASE Differ = {}
  BY <1>2 DEF Peak
<1>3. CASE Differ # {}
  <2>1. PICK l \in Differ : \A n \in Differ : l <= n
    BY <1>1, <1>3, LeastNat
  <2>2. \A k \in 1..l - 1 : p[k] = q[k]
    <3>1. Len(LevelMax) \in Nat /\ l \in 1..Len(LevelMax)
      BY <2>1, MemoryPlanAssumption DEF Levels
    <3>2. \A k \in 1..l - 1 : k \in Levels /\ ~(l <= k)
      BY <3>1 DEF Levels
    <3> QED
      BY <2>1, <3>2
  <2>3. l \in Levels /\ p[l] \in Int /\ q[l] \in Int /\ p[l] # q[l]
    BY <2>1, MemoryPlanAssumption DEF Peak, Scales
  <2>4. p[l] < q[l] \/ q[l] < p[l]
    BY <2>3
  <2> QED
    BY <2>2, <2>3, <2>4 DEF LexLess
<1> QED
  BY <1>2, <1>3

LEMMA LexTransitive ==
    ASSUME NEW p \in Peak, NEW q \in Peak, NEW r \in Peak, LexLess(p, q), LexLess(q, r)
    PROVE  LexLess(p, r)
<1>1. PICK i \in Levels : p[i] < q[i] /\ \A k \in 1..i - 1 : p[k] = q[k]
  BY DEF LexLess
<1>2. PICK j \in Levels : q[j] < r[j] /\ \A k \in 1..j - 1 : q[k] = r[k]
  BY DEF LexLess
<1>3. /\ i \in Nat \ {0} /\ j \in Nat \ {0}
      /\ \A l \in Levels : p[l] \in Int /\ q[l] \in Int /\ r[l] \in Int
  BY LevelTypes DEF Peak
<1>4. CASE i < j
  <2>1. i \in 1..j - 1 /\ \A k \in 1..i - 1 : k \in 1..j - 1
    BY <1>3, <1>4
  <2>2. p[i] < r[i] /\ \A k \in 1..i - 1 : p[k] = r[k]
    BY <1>1, <1>2, <2>1
  <2> QED
    BY <2>2 DEF LexLess
<1>5. CASE i = j
  <2>1. p[i] < r[i] /\ \A k \in 1..i - 1 : p[k] = r[k]
    BY <1>1, <1>2, <1>3, <1>5
  <2> QED
    BY <2>1 DEF LexLess
<1>6. CASE j < i
  <2>1. j \in 1..i - 1 /\ \A k \in 1..j - 1 : k \in 1..i - 1
    BY <1>3, <1>6
  <2>2. p[j] < r[j] /\ \A k \in 1..j - 1 : p[k] = r[k]
    BY <1>1, <1>2, <2>1
  <2> QED
    BY <2>2 DEF LexLess
<1> QED
  BY <1>3, <1>4, <1>5, <1>6

LEMMA CheaperTotal ==
    ASSUME NEW c \in Costs, NEW d \in Costs
    PROVE  c = d \/ Cheaper(c, d) \/ Cheaper(d, c)
<1>1. /\ c.main \in Int /\ d.main \in Int /\ c.depth \in Int /\ d.depth \in Int
      /\ c.peaks \in Peak /\ d.peaks \in Peak
  BY CostTypes
<1>2. c.peaks = d.peaks \/ LexLess(c.peaks, d.peaks) \/ LexLess(d.peaks, c.peaks)
  BY <1>1, LexTotal
<1>3. c.main = d.main /\ c.peaks = d.peaks /\ c.depth = d.depth => c = d
  BY DEF Costs
<1> QED
  BY <1>1, <1>2, <1>3 DEF Cheaper

LEMMA CheaperTransitive ==
    ASSUME NEW c \in Costs, NEW d \in Costs, NEW e \in Costs, Cheaper(c, d), Cheaper(d, e)
    PROVE  Cheaper(c, e)
<1>1. /\ c.main \in Int /\ d.main \in Int /\ e.main \in Int
      /\ c.depth \in Int /\ d.depth \in Int /\ e.depth \in Int
      /\ c.peaks \in Peak /\ d.peaks \in Peak /\ e.peaks \in Peak
  BY CostTypes
<1>2. LexLess(c.peaks, d.peaks) /\ LexLess(d.peaks, e.peaks) => LexLess(c.peaks, e.peaks)
  BY <1>1, LexTransitive
<1> QED
  BY <1>1, <1>2 DEF Cheaper

\* What the reducer keeps of Impls with different indices is one of them, and
\* its main cost is the least.
LEMMA LeastIs ==
    ASSUME NEW n \in Nat, NEW C \in SUBSET [impl : 1..n, cost : Costs], C # {},
           \A c, d \in C : c.impl = d.impl => c = d
    PROVE  Least(C) \in C /\ \A d \in C : Least(C).cost.main <= d.cost.main
<1> DEFINE UpTo(k) == {c \in C : c.impl <= k}
           First(c, k) == c \in UpTo(k) /\ \A d \in UpTo(k) \ {c} : Precedes(c, d)
           Bad == {k \in Nat : UpTo(k) # {} /\ \A c \in UpTo(k) : ~First(c, k)}
<1>1. \A c \in C : c.impl \in Nat /\ c.impl <= n /\ c.impl # 0 /\ c.cost \in Costs
  OBVIOUS
<1>2. Bad = {}
  <2>1. SUFFICES ASSUME Bad # {}
                 PROVE  FALSE
    OBVIOUS
  <2>2. PICK k \in Bad : \A i \in Bad : k <= i
    BY <2>1, LeastNat
  <2>3. k \in Nat /\ UpTo(k) # {} /\ \A c \in UpTo(k) : ~First(c, k)
    BY <2>2
  <2>4. k # 0
    BY <1>1, <2>3
  <2>5. k - 1 \in Nat /\ k - 1 \notin Bad
    BY <2>2, <2>3, <2>4
  <2>6. CASE UpTo(k - 1) = {}
    <3>1. PICK c \in UpTo(k) : TRUE
      BY <2>3
    <3>2. \A d \in UpTo(k) : d.impl = k
      BY <1>1, <2>3, <2>6
    <3>3. \A d \in UpTo(k) : d = c
      BY <3>1, <3>2
    <3> QED
      BY <2>3, <3>1, <3>3
  <2>7. CASE UpTo(k - 1) # {}
    <3>1. PICK c \in UpTo(k - 1) : First(c, k - 1)
      BY <2>5, <2>7
    <3>2. c \in UpTo(k) /\ c.impl < k
      BY <1>1, <2>3, <3>1
    <3>3. PICK d \in UpTo(k) \ {c} : ~Precedes(c, d)
      BY <2>3, <3>2
    <3>4. d.impl = k
      <4>1. d \notin UpTo(k - 1) /\ d \in C /\ d.impl <= k
        BY <3>1, <3>3
      <4>2. ~(d.impl <= k - 1) /\ d.impl \in Nat
        BY <1>1, <4>1
      <4>3. k \in Nat /\ d.impl <= k
        BY <2>3, <4>1
      <4> HIDE DEF UpTo
      <4> QED
        BY <4>2, <4>3
    <3>5. Cheaper(d.cost, c.cost)
      BY <3>2, <3>3, <3>4 DEF Precedes
    <3>6. ASSUME NEW e \in UpTo(k) \ {d}
          PROVE  Precedes(d, e)
      <4>1. CASE e = c
        BY <3>5, <4>1 DEF Precedes
      <4>2. CASE e # c
        <5>1. e.impl # k
          <6>1. e \in C /\ d \in C /\ e # d
            BY <3>3, <3>6
          <6> QED
            BY <3>4, <6>1
        <5>2. e \in UpTo(k - 1)
          <6>1. e \in C /\ e.impl <= k /\ e.impl \in Nat
            BY <1>1, <3>6
          <6>2. e.impl <= k - 1
            <7>1. k \in Nat
              BY <2>3
            <7> QED
              BY <5>1, <6>1, <7>1
          <6> QED
            BY <6>1, <6>2
        <5>3. Precedes(c, e)
          BY <3>1, <4>2, <5>2
        <5>4. c.cost \in Costs /\ d.cost \in Costs /\ e.cost \in Costs
          BY <1>1, <3>2, <3>3, <3>6
        <5>5. Cheaper(d.cost, e.cost)
          BY <3>5, <5>3, <5>4, CheaperTotal, CheaperTransitive DEF Precedes
        <5> QED
          BY <5>5 DEF Precedes
      <4> QED
        BY <4>1, <4>2
    <3> QED
      BY <2>3, <3>3, <3>6
  <2> QED
    BY <2>6, <2>7
<1>3. UpTo(n) = C
  BY <1>1
<1>4. \E c \in C : \A d \in C \ {c} : Precedes(c, d)
  BY <1>2, <1>3
<1> HIDE DEF Bad, UpTo, First
<1>5. Least(C) \in C /\ \A d \in C \ {Least(C)} : Precedes(Least(C), d)
  BY <1>4 DEF Least
<1>6. ASSUME NEW d \in C
      PROVE  Least(C).cost.main <= d.cost.main
  <2>1. /\ Least(C).cost \in Costs /\ d.cost \in Costs
        /\ Least(C).cost.main \in Int /\ d.cost.main \in Int
    BY <1>1, <1>5, CostTypes
  <2>2. d = Least(C) \/ Precedes(Least(C), d)
    BY <1>5
  <2>3. Least(C).cost = d.cost \/ Cheaper(Least(C).cost, d.cost)
    BY <2>1, <2>2, CheaperTotal DEF Precedes
  <2> QED
    BY <2>1, <2>3 DEF Cheaper
<1> QED
  BY <1>5, <1>6
-----------------------------------------------------------------------------
(* Main costs.                                                             *)

LEMMA MinOfTwo ==
    ASSUME NEW x \in Nat, NEW y \in Nat
    PROVE  Min({x, y}) = IF x <= y THEN x ELSE y
<1>1. Min({x, y}) \in {x, y} /\ \A n \in {x, y} : Min({x, y}) <= n
  <2>1. {x, y} \in SUBSET Nat /\ {x, y} # {}
    OBVIOUS
  <2> QED
    BY <2>1, MinNat
<1> QED
  BY <1>1

LEMMA SaturatingAddIs ==
    ASSUME NEW x \in Nat, NEW y \in Nat
    PROVE  SaturatingAdd(x, y) = IF x + y <= MainMax THEN x + y ELSE MainMax
<1>1. x + y \in Nat
  OBVIOUS
<1> QED
  BY <1>1, MinOfTwo, LevelTypes DEF SaturatingAdd

LEMMA SaturatingMulGrows ==
    ASSUME NEW x \in Nat, NEW y \in Nat, NEW n \in Nat, x <= y
    PROVE  /\ SaturatingMul(x, n) \in Nat /\ SaturatingMul(y, n) \in Nat
           /\ SaturatingMul(x, n) <= SaturatingMul(y, n)
<1>1. PICK u \in Nat, v \in Nat : u = x * n /\ v = y * n
  OBVIOUS
<1>2. u <= v
  <2>1. PICK w \in Nat : y = x + w
    <3>1. y - x \in Nat /\ y = x + (y - x)
      OBVIOUS
    <3> QED
      BY <3>1
  <2>2. y * n = x * n + w * n /\ w * n \in Nat
    BY <2>1
  <2> QED
    BY <1>1, <2>2
<1>3. SaturatingMul(x, n) = Min({u, MainMax}) /\ SaturatingMul(y, n) = Min({v, MainMax})
  BY <1>1 DEF SaturatingMul
<1> QED
  BY <1>1, <1>2, <1>3, MinOfTwo, LevelTypes

LEMMA ModuloIs ==
    ASSUME NEW x \in Nat
    PROVE  /\ x % (MainMax + 1) \in 0..MainMax
           /\ x <= MainMax => x % (MainMax + 1) = x
<1>1. PICK d \in Nat \ {0} : d = MainMax + 1
  BY LevelTypes
<1>2. (x % d) \in 0..(d - 1)
  BY <1>1
<1>3. x < d => (x % d) = x
  BY <1>1
<1>4. MainMax \in Nat /\ (x % (MainMax + 1)) = (x % d) /\ d - 1 = MainMax
  BY <1>1, LevelTypes
<1>5. (x % (MainMax + 1)) \in 0..MainMax
  BY <1>2, <1>4
<1> QED
  BY <1>1, <1>3, <1>4, <1>5

\* The sums of a sequence's first elements, by induction as the powers are.
IsSum(f, main, c, n) == /\ f \in [0..n -> 0..MainMax] /\ f[0] = main
                        /\ \A i \in 1..n : f[i] = SaturatingAdd(f[i - 1], c[i])

LEMMA SumExists ==
    ASSUME NEW main \in 0..MainMax, NEW c, NEW n \in Nat, \A i \in 1..n : c[i] \in 0..MainMax
    PROVE  \E f : IsSum(f, main, c, n)
<1> DEFINE Bad == {k \in Nat : k <= n /\ \A f : ~IsSum(f, main, c, k)}
<1>1. SUFFICES ASSUME Bad # {}
               PROVE  FALSE
  OBVIOUS
<1>2. PICK k \in Bad : \A i \in Bad : k <= i
  BY <1>1, LeastNat
<1>3. CASE k = 0
  <2>1. IsSum([i \in 0..k |-> main], main, c, k)
    BY <1>3 DEF IsSum
  <2> QED
    BY <1>2, <2>1
<1>4. CASE k # 0
  <2>1. k \in Nat /\ k - 1 \in Nat /\ k - 1 \notin Bad /\ k <= n
    BY <1>2, <1>4
  <2>2. PICK f : IsSum(f, main, c, k - 1)
    BY <2>1
  <2>3. f \in [0..(k - 1) -> 0..MainMax] /\ f[k - 1] \in 0..MainMax /\ c[k] \in 0..MainMax
    BY <2>1, <2>2 DEF IsSum
  <2>4. SaturatingAdd(f[k - 1], c[k]) \in 0..MainMax
    BY <2>3, SaturatingAddIs, LevelTypes
  <2> DEFINE g == [i \in 0..k |-> IF i = k THEN SaturatingAdd(f[k - 1], c[k]) ELSE f[i]]
  <2>5. g \in [0..k -> 0..MainMax]
    BY <2>1, <2>3, <2>4
  <2>6. g[0] = main
    BY <1>4, <2>1, <2>2, <2>3 DEF IsSum
  <2>7. ASSUME NEW i \in 1..k
        PROVE  g[i] = SaturatingAdd(g[i - 1], c[i])
    BY <2>1, <2>2, <2>3 DEF IsSum
  <2>8. IsSum(g, main, c, k)
    BY <2>5, <2>6, <2>7 DEF IsSum
  <2> QED
    BY <1>2, <2>8
<1> QED
  BY <1>3, <1>4

\* The children's main costs of an Impl that is no loop are added up.
LEMMA MainCostIsSum ==
    ASSUME NEW impl, impl.kind # "loop", impl.main \in 0..MainMax,
           NEW n \in Nat, NEW c \in [1..n -> 0..MainMax]
    PROVE  \E f : IsSum(f, impl.main, c, n) /\ MainCost(impl, c) = f[n]
<1> DEFINE D == {0} \cup DOMAIN c
           IsRec(f) == f = [i \in D |-> IF i = 0 THEN impl.main ELSE SaturatingAdd(f[i - 1], c[i])]
<1>1. PICK f : IsSum(f, impl.main, c, n)
  BY SumExists
<1>2. D = 0..n /\ Len(c) = n
  <2>1. c \in Seq(0..MainMax)
    BY SeqDef
  <2>2. DOMAIN c = 1..n
    OBVIOUS
  <2> QED
    BY <2>1, <2>2
<1>3. IsRec(f)
  BY <1>1, <1>2 DEF IsSum
<1>4. MainCost(impl, c) = (CHOOSE g : IsRec(g))[Len(c)]
  BY DEF MainCost
<1>5. PICK g : g = CHOOSE h : IsRec(h)
  OBVIOUS
<1>6. IsRec(g)
  BY <1>3, <1>5
<1>7. \A i \in 0..n : g[i] = f[i]
  <2> DEFINE Bad == {i \in Nat : i <= n /\ g[i] # f[i]}
  <2>1. SUFFICES ASSUME Bad # {}
                 PROVE  FALSE
    OBVIOUS
  <2>2. PICK k \in Bad : \A i \in Bad : k <= i
    BY <2>1, LeastNat
  <2>3. k # 0
    BY <1>1, <1>2, <1>6, <2>2 DEF IsSum
  <2>4. k - 1 \in Nat /\ k \in 1..n /\ g[k - 1] = f[k - 1]
    BY <2>2, <2>3
  <2>5. g[k] = SaturatingAdd(g[k - 1], c[k])
    BY <1>2, <1>6, <2>4
  <2>6. f[k] = SaturatingAdd(f[k - 1], c[k])
    BY <1>1, <2>4 DEF IsSum
  <2> QED
    BY <2>2, <2>4, <2>5, <2>6
<1>8. MainCost(impl, c) = f[n]
  <2> HIDE DEF IsRec
  <2>1. n \in 0..n
    OBVIOUS
  <2>2. MainCost(impl, c) = g[n]
    BY <1>2, <1>4, <1>5
  <2> QED
    BY <1>7, <2>1, <2>2
<1> QED
  BY <1>1, <1>8
LEMMA SumGrows ==
    ASSUME NEW main \in 0..MainMax, NEW n \in Nat, NEW c, NEW d, NEW f, NEW g,
           \A i \in 1..n : c[i] \in 0..MainMax /\ d[i] \in 0..MainMax /\ c[i] <= d[i],
           IsSum(f, main, c, n), IsSum(g, main, d, n)
    PROVE  f[n] <= g[n]
<1> DEFINE Bad == {k \in Nat : k <= n /\ ~(f[k] <= g[k])}
<1>1. SUFFICES ASSUME Bad # {}
               PROVE  FALSE
  OBVIOUS
<1>2. PICK k \in Bad : \A i \in Bad : k <= i
  BY <1>1, LeastNat
<1>3. k # 0
  BY <1>2, LevelTypes DEF IsSum
<1>4. k - 1 \in Nat /\ k \in 1..n /\ f[k - 1] <= g[k - 1]
  BY <1>2, <1>3
<1>5. /\ f[k] = SaturatingAdd(f[k - 1], c[k]) /\ g[k] = SaturatingAdd(g[k - 1], d[k])
      /\ f[k - 1] \in 0..MainMax /\ g[k - 1] \in 0..MainMax
      /\ c[k] \in 0..MainMax /\ d[k] \in 0..MainMax /\ c[k] <= d[k]
  BY <1>2, <1>4 DEF IsSum
<1>6. f[k] <= g[k]
  <2>1. PICK u \in Nat, v \in Nat, x \in Nat, y \in Nat :
            u = f[k - 1] /\ v = g[k - 1] /\ x = c[k] /\ y = d[k] /\ u <= v /\ x <= y
    BY <1>4, <1>5
  <2>2. /\ SaturatingAdd(u, x) = IF u + x <= MainMax THEN u + x ELSE MainMax
        /\ SaturatingAdd(v, y) = IF v + y <= MainMax THEN v + y ELSE MainMax
    BY SaturatingAddIs
  <2>3. SaturatingAdd(u, x) <= SaturatingAdd(v, y)
    BY <2>1, <2>2, LevelTypes
  <2> QED
    BY <1>5, <2>1, <2>3
<1> QED
  BY <1>2, <1>6

\* What the Impls on offer are.
ImplSound(impl, k) ==
    /\ impl.subs \in Seq(1..k) /\ impl.main \in 0..MainMax
    /\ impl.steps \in Nat /\ impl.overhead \in Nat /\ impl.alloc \in [Levels -> Nat]
    /\ impl.kind = "loop" => Len(impl.subs) = 1 /\ \E lp \in Loops : impl.overhead = lp.overhead
    /\ DOMAIN impl.subs = {} => impl.alloc = Nothing

LEMMA OfferSound ==
    ASSUME NEW k \in Nat, NEW impl \in Offer(1..k)
    PROVE  ImplSound(impl, k)
<1>1. Nothing \in [Levels -> Nat]
  BY DEF Nothing
<1>2. MainMax \in Nat /\ 0 \in 0..MainMax
  BY LevelTypes
<1>3. ASSUME NEW x \in Kernels, impl = Impl("kernel", <<>>, x, 1, 0, Nothing)
      PROVE  ImplSound(impl, k)
  <2>1. x \in 0..MainMax
    BY MemoryPlanAssumption
  <2>2. <<>> \in Seq(1..k)
    OBVIOUS
  <2> QED
    BY <1>1, <1>3, <2>1, <2>2 DEF Impl, ImplSound
<1>4. ASSUME NEW s \in 1..k, NEW lp \in Loops,
             impl = Impl("loop", <<s>>, 0, lp.steps, lp.overhead, Nothing)
      PROVE  ImplSound(impl, k)
  <2>1. lp.steps \in Nat /\ lp.overhead \in Nat
    BY MemoryPlanAssumption
  <2>2. <<s>> \in Seq(1..k) /\ Len(<<s>>) = 1
    OBVIOUS
  <2> QED
    BY <1>1, <1>2, <1>4, <2>1, <2>2 DEF Impl, ImplSound
<1>5. ASSUME NEW mv \in Moves, NEW ss \in [1..mv.subs -> 1..k],
             impl = Impl("move", ss, mv.main, 1, 0, [Nothing EXCEPT ![mv.level] = mv.bytes])
      PROVE  ImplSound(impl, k)
  <2>1. mv.level \in Levels /\ mv.bytes \in Nat /\ mv.main \in 0..MainMax /\ mv.subs \in Nat \ {0}
    BY MemoryPlanAssumption
  <2>2. ss \in Seq(1..k)
    BY <2>1, SeqDef
  <2>3. [Nothing EXCEPT ![mv.level] = mv.bytes] \in [Levels -> Nat]
    BY <1>1, <2>1
  <2>4. 1 \in DOMAIN ss
    BY <2>1
  <2> QED
    BY <1>5, <2>1, <2>2, <2>3, <2>4 DEF Impl, ImplSound
<1>6. ASSUME NEW ss \in [1..2 -> 1..k], impl = Impl("block", ss, 0, 1, 0, Nothing)
      PROVE  ImplSound(impl, k)
  <2>1. ss \in Seq(1..k)
    BY SeqDef
  <2> QED
    BY <1>1, <1>2, <1>6, <2>1 DEF Impl, ImplSound
<1>7. \/ \E x \in Kernels : impl = Impl("kernel", <<>>, x, 1, 0, Nothing)
      \/ \E s \in 1..k, lp \in Loops : impl = Impl("loop", <<s>>, 0, lp.steps, lp.overhead, Nothing)
      \/ \E mv \in Moves : \E ss \in [1..mv.subs -> 1..k] :
            impl = Impl("move", ss, mv.main, 1, 0, [Nothing EXCEPT ![mv.level] = mv.bytes])
      \/ \E ss \in [1..2 -> 1..k] : impl = Impl("block", ss, 0, 1, 0, Nothing)
  <2> DEFINE blocks  == IF Blocks THEN [1..2 -> 1..k] ELSE {}
             kernels == {Impl("kernel", <<>>, x, 1, 0, Nothing) : x \in Kernels}
             loopsOf(lp) == {Impl("loop", <<s>>, 0, lp.steps, lp.overhead, Nothing) : s \in 1..k}
             loops   == UNION {loopsOf(lp) : lp \in Loops}
             movesOf(mv) == {Impl("move", ss, mv.main, 1, 0, [Nothing EXCEPT ![mv.level] = mv.bytes]) :
                                ss \in [1..mv.subs -> 1..k]}
             moves   == UNION {movesOf(mv) : mv \in Moves}
             stages  == {Impl("block", ss, 0, 1, 0, Nothing) : ss \in blocks}
  <2>1. impl \in kernels \cup loops \cup moves \cup stages
    BY DEF Offer
  <2>2. impl \in kernels => \E x \in Kernels : impl = Impl("kernel", <<>>, x, 1, 0, Nothing)
    OBVIOUS
  <2>3. impl \in loops => \E s \in 1..k, lp \in Loops :
                             impl = Impl("loop", <<s>>, 0, lp.steps, lp.overhead, Nothing)
    <3>1. impl \in loops => \E lp \in Loops : impl \in loopsOf(lp)
      <4> HIDE DEF loopsOf
      <4> QED
        OBVIOUS
    <3> QED
      BY <3>1
  <2>4. impl \in moves => \E mv \in Moves : impl \in movesOf(mv)
    <3> HIDE DEF movesOf
    <3> QED
      OBVIOUS
  <2>5. \A mv \in Moves : impl \in movesOf(mv) => \E ss \in [1..mv.subs -> 1..k] :
              impl = Impl("move", ss, mv.main, 1, 0, [Nothing EXCEPT ![mv.level] = mv.bytes])
    OBVIOUS
  <2>6. \A ss \in blocks : ss \in [1..2 -> 1..k]
    OBVIOUS
  <2>7. impl \in stages => \E ss \in [1..2 -> 1..k] : impl = Impl("block", ss, 0, 1, 0, Nothing)
    <3> HIDE DEF blocks
    <3> QED
      BY <2>6
  <2> HIDE DEF kernels, loops, loopsOf, moves, stages, movesOf, blocks
  <2>8. impl \in kernels \/ impl \in loops \/ impl \in moves \/ impl \in stages
    BY <2>1
  <2> QED
    BY <2>2, <2>3, <2>4, <2>5, <2>7, <2>8
<1> QED
  BY <1>3, <1>4, <1>5, <1>6, <1>7

\* A loop's overhead stays within a u32 over its body's main cost.
LoopFits(impl, main) ==
    impl.kind = "loop" => SaturatingMul(main, impl.steps) + impl.overhead <= MainMax

\* The main cost is one, and grows with those of the sub-Specs.
LEMMA MainCostType ==
    ASSUME NEW k \in Nat, NEW impl, ImplSound(impl, k),
           NEW c \in [DOMAIN impl.subs -> 0..MainMax]
    PROVE  MainCost(impl, c) \in 0..MainMax
<1>1. PICK n \in Nat : n = Len(impl.subs) /\ DOMAIN impl.subs = 1..n
  BY DEF ImplSound
<1>0. /\ impl.main \in 0..MainMax /\ impl.steps \in Nat /\ impl.overhead \in Nat
      /\ impl.kind = "loop" => 1 \in DOMAIN impl.subs
  <2>1. impl.kind = "loop" => n = 1
    BY <1>1 DEF ImplSound
  <2>2. n = 1 => 1 \in DOMAIN impl.subs
    BY <1>1
  <2> QED
    BY <2>1, <2>2 DEF ImplSound
<1>2. CASE impl.kind = "loop"
  <2>1. PICK x \in Nat : x = c[1]
    BY <1>0, <1>2
  <2>2. SaturatingMul(x, impl.steps) \in Nat
    <3>1. x <= x
      OBVIOUS
    <3> QED
      BY <1>0, <3>1, SaturatingMulGrows
  <2>3. SaturatingMul(c[1], impl.steps) + impl.overhead \in Nat
    BY <1>0, <2>1, <2>2
  <2> QED
    BY <1>2, <2>3, ModuloIs DEF MainCost
<1>3. CASE impl.kind # "loop"
  <2>1. PICK f : IsSum(f, impl.main, c, n) /\ MainCost(impl, c) = f[n]
    BY <1>0, <1>1, <1>3, MainCostIsSum
  <2>2. f[n] \in 0..MainMax
    BY <2>1 DEF IsSum
  <2> QED
    BY <2>1, <2>2
<1> QED
  BY <1>2, <1>3

LEMMA MainCostGrows ==
    ASSUME NEW k \in Nat, NEW impl, ImplSound(impl, k),
           NEW c \in [DOMAIN impl.subs -> 0..MainMax], NEW d \in [DOMAIN impl.subs -> 0..MainMax],
           \A i \in DOMAIN impl.subs : c[i] <= d[i], LoopFits(impl, d[1])
    PROVE  MainCost(impl, c) <= MainCost(impl, d)
<1>1. PICK n \in Nat : n = Len(impl.subs) /\ DOMAIN impl.subs = 1..n
  BY DEF ImplSound
<1>0. /\ impl.main \in 0..MainMax /\ impl.steps \in Nat /\ impl.overhead \in Nat
      /\ impl.kind = "loop" => 1 \in DOMAIN impl.subs
  <2>1. impl.kind = "loop" => n = 1
    BY <1>1 DEF ImplSound
  <2>2. n = 1 => 1 \in DOMAIN impl.subs
    BY <1>1
  <2> QED
    BY <2>1, <2>2 DEF ImplSound
<1>2. CASE impl.kind = "loop"
  <2>1. PICK x \in Nat, y \in Nat : x = c[1] /\ y = d[1] /\ x <= y
    BY <1>0, <1>2
  <2>2. PICK u \in Nat, v \in Nat :
           u = SaturatingMul(c[1], impl.steps) /\ v = SaturatingMul(d[1], impl.steps) /\ u <= v
    <3>1. /\ SaturatingMul(x, impl.steps) \in Nat /\ SaturatingMul(y, impl.steps) \in Nat
          /\ SaturatingMul(x, impl.steps) <= SaturatingMul(y, impl.steps)
      BY <1>0, <2>1, SaturatingMulGrows
    <3> QED
      BY <2>1, <3>1
  <2>3. u + impl.overhead \in Nat /\ v + impl.overhead \in Nat /\ MainMax \in Nat
        /\ v + impl.overhead <= MainMax /\ u + impl.overhead <= MainMax
    BY <1>0, <1>2, <2>2, LevelTypes DEF LoopFits
  <2>4. MainCost(impl, c) = u + impl.overhead /\ MainCost(impl, d) = v + impl.overhead
    BY <1>2, <2>2, <2>3, ModuloIs DEF MainCost
  <2> QED
    BY <1>0, <2>2, <2>3, <2>4
<1>3. CASE impl.kind # "loop"
  <2>0. c \in [1..n -> 0..MainMax] /\ d \in [1..n -> 0..MainMax]
    BY <1>1
  <2>1. PICK f : IsSum(f, impl.main, c, n) /\ MainCost(impl, c) = f[n]
    BY <1>0, <1>3, <2>0, MainCostIsSum
  <2>2. PICK g : IsSum(g, impl.main, d, n) /\ MainCost(impl, d) = g[n]
    BY <1>0, <1>3, <2>0, MainCostIsSum
  <2>3. \A i \in 1..n : c[i] \in 0..MainMax /\ d[i] \in 0..MainMax /\ c[i] <= d[i]
    BY <1>1
  <2>4. f[n] <= g[n]
    BY <2>1, <2>2, <2>3, SumGrows DEF ImplSound
  <2> QED
    BY <2>1, <2>2, <2>4
<1> QED
  BY <1>2, <1>3
-----------------------------------------------------------------------------
(* Limits and peaks.                                                       *)

LEMMA LimitTypes ==
    ASSUME NEW m \in Limits
    PROVE  m \in Peak /\ \A l \in Levels : m[l] \in Scales /\ m[l] \in Nat /\ Bytes(m[l]) \in Nat
BY LevelTypes, BytesGrow DEF Limits, Peak

LEMMA WithinTransitive ==
    ASSUME NEW p \in Peak, NEW q \in Peak, NEW r \in Peak, Within(p, q), Within(q, r)
    PROVE  Within(p, r)
<1> SUFFICES ASSUME NEW l \in Levels
             PROVE  p[l] <= r[l]
  BY DEF Within
<1>1. p[l] <= q[l] /\ q[l] <= r[l] /\ p[l] \in Nat /\ q[l] \in Nat /\ r[l] \in Nat
  BY LevelTypes DEF Within, Peak
<1> QED
  BY <1>1

LEMMA WithinItself ==
    ASSUME NEW p \in Peak
    PROVE  Within(p, p)
BY LevelTypes DEF Within, Peak

\* What is left of one level after an allocation.
LEMMA RestIs ==
    ASSUME NEW b \in Scales, NEW a \in Nat, a <= Bytes(b)
    PROVE  LET rest == PrevPowerOfTwo(Bytes(b) - a)
           IN  /\ rest \in Scales /\ rest <= b /\ a + Bytes(rest) <= Bytes(b)
               /\ \A c \in Scales : a + Bytes(c) <= Bytes(b) => c <= rest
<1>1. PICK x \in Nat : x = Bytes(b) - a /\ x <= Bytes(b)
  BY BytesGrow
<1>2. /\ PrevPowerOfTwo(x) \in Scales /\ PrevPowerOfTwo(x) <= b
      /\ Bytes(PrevPowerOfTwo(x)) <= x
      /\ \A c \in Scales : Bytes(c) <= x => c <= PrevPowerOfTwo(x)
  BY <1>1, RoundDown
<1>3. PICK rest \in Scales : rest = PrevPowerOfTwo(Bytes(b) - a)
  BY <1>1, <1>2
<1>4. a + Bytes(rest) <= Bytes(b)
  <2>1. Bytes(rest) <= x /\ Bytes(rest) \in Nat /\ Bytes(b) \in Nat
    BY <1>1, <1>2, <1>3, BytesGrow
  <2> QED
    BY <1>1, <2>1
<1>5. ASSUME NEW c \in Scales, a + Bytes(c) <= Bytes(b)
      PROVE  c <= rest
  <2>1. Bytes(c) \in Nat /\ Bytes(b) \in Nat
    BY BytesGrow
  <2>2. Bytes(c) <= x
    BY <1>1, <1>5, <2>1
  <2> QED
    BY <1>1, <1>2, <1>3, <2>2
<1> QED
  BY <1>1, <1>2, <1>3, <1>4, <1>5

\* An Impl's sub-Specs have limits, and with more memory they have more.
LEMMA LowerIs ==
    ASSUME NEW impl, impl.alloc \in [Levels -> Nat], NEW m \in Limits, Fits(impl, m)
    PROVE  /\ LowerLimits(impl, m) \in Limits
           /\ \A l \in Levels :
                /\ impl.alloc[l] + Bytes(LowerLimits(impl, m)[l]) <= Bytes(m[l])
                /\ \A c \in Scales : impl.alloc[l] + Bytes(c) <= Bytes(m[l]) =>
                                        c <= LowerLimits(impl, m)[l]
<1>1. ASSUME NEW l \in Levels
      PROVE  LET rest == LowerLimits(impl, m)[l]
             IN  /\ rest \in Scales /\ rest <= m[l] /\ impl.alloc[l] + Bytes(rest) <= Bytes(m[l])
                 /\ \A c \in Scales : impl.alloc[l] + Bytes(c) <= Bytes(m[l]) => c <= rest
  <2>1. PICK a \in Nat, b \in Scales : a = impl.alloc[l] /\ b = m[l] /\ a <= Bytes(b)
    BY LimitTypes DEF Fits
  <2>2. LowerLimits(impl, m)[l] = PrevPowerOfTwo(Bytes(b) - a)
    BY <2>1 DEF LowerLimits
  <2> QED
    BY <2>1, <2>2, RestIs
<1>2. LowerLimits(impl, m) \in [Levels -> Scales]
  BY <1>1 DEF LowerLimits
<1>3. ASSUME NEW l \in Levels
      PROVE  LowerLimits(impl, m)[l] <= LevelMax[l]
  <2>1. m[l] <= LevelMax[l]
    BY DEF Limits
  <2>2. LevelMax[l] \in Nat /\ m[l] \in Nat /\ LowerLimits(impl, m)[l] \in Nat
    BY <1>1, LevelTypes, LimitTypes
  <2> QED
    BY <1>1, <2>1, <2>2
<1>4. LowerLimits(impl, m) \in Limits
  BY <1>2, <1>3 DEF Limits
<1> QED
  BY <1>1, <1>4

LEMMA LowerGrows ==
    ASSUME NEW impl, impl.alloc \in [Levels -> Nat], NEW m \in Limits, NEW n \in Limits,
           Within(n, m), Fits(impl, n)
    PROVE  Fits(impl, m) /\ Within(LowerLimits(impl, n), LowerLimits(impl, m))
<1>1. ASSUME NEW l \in Levels
      PROVE  Bytes(n[l]) <= Bytes(m[l]) /\ Bytes(n[l]) \in Nat /\ Bytes(m[l]) \in Nat
  BY LimitTypes, BytesGrow DEF Within
<1>2. Fits(impl, m)
  <2> SUFFICES ASSUME NEW l \in Levels
               PROVE  impl.alloc[l] <= Bytes(m[l])
    BY DEF Fits
  <2>1. impl.alloc[l] <= Bytes(n[l]) /\ impl.alloc[l] \in Nat
    BY DEF Fits
  <2> QED
    BY <1>1, <2>1
<1>3. ASSUME NEW l \in Levels
      PROVE  LowerLimits(impl, n)[l] <= LowerLimits(impl, m)[l]
  <2>1. PICK c \in Scales : c = LowerLimits(impl, n)[l]
    BY LowerIs, LimitTypes
  <2>2. impl.alloc[l] + Bytes(c) <= Bytes(n[l]) /\ impl.alloc[l] \in Nat /\ Bytes(c) \in Nat
    BY <2>1, LowerIs, BytesGrow
  <2>3. impl.alloc[l] + Bytes(c) <= Bytes(m[l])
    BY <1>1, <2>2
  <2> QED
    BY <1>2, <2>1, <2>3, LowerIs
<1> QED
  BY <1>2, <1>3 DEF Within

\* The peaks of an Impl whose sub-Specs keep to their limits keep to its own.  And
\* under any limits that these peaks keep to it fits, with room for its sub-Specs.
LEMMA PeaksSound ==
    ASSUME NEW k \in Nat, NEW impl, ImplSound(impl, k), NEW m \in Limits, Fits(impl, m),
           NEW peaks \in [DOMAIN impl.subs -> Peak],
           \A i \in DOMAIN impl.subs : Within(peaks[i], LowerLimits(impl, m))
    PROVE  /\ Peaks(impl, peaks) \in Peak /\ Within(Peaks(impl, peaks), m)
           /\ \A n \in Limits : Within(Peaks(impl, peaks), n) =>
                /\ Fits(impl, n)
                /\ \A i \in DOMAIN impl.subs : Within(peaks[i], LowerLimits(impl, n))
<1>0. impl.alloc \in [Levels -> Nat] /\ (DOMAIN impl.subs = {} => impl.alloc = Nothing)
  BY DEF ImplSound
<1>1. ASSUME NEW l \in Levels, NEW i \in DOMAIN impl.subs
      PROVE  LET x == impl.alloc[l] + Bytes(peaks[i][l])
             IN  /\ x \in Nat /\ impl.alloc[l] \in Nat /\ peaks[i][l] \in Scales
                 /\ Bytes(peaks[i][l]) \in Nat /\ NextBinaryPower(x) \in Scales
                 /\ NextBinaryPower(x) <= m[l] /\ x <= Bytes(NextBinaryPower(x))
  <2>1. PICK a \in Nat, c \in Scales, r \in Scales, b \in Scales :
            a = impl.alloc[l] /\ c = peaks[i][l] /\ r = LowerLimits(impl, m)[l] /\ b = m[l]
    BY <1>0, LowerIs, LimitTypes DEF Peak
  <2>2. c <= r /\ a + Bytes(r) <= Bytes(b)
    BY <1>0, <2>1, LowerIs DEF Within
  <2>3. Bytes(c) \in Nat /\ Bytes(r) \in Nat /\ Bytes(b) \in Nat /\ Bytes(c) <= Bytes(r)
    BY <2>2, BytesGrow
  <2>4. a + Bytes(c) \in Nat /\ a + Bytes(c) <= Bytes(b)
    BY <2>2, <2>3
  <2> QED
    BY <2>1, <2>3, <2>4, RoundUp
<1> DEFINE At(l) == {NextBinaryPower(impl.alloc[l] + Bytes(peaks[i][l])) : i \in DOMAIN peaks}
<1>2. ASSUME NEW l \in Levels
      PROVE  /\ Peaks(impl, peaks)[l] \in Scales /\ Peaks(impl, peaks)[l] <= m[l]
             /\ \A i \in DOMAIN impl.subs :
                   NextBinaryPower(impl.alloc[l] + Bytes(peaks[i][l])) <= Peaks(impl, peaks)[l]
  <2>1. PICK b \in Nat : b = m[l] /\ b \in Scales
    BY LimitTypes
  <2>2. ASSUME NEW x \in {0} \cup At(l)
        PROVE  x \in 0..b
    BY <1>1, <2>1, LevelTypes
  <2>3. Peaks(impl, peaks)[l] = Max({0} \cup At(l))
    BY DEF Peaks
  <2>4. \A i \in DOMAIN impl.subs :
           NextBinaryPower(impl.alloc[l] + Bytes(peaks[i][l])) \in {0} \cup At(l)
    OBVIOUS
  <2>5. {0} \cup At(l) # {}
    OBVIOUS
  <2> HIDE DEF At
  <2>6. PICK T \in SUBSET (0..b) : T = {0} \cup At(l) /\ T # {}
    BY <2>2, <2>5
  <2>7. Max(T) \in T /\ \A x \in T : x <= Max(T)
    BY <2>6, MaxNat
  <2>8. PICK t \in 0..b : t = Max(T)
    BY <2>6, <2>7
  <2>9. t \in Scales /\ t <= b
    BY <2>1, <2>8, LevelTypes DEF Scales
  <2>10. \A x \in {0} \cup At(l) : x <= t
    BY <2>6, <2>7, <2>8
  <2>11. Peaks(impl, peaks)[l] = t
    BY <2>3, <2>6, <2>8
  <2> QED
    BY <2>1, <2>4, <2>9, <2>10, <2>11
<1>3. Peaks(impl, peaks) \in Peak
  BY <1>2 DEF Peaks, Peak
<1>4. Within(Peaks(impl, peaks), m)
  BY <1>2 DEF Within
<1>5. ASSUME NEW n \in Limits, Within(Peaks(impl, peaks), n), NEW i \in DOMAIN impl.subs,
             NEW l \in Levels
      PROVE  impl.alloc[l] + Bytes(peaks[i][l]) <= Bytes(n[l])
  <2>1. PICK p \in Scales, c \in Scales, x \in Nat :
            /\ p = Peaks(impl, peaks)[l] /\ c = NextBinaryPower(x)
            /\ x = impl.alloc[l] + Bytes(peaks[i][l])
    BY <1>1, <1>2
  <2>2. c <= p /\ p <= n[l] /\ x <= Bytes(c)
    BY <1>1, <1>2, <1>5, <2>1 DEF Within
  <2>3. n[l] \in Scales /\ c \in Nat /\ p \in Nat /\ n[l] \in Nat
    BY LimitTypes, LevelTypes
  <2>4. c <= n[l]
    BY <2>2, <2>3
  <2>5. Bytes(c) <= Bytes(n[l]) /\ Bytes(c) \in Nat /\ Bytes(n[l]) \in Nat
    BY <2>3, <2>4, BytesGrow
  <2>6. x <= Bytes(n[l])
    BY <2>2, <2>5
  <2> QED
    BY <2>1, <2>6
<1>6. ASSUME NEW n \in Limits, Within(Peaks(impl, peaks), n)
      PROVE  /\ Fits(impl, n)
             /\ \A i \in DOMAIN impl.subs : Within(peaks[i], LowerLimits(impl, n))
  <2>1. Fits(impl, n)
    <3> SUFFICES ASSUME NEW l \in Levels
                 PROVE  impl.alloc[l] <= Bytes(n[l])
      BY DEF Fits
    <3>1. Bytes(n[l]) \in Nat
      BY LimitTypes
    <3>2. CASE DOMAIN impl.subs = {}
      BY <1>0, <3>1, <3>2 DEF Nothing
    <3>3. CASE DOMAIN impl.subs # {}
      <4>1. PICK i \in DOMAIN impl.subs : TRUE
        BY <3>3
      <4>2. /\ impl.alloc[l] + Bytes(peaks[i][l]) <= Bytes(n[l])
            /\ impl.alloc[l] \in Nat /\ Bytes(peaks[i][l]) \in Nat
        BY <1>1, <1>5, <1>6
      <4> QED
        BY <3>1, <4>2
    <3> QED
      BY <3>2, <3>3
  <2>2. ASSUME NEW i \in DOMAIN impl.subs, NEW l \in Levels
        PROVE  peaks[i][l] <= LowerLimits(impl, n)[l]
    BY <1>0, <1>1, <1>5, <1>6, <2>1, LowerIs
  <2> QED
    BY <2>1, <2>2 DEF Within
<1> QED
  BY <1>3, <1>4, <1>6
-----------------------------------------------------------------------------
(* The optimum of one more Spec.                                           *)

Table == [Limits -> Solutions \cup {None}]

\* A table of solutions whose peaks keep to the limits they were found under.
PeaksKeptIn(table) == \A m \in Limits : table[m] # None => Within(table[m].cost.peaks, m)

\* The Specs planned so far have such tables.
PlannedSound == /\ Len(solved) \in Nat
                /\ \A s \in 1..Len(solved) : solved[s] \in Table /\ PeaksKeptIn(solved[s])

SubSolution(impl, m, i) == solved[impl.subs[i]][LowerLimits(impl, m)]
Applies(impl, m) ==
    Fits(impl, m) /\ \A i \in DOMAIN impl.subs : SubSolution(impl, m, i) # None
Children(impl, m) == [i \in DOMAIN impl.subs |-> SubSolution(impl, m, i).cost]
ChildMains(impl, m) == [i \in DOMAIN impl.subs |-> SubSolution(impl, m, i).cost.main]
ChildPeaks(impl, m) == [i \in DOMAIN impl.subs |-> SubSolution(impl, m, i).cost.peaks]

LEMMA SubTypes ==
    ASSUME PlannedSound, NEW impl, ImplSound(impl, Len(solved)), NEW m \in Limits,
           Fits(impl, m), NEW i \in DOMAIN impl.subs
    PROVE  /\ LowerLimits(impl, m) \in Limits
           /\ impl.subs[i] \in 1..Len(solved)
           /\ SubSolution(impl, m, i) \in Solutions \cup {None}
           /\ SubSolution(impl, m, i) # None =>
                 /\ SubSolution(impl, m, i).cost \in Costs
                 /\ Within(SubSolution(impl, m, i).cost.peaks, LowerLimits(impl, m))
<1>1. LowerLimits(impl, m) \in Limits
  BY LowerIs DEF ImplSound
<1>2. PICK s \in 1..Len(solved) : s = impl.subs[i]
  BY DEF ImplSound
<1>3. solved[s] \in Table /\ PeaksKeptIn(solved[s])
  BY DEF PlannedSound
<1>4. SubSolution(impl, m, i) = solved[s][LowerLimits(impl, m)]
  BY <1>2 DEF SubSolution
<1>5. SubSolution(impl, m, i) \in Solutions \cup {None}
  BY <1>1, <1>3, <1>4 DEF Table
<1>6. SubSolution(impl, m, i) # None => SubSolution(impl, m, i).cost \in Costs
  BY <1>5 DEF Solutions
<1>7. SubSolution(impl, m, i) # None =>
          Within(SubSolution(impl, m, i).cost.peaks, LowerLimits(impl, m))
  BY <1>1, <1>3, <1>4 DEF PeaksKeptIn
<1> QED
  BY <1>1, <1>2, <1>5, <1>6, <1>7

\* The cost of an Impl that applies.
LEMMA CostSound ==
    ASSUME PlannedSound, NEW impl, ImplSound(impl, Len(solved)), NEW m \in Limits,
           Applies(impl, m)
    PROVE  LET cost == CostOf(impl, Children(impl, m))
           IN  /\ cost \in Costs
               /\ cost.main = MainCost(impl, ChildMains(impl, m))
               /\ cost.peaks = Peaks(impl, ChildPeaks(impl, m))
               /\ ChildMains(impl, m) \in [DOMAIN impl.subs -> 0..MainMax]
               /\ ChildPeaks(impl, m) \in [DOMAIN impl.subs -> Peak]
               /\ \A i \in DOMAIN impl.subs :
                     Within(ChildPeaks(impl, m)[i], LowerLimits(impl, m))
<1> DEFINE ch == Children(impl, m)
<1>1. ASSUME NEW i \in DOMAIN impl.subs
      PROVE  /\ SubSolution(impl, m, i).cost \in Costs
             /\ Within(SubSolution(impl, m, i).cost.peaks, LowerLimits(impl, m))
  BY SubTypes DEF Applies
<1>2. DOMAIN ch = DOMAIN impl.subs /\ \A i \in DOMAIN impl.subs : ch[i] = SubSolution(impl, m, i).cost
  BY DEF Children
<1>3. /\ [i \in DOMAIN ch |-> ch[i].main] = ChildMains(impl, m)
      /\ [i \in DOMAIN ch |-> ch[i].peaks] = ChildPeaks(impl, m)
  BY <1>2 DEF ChildMains, ChildPeaks
<1>4. ChildMains(impl, m) \in [DOMAIN impl.subs -> 0..MainMax]
  BY <1>1 DEF ChildMains, Costs
<1>5. ChildPeaks(impl, m) \in [DOMAIN impl.subs -> Peak]
  BY <1>1 DEF ChildPeaks, Costs, Peak
<1>6. \A i \in DOMAIN impl.subs : Within(ChildPeaks(impl, m)[i], LowerLimits(impl, m))
  BY <1>1 DEF ChildPeaks
<1>7. MainCost(impl, ChildMains(impl, m)) \in 0..MainMax
  BY <1>4, MainCostType DEF PlannedSound
<1>8. Peaks(impl, ChildPeaks(impl, m)) \in Peak
  BY <1>5, <1>6, PeaksSound DEF PlannedSound, Applies
<1> DEFINE depths == {0} \cup {ch[i].depth : i \in DOMAIN ch}
           depth  == Min({255, 1 + Max(depths)})
<1>9. depth \in 0..255
  <2>1. \A d \in depths : d \in 0..255
    <3>1. \A i \in DOMAIN ch : ch[i] \in Costs
      BY <1>1, <1>2
    <3>2. \A i \in DOMAIN ch : ch[i].depth \in 0..255
      BY <3>1 DEF Costs
    <3>3. 0 \in 0..255
      OBVIOUS
    <3> HIDE DEF ch
    <3> QED
      BY <3>2, <3>3
  <2>2. depths # {}
    OBVIOUS
  <2> HIDE DEF depths, ch
  <2>3. PICK T \in SUBSET (0..255) : T = depths /\ T # {}
    BY <2>1, <2>2
  <2>4. Max(T) \in 0..255
    <3>1. 255 \in Nat
      OBVIOUS
    <3>2. Max(T) \in T
      BY <2>3, <3>1, MaxNat
    <3> QED
      BY <2>3, <3>2
  <2>5. PICK t \in Nat : t = 1 + Max(T)
    <3>1. \A x \in 0..255 : 1 + x \in Nat
      OBVIOUS
    <3>2. 1 + Max(T) \in Nat
      BY <2>4, <3>1
    <3> QED
      BY <3>2
  <2>6. Min({255, t}) = IF 255 <= t THEN 255 ELSE t
    BY MinOfTwo
  <2>7. depth = IF 255 <= t THEN 255 ELSE t
    BY <2>3, <2>5, <2>6
  <2> HIDE DEF depth
  <2> QED
    BY <2>7
<1>10. CostOf(impl, ch) = [main |-> MainCost(impl, ChildMains(impl, m)),
                           peaks |-> Peaks(impl, ChildPeaks(impl, m)), depth |-> depth]
  BY <1>3 DEF CostOf
<1> HIDE DEF depth
<1>11. CostOf(impl, ch) \in Costs
  BY <1>7, <1>8, <1>9, <1>10 DEF Costs, Peak
<1> QED
  BY <1>4, <1>5, <1>6, <1>10, <1>11

\* The reducer has nothing, and no Impl applies; or it has one that applies, and
\* no other's main cost is lower.
LEMMA OptimumIs ==
    ASSUME PlannedSound, NEW n \in Nat, NEW offered,
           DOMAIN offered = 1..n, \A i \in 1..n : ImplSound(offered[i], Len(solved)),
           NEW m \in Limits
    PROVE  LET o == Optimum(offered, m)
           IN  \/ o = None /\ \A i \in 1..n : ~Applies(offered[i], m)
               \/ /\ o # None /\ o \in Solutions /\ o.impl \in 1..n /\ Applies(offered[o.impl], m)
                  /\ o.cost = CostOf(offered[o.impl], Children(offered[o.impl], m))
                  /\ \A i \in 1..n : Applies(offered[i], m) =>
                        o.cost.main <= CostOf(offered[i], Children(offered[i], m)).main
<1> DEFINE cost(i) == CostOf(offered[i], Children(offered[i], m))
           C == {[impl |-> i, cost |-> cost(i)] : i \in {i \in 1..n : Applies(offered[i], m)}}
<1>1. Candidates(offered, m) = C
  BY DEF Candidates, Children, Applies, SubSolution
<1>2. ASSUME NEW i \in 1..n, Applies(offered[i], m)
      PROVE  cost(i) \in Costs
  BY <1>2, CostSound
<1> HIDE DEF cost
<1>3. C \in SUBSET [impl : 1..n, cost : Costs]
  BY <1>2
<1>4. \A c, d \in C : c.impl = d.impl => c = d
  OBVIOUS
<1>5. CASE C = {}
  <2>1. Optimum(offered, m) = None
    BY <1>1, <1>5 DEF Optimum
  <2>2. \A i \in 1..n : ~Applies(offered[i], m)
    BY <1>5
  <2> QED
    BY <2>1, <2>2
<1>6. CASE C # {}
  <2>1. Optimum(offered, m) = Least(C)
    BY <1>1, <1>6 DEF Optimum
  <2>2. Least(C) \in C /\ \A d \in C : Least(C).cost.main <= d.cost.main
    <3> HIDE DEF C
    <3> QED
      BY <1>3, <1>4, <1>6, LeastIs
  <2>3. PICK i \in 1..n : Applies(offered[i], m) /\ Least(C) = [impl |-> i, cost |-> cost(i)]
    BY <2>2
  <2>4. \A j \in 1..n : Applies(offered[j], m) => cost(i).main <= cost(j).main
    <3> SUFFICES ASSUME NEW j \in 1..n, Applies(offered[j], m)
                 PROVE  cost(i).main <= cost(j).main
      OBVIOUS
    <3>1. [impl |-> j, cost |-> cost(j)] \in C
      OBVIOUS
    <3> QED
      BY <2>2, <2>3, <3>1
  <2>5. Optimum(offered, m) \in Solutions
    BY <1>2, <2>1, <2>3 DEF Solutions
  <2>6. Optimum(offered, m) # None
    BY <2>5, MemoryPlanAssumption
  <2>7. Optimum(offered, m).impl = i /\ Optimum(offered, m).cost = cost(i)
    BY <2>1, <2>3
  <2> HIDE DEF C
  <2> QED
    BY <2>3, <2>4, <2>5, <2>6, <2>7 DEF cost
<1> QED
  BY <1>5, <1>6
-----------------------------------------------------------------------------
(* The properties, of one Spec's table.                                    *)

BoxIn(table, m) ==
    {n \in Limits : Within(n, m) /\ (table[m] # None => Within(table[m].cost.peaks, n))}

OneMainCostIn(table) ==
    \A m \in Limits : \A n \in BoxIn(table, m) :
        /\ (table[n] = None) = (table[m] = None)
        /\ table[m] # None => table[n].cost.main = table[m].cost.main

NeverWorseIn(table) ==
    \A m, n \in Limits : Within(n, m) /\ table[n] # None =>
        table[m] # None /\ table[m].cost.main <= table[n].cost.main

\* What a Plan step adds: a table of solutions that keep to their limits.
LEMMA TableSound ==
    ASSUME PlannedSound, NEW n \in Nat, NEW offered,
           DOMAIN offered = 1..n, \A i \in 1..n : ImplSound(offered[i], Len(solved))
    PROVE  LET table == [m \in Limits |-> Optimum(offered, m)]
           IN  table \in Table /\ PeaksKeptIn(table)
<1> DEFINE table == [m \in Limits |-> Optimum(offered, m)]
<1>1. ASSUME NEW m \in Limits
      PROVE  /\ table[m] \in Solutions \cup {None}
             /\ table[m] # None => Within(table[m].cost.peaks, m)
  <2>1. CASE Optimum(offered, m) = None
    BY <2>1
  <2>2. CASE Optimum(offered, m) # None
    <3>1. PICK i \in 1..n : /\ Applies(offered[i], m) /\ Optimum(offered, m) \in Solutions
                            /\ Optimum(offered, m).cost = CostOf(offered[i], Children(offered[i], m))
      BY <2>2, OptimumIs
    <3>2. Len(solved) \in Nat /\ ImplSound(offered[i], Len(solved)) /\ Fits(offered[i], m)
      BY <3>1 DEF PlannedSound, Applies
    <3>3. Within(Peaks(offered[i], ChildPeaks(offered[i], m)), m)
      BY <3>1, <3>2, CostSound, PeaksSound
    <3>4. Optimum(offered, m).cost.peaks = Peaks(offered[i], ChildPeaks(offered[i], m))
      BY <3>1, <3>2, CostSound
    <3> QED
      BY <3>1, <3>3, <3>4
  <2> QED
    BY <2>1, <2>2
<1>2. table \in Table
  BY <1>1 DEF Table
<1>3. PeaksKeptIn(table)
  BY <1>1 DEF PeaksKeptIn
<1> QED
  BY <1>2, <1>3

\* The action chosen under limits m, under limits n of their box.
LEMMA ChosenInBox ==
    ASSUME PlannedSound, NEW impl, ImplSound(impl, Len(solved)), NEW m \in Limits,
           Applies(impl, m), NEW n \in Limits, Within(n, m),
           Within(CostOf(impl, Children(impl, m)).peaks, n)
    PROVE  /\ Fits(impl, n) /\ LowerLimits(impl, m) \in Limits /\ LowerLimits(impl, n) \in Limits
           /\ Within(LowerLimits(impl, n), LowerLimits(impl, m))
           /\ \A i \in DOMAIN impl.subs :
                 Within(SubSolution(impl, m, i).cost.peaks, LowerLimits(impl, n))
<1>1. Len(solved) \in Nat /\ Fits(impl, m) /\ impl.alloc \in [Levels -> Nat]
  BY DEF PlannedSound, Applies, ImplSound
<1>2. /\ ChildPeaks(impl, m) \in [DOMAIN impl.subs -> Peak]
      /\ \A i \in DOMAIN impl.subs : Within(ChildPeaks(impl, m)[i], LowerLimits(impl, m))
      /\ Within(Peaks(impl, ChildPeaks(impl, m)), n)
  BY CostSound
<1>3. /\ Fits(impl, n)
      /\ \A i \in DOMAIN impl.subs : Within(ChildPeaks(impl, m)[i], LowerLimits(impl, n))
  BY <1>1, <1>2, PeaksSound
<1>4. /\ LowerLimits(impl, m) \in Limits /\ LowerLimits(impl, n) \in Limits
      /\ Within(LowerLimits(impl, n), LowerLimits(impl, m))
  BY <1>1, <1>3, LowerIs, LowerGrows
<1>5. \A i \in DOMAIN impl.subs : ChildPeaks(impl, m)[i] = SubSolution(impl, m, i).cost.peaks
  BY DEF ChildPeaks
<1> QED
  BY <1>3, <1>4, <1>5

\* An Impl that applies still does with more memory, at no higher main cost.
LEMMA AppliesGrows ==
    ASSUME PlannedSound, \A s \in 1..Len(solved) : NeverWorseIn(solved[s]),
           NEW impl, ImplSound(impl, Len(solved)), NEW m \in Limits, NEW n \in Limits,
           Within(n, m), Applies(impl, n), LoopFits(impl, SubSolution(impl, n, 1).cost.main)
    PROVE  /\ Applies(impl, m)
           /\ CostOf(impl, Children(impl, m)).main <= CostOf(impl, Children(impl, n)).main
<1>1. Len(solved) \in Nat /\ Fits(impl, n) /\ impl.alloc \in [Levels -> Nat]
  BY DEF PlannedSound, Applies, ImplSound
<1>2. Fits(impl, m) /\ Within(LowerLimits(impl, n), LowerLimits(impl, m))
  BY <1>1, LowerGrows
<1>3. ASSUME NEW i \in DOMAIN impl.subs
      PROVE  /\ SubSolution(impl, m, i) # None
             /\ SubSolution(impl, m, i).cost.main <= SubSolution(impl, n, i).cost.main
  <2>1. PICK s \in 1..Len(solved) : s = impl.subs[i]
    BY DEF ImplSound
  <2>2. NeverWorseIn(solved[s]) /\ SubSolution(impl, n, i) # None
    BY DEF Applies
  <2>3. LowerLimits(impl, m) \in Limits /\ LowerLimits(impl, n) \in Limits
    BY <1>1, <1>2, LowerIs
  <2> QED
    BY <1>2, <2>1, <2>2, <2>3 DEF NeverWorseIn, SubSolution
<1>4. Applies(impl, m)
  BY <1>2, <1>3 DEF Applies
<1>5. LoopFits(impl, ChildMains(impl, n)[1])
  <2>1. CASE impl.kind = "loop"
    <3>1. 1 \in DOMAIN impl.subs
      <4>1. DOMAIN impl.subs = 1..Len(impl.subs) /\ Len(impl.subs) = 1
        BY <2>1 DEF ImplSound
      <4> QED
        BY <4>1
    <3> QED
      BY <3>1 DEF ChildMains
  <2>2. CASE impl.kind # "loop"
    BY <2>2 DEF LoopFits
  <2> QED
    BY <2>1, <2>2
<1>6. \A i \in DOMAIN impl.subs : ChildMains(impl, m)[i] <= ChildMains(impl, n)[i]
  BY <1>3 DEF ChildMains
<1>7. MainCost(impl, ChildMains(impl, m)) <= MainCost(impl, ChildMains(impl, n))
  <2>1. /\ ChildMains(impl, m) \in [DOMAIN impl.subs -> 0..MainMax]
        /\ ChildMains(impl, n) \in [DOMAIN impl.subs -> 0..MainMax]
    BY <1>4, CostSound
  <2> QED
    BY <1>1, <1>5, <1>6, <2>1, MainCostGrows
<1> QED
  BY <1>4, <1>7, CostSound

\* In the box of its limits, the Impl chosen applies at the same main cost.
LEMMA SameMainInBox ==
    ASSUME PlannedSound, \A s \in 1..Len(solved) : OneMainCostIn(solved[s]),
           NEW impl, ImplSound(impl, Len(solved)), NEW m \in Limits, NEW n \in Limits,
           Within(n, m), Applies(impl, m), Within(CostOf(impl, Children(impl, m)).peaks, n)
    PROVE  /\ Applies(impl, n)
           /\ CostOf(impl, Children(impl, n)).main = CostOf(impl, Children(impl, m)).main
<1>1. /\ Fits(impl, n) /\ LowerLimits(impl, m) \in Limits /\ LowerLimits(impl, n) \in Limits
      /\ Within(LowerLimits(impl, n), LowerLimits(impl, m))
      /\ \A i \in DOMAIN impl.subs :
            Within(SubSolution(impl, m, i).cost.peaks, LowerLimits(impl, n))
  BY ChosenInBox
<1>2. ASSUME NEW i \in DOMAIN impl.subs
      PROVE  /\ SubSolution(impl, n, i) # None
             /\ SubSolution(impl, n, i).cost.main = SubSolution(impl, m, i).cost.main
  <2>1. PICK s \in 1..Len(solved) : s = impl.subs[i]
    BY DEF ImplSound
  <2>2. /\ OneMainCostIn(solved[s]) /\ SubSolution(impl, m, i) # None
        /\ SubSolution(impl, m, i) = solved[s][LowerLimits(impl, m)]
        /\ SubSolution(impl, n, i) = solved[s][LowerLimits(impl, n)]
    BY <2>1 DEF Applies, SubSolution
  <2>3. LowerLimits(impl, n) \in BoxIn(solved[s], LowerLimits(impl, m))
    BY <1>1, <2>2 DEF BoxIn
  <2> QED
    BY <1>1, <2>2, <2>3 DEF OneMainCostIn
<1>3. Applies(impl, n)
  BY <1>1, <1>2 DEF Applies
<1>4. ChildMains(impl, n) = ChildMains(impl, m)
  BY <1>2 DEF ChildMains
<1> QED
  BY <1>3, <1>4, CostSound

\* With more memory a new Spec's solution is no worse, and in a box the same.
LEMMA TableNeverWorse ==
    ASSUME PlannedSound,
           \A s \in 1..Len(solved) : NeverWorseIn(solved[s]) /\ OneMainCostIn(solved[s]),
           NEW n \in Nat, NEW offered, DOMAIN offered = 1..n,
           \A i \in 1..n : ImplSound(offered[i], Len(solved)),
           \A i \in 1..n : \A m \in Limits : Applies(offered[i], m) =>
                LoopFits(offered[i], SubSolution(offered[i], m, 1).cost.main)
    PROVE  LET table == [m \in Limits |-> Optimum(offered, m)]
           IN  NeverWorseIn(table) /\ OneMainCostIn(table)
<1> DEFINE table == [m \in Limits |-> Optimum(offered, m)]
           cost(i, m) == CostOf(offered[i], Children(offered[i], m))
<1>0. \A m \in Limits : table[m] = Optimum(offered, m)
  OBVIOUS
<1>1. ASSUME NEW m \in Limits
      PROVE  \/ table[m] = None /\ \A i \in 1..n : ~Applies(offered[i], m)
             \/ /\ table[m] # None /\ table[m] \in Solutions
                /\ table[m].impl \in 1..n /\ Applies(offered[table[m].impl], m)
                /\ table[m].cost = cost(table[m].impl, m)
                /\ \A i \in 1..n : Applies(offered[i], m) =>
                      table[m].cost.main <= cost(i, m).main
  BY OptimumIs
<1> HIDE DEF table
<1>2. ASSUME NEW m \in Limits, NEW k \in Limits, Within(k, m), table[k] # None
      PROVE  table[m] # None /\ table[m].cost.main <= table[k].cost.main
  <2>1. PICK i \in 1..n : Applies(offered[i], k) /\ table[k].cost = cost(i, k)
    BY <1>1, <1>2
  <2>2. Applies(offered[i], m) /\ cost(i, m).main <= cost(i, k).main
    BY <1>2, <2>1, AppliesGrows
  <2>3. table[m] # None /\ table[m] \in Solutions /\ table[m].cost.main <= cost(i, m).main
    BY <1>1, <2>2
  <2>4. table[m].cost \in Costs /\ cost(i, m) \in Costs /\ cost(i, k) \in Costs
    BY <2>1, <2>2, <2>3, CostSound DEF Solutions
  <2>5. /\ table[m].cost.main \in Nat /\ cost(i, m).main \in Nat /\ cost(i, k).main \in Nat
    BY <2>4, CostTypes
  <2> QED
    BY <2>1, <2>2, <2>3, <2>5
<1>3. ASSUME NEW m \in Limits, NEW k \in BoxIn(table, m)
      PROVE  /\ (table[k] = None) = (table[m] = None)
             /\ table[m] # None => table[k].cost.main = table[m].cost.main
  <2>1. /\ k \in Limits /\ Within(k, m)
        /\ table[m] # None => Within(table[m].cost.peaks, k)
    BY <1>3 DEF BoxIn
  <2>2. table[m] = None => table[k] = None
    BY <1>2, <2>1
  <2>3. CASE table[m] # None
    <3>1. PICK i \in 1..n : Applies(offered[i], m) /\ table[m].cost = cost(i, m)
      BY <1>1, <2>3
    <3>2. Applies(offered[i], k) /\ cost(i, k).main = cost(i, m).main
      BY <2>1, <2>3, <3>1, SameMainInBox
    <3>3. /\ table[k] # None /\ table[k] \in Solutions /\ table[k].cost.main <= cost(i, k).main
      BY <1>1, <2>1, <3>2
    <3>4. table[m].cost.main <= table[k].cost.main
      BY <1>2, <2>1, <3>3
    <3>5. table[k].cost \in Costs /\ cost(i, m) \in Costs
      BY <3>1, <3>3, CostSound DEF Solutions
    <3>6. table[k].cost.main \in Nat /\ cost(i, m).main \in Nat
      BY <3>5, CostTypes
    <3>7. table[k].cost.main = table[m].cost.main
      BY <3>1, <3>2, <3>3, <3>4, <3>6
    <3> QED
      BY <2>3, <3>3, <3>7
  <2> QED
    BY <2>2, <2>3
<1>4. NeverWorseIn(table)
  BY <1>2 DEF NeverWorseIn
<1>5. OneMainCostIn(table)
  BY <1>3 DEF OneMainCostIn
<1> QED
  BY <1>4, <1>5 DEF table
-----------------------------------------------------------------------------
(* The specification.                                                      *)

AnyOffered == UNION {[1..n -> UNION {Offer(1..k) : k \in Nat}] : n \in Nat}

\* Every Spec planned has a table, whose solutions keep to their limits.
PlanInvariant ==
    /\ impls \in Seq(AnyOffered) /\ solved \in Seq(Table) /\ Len(impls) = Len(solved)
    /\ \A s \in DOMAIN impls : \A i \in DOMAIN impls[s] : ImplSound(impls[s][i], s - 1)
    /\ PlannedSound
    /\ BoxOfSubSpecs

\* No loop's main cost ever wrapped: what a build with overflow checks would have
\* panicked on, when compute_main_cost adds a loop's overhead.
OverheadFits ==
    \A s \in DOMAIN impls : \A i \in DOMAIN impls[s] : \A m \in Limits :
        Applies(impls[s][i], m) =>
            LoopFits(impls[s][i], SubSolution(impls[s][i], m, 1).cost.main)

\* With more memory no Spec's solution is worse, and in its box it is the same.
CostInvariant ==
    /\ PlanInvariant
    /\ \A s \in 1..Len(solved) : NeverWorseIn(solved[s]) /\ OneMainCostIn(solved[s])

\* The tables after a step that plans one more Spec.
LEMMA Planned ==
    ASSUME PlanInvariant, NEW n \in Nat, NEW offered \in [1..n -> Offer(DOMAIN impls)],
           impls' = Append(impls, offered),
           solved' = Append(solved, [m \in Limits |-> Optimum(offered, m)])
    PROVE  LET k == Len(solved)
               table == [m \in Limits |-> Optimum(offered, m)]
           IN  /\ k \in Nat /\ DOMAIN offered = 1..n
               /\ \A i \in 1..n : ImplSound(offered[i], k)
               /\ impls' \in Seq(AnyOffered) /\ solved' \in Seq(Table)
               /\ Len(impls') = k + 1 /\ Len(solved') = k + 1
               /\ DOMAIN impls' = 1..(k + 1)
               /\ impls'[k + 1] = offered /\ solved'[k + 1] = table
               /\ DOMAIN impls = 1..k
               /\ \A s \in 1..k : solved'[s] = solved[s] /\ impls'[s] = impls[s]
               /\ table \in Table /\ PeaksKeptIn(table)
<1> DEFINE table == [m \in Limits |-> Optimum(offered, m)]
<1>1. PICK k \in Nat : k = Len(solved) /\ k = Len(impls) /\ DOMAIN impls = 1..k
  BY DEF PlanInvariant
<1>2. offered \in [1..n -> Offer(1..k)]
  BY <1>1
<1>3. DOMAIN offered = 1..n /\ \A i \in 1..n : ImplSound(offered[i], k)
  BY <1>2, OfferSound
<1>4. table \in Table /\ PeaksKeptIn(table)
  BY <1>1, <1>3, TableSound DEF PlanInvariant
<1> HIDE DEF table
<1>5. offered \in AnyOffered
  <2>1. Offer(1..k) \subseteq UNION {Offer(1..j) : j \in Nat}
    OBVIOUS
  <2>2. offered \in [1..n -> UNION {Offer(1..j) : j \in Nat}]
    BY <1>2, <2>1
  <2> QED
    BY <2>2 DEF AnyOffered
<1>6. impls' = Append(impls, offered) /\ solved' = Append(solved, table)
  BY DEF table
<1>7. /\ impls' \in Seq(AnyOffered) /\ Len(impls') = k + 1 /\ impls'[k + 1] = offered
      /\ \A s \in 1..k : impls'[s] = impls[s]
  BY <1>1, <1>5, <1>6 DEF PlanInvariant
<1>8. /\ solved' \in Seq(Table) /\ Len(solved') = k + 1 /\ solved'[k + 1] = table
      /\ \A s \in 1..k : solved'[s] = solved[s]
  BY <1>1, <1>4, <1>6 DEF PlanInvariant
<1>9. DOMAIN impls' = 1..(k + 1)
  BY <1>7
<1> QED
  BY <1>1, <1>3, <1>4, <1>7, <1>8, <1>9 DEF table

LEMMA PlanSound ==
    ASSUME PlanInvariant, [Next]_vars
    PROVE  PlanInvariant'
<1>1. CASE UNCHANGED vars
  BY <1>1 DEF vars, PlanInvariant, PlannedSound, BoxOfSubSpecs, Solved, Newest, Box
<1>2. CASE Plan
  <2>1. PICK n \in Nat : \E offered \in [1..n -> Offer(DOMAIN impls)] :
           /\ impls' = Append(impls, offered)
           /\ solved' = Append(solved, [m \in Limits |-> Optimum(offered, m)])
    <3>1. \A n \in 0..MaxImpls : n \in Nat
      OBVIOUS
    <3> QED
      BY <1>2, <3>1 DEF Plan
  <2>2. PICK offered \in [1..n -> Offer(DOMAIN impls)] :
           /\ impls' = Append(impls, offered)
           /\ solved' = Append(solved, [m \in Limits |-> Optimum(offered, m)])
    BY <2>1
  <2>3. /\ \E k \in Nat : k = Len(solved)
        /\ \E table : table = [m \in Limits |-> Optimum(offered, m)]
    BY DEF PlanInvariant, PlannedSound
  <2>4. PICK k \in Nat : k = Len(solved)
    BY <2>3
  <2>5. PICK table : table = [m \in Limits |-> Optimum(offered, m)]
    BY <2>3
  <2>6. /\ DOMAIN offered = 1..n /\ \A i \in 1..n : ImplSound(offered[i], k)
        /\ impls' \in Seq(AnyOffered) /\ solved' \in Seq(Table)
        /\ Len(impls') = k + 1 /\ Len(solved') = k + 1
        /\ impls'[k + 1] = offered /\ solved'[k + 1] = table
        /\ DOMAIN impls' = 1..(k + 1) /\ DOMAIN impls = 1..k
        /\ \A s \in 1..k : solved'[s] = solved[s] /\ impls'[s] = impls[s]
        /\ table \in Table /\ PeaksKeptIn(table)
    BY <2>2, <2>4, <2>5, Planned
  <2>7. PlannedSound /\ \A s \in 1..k : solved[s] \in Table /\ PeaksKeptIn(solved[s])
    BY <2>4 DEF PlanInvariant, PlannedSound
  <2>8. PlannedSound'
    <3>1. ASSUME NEW s \in 1..(k + 1)
          PROVE  solved'[s] \in Table /\ PeaksKeptIn(solved'[s])
      <4>1. s = k + 1 \/ s \in 1..k
        OBVIOUS
      <4> QED
        BY <2>6, <2>7, <4>1
    <3> QED
      BY <2>6, <3>1 DEF PlannedSound, PeaksKeptIn, Within, Levels
  <2>9. BoxOfSubSpecs'
    <3>1. ASSUME NEW m \in Limits, table[m] # None
          PROVE  LET impl == offered[table[m].impl]
                 IN  /\ m \in BoxIn(table, m)
                     /\ \A j \in BoxIn(table, m) :
                          /\ Fits(impl, j)
                          /\ Within(LowerLimits(impl, j), LowerLimits(impl, m))
                          /\ \A i \in DOMAIN impl.subs :
                               Within(solved'[impl.subs[i]][LowerLimits(impl, m)].cost.peaks,
                                      LowerLimits(impl, j))
      <4>1. table[m] = Optimum(offered, m)
        BY <2>5
      <4>2. PICK c \in 1..n : /\ table[m].impl = c /\ Applies(offered[c], m)
                              /\ table[m].cost = CostOf(offered[c], Children(offered[c], m))
        <5>1. /\ n \in Nat /\ DOMAIN offered = 1..n
              /\ \A i \in 1..n : ImplSound(offered[i], Len(solved))
          BY <2>4, <2>6
        <5>2. \/ table[m] = None
              \/ /\ table[m].impl \in 1..n /\ Applies(offered[table[m].impl], m)
                 /\ table[m].cost = CostOf(offered[table[m].impl],
                                           Children(offered[table[m].impl], m))
          BY <2>7, <4>1, <5>1, OptimumIs
        <5> QED
          BY <3>1, <5>2
      <4>3. m \in BoxIn(table, m)
        BY <2>6, <3>1, LimitTypes, WithinItself DEF BoxIn, PeaksKeptIn
      <4>4. ASSUME NEW j \in BoxIn(table, m)
            PROVE  /\ Fits(offered[c], j)
                   /\ Within(LowerLimits(offered[c], j), LowerLimits(offered[c], m))
                   /\ \A i \in DOMAIN offered[c].subs :
                         Within(SubSolution(offered[c], m, i).cost.peaks, LowerLimits(offered[c], j))
        <5>1. j \in Limits /\ Within(j, m) /\ Within(table[m].cost.peaks, j)
          BY <3>1, <4>4 DEF BoxIn
        <5> QED
          BY <2>6, <2>7, <2>4, <4>2, <5>1, ChosenInBox
      <4>5. ASSUME NEW i \in DOMAIN offered[c].subs
            PROVE  solved'[offered[c].subs[i]][LowerLimits(offered[c], m)]
                      = SubSolution(offered[c], m, i)
        <5>1. offered[c].subs[i] \in 1..k
          BY <2>6 DEF ImplSound
        <5> QED
          BY <2>6, <5>1 DEF SubSolution
      <4> QED
        BY <4>2, <4>3, <4>4, <4>5
    <3>2. (Newest = k + 1)'
      BY <2>6 DEF Newest
    <3>3. \A m \in Limits : Box(m)' = BoxIn(table, m)
      BY <2>6, <3>2 DEF Box, BoxIn, Limits, Within, Levels
    <3>4. impls'[k + 1] = offered /\ solved'[k + 1] = table
      BY <2>6
    <3>5. ASSUME NEW m \in Limits, table[m] # None
          PROVE  LET impl == offered[table[m].impl] IN
                 /\ m \in Box(m)'
                 /\ \A j \in Box(m)' :
                     /\ Fits(impl, j)
                     /\ Within(LowerLimits(impl, j), LowerLimits(impl, m))
                     /\ \A i \in DOMAIN impl.subs :
                           Within(solved'[impl.subs[i]][LowerLimits(impl, m)].cost.peaks,
                                  LowerLimits(impl, j))
      BY <3>1, <3>3, <3>5
    <3> QED
      BY <3>2, <3>4, <3>5 DEF BoxOfSubSpecs
  <2>10. ASSUME NEW s \in DOMAIN impls', NEW i \in DOMAIN impls'[s]
         PROVE  ImplSound(impls'[s][i], s - 1)
    <3>1. CASE s = k + 1
      <4>1. impls'[s] = offered /\ s - 1 = k
        BY <2>6, <3>1
      <4> QED
        BY <2>6, <4>1
    <3>2. CASE s # k + 1
      <4>1. s \in DOMAIN impls /\ impls'[s] = impls[s]
        BY <2>6, <3>2
      <4> QED
        BY <4>1 DEF PlanInvariant
    <3> QED
      BY <3>1, <3>2
  <2>11. (\A s \in DOMAIN impls : \A i \in DOMAIN impls[s] : ImplSound(impls[s][i], s - 1))'
    BY <2>10
  <2> QED
    BY <2>6, <2>8, <2>9, <2>11 DEF PlanInvariant
<1> QED
  BY <1>1, <1>2 DEF Next
LEMMA CostsSound ==
    ASSUME CostInvariant, [Next]_vars, OverheadFits'
    PROVE  CostInvariant'
<1>1. PlanInvariant'
  BY PlanSound DEF CostInvariant
<1>2. CASE UNCHANGED vars
  <2>1. solved' = solved
    BY <1>2 DEF vars
  <2> QED
    BY <1>1, <2>1 DEF CostInvariant, NeverWorseIn, OneMainCostIn, BoxIn, Within, Limits, Levels
<1>3. CASE Plan
  <2>1. PICK n \in Nat : \E offered \in [1..n -> Offer(DOMAIN impls)] :
           /\ impls' = Append(impls, offered)
           /\ solved' = Append(solved, [m \in Limits |-> Optimum(offered, m)])
    <3>1. \A n \in 0..MaxImpls : n \in Nat
      OBVIOUS
    <3> QED
      BY <1>3, <3>1 DEF Plan
  <2>2. PICK offered \in [1..n -> Offer(DOMAIN impls)] :
           /\ impls' = Append(impls, offered)
           /\ solved' = Append(solved, [m \in Limits |-> Optimum(offered, m)])
    BY <2>1
  <2>3. /\ \E k \in Nat : k = Len(solved)
        /\ \E table : table = [m \in Limits |-> Optimum(offered, m)]
    BY DEF CostInvariant, PlanInvariant, PlannedSound
  <2>4. PICK k \in Nat : k = Len(solved)
    BY <2>3
  <2>5. PICK table : table = [m \in Limits |-> Optimum(offered, m)]
    BY <2>3
  <2>6. /\ DOMAIN offered = 1..n /\ \A i \in 1..n : ImplSound(offered[i], k)
        /\ Len(solved') = k + 1 /\ DOMAIN impls' = 1..(k + 1)
        /\ impls'[k + 1] = offered /\ solved'[k + 1] = table
        /\ \A s \in 1..k : solved'[s] = solved[s]
    BY <2>2, <2>4, <2>5, Planned DEF CostInvariant
  <2>7. /\ PlannedSound
        /\ \A s \in 1..k : NeverWorseIn(solved[s]) /\ OneMainCostIn(solved[s])
    BY <2>4 DEF CostInvariant, PlanInvariant
  <2>8. ASSUME NEW i \in 1..n, NEW m \in Limits, Applies(offered[i], m)
        PROVE  LoopFits(offered[i], SubSolution(offered[i], m, 1).cost.main)
    <3>1. ASSUME NEW j \in DOMAIN offered[i].subs
          PROVE  offered[i].subs[j] \in 1..k
      BY <2>6 DEF ImplSound
    <3>2. \A j \in DOMAIN offered[i].subs :
             solved'[offered[i].subs[j]][LowerLimits(offered[i], m)] = SubSolution(offered[i], m, j)
      BY <2>6, <3>1 DEF SubSolution
    <3>3. Fits(offered[i], m) /\ \A j \in DOMAIN offered[i].subs :
             solved'[offered[i].subs[j]][LowerLimits(offered[i], m)] # None
      BY <2>8, <3>2 DEF Applies
    <3>4. LoopFits(offered[i], solved'[offered[i].subs[1]][LowerLimits(offered[i], m)].cost.main)
      <4>1. k + 1 \in DOMAIN impls' /\ i \in DOMAIN impls'[k + 1] /\ impls'[k + 1][i] = offered[i]
        BY <2>6
      <4> QED
        BY <3>3, <4>1 DEF OverheadFits, Applies, SubSolution
    <3>5. CASE offered[i].kind = "loop"
      <4>1. 1 \in DOMAIN offered[i].subs
        <5>1. PICK impl : impl = offered[i] /\ ImplSound(impl, k) /\ impl.kind = "loop"
          BY <2>6, <3>5
        <5>2. DOMAIN impl.subs = 1..Len(impl.subs) /\ Len(impl.subs) = 1
          BY <5>1 DEF ImplSound
        <5> QED
          BY <5>1, <5>2
      <4> QED
        BY <3>2, <3>4, <4>1
    <3>6. CASE offered[i].kind # "loop"
      BY <3>6 DEF LoopFits
    <3> QED
      BY <3>5, <3>6
  <2>9. NeverWorseIn(table) /\ OneMainCostIn(table)
    <3>1. /\ PlannedSound
          /\ \A s \in 1..Len(solved) : NeverWorseIn(solved[s]) /\ OneMainCostIn(solved[s])
      BY <2>4, <2>7
    <3>2. DOMAIN offered = 1..n /\ \A i \in 1..n : ImplSound(offered[i], Len(solved))
      BY <2>4, <2>6
    <3>3. \A i \in 1..n : \A m \in Limits : Applies(offered[i], m) =>
                LoopFits(offered[i], SubSolution(offered[i], m, 1).cost.main)
      BY <2>8
    <3> QED
      BY <2>5, <3>1, <3>2, <3>3, TableNeverWorse
  <2>10. ASSUME NEW s \in 1..(k + 1)
         PROVE  NeverWorseIn(solved'[s]) /\ OneMainCostIn(solved'[s])
    <3>1. s = k + 1 \/ s \in 1..k
      OBVIOUS
    <3> QED
      BY <2>6, <2>7, <2>9, <3>1
  <2> QED
    BY <1>1, <2>6, <2>10 DEF CostInvariant, NeverWorseIn, OneMainCostIn, BoxIn, Within, Limits, Levels
<1> QED
  BY <1>2, <1>3 DEF Next

LEMMA PlanInit == Init => CostInvariant
<1> SUFFICES ASSUME Init
             PROVE  CostInvariant
  OBVIOUS
<1>1. /\ impls = <<>> /\ solved = <<>> /\ Len(impls) = 0 /\ Len(solved) = 0
      /\ impls \in Seq(AnyOffered) /\ solved \in Seq(Table)
  BY DEF Init
<1>2. PlannedSound
  BY <1>1 DEF PlannedSound
<1>3. BoxOfSubSpecs
  BY <1>1 DEF BoxOfSubSpecs, Solved, Newest
<1>4. DOMAIN impls = {}
  BY <1>1
<1>5. PlanInvariant
  BY <1>1, <1>2, <1>3, <1>4 DEF PlanInvariant
<1> QED
  BY <1>1, <1>5 DEF CostInvariant

\* In every plan, whatever the target's memory, the Impls' allocations and their
\* costs: a solution's peaks keep to the limits it was found under (the debug_assert
\* of put, db.rs:342); and under every limit of the box that its put fills, its action
\* applies and the sub-Specs it has there are in the boxes that their puts filled
\* (get_impl's "Database should have the sub-Spec entry", db.rs:1061).
THEOREM BoxesNest == Spec => []BoxOfSubSpecs
<1>1. Init => PlanInvariant
  BY PlanInit DEF CostInvariant
<1>2. PlanInvariant /\ [Next]_vars => PlanInvariant'
  BY PlanSound
<1>3. PlanInvariant => BoxOfSubSpecs
  BY DEF PlanInvariant
<1> QED
  BY <1>1, <1>2, <1>3, PTL DEF Spec

LEMMA CostsInvariant == Spec /\ []OverheadFits => []CostInvariant
<1>1. Init => CostInvariant
  BY PlanInit
<1>2. CostInvariant /\ [Next]_vars /\ OverheadFits' => CostInvariant'
  BY CostsSound
<1> QED
  BY <1>1, <1>2, PTL DEF Spec

\* As long as no loop's main cost wraps, what a put writes in its box (put_range_to_fill)
\* has the main cost that a search would find there, and a Spec without an Impl has none.
THEOREM BoxesHaveOneMainCost == Spec /\ []OverheadFits => []BoxHasOneMainCost
<1>1. CostInvariant => BoxHasOneMainCost
  <2> SUFFICES ASSUME CostInvariant, Solved
               PROVE  OneMainCostIn(solved[Newest])
    BY DEF BoxHasOneMainCost, OneMainCostIn, BoxIn, Box
  <2>1. Len(solved) \in Nat
    BY DEF CostInvariant, PlanInvariant, PlannedSound
  <2>2. Newest \in 1..Len(solved)
    BY <2>1 DEF Newest, Solved
  <2> QED
    BY <2>2 DEF CostInvariant
<1> QED
  BY <1>1, CostsInvariant, PTL

\* As long as no loop's main cost wraps, more memory never loses a solution nor
\* worsens its main cost (the test at search.rs:854).
THEOREM MemoryHelps == Spec /\ []OverheadFits => []MoreMemoryNeverWorsens
<1>1. CostInvariant => MoreMemoryNeverWorsens
  <2> SUFFICES ASSUME CostInvariant, Solved
               PROVE  NeverWorseIn(solved[Newest])
    BY DEF MoreMemoryNeverWorsens, NeverWorseIn
  <2>1. Len(solved) \in Nat
    BY DEF CostInvariant, PlanInvariant, PlannedSound
  <2>2. Newest \in 1..Len(solved)
    BY <2>1 DEF Newest, Solved
  <2> QED
    BY <2>2 DEF CostInvariant
<1> QED
  BY <1>1, CostsInvariant, PTL
\* A target without parallel loops has no overhead, and nothing wraps: there more
\* memory never worsens a solution, and each box has one main cost.
THEOREM SerialPlans ==
    ASSUME \A lp \in Loops : lp.overhead = 0
    PROVE  Spec => [](MoreMemoryNeverWorsens /\ BoxHasOneMainCost)
<1>1. PlanInvariant => OverheadFits
  <2> SUFFICES ASSUME PlanInvariant, NEW s \in DOMAIN impls, NEW i \in DOMAIN impls[s],
                      NEW m \in Limits, Applies(impls[s][i], m), impls[s][i].kind = "loop"
               PROVE  LoopFits(impls[s][i], SubSolution(impls[s][i], m, 1).cost.main)
    BY DEF OverheadFits, LoopFits
  <2>1. PICK impl : impl = impls[s][i]
    OBVIOUS
  <2>2. PICK k \in Nat : k = Len(solved) /\ DOMAIN impls = 1..k
    BY DEF PlanInvariant
  <2>3. ImplSound(impl, s - 1) /\ s \in 1..k
    BY <2>1, <2>2 DEF PlanInvariant
  <2>4. ImplSound(impl, k)
    <3>1. impl.subs \in Seq(1..(s - 1)) /\ 1..(s - 1) \subseteq 1..k
      BY <2>3 DEF ImplSound
    <3>2. impl.subs \in Seq(1..k)
      BY <3>1, SeqMonotonic
    <3> QED
      BY <2>3, <3>2 DEF ImplSound
  <2>5. 1 \in DOMAIN impl.subs
    <3>1. DOMAIN impl.subs = 1..Len(impl.subs) /\ Len(impl.subs) = 1
      BY <2>1, <2>4 DEF ImplSound
    <3> QED
      BY <3>1
  <2>6. SubSolution(impl, m, 1).cost \in Costs
    <3>1. PlannedSound /\ Fits(impl, m) /\ SubSolution(impl, m, 1) # None
      BY <2>1, <2>5 DEF PlanInvariant, Applies
    <3> QED
      BY <2>2, <2>4, <2>5, <3>1, SubTypes
  <2>7. PICK x \in Nat : x = SubSolution(impl, m, 1).cost.main
    BY <2>6, CostTypes
  <2>8. impl.steps \in Nat /\ impl.overhead = 0
    BY <2>1, <2>4 DEF ImplSound
  <2>9. SaturatingMul(x, impl.steps) + impl.overhead <= MainMax
    <3>1. PICK y \in Nat : y = x * impl.steps
      BY <2>8
    <3>2. SaturatingMul(x, impl.steps) = Min({y, MainMax})
      BY <3>1 DEF SaturatingMul
    <3>3. Min({y, MainMax}) = IF y <= MainMax THEN y ELSE MainMax
      BY MinOfTwo, LevelTypes
    <3>4. SaturatingMul(x, impl.steps) <= MainMax /\ SaturatingMul(x, impl.steps) \in Nat
      BY <3>2, <3>3, LevelTypes
    <3> QED
      BY <2>8, <3>4
  <2> QED
    BY <2>1, <2>7, <2>9 DEF LoopFits
<1>2. Init => PlanInvariant
  BY PlanInit DEF CostInvariant
<1>3. PlanInvariant /\ [Next]_vars => PlanInvariant'
  BY PlanSound
<1>4. Spec => []OverheadFits
  BY <1>1, <1>2, <1>3, PTL DEF Spec
<1> QED
  BY <1>4, BoxesHaveOneMainCost, MemoryHelps, PTL
=============================================================================
