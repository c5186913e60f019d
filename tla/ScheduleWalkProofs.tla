------------------------ MODULE ScheduleWalkProofs ------------------------
(***************************************************************************)
(* Safety of every path of ScheduleWalk, for every set of roots that       *)
(* WalkAssumption admits, of any size, shape and layout: the buffers       *)
(* allocated on the way fit the root's limits (THEOREM BuffersAlwaysFit),  *)
(* what a Spec reads has been written and what it writes is wanted         *)
(* (DataAlwaysFlows), and each sub-Spec is below its Spec                  *)
(* (AlwaysDescends), so that a search never returns to a Spec it is in     *)
(* the middle of.  Where no root is a Conv of more than one value, the     *)
(* operands of each Spec are at one place of the problem                   *)
(* (OperandsAlwaysAgree).                                                  *)
(*                                                                         *)
(* The invariant Safe that carries them adds what the steps rely on: the   *)
(* operands of a Spec are as many as its typ takes and their shapes are    *)
(* those of one problem (SizedSpec), whatever action made the Spec.        *)
(* Placed, relative to it, says where in the problem each operand is; and  *)
(* Laid, that each operand's layout applies and is canonical, which gives  *)
(* LayoutsAlwaysApply and AlwaysCanonical.  Where roots are of powers of   *)
(* two, so is every Spec (Binary): then no tile hangs over an edge, which  *)
(* gives LoopsAlwaysOnce, and with Keyable, what the database tells of a   *)
(* Spec besides, its place there is its own (KeysAlwaysInvertible).  Last, *)
(* Contained: tiles of tiles stay in their buffers, which, with the types  *)
(* that all of these give a Spec's parts, is AlwaysTyped.                  *)
(***************************************************************************)
EXTENDS ScheduleWalk, LayoutProofs

\* An operand, but for what its layout is: the lemmas here do not depend on it.
OpFields == {"shape", "dtype", "level", "layout", "contig", "aligned", "vector"}
Sized(t) ==
    /\ DOMAIN t = OpFields
    /\ t.shape \in Seq(Nat \ {0}) /\ t.dtype \in Dtypes /\ t.level \in CpuLevels

\* What canonicalization leaves alone.
Alike(t, u) ==
    /\ DOMAIN u = DOMAIN t /\ u.shape = t.shape /\ u.dtype = t.dtype /\ u.level = t.level
    /\ u.aligned = t.aligned /\ u.vector = t.vector

\* Canonicalizing an operand changes its layout and what of it is contiguous, only.
LEMMA CanonicalizedAlike ==
    ASSUME NEW t, Sized(t)
    PROVE  Alike(t, Canonicalized(t)) /\ Alike(t, Relabelled(t))
BY DEF Sized, Alike, Canonicalized, WithLayout, Relabelled, OpFields

\* A canonical TensorSpec has the shape, dtype and level it is made with.
LEMMA NewCanonSized ==
    ASSUME NEW shape \in Seq(Nat \ {0}), NEW dtype \in Dtypes, NEW level \in CpuLevels,
           NEW layout, NEW contig, NEW aligned, NEW vector
    PROVE  LET t == NewCanon(shape, dtype, level, layout, contig, aligned, vector)
           IN  Sized(t) /\ t.shape = shape /\ t.dtype = dtype /\ t.level = level
BY DEF Sized, NewCanon, TensorSpec, Canonicalized, WithLayout, OpFields

\* So does canonicalizing a Spec's operands (a bitwise Move's are relabelled too).
LEMMA CanonicalOpsAlike ==
    ASSUME NEW typ, NEW ops, NEW n \in Nat, DOMAIN ops = 1..n, \A i \in 1..n : Sized(ops[i])
    PROVE  /\ DOMAIN CanonicalOps(typ, ops) = 1..n
           /\ \A i \in 1..n : Alike(ops[i], CanonicalOps(typ, ops)[i])
<1> DEFINE once == [i \in DOMAIN ops |-> Canonicalized(ops[i])]
<1>1. \A i \in 1..n : Alike(ops[i], once[i]) /\ Sized(once[i])
  BY CanonicalizedAlike DEF Alike, Sized
<1>2. CASE IsBitwise(typ, once)
  <2>1. CanonicalOps(typ, ops) = [i \in 1..n |-> Relabelled(once[i])]
    BY <1>2 DEF CanonicalOps, RelabelledIfBitwise
  <2>2. \A i \in 1..n : Alike(once[i], Relabelled(once[i]))
    BY <1>1, CanonicalizedAlike
  <2> QED
    BY <1>1, <2>1, <2>2 DEF Alike
<1>3. CASE ~IsBitwise(typ, once)
  BY <1>1, <1>3 DEF CanonicalOps, RelabelledIfBitwise
<1> QED
  BY <1>2, <1>3
SpecFields == {"typ", "accum", "ops", "serial", "limits"}
SizedOps(typ, ops) ==
    /\ typ \in DOMAIN InputCount /\ DOMAIN ops = 1..InputCount[typ] + 1
    /\ \A i \in DOMAIN ops : Sized(ops[i])
SizedSpec(s) ==
    /\ DOMAIN s = SpecFields /\ SizedOps(s.typ, s.ops)
    /\ s.accum \in BOOLEAN /\ s.limits \in [1..4 -> Nat]
    /\ ShapesAgree(s)

\* The shapes of the operands of each kind of problem.
MatmulShapes(ops, m, k, n) == ops[1].shape = <<m, k>> /\ ops[2].shape = <<k, n>> /\ ops[3].shape = <<m, n>>
ConvShapes(ops, b, f, c, h, w, y, x) ==
    /\ ops[1].shape = <<b, c, h, w>> /\ ops[2].shape = <<f, c, y, x>>
    /\ ops[3].shape = <<b, f, 1 + h - y, 1 + w - x>>

\* How many operands a Spec of each typ has; the output is the last.
LEMMA OpsCount ==
    ASSUME NEW s, SizedOps(s.typ, s.ops)
    PROVE  /\ InputCount[s.typ] \in 0..2 /\ Len(s.ops) = InputCount[s.typ] + 1
           /\ OutputIdx(s) = InputCount[s.typ] + 1 /\ OutputIdx(s) \in DOMAIN s.ops
           /\ InputCount["Zero"] = 0 /\ InputCount["Move"] = 1 /\ InputCount["Matmul"] = 2 /\ InputCount["Conv"] = 2
BY DEF SizedOps, InputCount, OutputIdx

\* At least one, at most three.
LEMMA OpsDomain ==
    ASSUME NEW typ, NEW ops, SizedOps(typ, ops)
    PROVE  \E n \in 1..3 : DOMAIN ops = 1..n /\ n = InputCount[typ] + 1
<1>1. InputCount[typ] \in 0..2
  BY DEF SizedOps, InputCount
<1>2. InputCount[typ] + 1 \in 1..3
  BY <1>1
<1> QED
  BY <1>2 DEF SizedOps

\* What ShapesAgree says of each operand.
LEMMA AgreeMeans ==
    ASSUME NEW s, SizedOps(s.typ, s.ops), NEW shapes, shapes = ParameterShapes(s.typ, SpecShape(s))
    PROVE  /\ s.typ \in {"Matmul", "Conv"} =>
                 /\ DOMAIN s.ops = 1..3 /\ Len(s.ops) = 3
                 /\ ShapesAgree(s) <=> (s.ops[1].shape = shapes[1] /\ s.ops[2].shape = shapes[2] /\ s.ops[3].shape = shapes[3])
           /\ s.typ = "Move" =>
                 /\ DOMAIN s.ops = 1..2 /\ Len(s.ops) = 2
                 /\ ShapesAgree(s) <=> (s.ops[1].shape = shapes[1] /\ s.ops[2].shape = shapes[2])
           /\ s.typ = "Zero" =>
                 /\ DOMAIN s.ops = 1..1 /\ Len(s.ops) = 1
                 /\ ShapesAgree(s) <=> s.ops[1].shape = shapes[1]
<1>1. /\ Len(s.ops) = InputCount[s.typ] + 1 /\ DOMAIN s.ops = 1..InputCount[s.typ] + 1
      /\ ShapesAgree(s) <=> \A i \in DOMAIN s.ops : s.ops[i].shape = shapes[i]
  BY OpsCount DEF ShapesAgree, SizedOps
<1>2. ASSUME NEW n \in 1..3, n = InputCount[s.typ] + 1
      PROVE  /\ DOMAIN s.ops = 1..n /\ Len(s.ops) = n
             /\ ShapesAgree(s) <=> \A i \in 1..n : s.ops[i].shape = shapes[i]
  BY <1>1, <1>2
<1>3. s.typ \in {"Matmul", "Conv"} => 3 = InputCount[s.typ] + 1
  BY OpsCount
<1>4. s.typ = "Move" => 2 = InputCount[s.typ] + 1
  BY OpsCount
<1>5. s.typ = "Zero" => 1 = InputCount[s.typ] + 1
  BY OpsCount
<1> QED
  BY <1>2, <1>3, <1>4, <1>5

\* The operands of a Matmul are those of one problem if their shapes are m x k,
\* k x n and m x n.
LEMMA AgreeMatmul ==
    ASSUME NEW s, SizedOps(s.typ, s.ops), s.typ = "Matmul"
    PROVE  ShapesAgree(s) <=> \E m, k, n \in Nat \ {0} : MatmulShapes(s.ops, m, k, n)
<1>1. Len(s.ops) = 3 /\ DOMAIN s.ops = 1..3 /\ \A i \in 1..3 : s.ops[i].shape \in Seq(Nat \ {0})
  BY AgreeMeans DEF SizedOps, Sized
<1>2. ASSUME ShapesAgree(s)
      PROVE  \E m, k, n \in Nat \ {0} : MatmulShapes(s.ops, m, k, n)
  <2>1. /\ s.ops[1].shape = <<s.ops[1].shape[1], s.ops[1].shape[2]>>
        /\ s.ops[2].shape = <<s.ops[1].shape[2], s.ops[2].shape[2]>>
        /\ s.ops[3].shape = <<s.ops[1].shape[1], s.ops[2].shape[2]>>
    BY <1>1, <1>2 DEF ShapesAgree, ParameterShapes, SpecShape
  <2>2. s.ops[1].shape[1] \in Nat \ {0} /\ s.ops[1].shape[2] \in Nat \ {0} /\ s.ops[2].shape[2] \in Nat \ {0}
    BY <1>1, <2>1
  <2> QED
    BY <2>1, <2>2 DEF MatmulShapes
<1>3. ASSUME NEW m \in Nat \ {0}, NEW k \in Nat \ {0}, NEW n \in Nat \ {0}, MatmulShapes(s.ops, m, k, n)
      PROVE  ShapesAgree(s)
  <2>1. SpecShape(s) = <<m, k, n>>
    BY <1>3 DEF SpecShape, MatmulShapes
  <2>2. ParameterShapes(s.typ, SpecShape(s)) = <<<<m, k>>, <<k, n>>, <<m, n>>>>
    BY <2>1 DEF ParameterShapes
  <2> QED
    BY <1>3, <2>2, AgreeMeans DEF MatmulShapes
<1> QED
  BY <1>2, <1>3

\* And of a Conv, if the output has the pixels where the filters fit in the image.
LEMMA AgreeConv ==
    ASSUME NEW s, SizedOps(s.typ, s.ops), s.typ = "Conv"
    PROVE  ShapesAgree(s) <=> \E b, f, c, h, w, y, x \in Nat \ {0} : ConvShapes(s.ops, b, f, c, h, w, y, x)
<1>1. Len(s.ops) = 3 /\ DOMAIN s.ops = 1..3 /\ \A i \in 1..3 : s.ops[i].shape \in Seq(Nat \ {0})
  BY AgreeMeans DEF SizedOps, Sized
<1>2. ASSUME ShapesAgree(s)
      PROVE  \E b, f, c, h, w, y, x \in Nat \ {0} : ConvShapes(s.ops, b, f, c, h, w, y, x)
  <2> DEFINE i == s.ops[1].shape
             k == s.ops[2].shape
  <2>0. SpecShape(s) = <<i[1], k[1], i[2], i[3], i[4], k[3], k[4]>>
    BY DEF SpecShape
  <2>a. ParameterShapes(s.typ, SpecShape(s))
            = <<<<i[1], i[2], i[3], i[4]>>, <<k[1], i[2], k[3], k[4]>>, <<i[1], k[1], 1 + i[3] - k[3], 1 + i[4] - k[4]>>>>
    BY <2>0 DEF ParameterShapes
  <2>1. /\ i = <<i[1], i[2], i[3], i[4]>> /\ k = <<k[1], i[2], k[3], k[4]>>
        /\ s.ops[3].shape = <<i[1], k[1], 1 + i[3] - k[3], 1 + i[4] - k[4]>>
    BY <1>2, <2>a, AgreeMeans
  <2>2. /\ i[1] \in Nat \ {0} /\ i[2] \in Nat \ {0} /\ i[3] \in Nat \ {0} /\ i[4] \in Nat \ {0}
        /\ k[1] \in Nat \ {0} /\ k[3] \in Nat \ {0} /\ k[4] \in Nat \ {0}
    <3>1. i \in Seq(Nat \ {0}) /\ k \in Seq(Nat \ {0}) /\ Len(i) = 4 /\ Len(k) = 4
      <4>1. i \in Seq(Nat \ {0}) /\ k \in Seq(Nat \ {0})
        BY <1>1
      <4>2. Len(i) = 4 /\ Len(k) = 4
        BY <2>1
      <4> QED
        BY <4>1, <4>2
    <3> HIDE DEF i, k
    <3>a. \A d \in 1..Len(i) : i[d] \in Nat \ {0}
      BY <3>1, ElementOfSeq
    <3>b. \A d \in 1..Len(k) : k[d] \in Nat \ {0}
      BY <3>1, ElementOfSeq
    <3>2. \A d \in 1..4 : i[d] \in Nat \ {0} /\ k[d] \in Nat \ {0}
      BY <3>1, <3>a, <3>b
    <3> QED
      BY <3>2
  <2>3. ConvShapes(s.ops, i[1], k[1], i[2], i[3], i[4], k[3], k[4])
    BY <2>1 DEF ConvShapes
  <2> HIDE DEF i, k
  <2> QED
    BY <2>2, <2>3
<1>3. ASSUME NEW b \in Nat \ {0}, NEW f \in Nat \ {0}, NEW c \in Nat \ {0}, NEW h \in Nat \ {0},
             NEW w \in Nat \ {0}, NEW y \in Nat \ {0}, NEW x \in Nat \ {0}, ConvShapes(s.ops, b, f, c, h, w, y, x)
      PROVE  ShapesAgree(s)
  <2>1. SpecShape(s) = <<b, f, c, h, w, y, x>>
    BY <1>3 DEF SpecShape, ConvShapes
  <2>2. ParameterShapes(s.typ, SpecShape(s))
            = <<<<b, c, h, w>>, <<f, c, y, x>>, <<b, f, 1 + h - y, 1 + w - x>>>>
    BY <2>1 DEF ParameterShapes
  <2> QED
    BY <1>3, <2>2, AgreeMeans DEF ConvShapes
<1> QED
  BY <1>2, <1>3

\* And of a Move or a Zero, if they have one shape.
LEMMA AgreeElementwise ==
    ASSUME NEW s, SizedOps(s.typ, s.ops), s.typ \in {"Zero", "Move"}
    PROVE  ShapesAgree(s) <=> \A i \in DOMAIN s.ops : s.ops[i].shape = s.ops[1].shape
<1>1. CASE s.typ = "Zero"
  <2>1. DOMAIN s.ops = 1..1
    BY <1>1, AgreeMeans
  <2>2. SpecShape(s) = s.ops[1].shape
    BY <1>1 DEF SpecShape
  <2>3. ParameterShapes(s.typ, SpecShape(s)) = <<s.ops[1].shape>>
    BY <1>1, <2>2 DEF ParameterShapes
  <2> QED
    BY <1>1, <2>1, <2>3, AgreeMeans
<1>2. CASE s.typ = "Move"
  <2>1. DOMAIN s.ops = 1..2
    BY <1>2, AgreeMeans
  <2>2. SpecShape(s) = s.ops[1].shape
    BY <1>2 DEF SpecShape
  <2>3. ParameterShapes(s.typ, SpecShape(s)) = <<s.ops[1].shape, s.ops[1].shape>>
    BY <1>2, <2>2 DEF ParameterShapes
  <2> QED
    BY <1>2, <2>1, <2>3, AgreeMeans
<1> QED
  BY <1>1, <1>2 DEF SizedOps
\* Specs of one typ whose operands have the same shapes are of the same problem.
SameShapes(s, t) ==
    /\ s.typ = t.typ /\ DOMAIN t.ops = DOMAIN s.ops
    /\ \A i \in DOMAIN s.ops : t.ops[i].shape = s.ops[i].shape

LEMMA SameProblem ==
    ASSUME NEW s, NEW t, SizedOps(s.typ, s.ops), SizedOps(t.typ, t.ops), SameShapes(s, t)
    PROVE  SpecShape(t) = SpecShape(s) /\ (ShapesAgree(s) => ShapesAgree(t))
<1>1. SpecShape(t) = SpecShape(s)
  <2>1. s.typ \in {"Matmul", "Conv"} => 1 \in DOMAIN s.ops /\ 2 \in DOMAIN s.ops
    BY AgreeMeans
  <2>2. 1 \in DOMAIN s.ops
    BY OpsDomain
  <2> QED
    BY <2>1, <2>2 DEF SameShapes, SpecShape
<1>2. Len(s.ops) = Len(t.ops)
  BY OpsCount DEF SameShapes
<1> QED
  BY <1>1, <1>2 DEF ShapesAgree, SameShapes

\* Spec::canonicalize keeps the problem and never raises a limit.
LEMMA CanonicalSpecSized ==
    ASSUME NEW s, SizedSpec(s)
    PROVE  LET c == CanonicalSpec(s) IN
           /\ SizedSpec(c) /\ SameShapes(s, c) /\ SpecShape(c) = SpecShape(s)
           /\ c.typ = s.typ /\ c.accum = s.accum /\ c.serial = s.serial
           /\ \A l \in 1..4 : c.limits[l] <= s.limits[l]
<1> DEFINE c == CanonicalSpec(s)
<1>1. /\ DOMAIN c = SpecFields /\ c.typ = s.typ /\ c.accum = s.accum /\ c.serial = s.serial
      /\ c.ops = CanonicalOps(s.typ, s.ops) /\ c.limits = ZeroSlower(s.ops, s.limits)
  BY DEF CanonicalSpec, SizedSpec, SpecFields
<1>2. c.limits \in [1..4 -> Nat] /\ \A l \in 1..4 : c.limits[l] <= s.limits[l]
  BY <1>1 DEF ZeroSlower, SizedSpec
<1>3. PICK n \in 1..3 : DOMAIN s.ops = 1..n
  BY OpsDomain DEF SizedSpec
<1>a. \A i \in 1..n : Sized(s.ops[i])
  BY <1>3 DEF SizedSpec, SizedOps
<1>4. DOMAIN c.ops = 1..n /\ \A i \in 1..n : Alike(s.ops[i], c.ops[i])
  BY <1>1, <1>3, <1>a, CanonicalOpsAlike
<1>5. SizedOps(c.typ, c.ops) /\ SameShapes(s, c)
  BY <1>1, <1>3, <1>4 DEF SizedSpec, SizedOps, SameShapes, Alike, Sized
<1>6. ShapesAgree(c) /\ SpecShape(c) = SpecShape(s)
  BY <1>5, SameProblem DEF SizedSpec
<1> QED
  BY <1>1, <1>2, <1>5, <1>6 DEF SizedSpec
-----------------------------------------------------------------------------
(* Moves.                                                                  *)

\* Each level has its place in the limits.
LEMMA LevelsIndexed ==
    ASSUME NEW level \in CpuLevels
    PROVE  /\ LevelIndex(level) \in 1..4 /\ LevelOrder[LevelIndex(level)] = level
           /\ \A l \in 1..4 : LevelOrder[l] = level => l = LevelIndex(level)
<1>1. LevelOrder[1] = "RF" /\ LevelOrder[2] = "VRF" /\ LevelOrder[3] = "L1" /\ LevelOrder[4] = "GL"
  BY DEF LevelOrder
<1>2. \E i \in 1..4 : LevelOrder[i] = level
  BY <1>1 DEF CpuLevels
<1>3. LevelIndex(level) \in 1..4 /\ LevelOrder[LevelIndex(level)] = level
  BY <1>2 DEF LevelIndex
<1>4. \A k, l \in 1..4 : LevelOrder[k] = LevelOrder[l] => k = l
  BY <1>1
<1> QED
  BY <1>3, <1>4

\* A shape of nonzero sizes has elements.
LEMMA VolumeNonzero ==
    ASSUME NEW shape \in Seq(Nat \ {0})
    PROVE  Volume(shape) \in Nat \ {0}
<1>1. PICK n \in Nat : DOMAIN shape = 1..n /\ shape \in [1..n -> Nat \ {0}]
  OBVIOUS
<1>2. IsFiniteSet(1..n)
  BY FS_Interval
<1> QED
  BY <1>1, <1>2, ProductNonzero DEF Volume

\* And they take memory.
LEMMA BytesNonzero ==
    ASSUME NEW dtype \in Dtypes, NEW shape \in Seq(Nat \ {0})
    PROVE  SizeOf[dtype] * Volume(shape) \in Nat \ {0}
<1>1. SizeOf[dtype] \in Nat \ {0}
  BY DEF SizeOf, Dtypes
<1> QED
  BY <1>1, VolumeNonzero, NonzeroTimes

\* What a move on offer is of.
LEMMA MoveActionsAre ==
    ASSUME NEW s, NEW a \in MoveActions(s)
    PROVE  /\ a.source \in DOMAIN s.ops /\ a.level \in DestinationLevels(s.ops[a.source].level)
           /\ a.dtype \in {s.ops[a.source].dtype} \cup HigherPrecision(s.ops[a.source].dtype)
           /\ a.layout \in MoveDestinationLayouts(s.ops[a.source].shape, s.ops[a.source].dtype)
           /\ CanMoveTo(s.ops[a.source], a.layout, a.level)
           /\ a.vector \in VectorSizes(s.ops[a.source].dtype, a.level)
<1>0. PICK i \in DOMAIN s.ops : \E level \in DestinationLevels(s.ops[i].level) :
          a \in [kind : {"Move"}, source : {i}, dtype : {s.ops[i].dtype} \cup HigherPrecision(s.ops[i].dtype), level : {level},
                 layout : {layout \in MoveDestinationLayouts(s.ops[i].shape, s.ops[i].dtype) : CanMoveTo(s.ops[i], layout, level)},
                 vector : VectorSizes(s.ops[i].dtype, level)]
  BY DEF MoveActions
<1>1. PICK level \in DestinationLevels(s.ops[i].level) :
          a \in [kind : {"Move"}, source : {i}, dtype : {s.ops[i].dtype} \cup HigherPrecision(s.ops[i].dtype), level : {level},
                 layout : {layout \in MoveDestinationLayouts(s.ops[i].shape, s.ops[i].dtype) : CanMoveTo(s.ops[i], layout, level)},
                 vector : VectorSizes(s.ops[i].dtype, level)]
  BY <1>0
<1>2. a.source = i /\ a.level = level
  BY <1>1
<1> QED
  BY <1>1, <1>2

\* The buffer that a move introduces, and its bytes.
LEMMA MovedIs ==
    ASSUME NEW s, SizedSpec(s), NEW a \in MoveActions(s)
    PROVE  /\ a.source \in DOMAIN s.ops /\ a.dtype \in Dtypes /\ a.level \in CpuLevels
           /\ Sized(s.ops[a.source]) /\ Sized(MovedOperand(s, a))
           /\ MovedOperand(s, a).shape = s.ops[a.source].shape
           /\ MovedOperand(s, a).level = a.level
           /\ BytesUsed(MovedOperand(s, a)) = MovedBytes(s, a) /\ MovedBytes(s, a) \in Nat \ {0}
<1> DEFINE t == s.ops[a.source]
<1>1. a.source \in DOMAIN s.ops /\ Sized(t)
  BY MoveActionsAre DEF SizedSpec, SizedOps
<1>2. a.dtype \in Dtypes
  BY <1>1, MoveActionsAre DEF Sized, HigherPrecision, Dtypes, SizeOf
<1>3. a.level \in CpuLevels
  BY <1>1, MoveActionsAre DEF Sized, DestinationLevels, CpuLevels
<1>4. \A layout, contig, aligned, vector :
          LET u == NewCanon(t.shape, a.dtype, a.level, layout, contig, aligned, vector)
          IN  Sized(u) /\ u.shape = t.shape /\ u.dtype = a.dtype /\ u.level = a.level
  BY <1>1, <1>2, <1>3, NewCanonSized DEF Sized
<1>5. LET u == MovedOperand(s, a) IN Sized(u) /\ u.shape = t.shape /\ u.dtype = a.dtype /\ u.level = a.level
  BY <1>4 DEF MovedOperand, MoveletInner
<1>6. MovedBytes(s, a) \in Nat \ {0} /\ BytesUsed(MovedOperand(s, a)) = MovedBytes(s, a)
  BY <1>1, <1>2, <1>5, BytesNonzero DEF MovedBytes, BytesUsed, TVolume, Sized
<1> QED
  BY <1>1, <1>2, <1>3, <1>5, <1>6

Lowered(s, a, typ, accum, ops) ==
    [s EXCEPT !.typ = typ, !.accum = accum, !.ops = ops, !.limits = LowerLimits(s, a)]
SubOf(s, a, part, typ, accum, ops, from) == Child(part, CanonicalSpec(Lowered(s, a, typ, accum, ops)), from)

PrologueOf(s, a) == SubOf(s, a, "prologue", "Move", FALSE, <<s.ops[a.source], MovedOperand(s, a)>>, <<a.source, 0>>)
BodyOf(s, a) == SubOf(s, a, "body", s.typ, s.accum, [s.ops EXCEPT ![a.source] = MovedOperand(s, a)],
                      [Own(s) EXCEPT ![a.source] = 0])
EpilogueOf(s, a) == SubOf(s, a, "epilogue", "Move", FALSE, <<MovedOperand(s, a), s.ops[a.source]>>, <<0, a.source>>)

\* The sub-Specs of a move, by part.
LEMMA MoveChildren ==
    ASSUME NEW s, NEW a, NEW child \in Range(MoveLet(s, a).children)
    PROVE  \/ GensPrologue(s, a) /\ child = PrologueOf(s, a)
           \/ child = BodyOf(s, a)
           \/ GensEpilogue(s, a) /\ child = EpilogueOf(s, a)
<1>1. MoveLet(s, a).children =
          (IF GensPrologue(s, a) THEN <<PrologueOf(s, a)>> ELSE <<>>)
          \o <<BodyOf(s, a)>> \o (IF GensEpilogue(s, a) THEN <<EpilogueOf(s, a)>> ELSE <<>>)
  BY DEF MoveLet, MoveLetOf, Impl, PrologueOf, BodyOf, EpilogueOf, SubOf, Lowered
<1> DEFINE p == PrologueOf(s, a)
           b == BodyOf(s, a)
           e == EpilogueOf(s, a)
<1> HIDE DEF p, b, e
<1>2. CASE GensPrologue(s, a) /\ GensEpilogue(s, a)
  <2>1. MoveLet(s, a).children = <<p>> \o <<b>> \o <<e>>
    BY <1>1, <1>2 DEF p, b, e
  <2>2. child \in {p, b, e}
    BY <2>1 DEF Range
  <2> QED
    BY <1>2, <2>2 DEF p, b, e
<1>3. CASE GensPrologue(s, a) /\ ~GensEpilogue(s, a)
  <2>1. MoveLet(s, a).children = <<p>> \o <<b>>
    BY <1>1, <1>3 DEF p, b, e
  <2>2. child \in {p, b}
    BY <2>1 DEF Range
  <2> QED
    BY <1>3, <2>2 DEF p, b, e
<1>4. CASE ~GensPrologue(s, a) /\ GensEpilogue(s, a)
  <2>1. MoveLet(s, a).children = <<b>> \o <<e>>
    BY <1>1, <1>4 DEF p, b, e
  <2>2. child \in {b, e}
    BY <2>1 DEF Range
  <2> QED
    BY <1>4, <2>2 DEF p, b, e
<1>5. CASE ~GensPrologue(s, a) /\ ~GensEpilogue(s, a)
  <2>1. MoveLet(s, a).children = <<b>>
    BY <1>1, <1>5 DEF p, b, e
  <2>2. child \in {b}
    BY <2>1 DEF Range
  <2> QED
    BY <1>5, <2>2 DEF p, b, e
<1> QED
  BY <1>2, <1>3, <1>4, <1>5

\* Each child's limits leave room for what the move allocates.
LEMMA SubSized ==
    ASSUME NEW s, SizedSpec(s), NEW a \in MoveActions(s), MoveApplies(s, a),
           NEW part, NEW typ, NEW accum \in BOOLEAN, NEW ops, NEW from, SizedOps(typ, ops),
           ShapesAgree(Lowered(s, a, typ, accum, ops))
    PROVE  LET c == SubOf(s, a, part, typ, accum, ops, from) IN
           /\ SizedSpec(c.spec) /\ c.from = from /\ c.part = part /\ c.spec.typ = typ /\ c.spec.accum = accum
           /\ \A l \in 1..4 : c.spec.limits[l] + Allocated(MoveLet(s, a))[l] <= s.limits[l]
           /\ c.spec.limits # s.limits /\ Allocated(MoveLet(s, a)) \in [1..4 -> Nat]
<1> DEFINE u == Lowered(s, a, typ, accum, ops)
           c == SubOf(s, a, part, typ, accum, ops, from)
           k == LevelIndex(a.level)
           alloc == Allocated(MoveLet(s, a))
<1>1. /\ DOMAIN u = SpecFields /\ u.typ = typ /\ u.accum = accum /\ u.ops = ops
      /\ u.limits = LowerLimits(s, a)
  BY DEF SizedSpec, SpecFields, Lowered
<1>2. PICK b \in Nat \ {0} : b = MovedBytes(s, a) /\ b = BytesUsed(MovedOperand(s, a))
  BY MovedIs
<1>3. a.level \in CpuLevels /\ MovedOperand(s, a).level = a.level /\ k \in 1..4
      /\ \A l \in 1..4 : LevelOrder[l] = a.level <=> l = k
  BY MovedIs, LevelsIndexed
<1>4. s.limits \in [1..4 -> Nat] /\ s.limits[k] >= b
  BY <1>2 DEF MoveApplies, SizedSpec
<1>5. LowerLimits(s, a) = [s.limits EXCEPT ![k] = PrevPowerOfTwo(s.limits[k] - b)]
  BY <1>2 DEF LowerLimits
<1>6. s.limits[k] - b \in Nat
  BY <1>2, <1>3, <1>4
<1>7. PICK p \in Nat : p = PrevPowerOfTwo(s.limits[k] - b) /\ p <= s.limits[k] - b
  BY <1>6, PrevPowerIs
<1>8. u.limits \in [1..4 -> Nat] /\ u.limits[k] = p /\ \A l \in 1..4 : l # k => u.limits[l] = s.limits[l]
  BY <1>1, <1>3, <1>4, <1>5, <1>7
<1>9. SizedSpec(u)
  BY <1>1, <1>8 DEF SizedSpec
<1>10. /\ SizedSpec(c.spec) /\ c.spec.typ = typ /\ c.spec.accum = accum
       /\ \A l \in 1..4 : c.spec.limits[l] <= u.limits[l]
       /\ c.from = from /\ c.part = part
  BY <1>1, <1>9, CanonicalSpecSized DEF SubOf, Child
<1>11. MoveLet(s, a).introduced = <<MovedOperand(s, a)>>
  BY DEF MoveLet, MoveLetOf, Impl
<1>12. alloc = [l \in 1..4 |-> IF l = k THEN b ELSE 0]
  BY <1>2, <1>3, <1>11 DEF Allocated
<1>13. c.spec.limits \in [1..4 -> Nat]
  BY <1>10 DEF SizedSpec
<1>14. \A l \in 1..4 : c.spec.limits[l] + alloc[l] <= s.limits[l]
  BY <1>2, <1>4, <1>7, <1>8, <1>10, <1>12, <1>13
<1>15. c.spec.limits[k] < s.limits[k]
  BY <1>2, <1>3, <1>4, <1>12, <1>13, <1>14
<1>16. c.spec.limits # s.limits
  BY <1>3, <1>4, <1>13, <1>15
<1>17. alloc \in [1..4 -> Nat]
  BY <1>2, <1>12
<1> QED
  BY <1>10, <1>14, <1>16, <1>17
\* The parts of a move: what they read and write, and what they may still allocate.
FromPerOperand(c) == DOMAIN c.from = DOMAIN c.spec.ops

LEMMA MoveParts ==
    ASSUME NEW s, SizedSpec(s), NEW a \in MoveActions(s), MoveApplies(s, a),
           NEW c \in Range(MoveLet(s, a).children)
    PROVE  /\ SizedSpec(c.spec)
           /\ \A l \in 1..4 : c.spec.limits[l] + Allocated(MoveLet(s, a))[l] <= s.limits[l]
           /\ c.spec.limits # s.limits /\ Allocated(MoveLet(s, a)) \in [1..4 -> Nat]
           /\ FromPerOperand(c)
           /\ \/ /\ c.part = "prologue" /\ GensPrologue(s, a) /\ c.spec.typ = "Move"
                 /\ c.from = <<a.source, 0>>
              \/ /\ c.part = "epilogue" /\ GensEpilogue(s, a) /\ c.spec.typ = "Move"
                 /\ c.from = <<0, a.source>>
              \/ /\ c.part = "body" /\ c.spec.typ = s.typ /\ c.spec.accum = s.accum
                 /\ c.from = [i \in DOMAIN s.ops |-> IF i = a.source THEN 0 ELSE i]
<1> DEFINE m == MovedOperand(s, a)
           t == s.ops[a.source]
           u(typ, accum, ops) == Lowered(s, a, typ, accum, ops)
<1>1. a.source \in DOMAIN s.ops /\ Sized(t) /\ Sized(m) /\ m.shape = t.shape
  BY MovedIs
<1>2. ASSUME NEW o1, NEW o2, Sized(o1), Sized(o2), o1.shape = o2.shape
      PROVE  SizedOps("Move", <<o1, o2>>) /\ ShapesAgree(u("Move", FALSE, <<o1, o2>>))
  <2>1. SizedOps("Move", <<o1, o2>>)
    BY <1>2 DEF SizedOps, InputCount
  <2>2. u("Move", FALSE, <<o1, o2>>).typ = "Move" /\ u("Move", FALSE, <<o1, o2>>).ops = <<o1, o2>>
    BY DEF SizedSpec, SpecFields, Lowered
  <2>3. \A i \in DOMAIN <<o1, o2>> : <<o1, o2>>[i].shape = <<o1, o2>>[1].shape
    BY <1>2
  <2> QED
    BY <2>1, <2>2, <2>3, AgreeElementwise
<1>3. CASE GensPrologue(s, a) /\ c = PrologueOf(s, a)
  <2>1. SizedOps("Move", <<t, m>>) /\ ShapesAgree(u("Move", FALSE, <<t, m>>))
    BY <1>1, <1>2
  <2>a. /\ SizedSpec(c.spec) /\ c.from = <<a.source, 0>> /\ c.part = "prologue" /\ c.spec.typ = "Move"
        /\ \A l \in 1..4 : c.spec.limits[l] + Allocated(MoveLet(s, a))[l] <= s.limits[l]
        /\ c.spec.limits # s.limits /\ Allocated(MoveLet(s, a)) \in [1..4 -> Nat]
    <3>0. PICK no \in BOOLEAN : no = FALSE
      OBVIOUS
    <3>1. PICK ops, from : ops = <<t, m>> /\ from = <<a.source, 0>>
      OBVIOUS
    <3>2. c = SubOf(s, a, "prologue", "Move", no, ops, from)
      BY <1>3, <3>0, <3>1 DEF PrologueOf
    <3>3. SizedOps("Move", ops) /\ ShapesAgree(Lowered(s, a, "Move", no, ops))
      BY <2>1, <3>0, <3>1
    <3>4. /\ SizedSpec(c.spec) /\ c.from = from /\ c.part = "prologue" /\ c.spec.typ = "Move"
          /\ \A l \in 1..4 : c.spec.limits[l] + Allocated(MoveLet(s, a))[l] <= s.limits[l]
          /\ c.spec.limits # s.limits /\ Allocated(MoveLet(s, a)) \in [1..4 -> Nat]
      BY <3>2, <3>3, SubSized
    <3> QED
      BY <3>1, <3>4
  <2>2. DOMAIN c.spec.ops = 1..2
    BY <1>3, <2>1, <2>a, AgreeMeans DEF SizedSpec
  <2> QED
    BY <1>3, <2>a, <2>2 DEF FromPerOperand
<1>4. CASE GensEpilogue(s, a) /\ c = EpilogueOf(s, a)
  <2>1. SizedOps("Move", <<m, t>>) /\ ShapesAgree(u("Move", FALSE, <<m, t>>))
    BY <1>1, <1>2
  <2>a. /\ SizedSpec(c.spec) /\ c.from = <<0, a.source>> /\ c.part = "epilogue" /\ c.spec.typ = "Move"
        /\ \A l \in 1..4 : c.spec.limits[l] + Allocated(MoveLet(s, a))[l] <= s.limits[l]
        /\ c.spec.limits # s.limits /\ Allocated(MoveLet(s, a)) \in [1..4 -> Nat]
    <3>0. PICK no \in BOOLEAN : no = FALSE
      OBVIOUS
    <3>1. PICK ops, from : ops = <<m, t>> /\ from = <<0, a.source>>
      OBVIOUS
    <3>2. c = SubOf(s, a, "epilogue", "Move", no, ops, from)
      BY <1>4, <3>0, <3>1 DEF EpilogueOf
    <3>3. SizedOps("Move", ops) /\ ShapesAgree(Lowered(s, a, "Move", no, ops))
      BY <2>1, <3>0, <3>1
    <3>4. /\ SizedSpec(c.spec) /\ c.from = from /\ c.part = "epilogue" /\ c.spec.typ = "Move"
          /\ \A l \in 1..4 : c.spec.limits[l] + Allocated(MoveLet(s, a))[l] <= s.limits[l]
          /\ c.spec.limits # s.limits /\ Allocated(MoveLet(s, a)) \in [1..4 -> Nat]
      BY <3>2, <3>3, SubSized
    <3> QED
      BY <3>1, <3>4
  <2>2. DOMAIN c.spec.ops = 1..2
    BY <1>4, <2>1, <2>a, AgreeMeans DEF SizedSpec
  <2> QED
    BY <1>4, <2>a, <2>2 DEF FromPerOperand
<1>5. CASE c = BodyOf(s, a)
  <2> DEFINE ops == [s.ops EXCEPT ![a.source] = m]
             v == u(s.typ, s.accum, ops)
  <2>1. SizedOps(s.typ, ops) /\ s.accum \in BOOLEAN /\ SizedOps(s.typ, s.ops) /\ ShapesAgree(s)
    BY <1>1 DEF SizedSpec, SizedOps
  <2>2. v.typ = s.typ /\ v.ops = ops
    BY DEF SizedSpec, SpecFields, Lowered
  <2>3. SameShapes(s, v)
    BY <1>1, <2>2 DEF SameShapes
  <2>4. ShapesAgree(v)
    <3>1. SizedOps(v.typ, v.ops)
      BY <2>1, <2>2
    <3> HIDE DEF v, ops
    <3> QED
      BY <2>1, <2>3, <3>1, SameProblem
  <2>5. [Own(s) EXCEPT ![a.source] = 0] = [i \in DOMAIN s.ops |-> IF i = a.source THEN 0 ELSE i]
    BY DEF Own
  <2>6. PICK n : DOMAIN s.ops = 1..n /\ n = InputCount[s.typ] + 1
    BY <2>1, OpsDomain
  <2>9. c = SubOf(s, a, "body", s.typ, s.accum, ops, [Own(s) EXCEPT ![a.source] = 0])
    BY <1>5 DEF BodyOf
  <2>7. /\ SizedSpec(c.spec) /\ c.from = [Own(s) EXCEPT ![a.source] = 0] /\ c.part = "body"
        /\ c.spec.typ = s.typ /\ c.spec.accum = s.accum
        /\ \A l \in 1..4 : c.spec.limits[l] + Allocated(MoveLet(s, a))[l] <= s.limits[l]
        /\ c.spec.limits # s.limits /\ Allocated(MoveLet(s, a)) \in [1..4 -> Nat]
    <3> HIDE DEF ops
    <3> QED
      BY <2>1, <2>4, <2>9, SubSized
  <2>8. DOMAIN c.spec.ops = DOMAIN s.ops
    BY <2>6, <2>7 DEF SizedSpec, SizedOps
  <2> QED
    BY <2>5, <2>7, <2>8 DEF Own, FromPerOperand
<1> QED
  BY <1>3, <1>4, <1>5, MoveChildren
-----------------------------------------------------------------------------
(* Loops.                                                                  *)

\* Which tile an operand has.
LEMMA TheTileFor ==
    ASSUME NEW tiles, NEW t \in Range(tiles), \A u \in Range(tiles) : u.operand = t.operand => u = t
    PROVE  IsTiled(tiles, t.operand) /\ TileFor(tiles, t.operand) = t
<1>1. PICK n \in DOMAIN tiles : tiles[n] = t
  BY DEF Range
<1>2. \A k \in DOMAIN tiles : tiles[k].operand = t.operand => tiles[k] = t
  BY DEF Range
<1>3. \E k \in DOMAIN tiles : tiles[k].operand = t.operand
  BY <1>1
<1> QED
  BY <1>2, <1>3 DEF IsTiled, TileFor

\* The tile that a TileOut may have for an input.
InputTile(s, shape, i) ==
    LoopTile(i, InputTilings(s, SimpleTiling(shape))[i].tiling,
             InputAxes(InputTilings(s, SimpleTiling(shape)), Len(shape), i))
OutputTile(s, shape) == LoopTile(OutputIdx(s), SimpleTiling(shape), [d \in 1..Len(shape) |-> d])
Cuts(s, shape, i) ==
    /\ i \in DOMAIN InputTilings(s, SimpleTiling(shape))
    /\ InputTilings(s, SimpleTiling(shape))[i].tiling.shape # s.ops[i].shape

LEMMA TileOutTilesAre ==
    ASSUME NEW s, NEW shape
    PROVE  Range(TileOutTiles(s, shape)) =
               {InputTile(s, shape, i) : i \in {i \in 1..2 : Cuts(s, shape, i)}} \cup {OutputTile(s, shape)}
<1> DEFINE x == InputTile(s, shape, 1)
           y == InputTile(s, shape, 2)
           z == OutputTile(s, shape)
<1>1. TileOutTiles(s, shape) = (IF Cuts(s, shape, 1) THEN <<x>> ELSE <<>>)
                               \o (IF Cuts(s, shape, 2) THEN <<y>> ELSE <<>>) \o <<z>>
  BY DEF TileOutTiles, Cuts, InputTile, OutputTile
<1> DEFINE a == IF Cuts(s, shape, 1) THEN <<x>> ELSE <<>>
           b == IF Cuts(s, shape, 2) THEN <<y>> ELSE <<>>
           S == {x, y, z}
<1> HIDE DEF x, y, z
<1>2. a \in Seq(S) /\ b \in Seq(S) /\ <<z>> \in Seq(S) /\ a \o b \in Seq(S)
  <2>1. a \in Seq(S) /\ b \in Seq(S) /\ <<z>> \in Seq(S)
    <3>1. <<x>> \in Seq(S) /\ <<y>> \in Seq(S) /\ <<z>> \in Seq(S)
      OBVIOUS
    <3>2. <<>> \in Seq(S)
      OBVIOUS
    <3> HIDE DEF S
    <3> QED
      BY <3>1, <3>2
  <2> HIDE DEF a, b, S
  <2> QED
    BY <2>1, ConcatProperties
<1>a. /\ Range(a) = IF Cuts(s, shape, 1) THEN {x} ELSE {}
      /\ Range(b) = IF Cuts(s, shape, 2) THEN {y} ELSE {}
      /\ Range(<<z>>) = {z}
  <2>1. \A e : Range(<<e>>) = {e}
    BY DEF Range
  <2>2. Range(<<>>) = {}
    BY DEF Range
  <2> QED
    BY <2>1, <2>2
<1>3. Range(TileOutTiles(s, shape)) =
          (IF Cuts(s, shape, 1) THEN {x} ELSE {}) \cup (IF Cuts(s, shape, 2) THEN {y} ELSE {}) \cup {z}
  <2>1. TileOutTiles(s, shape) = (a \o b) \o <<z>>
    BY <1>1
  <2> HIDE DEF a, b, S
  <2>2. Range(a \o b) = Range(a) \cup Range(b)
    BY <1>2, RangeConcatenation
  <2>3. Range((a \o b) \o <<z>>) = Range(a \o b) \cup Range(<<z>>)
    <3>1. a \o b \in Seq(S) /\ <<z>> \in Seq(S)
      BY <1>2
    <3> QED
      BY <3>1, RangeConcatenation, ZenonT(60)
  <2> QED
    BY <1>a, <2>1, <2>2, <2>3
<1> DEFINE I == {InputTile(s, shape, i) : i \in {i \in 1..2 : Cuts(s, shape, i)}}
<1>4. I = (IF Cuts(s, shape, 1) THEN {x} ELSE {}) \cup (IF Cuts(s, shape, 2) THEN {y} ELSE {})
  <2>1. \A i \in 1..2 : i = 1 \/ i = 2
    OBVIOUS
  <2>2. \A e : e \in I <=> (Cuts(s, shape, 1) /\ e = x) \/ (Cuts(s, shape, 2) /\ e = y)
    BY <2>1 DEF x, y
  <2> QED
    BY <2>2
<1> QED
  BY <1>3, <1>4 DEF z

\* So the tiles are found by their operands.
LEMMA TileOutTileFor ==
    ASSUME NEW s, NEW shape, SizedOps(s.typ, s.ops), DOMAIN InputTilings(s, SimpleTiling(shape)) = 1..InputCount[s.typ]
    PROVE  /\ IsTiled(TileOutTiles(s, shape), OutputIdx(s))
           /\ TileFor(TileOutTiles(s, shape), OutputIdx(s)) = OutputTile(s, shape)
           /\ \A i \in 1..InputCount[s.typ] :
                 /\ IsTiled(TileOutTiles(s, shape), i) <=> Cuts(s, shape, i)
                 /\ Cuts(s, shape, i) => TileFor(TileOutTiles(s, shape), i) = InputTile(s, shape, i)
<1> DEFINE tiles == TileOutTiles(s, shape)
           C == {i \in 1..2 : Cuts(s, shape, i)}
<1>1. /\ InputCount[s.typ] \in 0..2 /\ OutputIdx(s) = InputCount[s.typ] + 1
      /\ \A i \in C : i \in 1..InputCount[s.typ]
  BY OpsCount DEF Cuts
<1>2. Range(tiles) = {InputTile(s, shape, i) : i \in C} \cup {OutputTile(s, shape)}
  BY TileOutTilesAre
<1>3. OutputTile(s, shape).operand = OutputIdx(s) /\ \A i : InputTile(s, shape, i).operand = i
  BY DEF OutputTile, InputTile, LoopTile
<1> HIDE DEF tiles, C
<1>4. \A u \in Range(tiles) : \/ u.operand = OutputIdx(s) /\ u = OutputTile(s, shape)
                              \/ u.operand \in C /\ u = InputTile(s, shape, u.operand)
  BY <1>2, <1>3
<1>5. OutputIdx(s) \notin C
  BY <1>1
<1>6. IsTiled(tiles, OutputIdx(s)) /\ TileFor(tiles, OutputIdx(s)) = OutputTile(s, shape)
  BY <1>2, <1>3, <1>4, <1>5, TheTileFor
<1>7. ASSUME NEW i \in C
      PROVE  IsTiled(tiles, i) /\ TileFor(tiles, i) = InputTile(s, shape, i)
  BY <1>2, <1>3, <1>4, <1>5, TheTileFor
<1>8. ASSUME NEW i \in 1..InputCount[s.typ], IsTiled(tiles, i)
      PROVE  i \in C
  <2>1. PICK u \in Range(tiles) : u.operand = i
    BY <1>8 DEF IsTiled, Range
  <2>2. i # OutputIdx(s)
    BY <1>1
  <2> QED
    BY <1>4, <2>1, <2>2
<1>9. \A i \in 1..InputCount[s.typ] : i \in C <=> Cuts(s, shape, i)
  BY <1>1 DEF C
<1> QED
  BY <1>6, <1>7, <1>8, <1>9 DEF tiles
\* The largest size of a shape.
LEMMA LargestSize ==
    ASSUME NEW shape \in Seq(Nat \ {0}), shape # <<>>
    PROVE  LET sizes == {shape[d] : d \in DOMAIN shape}
           IN  Max(sizes) \in sizes /\ \A d \in DOMAIN shape : shape[d] <= Max(sizes)
<1>1. PICK n \in Nat \ {0} : DOMAIN shape = 1..n /\ shape \in [1..n -> Nat \ {0}]
  OBVIOUS
<1>a. \A d \in 1..n : shape[d] \in Nat
  BY <1>1
<1> DEFINE Bounded(k) == \E b \in Nat : \A d \in 1..k : shape[d] <= b
           Bad == {k \in Nat : k <= n /\ ~Bounded(k)}
<1>2. Bad = {}
  <2>1. SUFFICES ASSUME Bad # {}
                 PROVE  FALSE
    OBVIOUS
  <2>2. PICK k \in Nat : k <= n /\ ~Bounded(k) /\ \A i \in Bad : k <= i
    BY <2>1, LeastNat
  <2>3. Bounded(0)
    OBVIOUS
  <2>4. k # 0 /\ k - 1 \in Nat /\ k - 1 <= n /\ k \in 1..n
    BY <2>2, <2>3
  <2> HIDE DEF Bounded
  <2>5. Bounded(k - 1)
    BY <2>2, <2>4
  <2>6. PICK b \in Nat : \A d \in 1..k - 1 : shape[d] <= b
    BY <2>5 DEF Bounded
  <2>7. PICK m \in Nat : m = shape[k]
    BY <1>a, <2>4
  <2>8. \A d \in 1..k : shape[d] <= b + m
    <3> SUFFICES ASSUME NEW d \in 1..k
                 PROVE  shape[d] <= b + m
      OBVIOUS
    <3>1. CASE d = k
      BY <2>7, <3>1
    <3>2. CASE d # k
      <4>1. d \in 1..k - 1 /\ d \in 1..n
        BY <2>4, <3>2
      <4>2. PICK e \in Nat : e = shape[d] /\ e <= b
        BY <1>a, <2>6, <4>1
      <4> QED
        BY <4>2
    <3> QED
      BY <3>1, <3>2
  <2>9. Bounded(k)
    <3>1. b + m \in Nat
      OBVIOUS
    <3> QED
      BY <2>8, <3>1 DEF Bounded
  <2> QED
    BY <2>2, <2>9
<1>3. PICK b \in Nat : \A d \in 1..n : shape[d] <= b
  <2>1. n \notin Bad
    BY <1>2
  <2> QED
    BY <2>1
<1> DEFINE sizes == {shape[d] : d \in DOMAIN shape}
<1>4. sizes \in SUBSET (0..b) /\ sizes # {}
  BY <1>1, <1>3
<1>5. Max(sizes) \in sizes /\ \A m \in sizes : m <= Max(sizes)
  BY <1>4, MaxNat
<1> QED
  BY <1>5

\* The tile shapes on offer.
LEMMA TileOutActionsAre ==
    ASSUME NEW s, NEW a \in TileOutActions(s), Output(s).shape \in Seq(Nat \ {0})
    PROVE  /\ a.shape \in Seq(Nat \ {0}) /\ DOMAIN a.shape = DOMAIN Output(s).shape /\ a.parallel \in BOOLEAN
           /\ Len(a.shape) = Len(Output(s).shape)
           /\ s.serial => a.parallel = FALSE
<1> DEFINE shape == Output(s).shape
           largest == Max({shape[d] : d \in DOMAIN shape})
<1>1. CASE s.serial
  <2>1. /\ a.parallel = FALSE
        /\ a.shape \in UNION {{[shape EXCEPT ![d] = n] : n \in DimRange(largest, TRUE)} : d \in DOMAIN shape}
    BY <1>1 DEF TileOutActions
  <2>2. PICK d \in DOMAIN shape : \E n \in DimRange(largest, TRUE) : a.shape = [shape EXCEPT ![d] = n]
    BY <2>1, ZenonT(60)
  <2>3. largest \in Nat \ {0}
    <3>1. shape # <<>>
      BY <2>2
    <3>2. largest \in {shape[e] : e \in DOMAIN shape}
      BY <3>1, LargestSize
    <3>3. \A e \in DOMAIN shape : shape[e] \in Nat \ {0}
      OBVIOUS
    <3> QED
      BY <3>2, <3>3
  <2> HIDE DEF largest
  <2>4. PICK n \in Nat \ {0} : a.shape = [shape EXCEPT ![d] = n]
    BY <2>2, <2>3, DimRangeIs
  <2>5. PICK r \in Nat : DOMAIN shape = 1..r /\ shape \in [1..r -> Nat \ {0}]
    OBVIOUS
  <2>6. a.shape \in [1..r -> Nat \ {0}]
    BY <2>2, <2>4, <2>5
  <2>7. a.shape \in Seq(Nat \ {0}) /\ DOMAIN a.shape = 1..r
    BY <2>5, <2>6
  <2>8. Len(a.shape) = r /\ Len(shape) = r
    BY <2>5, <2>7
  <2> QED
    BY <2>1, <2>5, <2>7, <2>8
<1>2. CASE ~s.serial
  <2>1. a.parallel \in BOOLEAN /\ a.shape \in TileSizes(shape)
    BY <1>2 DEF TileOutActions
  <2>2. /\ DOMAIN a.shape = DOMAIN shape /\ \A d \in DOMAIN shape : a.shape[d] \in DimRange(shape[d], TRUE)
        /\ a.shape = [d \in DOMAIN shape |-> a.shape[d]]
    BY <2>1 DEF TileSizes
  <2>3. \A d \in DOMAIN shape : shape[d] \in Nat \ {0}
    OBVIOUS
  <2>4. \A d \in DOMAIN shape : a.shape[d] \in Nat \ {0}
    BY <2>2, <2>3, DimRangeIs
  <2>5. PICK r \in Nat : DOMAIN shape = 1..r
    OBVIOUS
  <2>6. a.shape \in [1..r -> Nat \ {0}]
    BY <2>2, <2>4, <2>5
  <2> QED
    BY <1>2, <2>1, <2>5, <2>6
<1> QED
  BY <1>1, <1>2
BodyOfLoop(s, tiles, parallel) == LoopOver(s, tiles, parallel).children[1].spec
TiledShape(s, tiles, i) == IF IsTiled(tiles, i) THEN TileFor(tiles, i).tiling.shape ELSE s.ops[i].shape

\* A tile of an operand has the tile's shape.
LEMMA TiledSized ==
    ASSUME NEW s, SizedOps(s.typ, s.ops), NEW tiles,
           \A i \in DOMAIN s.ops : TiledShape(s, tiles, i) \in Seq(Nat \ {0})
    PROVE  /\ SizedOps(s.typ, TiledOps(s, tiles)) /\ DOMAIN TiledOps(s, tiles) = DOMAIN s.ops
           /\ \A i \in DOMAIN s.ops : TiledOps(s, tiles)[i].shape = TiledShape(s, tiles, i)
<1>1. ASSUME NEW t, Sized(t), NEW tiling, tiling.shape \in Seq(Nat \ {0})
      PROVE  Sized(TileSpec(tiling, t)) /\ TileSpec(tiling, t).shape = tiling.shape
  BY <1>1 DEF TileSpec, Shrunk, WithLayout, Sized, OpFields
<1>2. \A i \in DOMAIN s.ops : /\ Sized(TiledOps(s, tiles)[i])
                              /\ TiledOps(s, tiles)[i].shape = TiledShape(s, tiles, i)
  BY <1>1 DEF TiledOps, TiledShape, SizedOps
<1> QED
  BY <1>2 DEF TiledOps, SizedOps

\* The body of a loop has the operands' tiles for operands.
LEMMA LoopBodySized ==
    ASSUME NEW s, SizedSpec(s), NEW tiles, NEW parallel \in BOOLEAN,
           \A i \in DOMAIN s.ops : TiledShape(s, tiles, i) \in Seq(Nat \ {0})
    PROVE  LET c == BodyOfLoop(s, tiles, parallel) IN
           /\ DOMAIN c = SpecFields /\ c.typ = s.typ /\ c.accum = s.accum /\ c.limits = s.limits
           /\ SizedOps(c.typ, c.ops) /\ DOMAIN c.ops = DOMAIN s.ops
           /\ \A i \in DOMAIN s.ops : c.ops[i].shape = TiledShape(s, tiles, i)
           /\ ShapesAgree(c) => SizedSpec(c)
<1> DEFINE c == BodyOfLoop(s, tiles, parallel)
           tiled == TiledOps(s, tiles)
<1>1. /\ DOMAIN c = SpecFields /\ c.typ = s.typ /\ c.accum = s.accum /\ c.limits = s.limits
      /\ c.ops = CanonicalOps(s.typ, tiled)
  BY DEF BodyOfLoop, LoopOver, Impl, Child, SizedSpec, SpecFields
<1>2. PICK n \in 1..3 : DOMAIN s.ops = 1..n
  BY OpsDomain DEF SizedSpec
<1>3. SizedOps(s.typ, tiled) /\ DOMAIN tiled = 1..n /\ \A i \in 1..n : tiled[i].shape = TiledShape(s, tiles, i)
  BY <1>2, TiledSized DEF SizedSpec
<1>4. \A i \in 1..n : Sized(tiled[i])
  BY <1>3 DEF SizedOps
<1> HIDE DEF tiled, c
<1>5. DOMAIN c.ops = 1..n /\ \A i \in 1..n : Alike(tiled[i], c.ops[i])
  BY <1>1, <1>3, <1>4, CanonicalOpsAlike
<1>6. SizedOps(c.typ, c.ops) /\ \A i \in 1..n : c.ops[i].shape = TiledShape(s, tiles, i)
  BY <1>1, <1>2, <1>3, <1>4, <1>5 DEF SizedOps, Alike, Sized
<1> QED
  BY <1>1, <1>2, <1>5, <1>6 DEF SizedSpec, c

\* A problem that is smaller in some dimension, and larger in none, is smaller.
LEMMA SmallerVolume ==
    ASSUME NEW r \in Nat, NEW f \in [1..r -> Nat \ {0}], NEW g \in [1..r -> Nat \ {0}],
           \A d \in 1..r : f[d] <= g[d], f # g
    PROVE  Volume(f) < Volume(g)
<1>1. \E d \in 1..r : f[d] < g[d]
  <2>1. PICK d \in 1..r : f[d] # g[d]
    OBVIOUS
  <2>2. f[d] \in Nat /\ g[d] \in Nat /\ f[d] <= g[d]
    BY <2>1
  <2> QED
    BY <2>1, <2>2
<1>2. IsFiniteSet(1..r)
  BY FS_Interval
<1> QED
  BY <1>1, <1>2, ProductGrows DEF Volume

TilesAsAsked(s, shape) ==
    /\ TiledShape(s, TileOutTiles(s, shape), OutputIdx(s)) = shape
    /\ \A i \in 1..InputCount[s.typ] :
          TiledShape(s, TileOutTiles(s, shape), i) = InputTilings(s, SimpleTiling(shape))[i].tiling.shape

\* Whatever a TileOut leaves whole has the shape its tiling would give it.
LEMMA TileOutTiledShape ==
    ASSUME NEW s, NEW shape, SizedOps(s.typ, s.ops), DOMAIN InputTilings(s, SimpleTiling(shape)) = 1..InputCount[s.typ]
    PROVE  TilesAsAsked(s, shape)
<1>1. TiledShape(s, TileOutTiles(s, shape), OutputIdx(s)) = shape
  BY TileOutTileFor DEF TiledShape, OutputTile, LoopTile, SimpleTiling
<1>2. ASSUME NEW i \in 1..InputCount[s.typ]
      PROVE  TiledShape(s, TileOutTiles(s, shape), i) = InputTilings(s, SimpleTiling(shape))[i].tiling.shape
  <2>1. CASE Cuts(s, shape, i)
    <3>1. IsTiled(TileOutTiles(s, shape), i) /\ TileFor(TileOutTiles(s, shape), i) = InputTile(s, shape, i)
      BY <2>1, TileOutTileFor
    <3>2. InputTile(s, shape, i).tiling = InputTilings(s, SimpleTiling(shape))[i].tiling
      BY DEF InputTile, LoopTile
    <3> QED
      BY <3>1, <3>2 DEF TiledShape
  <2>2. CASE ~Cuts(s, shape, i)
    BY <2>2, TileOutTileFor DEF TiledShape, Cuts
  <2> QED
    BY <2>1, <2>2
<1> QED
  BY <1>1, <1>2 DEF TilesAsAsked

\* The body of a Matmul's TileOut is the Matmul of the output tile.
LEMMA TileOutMatmul ==
    ASSUME NEW s, SizedSpec(s), s.typ \in {"Matmul"}, NEW m \in Nat \ {0}, NEW k \in Nat \ {0}, NEW n \in Nat \ {0},
           MatmulShapes(s.ops, m, k, n), NEW p \in Nat \ {0}, NEW q \in Nat \ {0}, NEW out, out = <<p, q>>,
           NEW parallel \in BOOLEAN
    PROVE  LET c == BodyOfLoop(s, TileOutTiles(s, out), parallel)
           IN  MatmulShapes(c.ops, p, k, q) /\ SizedSpec(c)
<1> DEFINE tiles == TileOutTiles(s, out)
           c == BodyOfLoop(s, tiles, parallel)
           tilings == InputTilings(s, SimpleTiling(out))
<1>1. InputCount[s.typ] = 2 /\ OutputIdx(s) = 3 /\ DOMAIN s.ops = 1..3 /\ SizedOps(s.typ, s.ops)
  BY OpsCount, AgreeMeans DEF SizedSpec
<1>2. SpecShape(s) = <<m, k, n>>
  BY DEF SpecShape, MatmulShapes
<1>3. DOMAIN tilings = 1..2 /\ tilings[1].tiling.shape = <<p, k>> /\ tilings[2].tiling.shape = <<k, q>>
  BY <1>2 DEF InputTilings, SimpleTiling, SlidingTiling
<1> HIDE DEF tilings
<1>4. /\ TiledShape(s, tiles, 1) = <<p, k>> /\ TiledShape(s, tiles, 2) = <<k, q>>
      /\ TiledShape(s, tiles, 3) = <<p, q>>
  <2>1. DOMAIN tilings = 1..InputCount[s.typ]
    BY <1>1, <1>3
  <2>2. /\ TiledShape(s, TileOutTiles(s, out), OutputIdx(s)) = out
        /\ \A i \in 1..InputCount[s.typ] :
              TiledShape(s, TileOutTiles(s, out), i) = InputTilings(s, SimpleTiling(out))[i].tiling.shape
    <3>1. SizedOps(s.typ, s.ops)
      BY <1>1
    <3>2. DOMAIN InputTilings(s, SimpleTiling(out)) = 1..InputCount[s.typ]
      BY <2>1 DEF tilings
    <3>3. TilesAsAsked(s, out)
      BY <3>1, <3>2, TileOutTiledShape
    <3> QED
      BY <3>3 DEF TilesAsAsked
  <2>3. 1 \in 1..InputCount[s.typ] /\ 2 \in 1..InputCount[s.typ]
    BY <1>1
  <2> QED
    BY <1>1, <1>3, <2>2, <2>3 DEF tilings
<1> HIDE DEF tiles
<1>5. \A i \in DOMAIN s.ops : TiledShape(s, tiles, i) \in Seq(Nat \ {0})
  <2>1. <<p, k>> \in Seq(Nat \ {0}) /\ <<k, q>> \in Seq(Nat \ {0}) /\ <<p, q>> \in Seq(Nat \ {0})
    OBVIOUS
  <2>2. \A i \in DOMAIN s.ops : i = 1 \/ i = 2 \/ i = 3
    BY <1>1
  <2> QED
    BY <1>4, <2>1, <2>2
<1>6. /\ c.typ = s.typ /\ SizedOps(c.typ, c.ops) /\ MatmulShapes(c.ops, p, k, q)
      /\ ShapesAgree(c) => SizedSpec(c)
  <2>1. /\ c.typ = s.typ /\ SizedOps(c.typ, c.ops)
        /\ \A i \in DOMAIN s.ops : c.ops[i].shape = TiledShape(s, tiles, i)
        /\ ShapesAgree(c) => SizedSpec(c)
    BY <1>5, LoopBodySized
  <2>2. /\ c.ops[1].shape = TiledShape(s, tiles, 1) /\ c.ops[2].shape = TiledShape(s, tiles, 2)
        /\ c.ops[3].shape = TiledShape(s, tiles, 3)
    BY <1>1, <2>1
  <2> QED
    BY <1>4, <2>1, <2>2 DEF MatmulShapes
<1>7. ShapesAgree(c)
  BY <1>6, AgreeMatmul
<1> QED
  BY <1>6, <1>7 DEF tiles

\* A Conv's is the Conv of the output tile, with the image's part that it reads.
LEMMA TileOutConv ==
    ASSUME NEW s, SizedSpec(s), s.typ \in {"Conv"}, NEW out \in Seq(Nat \ {0}), Len(out) = 4, NEW parallel \in BOOLEAN
    PROVE  LET c == BodyOfLoop(s, TileOutTiles(s, out), parallel)
               S == SpecShape(s)
           IN  /\ SpecShape(c) = <<out[1], out[2], S[3], out[3] + S[6] - 1, out[4] + S[7] - 1, S[6], S[7]>>
               /\ SizedSpec(c)
<1> DEFINE tiles == TileOutTiles(s, out)
           c == BodyOfLoop(s, tiles, parallel)
           tilings == InputTilings(s, SimpleTiling(out))
<1>1. InputCount[s.typ] = 2 /\ OutputIdx(s) = 3 /\ DOMAIN s.ops = 1..3 /\ SizedOps(s.typ, s.ops)
  BY OpsCount, AgreeMeans DEF SizedSpec
<1>s. s.typ = "Conv"
  OBVIOUS
<1>h. PICK b \in Nat \ {0}, f \in Nat \ {0}, e \in Nat \ {0}, h \in Nat \ {0}, w \in Nat \ {0},
           y \in Nat \ {0}, x \in Nat \ {0} : ConvShapes(s.ops, b, f, e, h, w, y, x)
  BY <1>1, <1>s, AgreeConv DEF SizedSpec
<1>2. SpecShape(s) = <<b, f, e, h, w, y, x>>
  BY <1>h, <1>s DEF SpecShape, ConvShapes
<1>3. DOMAIN tilings = 1..2 /\ tilings[1].tiling.shape = <<out[1], e, out[3] + y - 1, out[4] + x - 1>>
      /\ tilings[2].tiling.shape = <<out[2], e, y, x>>
  BY <1>2, <1>s DEF InputTilings, SimpleTiling, SlidingTiling
<1>p. PICK p \in Nat \ {0}, q \in Nat \ {0}, u \in Nat \ {0}, v \in Nat \ {0} :
          out[1] = p /\ out[2] = q /\ out[3] = u /\ out[4] = v
  <2>0. \A d \in 1..Len(out) : out[d] \in Nat \ {0}
    BY ElementOfSeq
  <2>1. \A d \in 1..4 : out[d] \in Nat \ {0}
    BY <2>0
  <2> HIDE DEF tilings, tiles, c
  <2> QED
    BY <2>1
<1>0. out = <<p, q, u, v>>
  BY <1>p
<1>a. u + y - 1 \in Nat \ {0} /\ v + x - 1 \in Nat \ {0} /\ 1 + (u + y - 1) - y = u /\ 1 + (v + x - 1) - x = v
  OBVIOUS
<1> HIDE DEF tilings
<1>4. /\ TiledShape(s, tiles, 1) = <<p, e, u + y - 1, v + x - 1>> /\ TiledShape(s, tiles, 2) = <<q, e, y, x>>
      /\ TiledShape(s, tiles, 3) = <<p, q, u, v>>
  <2>1. DOMAIN tilings = 1..InputCount[s.typ]
    BY <1>1, <1>3
  <2>2. /\ TiledShape(s, TileOutTiles(s, out), OutputIdx(s)) = out
        /\ \A i \in 1..InputCount[s.typ] :
              TiledShape(s, TileOutTiles(s, out), i) = InputTilings(s, SimpleTiling(out))[i].tiling.shape
    <3>1. SizedOps(s.typ, s.ops)
      BY <1>1
    <3>2. DOMAIN InputTilings(s, SimpleTiling(out)) = 1..InputCount[s.typ]
      BY <2>1 DEF tilings
    <3>3. TilesAsAsked(s, out)
      BY <3>1, <3>2, TileOutTiledShape
    <3> QED
      BY <3>3 DEF TilesAsAsked
  <2>3. 1 \in 1..InputCount[s.typ] /\ 2 \in 1..InputCount[s.typ]
    BY <1>1
  <2> QED
    BY <1>0, <1>p, <1>1, <1>3, <2>2, <2>3 DEF tilings
<1> HIDE DEF tiles
<1>5. \A i \in DOMAIN s.ops : TiledShape(s, tiles, i) \in Seq(Nat \ {0})
  <2>1. /\ <<p, e, u + y - 1, v + x - 1>> \in Seq(Nat \ {0})
        /\ <<q, e, y, x>> \in Seq(Nat \ {0}) /\ <<p, q, u, v>> \in Seq(Nat \ {0})
    BY <1>a
  <2>2. \A i \in DOMAIN s.ops : i = 1 \/ i = 2 \/ i = 3
    BY <1>1
  <2> QED
    BY <1>4, <2>1, <2>2
<1>6. /\ c.typ = s.typ /\ SizedOps(c.typ, c.ops) /\ ConvShapes(c.ops, p, q, e, u + y - 1, v + x - 1, y, x)
      /\ ShapesAgree(c) => SizedSpec(c)
  <2>1. /\ c.typ = s.typ /\ SizedOps(c.typ, c.ops)
        /\ \A i \in DOMAIN s.ops : c.ops[i].shape = TiledShape(s, tiles, i)
        /\ ShapesAgree(c) => SizedSpec(c)
    BY <1>5, LoopBodySized
  <2>2. /\ c.ops[1].shape = TiledShape(s, tiles, 1) /\ c.ops[2].shape = TiledShape(s, tiles, 2)
        /\ c.ops[3].shape = TiledShape(s, tiles, 3)
    BY <1>1, <2>1
  <2> QED
    BY <1>4, <1>a, <2>1, <2>2 DEF ConvShapes
<1>7. ShapesAgree(c)
  BY <1>6, <1>a, AgreeConv
<1>8. SpecShape(c) = <<p, q, e, u + y - 1, v + x - 1, y, x>>
  BY <1>6, <1>s DEF SpecShape, ConvShapes
<1>9. SpecShape(c) = <<out[1], out[2], SpecShape(s)[3], out[3] + SpecShape(s)[6] - 1,
                       out[4] + SpecShape(s)[7] - 1, SpecShape(s)[6], SpecShape(s)[7]>>
  BY <1>2, <1>8, <1>p
<1> QED
  BY <1>6, <1>7, <1>9 DEF tiles

\* A Move's or a Zero's is that of the tile.
LEMMA TileOutElementwise ==
    ASSUME NEW s, SizedSpec(s), s.typ \in {"Zero", "Move"}, NEW shape \in Seq(Nat \ {0}), NEW parallel \in BOOLEAN
    PROVE  LET c == BodyOfLoop(s, TileOutTiles(s, shape), parallel)
           IN  c.ops[1].shape = shape /\ SizedSpec(c)
<1> DEFINE tiles == TileOutTiles(s, shape)
           c == BodyOfLoop(s, tiles, parallel)
           tilings == InputTilings(s, SimpleTiling(shape))
<1>1. SizedOps(s.typ, s.ops) /\ OutputIdx(s) = InputCount[s.typ] + 1
      /\ DOMAIN s.ops = 1..InputCount[s.typ] + 1 /\ InputCount[s.typ] \in 0..1
  <2>1. InputCount[s.typ] = 0 \/ InputCount[s.typ] = 1
    BY OpsCount DEF SizedSpec
  <2> QED
    BY <2>1, OpsCount DEF SizedSpec, SizedOps
<1>2. DOMAIN tilings = 1..InputCount[s.typ] /\ \A i \in DOMAIN tilings : tilings[i].tiling.shape = shape
  <2>1. CASE s.typ = "Zero"
    <3>1. tilings = <<>>
      BY <2>1 DEF InputTilings
    <3>2. InputCount[s.typ] = 0
      BY <2>1, OpsCount DEF SizedSpec
    <3> QED
      BY <3>1, <3>2
  <2>2. CASE s.typ = "Move"
    <3>1. DOMAIN tilings = 1..1 /\ tilings[1].tiling.shape = shape
      BY <2>2 DEF InputTilings, SimpleTiling, SlidingTiling
    <3>2. InputCount[s.typ] = 1
      BY <2>2, OpsCount DEF SizedSpec
    <3> QED
      BY <3>1, <3>2
  <2> QED
    BY <2>1, <2>2
<1> HIDE DEF tilings
<1>3. \A i \in DOMAIN s.ops : TiledShape(s, tiles, i) = shape
  <2>1. TilesAsAsked(s, shape)
    BY <1>1, <1>2, TileOutTiledShape DEF tilings
  <2> QED
    BY <1>1, <1>2, <2>1 DEF tilings, TilesAsAsked
<1> HIDE DEF tiles
<1>4. /\ c.typ = s.typ /\ SizedOps(c.typ, c.ops) /\ DOMAIN c.ops = DOMAIN s.ops
      /\ \A i \in DOMAIN c.ops : c.ops[i].shape = shape
      /\ ShapesAgree(c) => SizedSpec(c)
  BY <1>1, <1>3, LoopBodySized
<1>5. 1 \in DOMAIN c.ops
  BY <1>1, <1>4
<1>6. ShapesAgree(c)
  BY <1>4, <1>5, AgreeElementwise
<1> QED
  BY <1>4, <1>5, <1>6 DEF tiles

\* A loop's body differs from the Spec in its operands and in being serial.
LEMMA LoopKeeps ==
    ASSUME NEW s, SizedSpec(s), NEW tiles, NEW parallel
    PROVE  LET c == BodyOfLoop(s, tiles, parallel)
           IN  c.typ = s.typ /\ c.accum = s.accum /\ c.limits = s.limits
BY DEF BodyOfLoop, LoopOver, Impl, Child, SizedSpec, SpecFields

\* The body of a TileOut is of a smaller problem: the tile is not the whole
\* output (TileShapeMatchesOriginal) and not larger in any dimension.
LEMMA TileOutBody ==
    ASSUME NEW s, SizedSpec(s), NEW a \in TileOutActions(s), TileOutApplies(s, a.shape, a.parallel)
    PROVE  LET c == BodyOfLoop(s, TileOutTiles(s, a.shape), a.parallel)
           IN  SizedSpec(c) /\ Volume(SpecShape(c)) < Volume(SpecShape(s))
<1> DEFINE out == Output(s).shape
           tile == a.shape
           c == BodyOfLoop(s, TileOutTiles(s, a.shape), a.parallel)
<1>0. SizedOps(s.typ, s.ops) /\ ShapesAgree(s) /\ s.typ \in {"Zero", "Move", "Matmul", "Conv"}
  BY DEF SizedSpec, SizedOps, InputCount
<1>1. out \in Seq(Nat \ {0})
  BY <1>0, OpsCount DEF SizedOps, Sized, Output
<1>2. /\ tile \in Seq(Nat \ {0}) /\ DOMAIN tile = DOMAIN out /\ Len(tile) = Len(out)
      /\ a.parallel \in BOOLEAN /\ tile # out /\ \A d \in DOMAIN tile : tile[d] <= out[d]
  BY <1>1, TileOutActionsAre DEF TileOutApplies
<1>3. c.typ = s.typ
  BY LoopKeeps
<1>4. CASE s.typ = "Matmul"
  <2>1. PICK m \in Nat \ {0}, k \in Nat \ {0}, n \in Nat \ {0} : MatmulShapes(s.ops, m, k, n)
    BY <1>0, <1>4, AgreeMatmul
  <2>2. out = <<m, n>>
    BY <1>0, <1>4, <2>1, OpsCount DEF MatmulShapes, Output
  <2>3. PICK p \in Nat \ {0}, q \in Nat \ {0} : tile = <<p, q>>
    BY <1>2, <2>2
  <2>4. p <= m /\ q <= n /\ (p # m \/ q # n)
    BY <1>2, <2>2, <2>3
  <2>5. MatmulShapes(c.ops, p, k, q) /\ SizedSpec(c)
    <3>1. s.typ \in {"Matmul"} /\ a.parallel \in BOOLEAN
      BY <1>2, <1>4
    <3> QED
      BY <2>1, <2>3, <3>1, TileOutMatmul
  <2>6. SpecShape(c) = <<p, k, q>> /\ SpecShape(s) = <<m, k, n>>
    BY <1>3, <1>4, <2>1, <2>5 DEF SpecShape, MatmulShapes
  <2>7. Volume(<<p, k, q>>) < Volume(<<m, k, n>>)
    <3>1. <<p, k, q>> \in [1..3 -> Nat \ {0}] /\ <<m, k, n>> \in [1..3 -> Nat \ {0}]
      OBVIOUS
    <3>2. \A d \in 1..3 : <<p, k, q>>[d] <= <<m, k, n>>[d]
      BY <2>4
    <3>3. <<p, k, q>> # <<m, k, n>>
      BY <2>4
    <3> QED
      BY <3>1, <3>2, <3>3, SmallerVolume
  <2> QED
    BY <2>5, <2>6, <2>7
<1>5. CASE s.typ = "Conv"
  <2>1. PICK b \in Nat \ {0}, f \in Nat \ {0}, e \in Nat \ {0}, h \in Nat \ {0}, w \in Nat \ {0},
             y \in Nat \ {0}, x \in Nat \ {0} : ConvShapes(s.ops, b, f, e, h, w, y, x)
    BY <1>0, <1>5, AgreeConv
  <2>2. out = <<b, f, 1 + h - y, 1 + w - x>>
    <3>1. OutputIdx(s) = 3
      BY <1>0, <1>5, OpsCount
    <3> QED
      BY <2>1, <3>1 DEF ConvShapes, Output
  <2>3. PICK p \in Nat \ {0}, q \in Nat \ {0}, u \in Nat \ {0}, v \in Nat \ {0} : tile = <<p, q, u, v>>
    <3>1. Len(tile) = 4
      BY <1>2, <2>2
    <3>2. tile = <<tile[1], tile[2], tile[3], tile[4]>> /\ \A d \in 1..4 : tile[d] \in Nat \ {0}
      BY <1>2, <3>1
    <3> HIDE DEF tile
    <3> QED
      BY <3>2
  <2>4. /\ p <= b /\ q <= f /\ u <= 1 + h - y /\ v <= 1 + w - x
        /\ p # b \/ q # f \/ u # 1 + h - y \/ v # 1 + w - x
    BY <1>2, <2>2, <2>3
  <2>5. /\ SpecShape(c) = <<tile[1], tile[2], SpecShape(s)[3], tile[3] + SpecShape(s)[6] - 1,
                            tile[4] + SpecShape(s)[7] - 1, SpecShape(s)[6], SpecShape(s)[7]>>
        /\ SizedSpec(c)
    <3>1. s.typ \in {"Conv"} /\ a.parallel \in BOOLEAN /\ tile \in Seq(Nat \ {0})
      BY <1>2, <1>5
    <3>2. Len(tile) = 4
      BY <2>3
    <3> QED
      BY <3>1, <3>2, TileOutConv
  <2>6. /\ SpecShape(c) = <<p, q, e, u + y - 1, v + x - 1, y, x>>
        /\ SpecShape(s) = <<b, f, e, h, w, y, x>>
    <3>1. SpecShape(s) = <<b, f, e, h, w, y, x>>
      BY <1>5, <2>1 DEF SpecShape, ConvShapes
    <3>2. tile[1] = p /\ tile[2] = q /\ tile[3] = u /\ tile[4] = v
      BY <2>3
    <3> QED
      BY <2>5, <3>1, <3>2
  <2>7. PICK h1 \in Nat \ {0}, w1 \in Nat \ {0} : h1 = u + y - 1 /\ w1 = v + x - 1
    OBVIOUS
  <2>8. h1 <= h /\ w1 <= w /\ (p # b \/ q # f \/ h1 # h \/ w1 # w)
    BY <2>4, <2>7
  <2>9. Volume(<<p, q, e, h1, w1, y, x>>) < Volume(<<b, f, e, h, w, y, x>>)
    <3>1. <<p, q, e, h1, w1, y, x>> \in [1..7 -> Nat \ {0}] /\ <<b, f, e, h, w, y, x>> \in [1..7 -> Nat \ {0}]
      OBVIOUS
    <3>2. \A d \in 1..7 : <<p, q, e, h1, w1, y, x>>[d] <= <<b, f, e, h, w, y, x>>[d]
      BY <2>4, <2>8
    <3>3. <<p, q, e, h1, w1, y, x>> # <<b, f, e, h, w, y, x>>
      BY <2>8
    <3> QED
      BY <3>1, <3>2, <3>3, SmallerVolume
  <2> QED
    BY <2>5, <2>6, <2>7, <2>9
<1>6. CASE s.typ \in {"Zero", "Move"}
  <2>1. c.ops[1].shape = tile /\ SizedSpec(c)
    BY <1>2, <1>6, TileOutElementwise
  <2>2. s.ops[1].shape = out
    <3>1. OutputIdx(s) \in DOMAIN s.ops /\ 1 \in DOMAIN s.ops
      BY <1>0, OpsCount, OpsDomain
    <3> QED
      BY <1>0, <1>6, <3>1, AgreeElementwise DEF Output
  <2>3. SpecShape(c) = tile /\ SpecShape(s) = out
    BY <1>3, <1>6, <2>1, <2>2 DEF SpecShape
  <2>4. PICK r \in Nat : DOMAIN out = 1..r /\ out \in [1..r -> Nat \ {0}] /\ tile \in [1..r -> Nat \ {0}]
    <3>1. PICK r \in Nat : DOMAIN out = 1..r /\ out \in [1..r -> Nat \ {0}]
      BY <1>1
    <3>2. tile \in [1..r -> Nat \ {0}]
      BY <1>2, <3>1, SMTT(60)
    <3> QED
      BY <3>1, <3>2
  <2> QED
    BY <1>2, <2>1, <2>3, <2>4, SmallerVolume
<1> QED
  BY <1>0, <1>4, <1>5, <1>6
\* The tiles of a Split and of a SpatialSplit.
LEMMA TwoTiles ==
    ASSUME NEW tiles, DOMAIN tiles = 1..2, tiles[1].operand = 1, tiles[2].operand = 2
    PROVE  /\ \A i : IsTiled(tiles, i) <=> i \in 1..2
           /\ TileFor(tiles, 1) = tiles[1] /\ TileFor(tiles, 2) = tiles[2]
<1>1. \A n \in DOMAIN tiles : n = 1 \/ n = 2
  OBVIOUS
<1>2. Range(tiles) = {tiles[1], tiles[2]}
  BY <1>1 DEF Range
<1>3. \A i : IsTiled(tiles, i) <=> i \in 1..2
  BY <1>1 DEF IsTiled
<1> QED
  BY <1>2, <1>3, TheTileFor

\* The body of a Split is of a smaller problem: dim_range leaves the whole k out.
LEMMA SplitBody ==
    ASSUME NEW s, SizedSpec(s), s.typ \in {"Matmul"}, NEW a \in SplitActions(s)
    PROVE  LET c == BodyOfLoop(s, SplitTiles(s, a.k), FALSE)
           IN  SizedSpec(c) /\ Volume(SpecShape(c)) < Volume(SpecShape(s))
<1> DEFINE tiles == SplitTiles(s, a.k)
           c == BodyOfLoop(s, tiles, FALSE)
<1>0. SizedOps(s.typ, s.ops) /\ ShapesAgree(s) /\ s.typ = "Matmul"
  BY DEF SizedSpec
<1>1. PICK m \in Nat \ {0}, k \in Nat \ {0}, n \in Nat \ {0} : MatmulShapes(s.ops, m, k, n)
  BY <1>0, AgreeMatmul
<1>2. PICK j \in Nat \ {0} : j = a.k /\ j < k
  <2>1. a.k \in DimRange(s.ops[1].shape[2], FALSE)
    <3>1. PICK j \in DimRange(s.ops[1].shape[2], FALSE) : a = [kind |-> "Split", k |-> j]
      BY DEF SplitActions
    <3> QED
      BY <3>1
  <2>2. s.ops[1].shape[2] = k
    BY <1>1 DEF MatmulShapes
  <2> QED
    BY <2>1, <2>2, DimRangeIs
<1>3. DOMAIN s.ops = 1..3
  BY <1>0, AgreeMeans
<1>4. /\ DOMAIN tiles = 1..2 /\ tiles[1].operand = 1 /\ tiles[2].operand = 2
      /\ tiles[1].tiling.shape = <<m, j>> /\ tiles[2].tiling.shape = <<j, n>>
  BY <1>1, <1>2 DEF SplitTiles, LoopTile, SimpleTiling, MatmulShapes
<1> HIDE DEF tiles
<1>5. /\ TiledShape(s, tiles, 1) = <<m, j>> /\ TiledShape(s, tiles, 2) = <<j, n>>
      /\ TiledShape(s, tiles, 3) = <<m, n>>
  BY <1>1, <1>4, TwoTiles DEF TiledShape, MatmulShapes
<1>6. \A i \in DOMAIN s.ops : TiledShape(s, tiles, i) \in Seq(Nat \ {0})
  <2>1. <<m, j>> \in Seq(Nat \ {0}) /\ <<j, n>> \in Seq(Nat \ {0}) /\ <<m, n>> \in Seq(Nat \ {0})
    OBVIOUS
  <2>2. \A i \in DOMAIN s.ops : i = 1 \/ i = 2 \/ i = 3
    BY <1>3
  <2> QED
    BY <1>5, <2>1, <2>2
<1>7. /\ c.typ = s.typ /\ SizedOps(c.typ, c.ops)
      /\ ShapesAgree(c) => SizedSpec(c)
      /\ \A i \in DOMAIN s.ops : c.ops[i].shape = TiledShape(s, tiles, i)
  BY <1>6, LoopBodySized
<1> HIDE DEF c
<1>8. MatmulShapes(c.ops, m, j, n)
  <2>1. /\ c.ops[1].shape = TiledShape(s, tiles, 1) /\ c.ops[2].shape = TiledShape(s, tiles, 2)
        /\ c.ops[3].shape = TiledShape(s, tiles, 3)
    BY <1>3, <1>7
  <2> QED
    BY <1>5, <2>1 DEF MatmulShapes
<1>9. SizedSpec(c)
  BY <1>0, <1>7, <1>8, AgreeMatmul
<1>10. SpecShape(c) = <<m, j, n>> /\ SpecShape(s) = <<m, k, n>>
  BY <1>0, <1>1, <1>7, <1>8 DEF SpecShape, MatmulShapes
<1>11. Volume(<<m, j, n>>) < Volume(<<m, k, n>>)
  <2>1. <<m, j, n>> \in [1..3 -> Nat \ {0}] /\ <<m, k, n>> \in [1..3 -> Nat \ {0}]
    OBVIOUS
  <2>2. \A d \in 1..3 : <<m, j, n>>[d] <= <<m, k, n>>[d]
    BY <1>2
  <2>3. <<m, j, n>> # <<m, k, n>>
    BY <1>2
  <2> QED
    BY <2>1, <2>2, <2>3, SmallerVolume
<1> QED
  BY <1>9, <1>10, <1>11 DEF tiles, c

\* The body of a SpatialSplit is the Matmul of a pixel's channels.
LEMMA SpatialBodySized ==
    ASSUME NEW s, SizedSpec(s), s.typ \in {"Conv"}
    PROVE  LET c == SpatialSplit(s).children[1].spec
           IN  /\ SizedSpec(c) /\ c.typ = "Matmul" /\ c.accum = s.accum /\ c.limits = s.limits
               /\ MatmulShapes(c.ops, s.ops[1].shape[1], s.ops[1].shape[2], s.ops[2].shape[1])
<1> DEFINE tiles == SpatialTiles(s)
           tiled == TiledOps(s, tiles)
           c == SpatialBody(s, tiled)
<1>0. SizedOps(s.typ, s.ops) /\ ShapesAgree(s) /\ s.typ = "Conv"
  BY DEF SizedSpec
<1>1. PICK b \in Nat \ {0}, f \in Nat \ {0}, e \in Nat \ {0}, h \in Nat \ {0}, w \in Nat \ {0},
           y \in Nat \ {0}, x \in Nat \ {0} : ConvShapes(s.ops, b, f, e, h, w, y, x)
  BY <1>0, AgreeConv
<1>3. DOMAIN s.ops = 1..3 /\ \A i \in 1..3 : Sized(s.ops[i])
  BY <1>0, AgreeMeans DEF SizedOps
<1>a. PICK u \in Nat \ {0}, v \in Nat \ {0} : s.ops[3].shape = <<b, f, u, v>>
  <2>1. s.ops[3].shape \in Seq(Nat \ {0})
    BY <1>3 DEF Sized
  <2>2. s.ops[3].shape = <<b, f, 1 + h - y, 1 + w - x>>
    BY <1>1 DEF ConvShapes
  <2>3. s.ops[3].shape[3] \in Nat \ {0} /\ s.ops[3].shape[4] \in Nat \ {0}
    BY <2>1, <2>2
  <2> QED
    BY <2>2, <2>3
<1>4. /\ DOMAIN tiles = 1..2 /\ tiles[1].operand = 1 /\ tiles[2].operand = 2
      /\ tiles[1].tiling.shape = <<b, e, 1, 1>> /\ tiles[2].tiling.shape = <<f, e, 1, 1>>
  <2>1. s.ops[1].shape = <<b, e, h, w>> /\ s.ops[2].shape = <<f, e, y, x>>
    BY <1>1 DEF ConvShapes
  <2>2. DOMAIN tiles = 1..2 /\ tiles[1].operand = 1 /\ tiles[2].operand = 2
    BY DEF SpatialTiles, LoopTile
  <2>3. tiles[1].tiling.shape = <<b, e, 1, 1>>
    BY <2>1 DEF SpatialTiles, LoopTile, SimpleTiling
  <2>4. tiles[2].tiling.shape = <<f, e, 1, 1>>
    BY <2>1 DEF SpatialTiles, LoopTile, SimpleTiling
  <2> QED
    BY <2>2, <2>3, <2>4
<1> HIDE DEF tiles
<1>5. /\ TiledShape(s, tiles, 1) = <<b, e, 1, 1>> /\ TiledShape(s, tiles, 2) = <<f, e, 1, 1>>
      /\ TiledShape(s, tiles, 3) = <<b, f, u, v>>
  BY <1>a, <1>4, TwoTiles DEF TiledShape
<1>6. \A i \in DOMAIN s.ops : TiledShape(s, tiles, i) \in Seq(Nat \ {0})
  <2>1. <<b, e, 1, 1>> \in Seq(Nat \ {0}) /\ <<f, e, 1, 1>> \in Seq(Nat \ {0}) /\ <<b, f, u, v>> \in Seq(Nat \ {0})
    OBVIOUS
  <2>2. \A i \in DOMAIN s.ops : i = 1 \/ i = 2 \/ i = 3
    BY <1>3
  <2> QED
    BY <1>5, <2>1, <2>2
<1>7. /\ SizedOps(s.typ, tiled) /\ DOMAIN tiled = DOMAIN s.ops
      /\ \A i \in DOMAIN s.ops : tiled[i].shape = TiledShape(s, tiles, i)
  BY <1>0, <1>6, TiledSized
<1>b. ASSUME NEW t, Sized(t), NEW shape \in Seq(Nat \ {0}), NEW layout, NEW contig, NEW aligned
      PROVE  LET n == NewCanon(shape, t.dtype, t.level, layout, contig, aligned, t.vector)
             IN  Sized(n) /\ n.shape = shape
  BY <1>b, NewCanonSized DEF Sized
<1>8. ASSUME NEW t, Sized(t), NEW p \in Nat \ {0}, NEW q \in Nat \ {0}, NEW g, NEW k, t.shape = <<p, q, g, k>>
      PROVE  Sized(Squeezed(t)) /\ Squeezed(t).shape = <<p, q>>
  <2>1. PICK shape : shape = SubSeq(t.shape, 1, 2)
    OBVIOUS
  <2>2. shape \in Seq(Nat \ {0}) /\ Len(shape) = 2 /\ shape[1] = p /\ shape[2] = q
    <3>1. t.shape \in Seq(Nat \ {0}) /\ Len(t.shape) = 4
      BY <1>8 DEF Sized
    <3> QED
      BY <1>8, <2>1, <3>1, SubSeqProperties
  <2>3. shape = <<p, q>>
    BY <2>2
  <2>4. Sized(Squeezed(t)) /\ Squeezed(t).shape = shape
    <3>1. PICK dropped : Squeezed(t) = NewCanon(shape, t.dtype, t.level, dropped.layout, dropped.contig, t.aligned, t.vector)
      BY <2>1 DEF Squeezed
    <3>2. shape \in Seq(Nat \ {0})
      BY <2>2
    <3>3. Sized(t)
      BY <1>8
    <3> QED
      BY <1>b, <3>1, <3>2, <3>3
  <2> QED
    BY <2>3, <2>4
<1>9. ASSUME NEW t, Sized(t), NEW p \in Nat \ {0}, NEW q \in Nat \ {0}, t.shape = <<p, q>>
      PROVE  Sized(Transposed(t)) /\ Transposed(t).shape = <<q, p>>
  <2>1. PICK shape : shape = <<t.shape[2], t.shape[1]>>
    OBVIOUS
  <2>2. shape = <<q, p>> /\ shape \in Seq(Nat \ {0})
    BY <1>9, <2>1
  <2>3. Sized(Transposed(t)) /\ Transposed(t).shape = shape
    <3>1. Transposed(t) = NewCanon(shape, t.dtype, t.level, SwapDims(t.layout), t.contig, t.aligned, t.vector)
      BY <2>1 DEF Transposed
    <3>2. shape \in Seq(Nat \ {0})
      BY <2>2
    <3>3. Sized(t)
      BY <1>9
    <3> QED
      BY <1>b, <3>1, <3>2, <3>3
  <2> QED
    BY <2>2, <2>3
<1>10. /\ Sized(tiled[1]) /\ tiled[1].shape = <<b, e, 1, 1>> /\ Sized(tiled[2]) /\ tiled[2].shape = <<f, e, 1, 1>>
       /\ Sized(tiled[3]) /\ tiled[3].shape = <<b, f, u, v>>
  <2>1. \A i \in 1..3 : Sized(tiled[i]) /\ tiled[i].shape = TiledShape(s, tiles, i)
    BY <1>3, <1>7 DEF SizedOps
  <2> QED
    BY <1>5, <2>1
<1> HIDE DEF tiled
<1>11. /\ Sized(Squeezed(tiled[1])) /\ Squeezed(tiled[1]).shape = <<b, e>>
       /\ Sized(Transposed(Squeezed(tiled[2]))) /\ Transposed(Squeezed(tiled[2])).shape = <<e, f>>
       /\ Sized(Squeezed(tiled[3])) /\ Squeezed(tiled[3]).shape = <<b, f>>
  BY <1>8, <1>9, <1>10
<1>12. /\ DOMAIN c = SpecFields /\ c.typ = "Matmul" /\ c.accum = s.accum /\ c.limits = s.limits
       /\ c.ops = <<Squeezed(tiled[1]), Transposed(Squeezed(tiled[2])), Squeezed(tiled[3])>>
  BY DEF SpatialBody, SizedSpec, SpecFields
<1>13. MatmulShapes(c.ops, b, e, f) /\ DOMAIN c.ops = 1..3 /\ Sized(c.ops[1]) /\ Sized(c.ops[2]) /\ Sized(c.ops[3])
  BY <1>11, <1>12 DEF MatmulShapes
<1> HIDE DEF c
<1>14. SizedOps(c.typ, c.ops)
  <2>1. \A i \in 1..3 : i = 1 \/ i = 2 \/ i = 3
    OBVIOUS
  <2>2. InputCount["Matmul"] + 1 = 3 /\ "Matmul" \in DOMAIN InputCount
    BY DEF InputCount
  <2> QED
    BY <1>12, <1>13, <2>1, <2>2 DEF SizedOps
<1>15. ShapesAgree(c)
  BY <1>12, <1>13, <1>14, AgreeMatmul
<1>16. SizedSpec(c)
  BY <1>12, <1>14, <1>15 DEF SizedSpec
<1>17. SpatialSplit(s).children[1].spec = c
  BY DEF SpatialSplit, Impl, Child, c, tiled, tiles
<1>18. MatmulShapes(c.ops, s.ops[1].shape[1], s.ops[1].shape[2], s.ops[2].shape[1])
  BY <1>1, <1>13 DEF ConvShapes
<1> QED
  BY <1>12, <1>16, <1>17, <1>18

\* The two parts of a ToAccum.
LEMMA ToAccumParts ==
    ASSUME NEW s, SizedSpec(s), Accumulates(s.typ), NEW c \in Range(ToAccum(s).children)
    PROVE  /\ SizedSpec(c.spec) /\ \A l \in 1..4 : c.spec.limits[l] <= s.limits[l]
           /\ DOMAIN c.from = DOMAIN c.spec.ops /\ \A i \in DOMAIN c.from : c.from[i] \in DOMAIN s.ops
           /\ \/ c.part = "zero" /\ c.spec.typ = "Zero" /\ c.from = <<OutputIdx(s)>>
              \/ /\ c.part = "accum" /\ c.spec.typ = s.typ /\ c.spec.accum
                 /\ SpecShape(c.spec) = SpecShape(s) /\ \A i \in DOMAIN c.from : c.from[i] = i
<1> DEFINE z == ZeroOutput(s)
           a == AsAccum(s)
<1>0. SizedOps(s.typ, s.ops)
  BY DEF SizedSpec
<1>1. \/ c = Child("zero", CanonicalSpec(z), <<OutputIdx(s)>>)
      \/ c = Child("accum", CanonicalSpec(a), Own(s))
  <2>1. \A n \in 1..2 : n = 1 \/ n = 2
    OBVIOUS
  <2> QED
    BY <2>1 DEF ToAccum, Impl, Range
<1>2. SizedSpec(z) /\ z.typ = "Zero" /\ z.limits = s.limits
  <2>1. /\ DOMAIN z = SpecFields /\ z.typ = "Zero" /\ z.accum = FALSE /\ z.ops = <<Output(s)>>
        /\ z.limits = s.limits
    BY DEF ZeroOutput, SizedSpec, SpecFields
  <2>2. Sized(Output(s))
    BY <1>0, OpsCount DEF SizedOps, Output
  <2>3. SizedOps(z.typ, z.ops)
    <3>1. InputCount["Zero"] + 1 = 1 /\ "Zero" \in DOMAIN InputCount
      BY DEF InputCount
    <3> QED
      BY <2>1, <2>2, <3>1 DEF SizedOps
  <2>4. ShapesAgree(z)
    <3>1. DOMAIN z.ops = 1..1
      BY <2>1
    <3> HIDE DEF z
    <3> QED
      BY <2>1, <2>3, <3>1, AgreeElementwise
  <2> HIDE DEF z
  <2> QED
    BY <2>1, <2>3, <2>4 DEF SizedSpec
<1>3. SizedSpec(a) /\ a.typ = s.typ /\ a.accum = TRUE /\ a.limits = s.limits /\ SpecShape(a) = SpecShape(s) /\ a.ops = s.ops
  <2>1. DOMAIN a = SpecFields /\ a.typ = s.typ /\ a.accum = TRUE /\ a.ops = s.ops /\ a.limits = s.limits
    BY DEF AsAccum, SizedSpec, SpecFields
  <2>2. SpecShape(a) = SpecShape(s) /\ (ShapesAgree(s) => ShapesAgree(a))
    <3> HIDE DEF a
    <3>1. SpecShape(a) = SpecShape(s)
      BY <2>1 DEF SpecShape
    <3>2. ShapesAgree(s) => ShapesAgree(a)
      BY <2>1, <3>1 DEF ShapesAgree
    <3> QED
      BY <3>1, <3>2
  <2> QED
    BY <2>1, <2>2 DEF SizedSpec
<1> HIDE DEF z, a
<1>4. CASE c = Child("zero", CanonicalSpec(z), <<OutputIdx(s)>>)
  <2>1. /\ SizedSpec(c.spec) /\ c.spec.typ = "Zero" /\ \A l \in 1..4 : c.spec.limits[l] <= s.limits[l]
        /\ c.part = "zero" /\ c.from = <<OutputIdx(s)>>
    BY <1>2, <1>4, CanonicalSpecSized DEF Child
  <2>2. DOMAIN c.spec.ops = 1..1
    BY <2>1, AgreeMeans DEF SizedSpec
  <2>3. OutputIdx(s) \in DOMAIN s.ops
    BY <1>0, OpsCount
  <2> QED
    BY <2>1, <2>2, <2>3
<1>5. CASE c = Child("accum", CanonicalSpec(a), Own(s))
  <2>1. /\ SizedSpec(c.spec) /\ c.spec.typ = s.typ /\ \A l \in 1..4 : c.spec.limits[l] <= s.limits[l]
        /\ c.spec.accum = TRUE /\ c.part = "accum" /\ c.from = Own(s) /\ SpecShape(c.spec) = SpecShape(s)
        /\ SameShapes(a, c.spec)
    BY <1>3, <1>5, CanonicalSpecSized DEF Child
  <2> QED
    BY <1>3, <2>1 DEF SameShapes, Own
<1> QED
  BY <1>1, <1>4, <1>5
-----------------------------------------------------------------------------
(* Views.                                                                  *)

ViewFields == {"base", "layout", "shape", "org", "dims", "at", "rest", "filled", "kept"}

\* Neither what is in a buffer nor where it goes changes with the view of it.
Carries(v, w) == DOMAIN w = ViewFields /\ w.filled = v.filled /\ w.kept = v.kept

\* No tiling, squeezing or transposition of a view does, nor the view as a block.
LEMMA ViewsCarry ==
    ASSUME NEW v, DOMAIN v = ViewFields
    PROVE  /\ Carries(v, v)
           /\ \A t : Carries(v, Flat(v, t))
           /\ \A tile, index : Carries(v, TileOf(v, tile, index))
           /\ \A tile, index : Carries(v, SqueezeView(TileOf(v, tile, index)))
           /\ \A tile, index : Carries(v, TransposeView(SqueezeView(TileOf(v, tile, index))))
           /\ Carries(v, SqueezeView(v))
<1>1. Carries(v, v)
  BY DEF Carries
<1>2. ASSUME NEW u, Carries(v, u)
      PROVE  /\ \A t : Carries(v, Flat(u, t))
             /\ \A tile, index : Carries(v, TileOf(u, tile, index))
             /\ Carries(v, SqueezeView(u)) /\ Carries(v, TransposeView(u))
  <2>1. \A t : Carries(v, Flat(u, t))
    BY <1>2 DEF Carries, Flat, ViewFields
  <2>2. \A tile, index : Carries(v, TileOf(u, tile, index))
    BY <1>2 DEF Carries, TileOf, ViewFields
  <2>3. Carries(v, SqueezeView(u))
    BY <1>2 DEF Carries, SqueezeView, ViewFields
  <2>4. Carries(v, TransposeView(u))
    BY <1>2 DEF Carries, TransposeView, ViewFields
  <2> QED
    BY <2>1, <2>2, <2>3, <2>4
<1> QED
  BY <1>1, <1>2

ViewsSized == DOMAIN views = DOMAIN spec.ops /\ \A i \in DOMAIN views : DOMAIN views[i] = ViewFields

\* So the views that a step starts from carry what the Spec's own do.
LEMMA FlatViewsCarry ==
    ASSUME ViewsSized
    PROVE  DOMAIN Views = DOMAIN spec.ops /\ \A i \in DOMAIN spec.ops : Carries(views[i], Views[i])
BY ViewsCarry DEF ViewsSized, Views

\* And so do those of a loop's body.
LEMMA BodyViewsCarry ==
    ASSUME ViewsSized, NEW tiles, NEW index
    PROVE  /\ DOMAIN BodyViews(tiles, index) = DOMAIN spec.ops
           /\ \A i \in DOMAIN spec.ops : Carries(views[i], BodyViews(tiles, index)[i])
<1>1. DOMAIN Views = DOMAIN spec.ops /\ \A i \in DOMAIN spec.ops : Carries(views[i], Views[i])
  BY FlatViewsCarry
<1>2. ASSUME NEW i \in DOMAIN spec.ops
      PROVE  Carries(views[i], BodyViews(tiles, index)[i])
  <2>1. DOMAIN Views[i] = ViewFields /\ Carries(views[i], Views[i])
    BY <1>1 DEF Carries
  <2>2. \A tile : Carries(views[i], TileOf(Views[i], tile, index))
    BY <2>1, ViewsCarry DEF Carries
  <2> QED
    BY <2>1, <2>2 DEF BodyViews
<1> QED
  BY <1>2 DEF BodyViews

\* What the invariants rest on.
Flows(s, vs) ==
    /\ DOMAIN vs = DOMAIN s.ops /\ \A i \in DOMAIN vs : DOMAIN vs[i] = ViewFields
    /\ \A i \in DOMAIN s.ops : i # OutputIdx(s) \/ OutputIsRead(s) => vs[i].filled
    /\ vs[OutputIdx(s)].kept

\* When a sub-Spec reads its output if and only if the Spec does, and has views of
\* the same buffers, its reads and writes are in order if the Spec's are.
LEMMA FlowsCarried ==
    ASSUME NEW s, NEW t, NEW vs, NEW ws, SizedSpec(s), SizedSpec(t), Flows(s, vs), DOMAIN t.ops = DOMAIN s.ops,
           DOMAIN ws = DOMAIN s.ops, \A i \in DOMAIN s.ops : Carries(vs[i], ws[i]),
           OutputIsRead(t) = OutputIsRead(s)
    PROVE  Flows(t, ws)
<1>1. OutputIdx(t) = OutputIdx(s) /\ OutputIdx(s) \in DOMAIN s.ops
  <2>1. PICK n \in 1..3 : DOMAIN s.ops = 1..n
    BY OpsDomain DEF SizedSpec
  <2> QED
    BY <2>1 DEF OutputIdx
<1> QED
  BY <1>1 DEF Flows, Carries
\* The inductive invariant: the Spec is one of the right operands, whose data flows,
\* and what may still be allocated fits beside what is.
Safe ==
    /\ root \in Roots /\ SizedSpec(spec) /\ Flows(spec, views)
    /\ used \in [1..4 -> Nat] /\ BuffersFit

\* The roots are such Specs.
LEMMA RootSized ==
    ASSUME NEW r \in Roots
    PROVE  SizedSpec(r)
<1>1. r \in SpecRecords /\ ShapesAgree(r)
  BY WalkAssumption
<1>2. /\ DOMAIN r = SpecFields /\ r.typ \in DOMAIN InputCount /\ r.accum \in BOOLEAN
      /\ r.limits \in [1..4 -> Nat] /\ r.ops \in Seq(Tensors)
  BY <1>1 DEF SpecRecords, SpecFields
<1>3. \A i \in DOMAIN r.ops : Sized(r.ops[i])
  <2>1. \A i \in DOMAIN r.ops : r.ops[i] \in Tensors
    BY <1>2
  <2>2. \A t \in Tensors : Sized(t)
    BY DEF Tensors, Sized, OpFields
  <2> QED
    BY <2>1, <2>2
<1>4. DOMAIN r.ops = 1..InputCount[r.typ] + 1
  BY <1>1, <1>2 DEF ShapesAgree
<1> QED
  BY <1>1, <1>2, <1>3, <1>4 DEF SizedSpec, SizedOps

\* A path starts with nothing allocated, the inputs there and the output wanted.
LEMMA InitSafe == Init => Safe
<1> SUFFICES ASSUME Init
             PROVE  Safe
  OBVIOUS
<1>1. PICK r \in Roots : /\ root = r /\ spec = r
                         /\ views = [i \in DOMAIN r.ops |->
                                        Buffer(r.ops[i], Zeros(r.ops[i].shape), <<>>,
                                               i # OutputIdx(r) \/ OutputIsRead(r), TRUE)]
                         /\ used = [l \in 1..4 |-> 0]
  BY DEF Init
<1>2. SizedSpec(r)
  BY RootSized
<1>3. Flows(r, views)
  <2>1. \A t, at, filled : LET b == Buffer(t, at, <<>>, filled, TRUE)
                           IN  DOMAIN b = ViewFields /\ b.filled = filled /\ b.kept = TRUE
    BY DEF Buffer, ViewFields
  <2>2. OutputIdx(r) \in DOMAIN r.ops
    BY <1>2, OpsCount DEF SizedSpec
  <2> QED
    BY <1>1, <2>1, <2>2 DEF Flows
<1>4. BuffersFit
  BY <1>1, <1>2 DEF BuffersFit, SizedSpec
<1> QED
  BY <1>1, <1>2, <1>3, <1>4 DEF Safe

\* An iteration of a loop: a smaller problem under the same limits.
LEMMA LoopStep ==
    ASSUME Safe, NEW tiles, NEW parallel, EnterLoop(LoopOver(spec, tiles, parallel)),
           SizedSpec(BodyOfLoop(spec, tiles, parallel)),
           Volume(SpecShape(BodyOfLoop(spec, tiles, parallel))) < Volume(SpecShape(spec))
    PROVE  Safe' /\ Below(spec', spec)
<1> DEFINE c == BodyOfLoop(spec, tiles, parallel)
<1>1. PICK index : spec' = c /\ views' = BodyViews(tiles, index) /\ UNCHANGED <<root, used, kernel>>
  BY DEF EnterLoop, BodyOfLoop, LoopOver, Impl
<1>2. c.typ = spec.typ /\ c.accum = spec.accum /\ c.limits = spec.limits
  BY LoopKeeps DEF Safe
<1> HIDE DEF c
<1>a. SizedSpec(c) /\ Volume(SpecShape(c)) < Volume(SpecShape(spec))
  BY DEF c
<1>3. DOMAIN c.ops = DOMAIN spec.ops
  <2>1. DOMAIN c.ops = 1..InputCount[c.typ] + 1 /\ DOMAIN spec.ops = 1..InputCount[spec.typ] + 1
    BY <1>a DEF Safe, SizedSpec, SizedOps
  <2> QED
    BY <1>2, <2>1
<1>4. Flows(spec', views')
  <2>1. ViewsSized
    BY DEF Safe, Flows, ViewsSized
  <2>2. /\ DOMAIN views' = DOMAIN spec.ops
        /\ \A i \in DOMAIN spec.ops : Carries(views[i], views'[i])
    BY <1>1, <2>1, BodyViewsCarry
  <2>3. OutputIsRead(c) = OutputIsRead(spec)
    BY <1>2 DEF OutputIsRead
  <2> QED
    BY <1>1, <1>3, <1>a, <2>2, <2>3, FlowsCarried DEF Safe
<1>5. BuffersFit'
  BY <1>1, <1>2 DEF Safe, BuffersFit
<1>6. Below(spec', spec)
  <2>1. \A l \in 1..4 : c.limits[l] <= spec.limits[l]
    BY <1>2 DEF Safe, SizedSpec
  <2>2. TypRank(c) = TypRank(spec)
    BY <1>2 DEF TypRank
  <2> QED
    BY <1>1, <1>a, <2>1, <2>2 DEF Below
<1> QED
  BY <1>1, <1>4, <1>5, <1>6, <1>a DEF Safe

\* TileOut is one.
LEMMA TileOutStep ==
    ASSUME Safe, TileOut
    PROVE  Safe' /\ Below(spec', spec)
<1>1. PICK a \in TileOutActions(spec) : /\ TileOutApplies(spec, a.shape, a.parallel)
                                        /\ EnterLoop(LoopOver(spec, TileOutTiles(spec, a.shape), a.parallel))
  BY DEF TileOut
<1>2. LET c == BodyOfLoop(spec, TileOutTiles(spec, a.shape), a.parallel)
      IN  SizedSpec(c) /\ Volume(SpecShape(c)) < Volume(SpecShape(spec))
  BY <1>1, TileOutBody DEF Safe
<1> QED
  BY <1>1, <1>2, LoopStep

\* Split is one.
LEMMA SplitStep ==
    ASSUME Safe, Split
    PROVE  Safe' /\ Below(spec', spec)
<1>1. PICK a \in SplitActions(spec) : EnterLoop(LoopOver(spec, SplitTiles(spec, a.k), FALSE))
  BY DEF Split
<1>2. LET c == BodyOfLoop(spec, SplitTiles(spec, a.k), FALSE)
      IN  SizedSpec(c) /\ Volume(SpecShape(c)) < Volume(SpecShape(spec))
  BY SplitBody DEF Safe, Split
<1> QED
  BY <1>1, <1>2, LoopStep

\* A SpatialSplit goes from a Conv to a simpler operation.
LEMMA SpatialStep ==
    ASSUME Safe, EnterSpatialSplit
    PROVE  Safe' /\ Below(spec', spec)
<1> DEFINE c == SpatialSplit(spec).children[1].spec
           tiles == SpatialTiles(spec)
<1>1. spec.typ = "Conv" /\ spec.accum /\ spec' = c /\ UNCHANGED <<root, used, kernel>>
  BY DEF EnterSpatialSplit
<1>2. PICK index :
          views' = <<SqueezeView(BodyViews(tiles, index)[1]), TransposeView(SqueezeView(BodyViews(tiles, index)[2])),
                     SqueezeView(BodyViews(tiles, index)[3])>>
  BY DEF EnterSpatialSplit
<1>3. SizedSpec(c) /\ c.typ = "Matmul" /\ c.accum = spec.accum /\ c.limits = spec.limits
  BY <1>1, SpatialBodySized DEF Safe
<1> HIDE DEF c, tiles
<1>4. DOMAIN spec.ops = 1..3 /\ DOMAIN c.ops = 1..3
  BY <1>1, <1>3, AgreeMeans DEF Safe, SizedSpec
<1>5. Flows(c, views')
  <2>1. ViewsSized
    BY DEF Safe, Flows, ViewsSized
  <2>2. \A i \in 1..3 : Carries(views[i], BodyViews(tiles, index)[i])
    BY <1>4, <2>1, BodyViewsCarry
  <2>3. ASSUME NEW v, NEW w, Carries(v, w)
        PROVE  Carries(v, SqueezeView(w)) /\ Carries(v, TransposeView(SqueezeView(w)))
    <3>1. Carries(v, SqueezeView(w))
      BY <2>3 DEF Carries, SqueezeView, ViewFields
    <3> QED
      BY <3>1 DEF Carries, TransposeView, ViewFields
  <2>4. /\ DOMAIN views' = 1..3
        /\ Carries(views[1], views'[1]) /\ Carries(views[2], views'[2]) /\ Carries(views[3], views'[3])
    BY <1>2, <2>2, <2>3
  <2>5. \A i \in 1..3 : i = 1 \/ i = 2 \/ i = 3
    OBVIOUS
  <2>6. OutputIsRead(c) = OutputIsRead(spec)
    BY <1>1, <1>3 DEF OutputIsRead, Accumulates
  <2> QED
    BY <1>3, <1>4, <2>4, <2>5, <2>6, FlowsCarried DEF Safe
<1>6. BuffersFit'
  BY <1>1, <1>3 DEF Safe, BuffersFit
<1>7. Below(spec', spec)
  <2>1. \A l \in 1..4 : c.limits[l] <= spec.limits[l]
    BY <1>3 DEF Safe, SizedSpec
  <2>2. TypRank(c) = 1 /\ TypRank(spec) = 3
    BY <1>1, <1>3 DEF TypRank
  <2> QED
    BY <1>1, <2>1, <2>2 DEF Below
<1> QED
  BY <1>1, <1>3, <1>5, <1>6, <1>7 DEF Safe

\* Placing a kernel ends the path.
LEMMA PlaceStep ==
    ASSUME Safe, Place
    PROVE  Safe' /\ (kernel' = NoKernel => UNCHANGED vars)
BY DEF Place, Safe, BuffersFit, vars

\* ToAccum: the Zero's output is wanted, and the accumulation reads what it wrote.
LEMMA AccumStep ==
    ASSUME Safe, ZeroThenAccum
    PROVE  Safe' /\ Below(spec', spec)
<1>1. PICK c \in Range(ToAccum(spec).children) :
          /\ spec' = c.spec
          /\ views' = [i \in DOMAIN c.from |->
                          [views[c.from[i]] EXCEPT
                              !.filled = @ \/ (c.part = "accum" /\ c.from[i] = OutputIdx(spec))]]
          /\ UNCHANGED <<root, used, kernel>>
  BY DEF ZeroThenAccum
<1>2. Accumulates(spec.typ) /\ ~spec.accum
  BY DEF ZeroThenAccum
<1>3. /\ SizedSpec(c.spec) /\ \A l \in 1..4 : c.spec.limits[l] <= spec.limits[l]
      /\ DOMAIN c.from = DOMAIN c.spec.ops /\ \A i \in DOMAIN c.from : c.from[i] \in DOMAIN spec.ops
      /\ \/ c.part = "zero" /\ c.spec.typ = "Zero" /\ c.from = <<OutputIdx(spec)>>
         \/ /\ c.part = "accum" /\ c.spec.typ = spec.typ /\ c.spec.accum
            /\ SpecShape(c.spec) = SpecShape(spec) /\ \A i \in DOMAIN c.from : c.from[i] = i
  BY <1>2, ToAccumParts DEF Safe
<1>4. Flows(c.spec, views')
  <2>1. \A i \in DOMAIN spec.ops : DOMAIN views[i] = ViewFields
    BY DEF Safe, Flows
  <2>2. /\ DOMAIN views' = DOMAIN c.spec.ops
        /\ \A i \in DOMAIN c.from :
              /\ DOMAIN views'[i] = ViewFields /\ views'[i].kept = views[c.from[i]].kept
              /\ views'[i].filled = (views[c.from[i]].filled \/ (c.part = "accum" /\ c.from[i] = OutputIdx(spec)))
    BY <1>1, <1>3, <2>1 DEF ViewFields
  <2>3. OutputIdx(c.spec) \in DOMAIN c.from
    BY <1>3, OpsCount DEF SizedSpec
  <2>4. CASE c.part = "zero" /\ c.spec.typ = "Zero" /\ c.from = <<OutputIdx(spec)>>
    <3>1. OutputIdx(c.spec) = 1 /\ DOMAIN c.spec.ops = 1..1
      BY <1>3, <2>4, AgreeMeans DEF SizedSpec, OutputIdx
    <3>2. ~OutputIsRead(c.spec)
      BY <2>4 DEF OutputIsRead, Accumulates
    <3>3. views'[1].kept
      BY <1>3, <2>2, <2>4, <3>1 DEF Safe, Flows
    <3> QED
      BY <1>3, <2>2, <3>1, <3>2, <3>3 DEF Flows
  <2>5. CASE c.part = "accum" /\ c.spec.typ = spec.typ /\ c.spec.accum /\ \A i \in DOMAIN c.from : c.from[i] = i
    <3>1. OutputIdx(c.spec) = OutputIdx(spec)
      BY <1>3, <2>5, OpsCount DEF SizedSpec, Safe
    <3>2. \A i \in DOMAIN c.from : i # OutputIdx(spec) => views[i].filled
      BY <1>3, <2>5 DEF Safe, Flows
    <3>3. ASSUME NEW i \in DOMAIN c.from
          PROVE  views'[i].filled
      <4>1. views'[i].filled = (views[i].filled \/ i = OutputIdx(spec))
        BY <2>2, <2>5
      <4>2. CASE i = OutputIdx(spec)
        BY <4>1, <4>2
      <4>3. CASE i # OutputIdx(spec)
        <5>1. views[i].filled
          BY <3>2, <4>3
        <5> QED
          BY <4>1, <5>1
      <4> QED
        BY <4>2, <4>3
    <3>4. views'[OutputIdx(c.spec)].kept
      BY <2>2, <2>3, <2>5, <3>1 DEF Safe, Flows
    <3> QED
      BY <1>3, <2>2, <3>3, <3>4 DEF Flows
  <2> QED
    BY <1>3, <2>4, <2>5
<1>5. BuffersFit'
  <2>1. SizedSpec(spec) /\ SizedSpec(c.spec) /\ SizedSpec(root)
    BY <1>3, RootSized DEF Safe
  <2> QED
    BY <1>1, <1>3, <2>1 DEF Safe, BuffersFit, SizedSpec
<1>6. Below(spec', spec)
  <2>1. TypRank(c.spec) < TypRank(spec)
    BY <1>2, <1>3 DEF TypRank, Accumulates
  <2> QED
    BY <1>1, <1>3, <2>1 DEF Below
<1> QED
  BY <1>1, <1>3, <1>4, <1>5, <1>6 DEF Safe
\* What a move's parts are given: all that they read has been written, and what
\* they write is wanted.
LEMMA MoveStep ==
    ASSUME Safe, Move
    PROVE  Safe' /\ Below(spec', spec)
<1>1. PICK a \in MoveActions(spec) :
          /\ MoveApplies(spec, a)
          /\ \E impl \in {MoveLet(spec, a)} : \E child \in Range(impl.children) :
                LET source == Views[a.source]
                    isOutput == a.source = OutputIdx(spec)
                    new == Buffer(impl.introduced[1], source.at, source.rest,
                                  CASE child.part = "prologue" -> FALSE
                                    [] child.part = "body" -> source.filled /\ GensPrologue(spec, a)
                                    [] child.part = "epilogue" -> TRUE,
                                  isOutput /\ child.part = "body" => source.kept /\ GensEpilogue(spec, a))
                    inner == IF IsCacheView(spec, a) THEN source ELSE new
                IN  /\ spec' = child.spec
                    /\ views' = [i \in DOMAIN child.from |->
                                    IF child.from[i] = 0 THEN inner ELSE Views[child.from[i]]]
                    /\ used' = [l \in 1..4 |-> used[l] + Allocated(impl)[l]]
                    /\ UNCHANGED <<root, kernel>>
  BY DEF Move
<1> DEFINE source == Views[a.source]
           NewFor(impl, c) ==
               Buffer(impl.introduced[1], source.at, source.rest,
                      CASE c.part = "prologue" -> FALSE
                        [] c.part = "body" -> source.filled /\ GensPrologue(spec, a)
                        [] c.part = "epilogue" -> TRUE,
                      a.source = OutputIdx(spec) /\ c.part = "body" => source.kept /\ GensEpilogue(spec, a))
           Goes(impl, c) ==
               /\ spec' = c.spec
               /\ views' = [i \in DOMAIN c.from |->
                               IF c.from[i] = 0
                               THEN IF IsCacheView(spec, a) THEN source ELSE NewFor(impl, c) ELSE Views[c.from[i]]]
               /\ used' = [l \in 1..4 |-> used[l] + Allocated(impl)[l]]
               /\ UNCHANGED <<root, kernel>>
<1>0. MoveApplies(spec, a) /\ SizedSpec(spec)
  BY <1>1 DEF Safe
<1>h. \E impl \in {MoveLet(spec, a)} : \E c \in Range(impl.children) : Goes(impl, c)
  BY <1>1
<1>2. PICK c \in Range(MoveLet(spec, a).children) : Goes(MoveLet(spec, a), c)
  <2> HIDE DEF Goes
  <2> QED
    BY <1>h
<1> DEFINE new == NewFor(MoveLet(spec, a), c)
<1>3. /\ SizedSpec(c.spec)
      /\ \A l \in 1..4 : c.spec.limits[l] + Allocated(MoveLet(spec, a))[l] <= spec.limits[l]
      /\ c.spec.limits # spec.limits /\ Allocated(MoveLet(spec, a)) \in [1..4 -> Nat]
      /\ DOMAIN c.from = DOMAIN c.spec.ops
  <2>1. SizedSpec(c.spec)
    BY <1>0, MoveParts
  <2>4. DOMAIN c.from = DOMAIN c.spec.ops
    <3>1. FromPerOperand(c)
      BY <1>0, MoveParts
    <3> QED
      BY <3>1 DEF FromPerOperand
  <2>2. c.spec.limits # spec.limits /\ Allocated(MoveLet(spec, a)) \in [1..4 -> Nat]
    BY <1>0, MoveParts
  <2>3. \A l \in 1..4 : c.spec.limits[l] + Allocated(MoveLet(spec, a))[l] <= spec.limits[l]
    BY <1>0, MoveParts
  <2> QED
    BY <2>1, <2>2, <2>3, <2>4
<1>4. \/ c.part = "prologue" /\ GensPrologue(spec, a) /\ c.spec.typ = "Move" /\ c.from = <<a.source, 0>>
      \/ c.part = "epilogue" /\ GensEpilogue(spec, a) /\ c.spec.typ = "Move" /\ c.from = <<0, a.source>>
      \/ /\ c.part = "body" /\ c.spec.typ = spec.typ /\ c.spec.accum = spec.accum
         /\ c.from = [i \in DOMAIN spec.ops |-> IF i = a.source THEN 0 ELSE i]
  BY <1>0, MoveParts
<1>5. DOMAIN new = ViewFields
  BY DEF Buffer, ViewFields
<1>6. /\ c.part = "prologue" => new.kept
      /\ c.part = "epilogue" => new.filled /\ new.kept
  BY DEF Buffer
<1>7. c.part = "body" => /\ new.filled = (source.filled /\ GensPrologue(spec, a))
                         /\ new.kept = (a.source = OutputIdx(spec) => source.kept /\ GensEpilogue(spec, a))
  BY DEF Buffer
<1>8. /\ DOMAIN views' = DOMAIN c.from
      /\ \A i \in DOMAIN c.from : c.from[i] = 0 /\ ~IsCacheView(spec, a) => views'[i] = new
      /\ \A i \in DOMAIN c.from : c.from[i] = 0 /\ IsCacheView(spec, a) => views'[i] = source
      /\ \A i \in DOMAIN c.from : c.from[i] # 0 => views'[i] = Views[c.from[i]]
  BY <1>2
<1>9. used' = [l \in 1..4 |-> used[l] + Allocated(MoveLet(spec, a))[l]]
  BY <1>2
<1>a. spec' = c.spec /\ UNCHANGED <<root, kernel>>
  BY <1>2
<1>b. a.source \in DOMAIN spec.ops
  BY <1>1, MovedIs DEF Safe
<1>c. /\ DOMAIN Views = DOMAIN spec.ops
      /\ \A i \in DOMAIN spec.ops : DOMAIN Views[i] = ViewFields
      /\ \A i \in DOMAIN spec.ops : i # OutputIdx(spec) \/ OutputIsRead(spec) => Views[i].filled
      /\ Views[OutputIdx(spec)].kept
  <2>1. ViewsSized
    BY DEF Safe, Flows, ViewsSized
  <2>2. \A i \in DOMAIN spec.ops : Carries(views[i], Views[i])
    BY <2>1, FlatViewsCarry
  <2>3. OutputIdx(spec) \in DOMAIN spec.ops
    BY OpsCount DEF Safe, SizedSpec
  <2> QED
    BY <2>1, <2>2, <2>3, FlatViewsCarry DEF Safe, Flows, Carries
<1> HIDE DEF new, NewFor, source
<1>d. source = Views[a.source]
  BY DEF source
<1>e. Flows(c.spec, views')
  <2>1. CASE c.part = "prologue" /\ GensPrologue(spec, a) /\ c.spec.typ = "Move" /\ c.from = <<a.source, 0>>
    <3>1. DOMAIN c.spec.ops = 1..2 /\ OutputIdx(c.spec) = 2 /\ ~OutputIsRead(c.spec)
      BY <1>3, <2>1, OpsCount, AgreeMeans DEF SizedSpec, OutputIsRead, Accumulates, OutputIdx
    <3>2. ~IsCacheView(spec, a) /\ source.filled
      BY <1>b, <1>c, <1>d, <2>1 DEF GensPrologue
    <3>3. a.source # 0
      BY <1>b, OpsCount DEF Safe, SizedSpec
    <3>4. views'[1] = source /\ views'[2] = new /\ DOMAIN views' = 1..2
      BY <1>3, <1>8, <1>d, <2>1, <3>1, <3>2, <3>3
    <3>5. \A i \in 1..2 : i = 1 \/ i = 2
      OBVIOUS
    <3> QED
      BY <1>5, <1>6, <1>b, <1>c, <1>d, <2>1, <3>1, <3>2, <3>4, <3>5 DEF Flows
  <2>2. CASE c.part = "epilogue" /\ GensEpilogue(spec, a) /\ c.spec.typ = "Move" /\ c.from = <<0, a.source>>
    <3>1. DOMAIN c.spec.ops = 1..2 /\ OutputIdx(c.spec) = 2 /\ ~OutputIsRead(c.spec)
      BY <1>3, <2>2, OpsCount, AgreeMeans DEF SizedSpec, OutputIsRead, Accumulates, OutputIdx
    <3>2. ~IsCacheView(spec, a) /\ a.source = OutputIdx(spec)
      BY <2>2 DEF GensEpilogue
    <3>3. a.source # 0
      BY <1>b, OpsCount DEF Safe, SizedSpec
    <3>4. views'[1] = new /\ views'[2] = source /\ DOMAIN views' = 1..2
      BY <1>3, <1>8, <1>d, <2>2, <3>1, <3>2, <3>3
    <3>5. \A i \in 1..2 : i = 1 \/ i = 2
      OBVIOUS
    <3> QED
      BY <1>5, <1>6, <1>b, <1>c, <1>d, <2>2, <3>1, <3>2, <3>4, <3>5 DEF Flows
  <2>3. CASE /\ c.part = "body" /\ c.spec.typ = spec.typ /\ c.spec.accum = spec.accum
             /\ c.from = [i \in DOMAIN spec.ops |-> IF i = a.source THEN 0 ELSE i]
    <3>1. /\ DOMAIN c.spec.ops = DOMAIN spec.ops /\ OutputIdx(c.spec) = OutputIdx(spec)
          /\ OutputIdx(spec) \in DOMAIN spec.ops /\ 0 \notin DOMAIN spec.ops
          /\ OutputIsRead(c.spec) = OutputIsRead(spec)
      <4>1. DOMAIN c.spec.ops = DOMAIN spec.ops
        BY <1>3, <2>3
      <4>2. PICK n \in 1..3 : DOMAIN spec.ops = 1..n
        BY OpsDomain DEF Safe, SizedSpec
      <4> QED
        BY <2>3, <4>1, <4>2 DEF OutputIdx, OutputIsRead
    <3>2. \A i \in DOMAIN spec.ops : i # a.source => views'[i] = Views[i]
      BY <1>8, <2>3, <3>1
    <3>3. views'[a.source] = IF IsCacheView(spec, a) THEN source ELSE new
      BY <1>8, <1>b, <2>3
    <3>4. DOMAIN views'[a.source] = ViewFields
      BY <1>5, <1>b, <1>c, <1>d, <3>3
    <3>5. a.source # OutputIdx(spec) \/ OutputIsRead(spec) => views'[a.source].filled
      <4>1. HAVE a.source # OutputIdx(spec) \/ OutputIsRead(spec)
      <4>2. source.filled
        BY <1>b, <1>c, <1>d, <4>1
      <4>3. CASE IsCacheView(spec, a)
        BY <3>3, <4>2, <4>3
      <4>4. CASE ~IsCacheView(spec, a)
        <5>1. GensPrologue(spec, a)
          BY <4>1, <4>4 DEF GensPrologue
        <5> QED
          BY <1>7, <2>3, <3>3, <4>2, <4>4, <5>1
      <4> QED
        BY <4>3, <4>4
    <3>6. a.source = OutputIdx(spec) => views'[a.source].kept
      <4>1. HAVE a.source = OutputIdx(spec)
      <4>2. source.kept
        BY <1>c, <1>d, <4>1
      <4>3. CASE IsCacheView(spec, a)
        BY <3>3, <4>2, <4>3
      <4>4. CASE ~IsCacheView(spec, a)
        <5>1. GensEpilogue(spec, a)
          BY <4>1, <4>4 DEF GensEpilogue
        <5> QED
          BY <1>7, <2>3, <3>3, <4>2, <4>4, <5>1
      <4> QED
        BY <4>3, <4>4
    <3>7. DOMAIN views' = DOMAIN spec.ops
      BY <1>3, <1>8, <3>1
    <3> QED
      BY <1>c, <3>1, <3>2, <3>4, <3>5, <3>6, <3>7 DEF Flows
  <2> QED
    BY <1>4, <2>1, <2>2, <2>3
<1>f. used' \in [1..4 -> Nat] /\ BuffersFit'
  <2>1. SizedSpec(spec) /\ SizedSpec(root)
    BY RootSized DEF Safe
  <2>2. \A l \in 1..4 : /\ used[l] \in Nat /\ Allocated(MoveLet(spec, a))[l] \in Nat /\ spec.limits[l] \in Nat
                        /\ c.spec.limits[l] \in Nat /\ root.limits[l] \in Nat
    BY <1>3, <2>1 DEF Safe, SizedSpec
  <2>3. \A l \in 1..4 : used'[l] = used[l] + Allocated(MoveLet(spec, a))[l]
    BY <1>9
  <2>4. \A l \in 1..4 : used[l] + spec.limits[l] <= root.limits[l]
    BY DEF Safe, BuffersFit
  <2>5. \A l \in 1..4 : used'[l] + c.spec.limits[l] <= root.limits[l]
    BY <1>3, <2>2, <2>3, <2>4
  <2>6. used' \in [1..4 -> Nat]
    BY <1>9, <2>2
  <2> QED
    BY <1>a, <2>5, <2>6 DEF BuffersFit
<1>g. Below(spec', spec)
  <2>1. \A l \in 1..4 : /\ Allocated(MoveLet(spec, a))[l] \in Nat /\ spec.limits[l] \in Nat
                        /\ c.spec.limits[l] \in Nat
    BY <1>3 DEF Safe, SizedSpec
  <2>2. \A l \in 1..4 : c.spec.limits[l] <= spec.limits[l]
    BY <1>3, <2>1
  <2> QED
    BY <1>3, <1>a, <2>2 DEF Below
<1> QED
  BY <1>3, <1>a, <1>e, <1>f, <1>g DEF Safe

\* Every action, in one step.
LEMMA NextSafe ==
    ASSUME Safe, Next
    PROVE  Safe' /\ (Below(spec', spec) \/ kernel' # NoKernel \/ UNCHANGED vars)
BY TileOutStep, SplitStep, SpatialStep, MoveStep, AccumStep, PlaceStep DEF Next

\* A stuttering step changes nothing.
LEMMA StutterSafe ==
    ASSUME Safe, UNCHANGED vars
    PROVE  Safe'
BY DEF Safe, Flows, BuffersFit, vars

\* The inductive invariant.
THEOREM SafeAlways == Spec => []Safe
<1>1. Safe /\ [Next]_vars => Safe'
  BY NextSafe, StutterSafe
<1> QED
  BY InitSafe, <1>1, PTL DEF Spec

\* BuffersFit: a move is refused when its buffer is over the limit of its level, what
\* is left is rounded down (MemoryLimits), and canonicalization only drops levels.
THEOREM BuffersAlwaysFit == Spec => []BuffersFit
<1>1. Safe => BuffersFit
  BY DEF Safe
<1> QED
  BY SafeAlways, <1>1, PTL

\* DataFlows: a move has a prologue when the moved operand is read and an epilogue
\* when it is written, and a ToAccum's Zero comes before its accumulation
\* (scheduling.rs), so nothing is read before it is written, and nothing is lost.
THEOREM DataAlwaysFlows == Spec => []DataFlows
<1>1. Safe => DataFlows
  BY DEF Safe, Flows, DataFlows
<1> QED
  BY SafeAlways, <1>1, PTL

\* Descends: every step of a search (Action::apply) goes to a Spec with less memory,
\* of a simpler operation, or of a smaller problem.
THEOREM AlwaysDescends == Spec => Descends
<1>1. Safe /\ [Next]_vars => [kernel' = NoKernel => Below(spec', spec)]_vars
  BY NextSafe
<1> QED
  BY SafeAlways, <1>1, PTL DEF Spec, Descends
-----------------------------------------------------------------------------
(* Where the iterations of a loop are.                                     *)

\* An axis along which no tile has more than one step is not moved along.
OneStep(tiles, axis) ==
    \A n \in DOMAIN tiles : \A d \in DOMAIN tiles[n].axes :
        tiles[n].axes[d] = axis => TileSteps(spec, tiles[n], d) = 1

\* An index is a number, and 0 where the loop has one step.
LEMMA IndexIs ==
    ASSUME NEW tiles, NEW index \in Indices(tiles), NEW axis \in AxesOf(tiles)
    PROVE  index[axis] \in Nat /\ (OneStep(tiles, axis) => index[axis] = 0)
<1> DEFINE loops == EmittedLoops(spec, tiles)
           StepsOf(a) == Max({1} \cup {x[2] : x \in {x \in loops : x[1] = a}})
           most == Max({StepsOf(a) : a \in AxesOf(tiles)})
<1>1. index \in {f \in [AxesOf(tiles) -> 0..most - 1] : \A a \in AxesOf(tiles) : f[a] < StepsOf(a)}
  BY DEF Indices
<1> HIDE DEF most
<1>2. index[axis] \in 0..most - 1 /\ index[axis] < StepsOf(axis)
  <2> HIDE DEF StepsOf
  <2> QED
    BY <1>1
<1>3. index[axis] \in Nat
  BY <1>2
<1>4. ASSUME OneStep(tiles, axis)
      PROVE  index[axis] = 0
  <2>1. \A x \in loops : x[1] # axis
    BY <1>4 DEF EmittedLoops, OneStep
  <2>2. {1} \cup {x[2] : x \in {x \in loops : x[1] = axis}} = {1}
    <3> HIDE DEF loops
    <3> QED
      BY <2>1
  <2>3. Max({1}) = 1
    BY DEF Max
  <2>4. StepsOf(axis) = 1
    BY <2>2, <2>3
  <2> HIDE DEF StepsOf
  <2> QED
    BY <1>2, <1>3, <2>4
<1> QED
  BY <1>3, <1>4

\* One tile spans what it is as large as.
LEMMA OneTile == \A n \in Nat \ {0} : CeilDiv(n, n) = 1
<1> SUFFICES ASSUME NEW n \in Nat \ {0}
             PROVE  (n + n - 1) \div n = 1
  BY DEF CeilDiv
<1>1. n + n - 1 = n * 1 + (n - 1) /\ 0 <= n - 1 /\ n - 1 < n
  OBVIOUS
<1> QED
  BY <1>1

\* A dimension of an input is tiled along the output's axis it is bound to, or else
\* along one beyond them.
LEMMA InputAxesAre ==
    ASSUME NEW tilings, NEW rank \in Nat, NEW n \in Nat, NEW r \in Nat, DOMAIN tilings = 1..n, NEW i \in 1..n,
           \A j \in 1..n : DOMAIN tilings[j].axes = 1..r
    PROVE  /\ DOMAIN InputAxes(tilings, rank, i) = 1..r
           /\ \A d \in 1..r : tilings[i].axes[d] # 0 => InputAxes(tilings, rank, i)[d] = tilings[i].axes[d]
           /\ \A d \in 1..r : tilings[i].axes[d] = 0 => InputAxes(tilings, rank, i)[d] > rank
<1> DEFINE unbound == {x \in UNION {{j} \X DOMAIN tilings[j].axes : j \in DOMAIN tilings} :
                          tilings[x[1]].axes[x[2]] = 0}
           Before(d) == Cardinality({x \in unbound : x[1] < i \/ (x[1] = i /\ x[2] <= d)})
<1>1. IsFiniteSet((1..n) \X (1..r))
  <2>1. IsFiniteSet(1..n) /\ IsFiniteSet(1..r)
    BY FS_Interval
  <2> QED
    BY <2>1, FS_Product
<1>2. unbound \subseteq (1..n) \X (1..r)
  OBVIOUS
<1>3. ASSUME NEW d \in 1..r, tilings[i].axes[d] = 0
      PROVE  Before(d) \in Nat /\ Before(d) > 0
  <2> DEFINE B == {x \in unbound : x[1] < i \/ (x[1] = i /\ x[2] <= d)}
  <2>1. <<i, d>> \in B
    <3>1. <<i, d>> \in unbound
      BY <1>3
    <3>2. d <= d
      OBVIOUS
    <3> HIDE DEF unbound
    <3> QED
      BY <3>1, <3>2
  <2>2. IsFiniteSet(B)
    <3>1. B \subseteq (1..n) \X (1..r)
      BY <1>2
    <3> HIDE DEF B
    <3> QED
      BY <1>1, <3>1, FS_Subset
  <2> HIDE DEF B
  <2>3. Cardinality(B) \in Nat /\ Cardinality(B) # 0
    BY <2>1, <2>2, FS_CardinalityType, FS_EmptySet
  <2> QED
    BY <2>3 DEF B
<1> HIDE DEF Before
<1>4. InputAxes(tilings, rank, i) = [d \in DOMAIN tilings[i].axes |->
            IF tilings[i].axes[d] = 0 THEN rank + Before(d) ELSE tilings[i].axes[d]]
  BY DEF InputAxes, Before
<1> QED
  BY <1>3, <1>4

-----------------------------------------------------------------------------
(* Where the operands are.                                                 *)

\* A tile of an operand has a step and an axis for each of its dimensions.
TilesTheOperand(t, ops) ==
    /\ t.operand \in DOMAIN ops /\ DOMAIN t.axes = DOMAIN ops[t.operand].shape
    /\ t.tiling.steps \in [DOMAIN ops[t.operand].shape -> Nat \ {0}]

\* Each view is at a place of the problem, a coordinate for each dimension.
ViewsPlaced(ops, vs) ==
    /\ DOMAIN vs = DOMAIN ops
    /\ \A i \in DOMAIN ops : /\ vs[i].at \in [DOMAIN ops[i].shape -> Nat]
                             /\ vs[i].dims \in [DOMAIN ops[i].shape -> DOMAIN vs[i].org]

\* How far an iteration is from the loop's first along a dimension of an operand.
Displacement(tiles, index, i, d) == TileFor(tiles, i).tiling.steps[d] * index[TileFor(tiles, i).axes[d]]

\* A bitwise Move's operands are where they were.
LEMMA FlatPlaced ==
    ASSUME ViewsSized, ViewsPlaced(spec.ops, views)
    PROVE  /\ ViewsPlaced(spec.ops, Views)
           /\ \A i \in DOMAIN spec.ops : /\ Views[i].at = views[i].at /\ Views[i].rest = views[i].rest
                                         /\ DOMAIN Views[i] = ViewFields
<1>1. \A i \in DOMAIN spec.ops : LET f == Flat(views[i], spec.ops[i]) IN
          /\ f.at = views[i].at /\ f.rest = views[i].rest /\ f.dims \in [DOMAIN spec.ops[i].shape -> DOMAIN f.org]
          /\ DOMAIN f = ViewFields
  BY DEF ViewsSized, ViewFields, Flat, Identity, Zeros
<1>2. DOMAIN views = DOMAIN spec.ops
  BY DEF ViewsSized
<1> QED
  BY <1>1, <1>2 DEF Views, ViewsPlaced, ViewsSized

\* Where the operands of a loop's body are.
LEMMA BodyPlaced ==
    ASSUME ViewsSized, ViewsPlaced(spec.ops, views), NEW tiles, NEW index \in Indices(tiles),
           \A t \in Range(tiles) : TilesTheOperand(t, spec.ops)
    PROVE  LET body == BodyViews(tiles, index) IN
           /\ ViewsPlaced(spec.ops, body)
           /\ \A i \in DOMAIN spec.ops :
                 /\ body[i].rest = views[i].rest
                 /\ ~IsTiled(tiles, i) => body[i].at = views[i].at
                 /\ IsTiled(tiles, i) => \A d \in DOMAIN spec.ops[i].shape :
                       body[i].at[d] = views[i].at[d] + Displacement(tiles, index, i, d)
<1> DEFINE body == BodyViews(tiles, index)
<1>1. DOMAIN body = DOMAIN spec.ops
  BY DEF BodyViews
<1>2. ASSUME NEW i \in DOMAIN spec.ops, ~IsTiled(tiles, i)
      PROVE  /\ body[i].rest = views[i].rest /\ body[i].at = views[i].at
             /\ body[i].at \in [DOMAIN spec.ops[i].shape -> Nat] /\ body[i].dims \in [DOMAIN spec.ops[i].shape -> DOMAIN body[i].org]
  <2>1. body[i] = Views[i]
    BY <1>2 DEF BodyViews
  <2> QED
    BY <2>1, FlatPlaced DEF ViewsPlaced
<1>3. ASSUME NEW i \in DOMAIN spec.ops, IsTiled(tiles, i)
      PROVE  /\ body[i].rest = views[i].rest
             /\ \A d \in DOMAIN spec.ops[i].shape : body[i].at[d] = views[i].at[d] + Displacement(tiles, index, i, d)
             /\ body[i].at \in [DOMAIN spec.ops[i].shape -> Nat] /\ body[i].dims \in [DOMAIN spec.ops[i].shape -> DOMAIN body[i].org]
  <2> DEFINE tile == TileFor(tiles, i)
             D == DOMAIN spec.ops[i].shape
  <2>1. tile \in Range(tiles) /\ tile.operand = i /\ \E n \in DOMAIN tiles : tile = tiles[n]
    <3>1. PICK n \in DOMAIN tiles : tiles[n].operand = i
      BY <1>3 DEF IsTiled
    <3> QED
      BY <3>1 DEF TileFor, Range
  <2>2. DOMAIN tile.axes = D /\ tile.tiling.steps \in [D -> Nat \ {0}]
    BY <2>1 DEF TilesTheOperand
  <2>3. ASSUME NEW d \in D
        PROVE  tile.tiling.steps[d] * index[tile.axes[d]] \in Nat
    <3>1. tile.axes[d] \in AxesOf(tiles)
      BY <2>1, <2>2 DEF AxesOf, Range
    <3>2. index[tile.axes[d]] \in Nat
      BY <3>1, IndexIs
    <3>3. tile.tiling.steps[d] \in Nat
      BY <2>2
    <3> HIDE DEF tile
    <3> QED
      BY <3>2, <3>3
  <2>4. body[i] = TileOf(Views[i], tile, index)
    BY <1>3 DEF BodyViews
  <2>5. /\ DOMAIN Views[i] = ViewFields /\ Views[i].at \in [D -> Nat] /\ Views[i].dims \in [D -> DOMAIN Views[i].org]
        /\ Views[i].at = views[i].at /\ Views[i].rest = views[i].rest
    BY FlatPlaced DEF ViewsPlaced
  <2> HIDE DEF body, tile, D
  <2>6. /\ body[i].rest = Views[i].rest /\ body[i].dims = Views[i].dims /\ DOMAIN body[i].org = DOMAIN Views[i].org
        /\ body[i].at = [d \in D |-> Views[i].at[d] + tile.tiling.steps[d] * index[tile.axes[d]]]
    BY <2>4, <2>5 DEF TileOf, ViewFields
  <2>7. body[i].at \in [D -> Nat]
    BY <2>3, <2>5, <2>6
  <2>8. \A d \in D : body[i].at[d] = views[i].at[d] + Displacement(tiles, index, i, d)
    BY <2>5, <2>6 DEF Displacement, tile
  <2> QED
    BY <2>5, <2>6, <2>7, <2>8 DEF D
<1> QED
  BY <1>1, <1>2, <1>3 DEF ViewsPlaced

-----------------------------------------------------------------------------
(* Tiling the output of a matrix product.                                  *)

RowsTile(t, p, k) ==
    /\ t.operand = 1 /\ t.tiling.steps = <<p, k>> /\ DOMAIN t.axes = 1..2 /\ t.axes[1] = 1 /\ t.axes[2] > 2
ColumnsTile(t, k, q) ==
    /\ t.operand = 2 /\ t.tiling.steps = <<k, q>> /\ DOMAIN t.axes = 1..2 /\ t.axes[1] > 2 /\ t.axes[2] = 2
ProductTile(t, p, q) ==
    /\ t.operand = 3 /\ t.tiling.steps = <<p, q>> /\ DOMAIN t.axes = 1..2 /\ t.axes[1] = 1 /\ t.axes[2] = 2

\* The tiles of a TileOut of a Matmul (input_tilings_for_tile_out): rows and columns
\* are zipped with the output's, what is summed over stays whole, and an input that
\* the tiling leaves whole has no tile.
LEMMA MatmulTiles ==
    ASSUME NEW s, SizedSpec(s), s.typ \in {"Matmul"}, NEW k, k = s.ops[1].shape[2],
           NEW out, out \in Seq(Nat \ {0}), Len(out) = 2
    PROVE  LET tiles == TileOutTiles(s, out) IN
           /\ IsTiled(tiles, 1) <=> s.ops[1].shape # <<out[1], k>>
           /\ IsTiled(tiles, 2) <=> s.ops[2].shape # <<k, out[2]>>
           /\ IsTiled(tiles, 3) /\ ProductTile(TileFor(tiles, 3), out[1], out[2])
           /\ IsTiled(tiles, 1) => RowsTile(TileFor(tiles, 1), out[1], k)
           /\ IsTiled(tiles, 2) => ColumnsTile(TileFor(tiles, 2), k, out[2])
           /\ \A t \in Range(tiles) :
                 RowsTile(t, out[1], k) \/ ColumnsTile(t, k, out[2]) \/ ProductTile(t, out[1], out[2])
<1> DEFINE tiles == TileOutTiles(s, out)
           tilings == InputTilings(s, SimpleTiling(out))
<1>1. InputCount[s.typ] = 2 /\ OutputIdx(s) = 3 /\ DOMAIN s.ops = 1..3 /\ SizedOps(s.typ, s.ops)
  BY OpsCount, AgreeMeans DEF SizedSpec
<1>2. SpecShape(s)[2] = k
  BY DEF SpecShape
<1>3. /\ DOMAIN tilings = 1..2
      /\ tilings[1].tiling.shape = <<out[1], k>> /\ tilings[1].tiling.steps = <<out[1], k>> /\ tilings[1].axes = <<1, 0>>
      /\ tilings[2].tiling.shape = <<k, out[2]>> /\ tilings[2].tiling.steps = <<k, out[2]>> /\ tilings[2].axes = <<0, 2>>
  BY <1>2 DEF InputTilings, SimpleTiling, SlidingTiling
<1>4. /\ DOMAIN InputAxes(tilings, 2, 1) = 1..2 /\ InputAxes(tilings, 2, 1)[1] = 1 /\ InputAxes(tilings, 2, 1)[2] > 2
      /\ DOMAIN InputAxes(tilings, 2, 2) = 1..2 /\ InputAxes(tilings, 2, 2)[1] > 2 /\ InputAxes(tilings, 2, 2)[2] = 2
  <2> HIDE DEF tilings
  <2>1. \A j \in 1..2 : DOMAIN tilings[j].axes = 1..2
    <3>1. DOMAIN tilings[1].axes = 1..2 /\ DOMAIN tilings[2].axes = 1..2
      BY <1>3
    <3>2. \A j \in 1..2 : j = 1 \/ j = 2
      OBVIOUS
    <3> QED
      BY <3>1, <3>2
  <2>2. \A i \in 1..2 :
           /\ DOMAIN InputAxes(tilings, 2, i) = 1..2
           /\ \A d \in 1..2 : tilings[i].axes[d] # 0 => InputAxes(tilings, 2, i)[d] = tilings[i].axes[d]
           /\ \A d \in 1..2 : tilings[i].axes[d] = 0 => InputAxes(tilings, 2, i)[d] > 2
    BY <1>3, <2>1, InputAxesAre
  <2>3. tilings[1].axes[1] = 1 /\ tilings[1].axes[2] = 0 /\ tilings[2].axes[1] = 0 /\ tilings[2].axes[2] = 2
    BY <1>3
  <2>4. 1 \in 1..2 /\ 2 \in 1..2 /\ 1 # 0 /\ 2 # 0
    OBVIOUS
  <2> QED
    BY <2>2, <2>3, <2>4
<1>5. RowsTile(InputTile(s, out, 1), out[1], k) /\ ColumnsTile(InputTile(s, out, 2), k, out[2])
  BY <1>3, <1>4 DEF InputTile, LoopTile, RowsTile, ColumnsTile
<1>6. ProductTile(OutputTile(s, out), out[1], out[2])
  <2>1. out = <<out[1], out[2]>>
    OBVIOUS
  <2> QED
    BY <1>1, <2>1 DEF OutputTile, LoopTile, SimpleTiling, ProductTile
<1>7. (Cuts(s, out, 1) <=> s.ops[1].shape # <<out[1], k>>) /\ (Cuts(s, out, 2) <=> s.ops[2].shape # <<k, out[2]>>)
  BY <1>3 DEF Cuts
<1>8. /\ IsTiled(tiles, 3) /\ TileFor(tiles, 3) = OutputTile(s, out)
      /\ IsTiled(tiles, 1) <=> Cuts(s, out, 1)
      /\ IsTiled(tiles, 2) <=> Cuts(s, out, 2)
      /\ Cuts(s, out, 1) => TileFor(tiles, 1) = InputTile(s, out, 1)
      /\ Cuts(s, out, 2) => TileFor(tiles, 2) = InputTile(s, out, 2)
  <2>1. DOMAIN InputTilings(s, SimpleTiling(out)) = 1..InputCount[s.typ]
    BY <1>1, <1>3
  <2>2. 1 \in 1..InputCount[s.typ] /\ 2 \in 1..InputCount[s.typ]
    BY <1>1
  <2>3. SizedOps(s.typ, s.ops)
    BY <1>1
  <2>4. /\ IsTiled(TileOutTiles(s, out), OutputIdx(s)) /\ TileFor(TileOutTiles(s, out), OutputIdx(s)) = OutputTile(s, out)
        /\ \A i \in 1..InputCount[s.typ] :
              /\ IsTiled(TileOutTiles(s, out), i) <=> Cuts(s, out, i)
              /\ Cuts(s, out, i) => TileFor(TileOutTiles(s, out), i) = InputTile(s, out, i)
    BY <2>1, <2>3, TileOutTileFor
  <2> QED
    BY <1>1, <2>2, <2>4
<1>9. ASSUME NEW t \in Range(tiles)
      PROVE  RowsTile(t, out[1], k) \/ ColumnsTile(t, k, out[2]) \/ ProductTile(t, out[1], out[2])
  <2>1. t = InputTile(s, out, 1) \/ t = InputTile(s, out, 2) \/ t = OutputTile(s, out)
    <3>1. \A i \in 1..2 : i = 1 \/ i = 2
      OBVIOUS
    <3> QED
      BY <1>9, <3>1, TileOutTilesAre
  <2> QED
    BY <1>5, <1>6, <2>1
<1> HIDE DEF tiles
<1>10. /\ IsTiled(tiles, 1) => RowsTile(TileFor(tiles, 1), out[1], k)
       /\ IsTiled(tiles, 2) => ColumnsTile(TileFor(tiles, 2), k, out[2])
       /\ ProductTile(TileFor(tiles, 3), out[1], out[2])
  BY <1>5, <1>6, <1>8
<1> QED
  BY <1>7, <1>8, <1>9, <1>10 DEF tiles

\* Operands of a matrix product are at the same rows, columns and part of the sums,
\* and at the same of what was squeezed away.
ProductTogether(vs) ==
    /\ vs[1].at[1] = vs[3].at[1] /\ vs[1].at[2] = vs[2].at[1] /\ vs[2].at[2] = vs[3].at[2]
    /\ vs[1].rest = vs[2].rest

\* So its operands stay together: an input without a tile is one that the output's
\* loop has one step along.
LEMMA TileOutMatmulPlaced ==
    ASSUME ViewsSized, ViewsPlaced(spec.ops, views), ProductTogether(views),
           SizedSpec(spec), spec.typ \in {"Matmul"}, NEW out, out \in Seq(Nat \ {0}), Len(out) = 2,
           NEW index \in Indices(TileOutTiles(spec, out))
    PROVE  LET body == BodyViews(TileOutTiles(spec, out), index)
           IN  ViewsPlaced(spec.ops, body) /\ ProductTogether(body)
<1> DEFINE tiles == TileOutTiles(spec, out)
           body == BodyViews(tiles, index)
<1>1. PICK m \in Nat \ {0}, k \in Nat \ {0}, n \in Nat \ {0} : MatmulShapes(spec.ops, m, k, n)
  BY AgreeMatmul DEF SizedSpec
<1>2. DOMAIN spec.ops = 1..3
  BY AgreeMeans DEF SizedSpec
<1>3. /\ spec.ops[1].shape = <<m, k>> /\ spec.ops[2].shape = <<k, n>> /\ spec.ops[3].shape = <<m, n>>
      /\ k = spec.ops[1].shape[2]
  BY <1>1 DEF MatmulShapes
<1>a. out[1] \in Nat \ {0} /\ out[2] \in Nat \ {0}
  <2>1. 1 \in 1..Len(out) /\ 2 \in 1..Len(out)
    OBVIOUS
  <2> QED
    BY <2>1, ElementOfSeq
<1>4. /\ IsTiled(tiles, 1) <=> spec.ops[1].shape # <<out[1], k>>
      /\ IsTiled(tiles, 2) <=> spec.ops[2].shape # <<k, out[2]>>
      /\ IsTiled(tiles, 3) /\ ProductTile(TileFor(tiles, 3), out[1], out[2])
      /\ IsTiled(tiles, 1) => RowsTile(TileFor(tiles, 1), out[1], k)
      /\ IsTiled(tiles, 2) => ColumnsTile(TileFor(tiles, 2), k, out[2])
      /\ \A t \in Range(tiles) :
            RowsTile(t, out[1], k) \/ ColumnsTile(t, k, out[2]) \/ ProductTile(t, out[1], out[2])
  BY <1>3, MatmulTiles
<1> HIDE DEF tiles
<1>5. \A t \in Range(tiles) : TilesTheOperand(t, spec.ops)
  <2>1. \A x \in Nat \ {0}, y \in Nat \ {0} : <<x, y>> \in [1..2 -> Nat \ {0}]
    OBVIOUS
  <2>2. /\ DOMAIN spec.ops[1].shape = 1..2 /\ DOMAIN spec.ops[2].shape = 1..2 /\ DOMAIN spec.ops[3].shape = 1..2
        /\ 1 \in DOMAIN spec.ops /\ 2 \in DOMAIN spec.ops /\ 3 \in DOMAIN spec.ops
    BY <1>2, <1>3
  <2>3. \A t : RowsTile(t, out[1], k) => TilesTheOperand(t, spec.ops)
    <3> SUFFICES ASSUME NEW t, RowsTile(t, out[1], k)
                 PROVE  TilesTheOperand(t, spec.ops)
      OBVIOUS
    <3>1. t.operand = 1 /\ t.tiling.steps = <<out[1], k>> /\ DOMAIN t.axes = 1..2
      BY DEF RowsTile
    <3>2. t.tiling.steps \in [1..2 -> Nat \ {0}]
      BY <1>a, <2>1, <3>1
    <3> QED
      BY <2>2, <3>1, <3>2 DEF TilesTheOperand
  <2>4. \A t : ColumnsTile(t, k, out[2]) => TilesTheOperand(t, spec.ops)
    <3> SUFFICES ASSUME NEW t, ColumnsTile(t, k, out[2])
                 PROVE  TilesTheOperand(t, spec.ops)
      OBVIOUS
    <3>1. t.operand = 2 /\ t.tiling.steps = <<k, out[2]>> /\ DOMAIN t.axes = 1..2
      BY DEF ColumnsTile
    <3>2. t.tiling.steps \in [1..2 -> Nat \ {0}]
      BY <1>a, <2>1, <3>1
    <3> QED
      BY <2>2, <3>1, <3>2 DEF TilesTheOperand
  <2>5. \A t : ProductTile(t, out[1], out[2]) => TilesTheOperand(t, spec.ops)
    <3> SUFFICES ASSUME NEW t, ProductTile(t, out[1], out[2])
                 PROVE  TilesTheOperand(t, spec.ops)
      OBVIOUS
    <3>1. t.operand = 3 /\ t.tiling.steps = <<out[1], out[2]>> /\ DOMAIN t.axes = 1..2
      BY DEF ProductTile
    <3>2. t.tiling.steps \in [1..2 -> Nat \ {0}]
      BY <1>a, <2>1, <3>1
    <3> QED
      BY <2>2, <3>1, <3>2 DEF TilesTheOperand
  <2> QED
    BY <1>4, <2>3, <2>4, <2>5
<1>6. /\ ViewsPlaced(spec.ops, body)
      /\ \A i \in DOMAIN spec.ops :
            /\ body[i].rest = views[i].rest
            /\ ~IsTiled(tiles, i) => body[i].at = views[i].at
            /\ IsTiled(tiles, i) => \A d \in DOMAIN spec.ops[i].shape :
                  body[i].at[d] = views[i].at[d] + Displacement(tiles, index, i, d)
  BY <1>5, BodyPlaced DEF tiles
<1> HIDE DEF body
<1>7. ASSUME NEW t, RowsTile(t, out[1], k) \/ ColumnsTile(t, k, out[2]) \/ ProductTile(t, out[1], out[2])
      PROVE  /\ RowsTile(t, out[1], k) => TileSteps(spec, t, 1) = CeilDiv(m, out[1]) /\ TileSteps(spec, t, 2) = 1
             /\ ColumnsTile(t, k, out[2]) => TileSteps(spec, t, 1) = 1 /\ TileSteps(spec, t, 2) = CeilDiv(n, out[2])
             /\ ProductTile(t, out[1], out[2]) =>
                   TileSteps(spec, t, 1) = CeilDiv(m, out[1]) /\ TileSteps(spec, t, 2) = CeilDiv(n, out[2])
  BY <1>3, OneTile DEF TileSteps, StepsDim, RowsTile, ColumnsTile, ProductTile
<1>8. ASSUME NEW axis, axis \in AxesOf(tiles), axis > 2 \/ (axis = 1 /\ m = out[1]) \/ (axis = 2 /\ n = out[2])
      PROVE  index[axis] = 0
  <2>1. ASSUME NEW j \in DOMAIN tiles, NEW d \in DOMAIN tiles[j].axes, tiles[j].axes[d] = axis
        PROVE  TileSteps(spec, tiles[j], d) = 1
    <3> DEFINE t == tiles[j]
    <3>1. RowsTile(t, out[1], k) \/ ColumnsTile(t, k, out[2]) \/ ProductTile(t, out[1], out[2])
      BY <1>4 DEF Range
    <3> HIDE DEF t
    <3>2. d = 1 \/ d = 2
      <4>1. DOMAIN t.axes = 1..2
        BY <3>1 DEF RowsTile, ColumnsTile, ProductTile
      <4> QED
        BY <2>1, <4>1 DEF t
    <3>3. t.axes[d] = axis
      BY <2>1 DEF t
    <3>4. (m = out[1] => CeilDiv(m, out[1]) = 1) /\ (n = out[2] => CeilDiv(n, out[2]) = 1)
      BY OneTile
    <3>5. TileSteps(spec, t, d) = 1
      <4>1. CASE RowsTile(t, out[1], k)
        BY <4>1, <3>2, <3>3, <3>4, <1>7, <1>8 DEF RowsTile
      <4>2. CASE ColumnsTile(t, k, out[2])
        BY <4>2, <3>2, <3>3, <3>4, <1>7, <1>8 DEF ColumnsTile
      <4>3. CASE ProductTile(t, out[1], out[2])
        BY <4>3, <3>2, <3>3, <3>4, <1>7, <1>8 DEF ProductTile
      <4> QED
        BY <3>1, <4>1, <4>2, <4>3
    <3> QED
      BY <3>5 DEF t
  <2>2. OneStep(tiles, axis)
    BY <2>1 DEF OneStep
  <2> QED
    BY <1>8, <2>2, IndexIs DEF tiles
<1>9. \A i \in 1..3 : IsTiled(tiles, i) => \E j \in DOMAIN tiles : TileFor(tiles, i) = tiles[j]
  BY DEF IsTiled, TileFor
<1>10. ASSUME NEW i \in 1..3, IsTiled(tiles, i), NEW d \in DOMAIN TileFor(tiles, i).axes
       PROVE  TileFor(tiles, i).axes[d] \in AxesOf(tiles)
  BY <1>9, <1>10 DEF AxesOf, Range
<1>11. /\ body[3].at[1] = views[3].at[1] + out[1] * index[1] /\ body[3].at[2] = views[3].at[2] + out[2] * index[2]
       /\ 1 \in AxesOf(tiles) /\ 2 \in AxesOf(tiles)
  BY <1>2, <1>3, <1>4, <1>6, <1>10 DEF Displacement, ProductTile
<1>12. body[1].at[1] = views[1].at[1] + out[1] * index[1] /\ body[1].at[2] = views[1].at[2]
  <2>1. views[1].at[1] \in Nat /\ views[1].at[2] \in Nat
    BY <1>2, <1>3 DEF ViewsPlaced
  <2>2. CASE IsTiled(tiles, 1)
    <3> DEFINE t == TileFor(tiles, 1)
    <3>1. RowsTile(t, out[1], k)
      BY <1>4, <2>2
    <3>2. t.axes[2] \in AxesOf(tiles) /\ t.axes[2] > 2
      BY <1>10, <2>2, <3>1 DEF RowsTile
    <3>3. index[t.axes[2]] = 0
      BY <1>8, <3>2
    <3>4. body[1].at[1] = views[1].at[1] + t.tiling.steps[1] * index[t.axes[1]]
          /\ body[1].at[2] = views[1].at[2] + t.tiling.steps[2] * index[t.axes[2]]
      BY <1>2, <1>3, <1>6, <2>2 DEF Displacement
    <3> HIDE DEF t
    <3> QED
      BY <2>1, <3>1, <3>3, <3>4 DEF RowsTile
  <2>3. CASE ~IsTiled(tiles, 1)
    <3>1. m = out[1]
      BY <1>3, <1>4, <2>3
    <3>2. index[1] = 0
      BY <1>8, <1>11, <3>1
    <3>3. body[1].at = views[1].at
      BY <1>2, <1>6, <2>3
    <3> QED
      BY <1>a, <2>1, <3>2, <3>3
  <2> QED
    BY <2>2, <2>3
<1>13. body[2].at[1] = views[2].at[1] /\ body[2].at[2] = views[2].at[2] + out[2] * index[2]
  <2>1. views[2].at[1] \in Nat /\ views[2].at[2] \in Nat
    BY <1>2, <1>3 DEF ViewsPlaced
  <2>2. CASE IsTiled(tiles, 2)
    <3> DEFINE t == TileFor(tiles, 2)
    <3>1. ColumnsTile(t, k, out[2])
      BY <1>4, <2>2
    <3>2. t.axes[1] \in AxesOf(tiles) /\ t.axes[1] > 2
      BY <1>10, <2>2, <3>1 DEF ColumnsTile
    <3>3. index[t.axes[1]] = 0
      BY <1>8, <3>2
    <3>4. body[2].at[1] = views[2].at[1] + t.tiling.steps[1] * index[t.axes[1]]
          /\ body[2].at[2] = views[2].at[2] + t.tiling.steps[2] * index[t.axes[2]]
      BY <1>2, <1>3, <1>6, <2>2 DEF Displacement
    <3> HIDE DEF t
    <3> QED
      BY <2>1, <3>1, <3>3, <3>4 DEF ColumnsTile
  <2>3. CASE ~IsTiled(tiles, 2)
    <3>1. n = out[2]
      BY <1>3, <1>4, <2>3
    <3>2. index[2] = 0
      BY <1>8, <1>11, <3>1
    <3>3. body[2].at = views[2].at
      BY <1>2, <1>6, <2>3
    <3> QED
      BY <1>a, <2>1, <3>2, <3>3
  <2> QED
    BY <2>2, <2>3
<1>14. body[1].rest = views[1].rest /\ body[2].rest = views[2].rest
  BY <1>2, <1>6
<1>15. ProductTogether(body)
  BY <1>11, <1>12, <1>13, <1>14 DEF ProductTogether
<1> QED
  BY <1>6, <1>15 DEF body, tiles

-----------------------------------------------------------------------------
(* The other loops.                                                        *)

\* A Move's operands are tiled alike.
LEMMA TileOutElementwisePlaced ==
    ASSUME ViewsSized, ViewsPlaced(spec.ops, views),
           SizedSpec(spec), spec.typ \in {"Zero", "Move"}, NEW out, out \in Seq(Nat \ {0}),
           DOMAIN out = DOMAIN Output(spec).shape, out # Output(spec).shape,
           NEW index \in Indices(TileOutTiles(spec, out))
    PROVE  LET body == BodyViews(TileOutTiles(spec, out), index)
           IN  /\ ViewsPlaced(spec.ops, body)
               /\ spec.typ = "Move" /\ views[1].at = views[2].at => body[1].at = body[2].at
<1> DEFINE tiles == TileOutTiles(spec, out)
           tilings == InputTilings(spec, SimpleTiling(out))
           body == BodyViews(tiles, index)
<1>0. SizedOps(spec.typ, spec.ops) /\ ShapesAgree(spec)
  BY DEF SizedSpec
<1>1. /\ OutputIdx(spec) \in DOMAIN spec.ops /\ DOMAIN spec.ops = 1..OutputIdx(spec)
      /\ OutputIdx(spec) = InputCount[spec.typ] + 1 /\ InputCount[spec.typ] \in {0, 1}
      /\ spec.typ = "Move" => InputCount[spec.typ] = 1 /\ OutputIdx(spec) = 2
      /\ spec.typ = "Zero" => InputCount[spec.typ] = 0 /\ OutputIdx(spec) = 1
  <2>1. /\ OutputIdx(spec) \in DOMAIN spec.ops /\ DOMAIN spec.ops = 1..OutputIdx(spec)
        /\ OutputIdx(spec) = InputCount[spec.typ] + 1
    BY <1>0, OpsCount DEF SizedOps
  <2>2. (spec.typ = "Move" => InputCount[spec.typ] = 1) /\ (spec.typ = "Zero" => InputCount[spec.typ] = 0)
    BY DEF InputCount
  <2>3. spec.typ = "Move" \/ spec.typ = "Zero"
    OBVIOUS
  <2> QED
    BY <2>1, <2>2, <2>3
<1>2. \A i \in DOMAIN spec.ops : spec.ops[i].shape = Output(spec).shape
  <2>1. \A i \in DOMAIN spec.ops : spec.ops[i].shape = spec.ops[1].shape
    BY <1>0, AgreeElementwise
  <2> QED
    BY <1>1, <2>1 DEF Output
<1>3. PICK r \in Nat : r = Len(out) /\ DOMAIN out = 1..r /\ out \in [1..r -> Nat \ {0}]
  OBVIOUS
<1>4. /\ spec.typ = "Zero" => DOMAIN tilings = {}
      /\ spec.typ = "Move" => /\ DOMAIN tilings = 1..1 /\ tilings[1].axes = [d \in 1..r |-> d]
                              /\ tilings[1].tiling.shape = out /\ tilings[1].tiling.steps = out
  BY <1>3 DEF InputTilings, SimpleTiling, SlidingTiling
<1>5. DOMAIN tilings = 1..InputCount[spec.typ]
  <2>1. 1..0 = {}
    OBVIOUS
  <2>2. spec.typ = "Move" \/ spec.typ = "Zero"
    OBVIOUS
  <2> HIDE DEF tilings
  <2> QED
    BY <1>1, <1>4, <2>1, <2>2
<1>6. ASSUME spec.typ = "Move"
      PROVE  /\ InputTile(spec, out, 1).operand = 1 /\ InputTile(spec, out, 1).tiling.steps = out
             /\ InputTile(spec, out, 1).axes = [d \in 1..r |-> d]
             /\ Cuts(spec, out, 1)
  <2>1. DOMAIN InputAxes(tilings, r, 1) = 1..r /\ \A d \in 1..r : InputAxes(tilings, r, 1)[d] = d
    <3>1. \A j \in 1..1 : DOMAIN tilings[j].axes = 1..r
      BY <1>4, <1>6
    <3>2. 1 \in 1..1 /\ \A d \in 1..r : tilings[1].axes[d] = d /\ d # 0
      BY <1>3, <1>4, <1>6
    <3>3. DOMAIN tilings = 1..1 /\ 1 \in Nat
      BY <1>4, <1>6
    <3> HIDE DEF tilings
    <3>5. \A n \in Nat : n = 1 => DOMAIN tilings = 1..n /\ 1 \in 1..n /\ \A j \in 1..n : DOMAIN tilings[j].axes = 1..r
      BY <3>1, <3>3
    <3>4. /\ DOMAIN InputAxes(tilings, r, 1) = 1..r
          /\ \A d \in 1..r : tilings[1].axes[d] # 0 => InputAxes(tilings, r, 1)[d] = tilings[1].axes[d]
      <4>1. PICK n \in Nat : n = 1
        OBVIOUS
      <4> QED
        BY <1>3, <3>5, <4>1, InputAxesAre
    <3> QED
      BY <3>2, <3>4
  <2>2. InputAxes(tilings, r, 1) = [d \in 1..r |-> d]
    <3>1. InputAxes(tilings, r, 1) = [d \in DOMAIN tilings[1].axes |-> InputAxes(tilings, r, 1)[d]]
      BY DEF InputAxes
    <3>2. DOMAIN tilings[1].axes = 1..r
      BY <1>4, <1>6
    <3> HIDE DEF tilings
    <3> QED
      BY <2>1, <3>1, <3>2
  <2>3. Cuts(spec, out, 1)
    <3>1. 1 \in 1..2 /\ 1 \in 1..1
      OBVIOUS
    <3>2. 1 \in DOMAIN spec.ops
      BY <1>1, <1>6, <3>1
    <3>3. spec.ops[1].shape # out
      BY <1>2, <3>2
    <3>4. DOMAIN tilings = 1..1 /\ tilings[1].tiling.shape = out
      BY <1>4, <1>6
    <3> QED
      BY <3>1, <3>3, <3>4 DEF Cuts
  <2> QED
    BY <1>3, <1>4, <1>6, <2>2, <2>3 DEF InputTile, LoopTile
<1>7. /\ OutputTile(spec, out).operand = OutputIdx(spec) /\ OutputTile(spec, out).tiling.steps = out
      /\ OutputTile(spec, out).axes = [d \in 1..r |-> d]
  BY <1>3 DEF OutputTile, LoopTile, SimpleTiling
<1>8. /\ IsTiled(tiles, OutputIdx(spec)) /\ TileFor(tiles, OutputIdx(spec)) = OutputTile(spec, out)
      /\ \A i \in 1..InputCount[spec.typ] :
            /\ IsTiled(tiles, i) <=> Cuts(spec, out, i)
            /\ Cuts(spec, out, i) => TileFor(tiles, i) = InputTile(spec, out, i)
  <2>1. DOMAIN InputTilings(spec, SimpleTiling(out)) = 1..InputCount[spec.typ]
    BY <1>5
  <2> QED
    BY <1>0, <2>1, TileOutTileFor
<1>9. \A t \in Range(tiles) : TilesTheOperand(t, spec.ops)
  <2>1. TilesTheOperand(OutputTile(spec, out), spec.ops)
    <3>1. DOMAIN spec.ops[OutputIdx(spec)].shape = 1..r
      BY <1>1, <1>2, <1>3
    <3> QED
      BY <1>1, <1>3, <1>7, <3>1 DEF TilesTheOperand
  <2>2. spec.typ = "Move" => TilesTheOperand(InputTile(spec, out, 1), spec.ops)
    <3>1. spec.typ = "Move" => 1 \in DOMAIN spec.ops /\ DOMAIN spec.ops[1].shape = 1..r
      <4>1. 1 \in 1..2
        OBVIOUS
      <4>2. spec.typ = "Move" => 1 \in DOMAIN spec.ops
        BY <1>1, <4>1
      <4> QED
        BY <1>2, <1>3, <4>2
    <3> QED
      BY <1>1, <1>3, <1>6, <3>1 DEF TilesTheOperand
  <2>3. \A i : Cuts(spec, out, i) => spec.typ = "Move" /\ i = 1
    BY <1>4 DEF Cuts
  <2>4. \A t \in Range(tiles) : t = OutputTile(spec, out) \/ (spec.typ = "Move" /\ t = InputTile(spec, out, 1))
    BY <2>3, TileOutTilesAre
  <2> QED
    BY <2>1, <2>2, <2>4
<1> HIDE DEF tiles
<1>10. /\ ViewsPlaced(spec.ops, body)
       /\ \A i \in DOMAIN spec.ops :
             IsTiled(tiles, i) => \A d \in DOMAIN spec.ops[i].shape :
                body[i].at[d] = views[i].at[d] + Displacement(tiles, index, i, d)
  BY <1>9, BodyPlaced DEF tiles
<1> HIDE DEF body
<1>11. ASSUME spec.typ = "Move", views[1].at = views[2].at
       PROVE  body[1].at = body[2].at
  <2>1. /\ 1 \in DOMAIN spec.ops /\ 2 \in DOMAIN spec.ops /\ IsTiled(tiles, 1) /\ IsTiled(tiles, 2)
        /\ TileFor(tiles, 1) = InputTile(spec, out, 1) /\ TileFor(tiles, 2) = OutputTile(spec, out)
    BY <1>1, <1>6, <1>8, <1>11
  <2>2. \A d \in 1..r : Displacement(tiles, index, 1, d) = Displacement(tiles, index, 2, d)
    BY <1>6, <1>7, <1>11, <2>1 DEF Displacement
  <2>3. DOMAIN spec.ops[1].shape = 1..r /\ DOMAIN spec.ops[2].shape = 1..r
    BY <1>2, <1>3, <2>1
  <2>4. \A d \in 1..r : body[1].at[d] = body[2].at[d]
    BY <1>10, <1>11, <2>1, <2>2, <2>3
  <2>5. body[1].at \in [1..r -> Nat] /\ body[2].at \in [1..r -> Nat]
    BY <1>10, <2>1, <2>3 DEF ViewsPlaced
  <2>6. ASSUME NEW f \in [1..r -> Nat], NEW g \in [1..r -> Nat], \A d \in 1..r : f[d] = g[d]
        PROVE  f = g
    BY <2>6
  <2> QED
    BY <2>4, <2>5, <2>6
<1> QED
  BY <1>10, <1>11 DEF body, tiles

\* A Split goes along what is summed over, in both inputs at once.
LEMMA SplitPlaced ==
    ASSUME ViewsSized, ViewsPlaced(spec.ops, views), ProductTogether(views),
           SizedSpec(spec), spec.typ \in {"Matmul"}, NEW j \in Nat \ {0},
           NEW index \in Indices(SplitTiles(spec, j))
    PROVE  LET body == BodyViews(SplitTiles(spec, j), index)
           IN  ViewsPlaced(spec.ops, body) /\ ProductTogether(body)
<1> DEFINE tiles == SplitTiles(spec, j)
           body == BodyViews(tiles, index)
<1>1. PICK m \in Nat \ {0}, k \in Nat \ {0}, n \in Nat \ {0} : MatmulShapes(spec.ops, m, k, n)
  BY AgreeMatmul DEF SizedSpec
<1>2. DOMAIN spec.ops = 1..3
  BY AgreeMeans DEF SizedSpec
<1>3. spec.ops[1].shape = <<m, k>> /\ spec.ops[2].shape = <<k, n>> /\ spec.ops[3].shape = <<m, n>>
  BY <1>1 DEF MatmulShapes
<1>4. /\ DOMAIN tiles = 1..2 /\ tiles[1].operand = 1 /\ tiles[2].operand = 2
      /\ tiles[1].tiling.steps = <<m, j>> /\ tiles[2].tiling.steps = <<j, n>>
      /\ tiles[1].axes = <<1, 2>> /\ tiles[2].axes = <<2, 3>>
  BY <1>3 DEF SplitTiles, LoopTile, SimpleTiling
<1> HIDE DEF tiles
<1>5. \A t \in Range(tiles) : TilesTheOperand(t, spec.ops)
  <2>1. <<m, j>> \in [1..2 -> Nat \ {0}] /\ <<j, n>> \in [1..2 -> Nat \ {0}]
    OBVIOUS
  <2>2. \A t \in Range(tiles) : t = tiles[1] \/ t = tiles[2]
    <3>1. \A x \in 1..2 : x = 1 \/ x = 2
      OBVIOUS
    <3> QED
      BY <1>4, <3>1 DEF Range
  <2>3. TilesTheOperand(tiles[1], spec.ops) /\ TilesTheOperand(tiles[2], spec.ops)
    BY <1>2, <1>3, <1>4, <2>1 DEF TilesTheOperand
  <2> QED
    BY <2>2, <2>3
<1>6. /\ ViewsPlaced(spec.ops, body)
      /\ \A i \in DOMAIN spec.ops :
            /\ body[i].rest = views[i].rest
            /\ ~IsTiled(tiles, i) => body[i].at = views[i].at
            /\ IsTiled(tiles, i) => \A d \in DOMAIN spec.ops[i].shape :
                  body[i].at[d] = views[i].at[d] + Displacement(tiles, index, i, d)
  BY <1>5, BodyPlaced DEF tiles
<1> HIDE DEF body
<1>7. /\ IsTiled(tiles, 1) /\ IsTiled(tiles, 2) /\ ~IsTiled(tiles, 3)
      /\ TileFor(tiles, 1) = tiles[1] /\ TileFor(tiles, 2) = tiles[2]
  BY <1>4, TwoTiles
<1>8. index[1] = 0 /\ index[3] = 0
  <2>1. 1 \in AxesOf(tiles) /\ 3 \in AxesOf(tiles)
    <3>1. 1 \in Range(tiles[1].axes) /\ 3 \in Range(tiles[2].axes)
      BY <1>4 DEF Range
    <3> QED
      BY <1>4, <3>1 DEF AxesOf
  <2>2. TileSteps(spec, tiles[1], 1) = 1 /\ TileSteps(spec, tiles[2], 2) = 1
    BY <1>3, <1>4, OneTile DEF TileSteps, StepsDim
  <2>3. \A x \in DOMAIN tiles : x = 1 \/ x = 2
    BY <1>4
  <2>4. \A x \in DOMAIN tiles : \A d \in DOMAIN tiles[x].axes : d = 1 \/ d = 2
    BY <1>4, <2>3
  <2>5. OneStep(tiles, 1) /\ OneStep(tiles, 3)
    BY <1>4, <2>2, <2>3, <2>4 DEF OneStep
  <2> QED
    BY <2>1, <2>5, IndexIs DEF tiles
<1>9. /\ body[1].at[1] = views[1].at[1] + m * index[1] /\ body[1].at[2] = views[1].at[2] + j * index[2]
      /\ body[2].at[1] = views[2].at[1] + j * index[2] /\ body[2].at[2] = views[2].at[2] + n * index[3]
      /\ body[3].at = views[3].at
      /\ body[1].rest = views[1].rest /\ body[2].rest = views[2].rest
  BY <1>2, <1>3, <1>4, <1>6, <1>7 DEF Displacement
<1>10. views[1].at[1] \in Nat /\ views[2].at[2] \in Nat
  BY <1>2, <1>3 DEF ViewsPlaced
<1>11. body[1].at[1] = views[1].at[1] /\ body[2].at[2] = views[2].at[2]
  BY <1>8, <1>9, <1>10
<1>12. ProductTogether(body)
  BY <1>9, <1>11 DEF ProductTogether
<1> QED
  BY <1>6, <1>12 DEF body, tiles

-----------------------------------------------------------------------------
(* From a convolution to a matrix product.                                 *)

\* A view over a matrix.
MatrixView(v) == v.at \in [1..2 -> Nat] /\ v.dims \in [1..2 -> DOMAIN v.org]

\* The two parts of four coordinates.
LEMMA FirstTwo ==
    ASSUME NEW S, NEW f, f \in [1..4 -> S]
    PROVE  /\ SubSeq(f, 1, 2) \in [1..2 -> S] /\ SubSeq(f, 1, 2)[1] = f[1] /\ SubSeq(f, 1, 2)[2] = f[2]
           /\ SubSeq(f, 3, Len(f)) = <<f[3], f[4]>>
<1>1. f \in Seq(S)
  BY SeqDef
<1>2. Len(f) = 4
  BY <1>1, LenProperties
<1>3. /\ SubSeq(f, 1, 2) \in Seq(S) /\ Len(SubSeq(f, 1, 2)) = 2
      /\ SubSeq(f, 1, 2)[1] = f[1] /\ SubSeq(f, 1, 2)[2] = f[2]
  BY <1>1, <1>2, SubSeqProperties
<1>4. /\ SubSeq(f, 3, 4) \in Seq(S) /\ Len(SubSeq(f, 3, 4)) = 2
      /\ SubSeq(f, 3, 4)[1] = f[3] /\ SubSeq(f, 3, 4)[2] = f[4]
  BY <1>1, <1>2, SubSeqProperties
<1>5. ASSUME NEW g, g \in Seq(S), Len(g) = 2
      PROVE  g \in [1..2 -> S] /\ g = <<g[1], g[2]>>
  <2>1. g \in [1..2 -> S]
    BY <1>5, LenProperties
  <2> QED
    BY <2>1
<1> QED
  BY <1>2, <1>3, <1>4, <1>5

\* Two coordinates, the other way around.
LEMMA TwoReversed ==
    ASSUME NEW S, NEW f, f \in [1..2 -> S]
    PROVE  Reverse(f) \in [1..2 -> S] /\ Reverse(f)[1] = f[2] /\ Reverse(f)[2] = f[1]
<1>1. Len(f) = 2
  OBVIOUS
<1>2. Reverse(f) = [i \in 1..2 |-> f[(2 - i) + 1]]
  BY <1>1 DEF Reverse
<1> QED
  BY <1>2

\* Squeezing keeps the channels, and puts the pixel aside.
LEMMA SqueezedView ==
    ASSUME NEW v, DOMAIN v = ViewFields, v.at \in [1..4 -> Nat], v.dims \in [1..4 -> DOMAIN v.org]
    PROVE  LET w == SqueezeView(v) IN
           /\ DOMAIN w = ViewFields /\ MatrixView(w)
           /\ w.at[1] = v.at[1] /\ w.at[2] = v.at[2] /\ w.rest = <<v.at[3], v.at[4]>>
<1> DEFINE w == SqueezeView(v)
<1>1. /\ DOMAIN w = ViewFields /\ w.org = v.org
      /\ w.at = SubSeq(v.at, 1, 2) /\ w.dims = SubSeq(v.dims, 1, 2) /\ w.rest = SubSeq(v.at, 3, Len(v.at))
  BY DEF SqueezeView, ViewFields
<1>2. /\ SubSeq(v.at, 1, 2) \in [1..2 -> Nat] /\ SubSeq(v.at, 1, 2)[1] = v.at[1] /\ SubSeq(v.at, 1, 2)[2] = v.at[2]
      /\ SubSeq(v.at, 3, Len(v.at)) = <<v.at[3], v.at[4]>>
  BY FirstTwo
<1>3. SubSeq(v.dims, 1, 2) \in [1..2 -> DOMAIN v.org]
  BY FirstTwo
<1> HIDE DEF w
<1>4. MatrixView(w) /\ w.at[1] = v.at[1] /\ w.at[2] = v.at[2] /\ w.rest = <<v.at[3], v.at[4]>>
  BY <1>1, <1>2, <1>3 DEF MatrixView
<1> QED
  BY <1>1, <1>4 DEF w

\* Transposing turns the channels around.
LEMMA TransposedView ==
    ASSUME NEW v, DOMAIN v = ViewFields, MatrixView(v)
    PROVE  LET w == TransposeView(v) IN
           /\ DOMAIN w = ViewFields /\ MatrixView(w)
           /\ w.at[1] = v.at[2] /\ w.at[2] = v.at[1] /\ w.rest = v.rest
<1> DEFINE w == TransposeView(v)
<1>1. /\ DOMAIN w = ViewFields /\ w.org = v.org /\ w.rest = v.rest
      /\ w.at = Reverse(v.at) /\ w.dims = Reverse(v.dims)
  BY DEF TransposeView, ViewFields
<1>2. v.at \in [1..2 -> Nat] /\ v.dims \in [1..2 -> DOMAIN v.org]
  BY DEF MatrixView
<1>3. Reverse(v.at) \in [1..2 -> Nat] /\ Reverse(v.at)[1] = v.at[2] /\ Reverse(v.at)[2] = v.at[1]
  BY <1>2, TwoReversed
<1>4. Reverse(v.dims) \in [1..2 -> DOMAIN v.org]
  BY <1>2, TwoReversed
<1> HIDE DEF w
<1>5. MatrixView(w) /\ w.at[1] = v.at[2] /\ w.at[2] = v.at[1]
  BY <1>1, <1>3, <1>4 DEF MatrixView
<1> QED
  BY <1>1, <1>5 DEF w

\* A SpatialSplit's image and filters are at one pixel, whose channels they take whole.
LEMMA SpatialPlaced ==
    ASSUME ViewsSized, ViewsPlaced(spec.ops, views), SizedSpec(spec), spec.typ \in {"Conv"},
           \A i \in 1..3 : \A d \in 1..4 : views[i].at[d] = 0, NEW index \in Indices(SpatialTiles(spec))
    PROVE  LET body == BodyViews(SpatialTiles(spec), index)
               vs == <<SqueezeView(body[1]), TransposeView(SqueezeView(body[2])), SqueezeView(body[3])>>
           IN  MatrixView(vs[1]) /\ MatrixView(vs[2]) /\ MatrixView(vs[3]) /\ ProductTogether(vs)
<1> DEFINE tiles == SpatialTiles(spec)
           body == BodyViews(tiles, index)
<1>1. PICK b \in Nat \ {0}, f \in Nat \ {0}, e \in Nat \ {0}, h \in Nat \ {0}, w \in Nat \ {0},
           y \in Nat \ {0}, x \in Nat \ {0} : ConvShapes(spec.ops, b, f, e, h, w, y, x)
  BY AgreeConv DEF SizedSpec
<1>2. DOMAIN spec.ops = 1..3
  BY AgreeMeans DEF SizedSpec
<1>3. /\ spec.ops[1].shape = <<b, e, h, w>> /\ spec.ops[2].shape = <<f, e, y, x>>
      /\ DOMAIN spec.ops[3].shape = 1..4
  BY <1>1 DEF ConvShapes
<1>4. /\ DOMAIN tiles = 1..2 /\ tiles[1].operand = 1 /\ tiles[2].operand = 2
      /\ tiles[1].tiling.steps = <<b, e, 1, 1>> /\ tiles[2].tiling.steps = <<f, e, 1, 1>>
      /\ tiles[1].axes = <<8, 9, 1, 2>> /\ tiles[2].axes = <<10, 9, 1, 2>>
  <2>1. /\ DOMAIN tiles = 1..2 /\ tiles[1].operand = 1 /\ tiles[2].operand = 2
        /\ tiles[1].axes = <<8, 9, 1, 2>> /\ tiles[2].axes = <<10, 9, 1, 2>>
    BY DEF SpatialTiles, LoopTile
  <2>2. /\ tiles[1].tiling.steps = [d \in 1..4 |-> IF d <= 2 THEN spec.ops[1].shape[d] ELSE 1]
        /\ tiles[2].tiling.steps = [d \in 1..4 |-> IF d <= 2 THEN spec.ops[2].shape[d] ELSE 1]
    BY DEF SpatialTiles, LoopTile, SimpleTiling
  <2>3. /\ [d \in 1..4 |-> IF d <= 2 THEN spec.ops[1].shape[d] ELSE 1] = <<b, e, 1, 1>>
        /\ [d \in 1..4 |-> IF d <= 2 THEN spec.ops[2].shape[d] ELSE 1] = <<f, e, 1, 1>>
    BY <1>3
  <2> QED
    BY <2>1, <2>2, <2>3
<1> HIDE DEF tiles
<1>5. \A t \in Range(tiles) : TilesTheOperand(t, spec.ops)
  <2>1. <<b, e, 1, 1>> \in [1..4 -> Nat \ {0}] /\ <<f, e, 1, 1>> \in [1..4 -> Nat \ {0}]
    OBVIOUS
  <2>2. \A t \in Range(tiles) : t = tiles[1] \/ t = tiles[2]
    <3>1. \A j \in 1..2 : j = 1 \/ j = 2
      OBVIOUS
    <3> QED
      BY <1>4, <3>1 DEF Range
  <2>3. TilesTheOperand(tiles[1], spec.ops) /\ TilesTheOperand(tiles[2], spec.ops)
    BY <1>2, <1>3, <1>4, <2>1 DEF TilesTheOperand
  <2> QED
    BY <2>2, <2>3
<1>6. /\ ViewsPlaced(spec.ops, body)
      /\ \A i \in DOMAIN spec.ops :
            /\ ~IsTiled(tiles, i) => body[i].at = views[i].at
            /\ IsTiled(tiles, i) => \A d \in DOMAIN spec.ops[i].shape :
                  body[i].at[d] = views[i].at[d] + Displacement(tiles, index, i, d)
  BY <1>5, BodyPlaced DEF tiles
<1>7. /\ IsTiled(tiles, 1) /\ IsTiled(tiles, 2) /\ ~IsTiled(tiles, 3)
      /\ TileFor(tiles, 1) = tiles[1] /\ TileFor(tiles, 2) = tiles[2]
  BY <1>4, TwoTiles
<1>8. \A j \in 1..4 : j = 1 \/ j = 2 \/ j = 3 \/ j = 4
  OBVIOUS
<1>9. index[8] = 0 /\ index[9] = 0 /\ index[10] = 0 /\ index[1] \in Nat /\ index[2] \in Nat
  <2>1. 8 \in AxesOf(tiles) /\ 9 \in AxesOf(tiles) /\ 10 \in AxesOf(tiles) /\ 1 \in AxesOf(tiles) /\ 2 \in AxesOf(tiles)
    <3>1. {8, 9, 1, 2} \subseteq Range(tiles[1].axes) /\ 10 \in Range(tiles[2].axes)
      BY <1>4 DEF Range
    <3> QED
      BY <1>4, <3>1 DEF AxesOf
  <2>2. /\ TileSteps(spec, tiles[1], 1) = 1 /\ TileSteps(spec, tiles[1], 2) = 1
        /\ TileSteps(spec, tiles[2], 1) = 1 /\ TileSteps(spec, tiles[2], 2) = 1
    BY <1>3, <1>4, OneTile DEF TileSteps, StepsDim
  <2>3. \A j \in DOMAIN tiles : j = 1 \/ j = 2
    BY <1>4
  <2>4. \A j \in DOMAIN tiles : \A d \in DOMAIN tiles[j].axes : d = 1 \/ d = 2 \/ d = 3 \/ d = 4
    BY <1>4, <1>8, <2>3
  <2>5. ASSUME NEW axis \in {8, 9, 10}
        PROVE  OneStep(tiles, axis)
    <3>1. SUFFICES ASSUME NEW j \in DOMAIN tiles, NEW d \in DOMAIN tiles[j].axes, tiles[j].axes[d] = axis
                   PROVE  TileSteps(spec, tiles[j], d) = 1
      BY DEF OneStep
    <3>2. tiles[j].axes[d] # 1 /\ tiles[j].axes[d] # 2
      BY <3>1
    <3>3. d = 1 \/ d = 2
      BY <1>4, <2>3, <2>4, <3>2
    <3> QED
      BY <2>2, <2>3, <3>3
  <2>6. OneStep(tiles, 8) /\ OneStep(tiles, 9) /\ OneStep(tiles, 10)
    BY <2>5
  <2> QED
    BY <2>1, <2>6, IndexIs DEF tiles
<1>10. /\ DOMAIN body[1] = ViewFields /\ DOMAIN body[2] = ViewFields /\ DOMAIN body[3] = ViewFields
  <2>1. \A i \in DOMAIN spec.ops : Carries(views[i], body[i])
    BY BodyViewsCarry
  <2> QED
    BY <1>2, <2>1 DEF Carries
<1> HIDE DEF body
<1>11. /\ body[1].at \in [1..4 -> Nat] /\ body[1].dims \in [1..4 -> DOMAIN body[1].org]
       /\ body[2].at \in [1..4 -> Nat] /\ body[2].dims \in [1..4 -> DOMAIN body[2].org]
       /\ body[3].at \in [1..4 -> Nat] /\ body[3].dims \in [1..4 -> DOMAIN body[3].org]
  <2>1. DOMAIN spec.ops[1].shape = 1..4 /\ DOMAIN spec.ops[2].shape = 1..4 /\ DOMAIN spec.ops[3].shape = 1..4
    BY <1>3
  <2>2. 1 \in DOMAIN spec.ops /\ 2 \in DOMAIN spec.ops /\ 3 \in DOMAIN spec.ops
    BY <1>2
  <2> QED
    BY <1>6, <2>1, <2>2 DEF ViewsPlaced
<1>12. /\ body[1].at[1] = 0 /\ body[1].at[2] = 0 /\ body[1].at[3] = index[1] /\ body[1].at[4] = index[2]
       /\ body[2].at[1] = 0 /\ body[2].at[2] = 0 /\ body[2].at[3] = index[1] /\ body[2].at[4] = index[2]
       /\ body[3].at[1] = 0 /\ body[3].at[2] = 0
  <2>1. ASSUME NEW d \in 1..4
        PROVE  /\ body[1].at[d] = 0 + tiles[1].tiling.steps[d] * index[tiles[1].axes[d]]
               /\ body[2].at[d] = 0 + tiles[2].tiling.steps[d] * index[tiles[2].axes[d]]
    BY <1>2, <1>3, <1>6, <1>7 DEF Displacement
  <2>2. body[3].at = views[3].at
    BY <1>2, <1>6, <1>7
  <2>3. /\ body[1].at[1] = 0 + b * index[8] /\ body[1].at[2] = 0 + e * index[9]
        /\ body[1].at[3] = 0 + 1 * index[1] /\ body[1].at[4] = 0 + 1 * index[2]
        /\ body[2].at[1] = 0 + f * index[10] /\ body[2].at[2] = 0 + e * index[9]
        /\ body[2].at[3] = 0 + 1 * index[1] /\ body[2].at[4] = 0 + 1 * index[2]
    BY <1>4, <2>1
  <2> QED
    BY <1>9, <2>2, <2>3
<1> DEFINE vs == <<SqueezeView(body[1]), TransposeView(SqueezeView(body[2])), SqueezeView(body[3])>>
<1>13. /\ MatrixView(vs[1]) /\ vs[1].at[1] = 0 /\ vs[1].at[2] = 0 /\ vs[1].rest = <<index[1], index[2]>>
  BY <1>10, <1>11, <1>12, SqueezedView
<1>14. /\ MatrixView(vs[3]) /\ vs[3].at[1] = 0 /\ vs[3].at[2] = 0
  BY <1>10, <1>11, <1>12, SqueezedView
<1>15. /\ MatrixView(vs[2]) /\ vs[2].at[1] = 0 /\ vs[2].at[2] = 0 /\ vs[2].rest = <<index[1], index[2]>>
  <2> DEFINE v == SqueezeView(body[2])
  <2>1. /\ DOMAIN v = ViewFields /\ MatrixView(v) /\ v.at[1] = 0 /\ v.at[2] = 0 /\ v.rest = <<index[1], index[2]>>
    BY <1>10, <1>11, <1>12, SqueezedView
  <2>2. vs[2] = TransposeView(v)
    OBVIOUS
  <2> HIDE DEF v, vs
  <2> QED
    BY <2>1, <2>2, TransposedView
<1> HIDE DEF vs
<1>16. ProductTogether(vs)
  BY <1>13, <1>14, <1>15 DEF ProductTogether
<1> QED
  BY <1>13, <1>14, <1>15, <1>16 DEF vs, body, tiles

-----------------------------------------------------------------------------
(* Moves and accumulation: the parts are where the whole was.              *)

\* Each operand of a part has the shape of the operand it is or stands for.
ShapesFrom(s, source, c) ==
    \A i \in DOMAIN c.from :
        /\ c.from[i] = 0 => c.spec.ops[i].shape = s.ops[source].shape
        /\ c.from[i] # 0 => c.from[i] \in DOMAIN s.ops /\ c.spec.ops[i].shape = s.ops[c.from[i]].shape

\* A part has the shapes it is made of.
LEMMA SubShapes ==
    ASSUME NEW s, SizedSpec(s), NEW a, NEW part, NEW typ, NEW accum, NEW ops, NEW from, SizedOps(typ, ops)
    PROVE  LET c == SubOf(s, a, part, typ, accum, ops, from)
           IN  c.from = from /\ \A i \in DOMAIN ops : c.spec.ops[i].shape = ops[i].shape
<1> DEFINE u == Lowered(s, a, typ, accum, ops)
           c == SubOf(s, a, part, typ, accum, ops, from)
<1>1. u.typ = typ /\ u.ops = ops
  BY DEF SizedSpec, SpecFields, Lowered
<1>2. DOMAIN u = SpecFields
  BY DEF SizedSpec, SpecFields, Lowered
<1>3. c.from = from /\ c.spec = CanonicalSpec(u)
  BY DEF SubOf, Child
<1> HIDE DEF u, c
<1>4. c.spec.ops = CanonicalOps(typ, ops)
  BY <1>1, <1>2, <1>3 DEF CanonicalSpec, SpecFields
<1>5. PICK n \in Nat : DOMAIN ops = 1..n /\ \A i \in 1..n : Sized(ops[i])
  <2>1. PICK n \in 1..3 : DOMAIN ops = 1..n
    BY OpsDomain
  <2>2. n \in Nat /\ \A i \in DOMAIN ops : Sized(ops[i])
    BY DEF SizedOps
  <2> QED
    BY <2>1, <2>2
<1>6. \A i \in 1..n : Alike(ops[i], CanonicalOps(typ, ops)[i])
  BY <1>5, CanonicalOpsAlike
<1>7. \A i \in DOMAIN ops : c.spec.ops[i].shape = ops[i].shape
  BY <1>4, <1>5, <1>6 DEF Alike
<1> QED
  BY <1>3, <1>7 DEF c

\* What a move introduces has the shape of what it moves.
LEMMA MoveShapes ==
    ASSUME NEW s, SizedSpec(s), NEW a \in MoveActions(s), NEW c \in Range(MoveLet(s, a).children)
    PROVE  ShapesFrom(s, a.source, c)
<1> DEFINE m == MovedOperand(s, a)
           t == s.ops[a.source]
<1>1. a.source \in DOMAIN s.ops /\ Sized(t) /\ Sized(m) /\ m.shape = t.shape
  BY MovedIs
<1>2. PICK n \in 1..3 : DOMAIN s.ops = 1..n
  BY OpsDomain DEF SizedSpec
<1>3. a.source # 0 /\ \A i \in 1..2 : i = 1 \/ i = 2
  BY <1>1, <1>2
<1> HIDE DEF m, t
<1>4. SizedOps("Move", <<t, m>>) /\ SizedOps("Move", <<m, t>>)
  BY <1>1 DEF SizedOps, InputCount
<1>5. CASE c = PrologueOf(s, a)
  <2>1. PICK ops, from : ops = <<t, m>> /\ from = <<a.source, 0>>
    OBVIOUS
  <2>0. PICK no \in BOOLEAN : no = FALSE
    OBVIOUS
  <2>2. c = SubOf(s, a, "prologue", "Move", no, ops, from)
    BY <1>5, <2>0, <2>1 DEF PrologueOf, t, m
  <2>3. SizedOps("Move", ops)
    BY <1>4, <2>1
  <2>4. c.from = from /\ \A i \in DOMAIN ops : c.spec.ops[i].shape = ops[i].shape
    BY <2>2, <2>3, SubShapes
  <2>5. DOMAIN from = 1..2 /\ DOMAIN ops = 1..2 /\ ops[1] = t /\ ops[2] = m /\ from[1] = a.source /\ from[2] = 0
    BY <2>1
  <2> QED
    BY <1>1, <1>3, <2>4, <2>5 DEF ShapesFrom, t
<1>6. CASE c = EpilogueOf(s, a)
  <2>1. PICK ops, from : ops = <<m, t>> /\ from = <<0, a.source>>
    OBVIOUS
  <2>0. PICK no \in BOOLEAN : no = FALSE
    OBVIOUS
  <2>2. c = SubOf(s, a, "epilogue", "Move", no, ops, from)
    BY <1>6, <2>0, <2>1 DEF EpilogueOf, t, m
  <2>3. SizedOps("Move", ops)
    BY <1>4, <2>1
  <2>4. c.from = from /\ \A i \in DOMAIN ops : c.spec.ops[i].shape = ops[i].shape
    BY <2>2, <2>3, SubShapes
  <2>5. DOMAIN from = 1..2 /\ DOMAIN ops = 1..2 /\ ops[1] = m /\ ops[2] = t /\ from[1] = 0 /\ from[2] = a.source
    BY <2>1
  <2> QED
    BY <1>1, <1>3, <2>4, <2>5 DEF ShapesFrom, t
<1>7. CASE c = BodyOf(s, a)
  <2>1. PICK ops, from : ops = [s.ops EXCEPT ![a.source] = m] /\ from = [Own(s) EXCEPT ![a.source] = 0]
    OBVIOUS
  <2>2. c = SubOf(s, a, "body", s.typ, s.accum, ops, from)
    BY <1>7, <2>1 DEF BodyOf, m
  <2>3. SizedOps(s.typ, ops)
    BY <1>1, <2>1 DEF SizedOps, SizedSpec
  <2>4. c.from = from /\ \A i \in DOMAIN ops : c.spec.ops[i].shape = ops[i].shape
    BY <2>2, <2>3, SubShapes
  <2>5. /\ DOMAIN from = 1..n /\ DOMAIN ops = 1..n
        /\ \A i \in 1..n : /\ i # a.source => ops[i] = s.ops[i] /\ from[i] = i
                           /\ i = a.source => ops[i] = m /\ from[i] = 0
    BY <1>2, <2>1 DEF Own
  <2>6. ASSUME NEW i \in 1..n
        PROVE  /\ c.from[i] = 0 => c.spec.ops[i].shape = s.ops[a.source].shape
               /\ c.from[i] # 0 => c.from[i] \in DOMAIN s.ops /\ c.spec.ops[i].shape = s.ops[c.from[i]].shape
    <3>1. CASE i = a.source
      BY <1>1, <2>4, <2>5, <3>1 DEF t
    <3>2. CASE i # a.source
      BY <1>2, <2>4, <2>5, <3>2
    <3> QED
      BY <3>1, <3>2
  <2> QED
    BY <2>4, <2>5, <2>6 DEF ShapesFrom
<1> QED
  BY <1>5, <1>6, <1>7, MoveChildren

\* A ToAccum's parts have the shapes of the Spec.
LEMMA ToAccumShapes ==
    ASSUME NEW s, SizedSpec(s), Accumulates(s.typ), NEW c \in Range(ToAccum(s).children)
    PROVE  ShapesFrom(s, 1, c)
<1> DEFINE z == ZeroOutput(s)
           a == AsAccum(s)
<1>1. \/ c = Child("zero", CanonicalSpec(z), <<OutputIdx(s)>>)
      \/ c = Child("accum", CanonicalSpec(a), Own(s))
  <2>1. \A n \in 1..2 : n = 1 \/ n = 2
    OBVIOUS
  <2> QED
    BY <2>1 DEF ToAccum, Impl, Range
<1>2. /\ DOMAIN z = SpecFields /\ z.typ = "Zero" /\ z.ops = <<Output(s)>>
      /\ DOMAIN a = SpecFields /\ a.typ = s.typ /\ a.ops = s.ops
  BY DEF ZeroOutput, AsAccum, SizedSpec, SpecFields
<1> HIDE DEF z, a
<1>3. CanonicalSpec(z).ops = CanonicalOps("Zero", <<Output(s)>>) /\ CanonicalSpec(a).ops = CanonicalOps(s.typ, s.ops)
  BY <1>2 DEF CanonicalSpec, SpecFields
<1>4. PICK n \in Nat : DOMAIN s.ops = 1..n /\ \A i \in 1..n : Sized(s.ops[i])
  <2>1. PICK n \in 1..3 : DOMAIN s.ops = 1..n
    BY OpsDomain DEF SizedSpec
  <2>2. n \in Nat /\ \A i \in DOMAIN s.ops : Sized(s.ops[i])
    BY DEF SizedOps, SizedSpec
  <2> QED
    BY <2>1, <2>2
<1>5. OutputIdx(s) \in DOMAIN s.ops /\ OutputIdx(s) \in 1..n
  BY <1>4, OpsCount DEF SizedSpec
<1>6. CASE c = Child("zero", CanonicalSpec(z), <<OutputIdx(s)>>)
  <2>1. PICK ops : ops = <<Output(s)>>
    OBVIOUS
  <2>2. DOMAIN ops = 1..1 /\ \A i \in 1..1 : ops[i] = Output(s)
    BY <2>1
  <2>3. Sized(Output(s))
    BY <1>4, <1>5 DEF Output
  <2>4. \A k \in Nat : k = 1 => DOMAIN ops = 1..k /\ \A i \in 1..k : Sized(ops[i])
    BY <2>2, <2>3
  <2>5. Alike(ops[1], CanonicalOps("Zero", ops)[1])
    <3>1. PICK k \in Nat : k = 1
      OBVIOUS
    <3>2. \A i \in 1..k : Alike(ops[i], CanonicalOps("Zero", ops)[i])
      BY <2>4, <3>1, CanonicalOpsAlike
    <3> QED
      BY <3>1, <3>2
  <2>6. c.spec.ops[1].shape = s.ops[OutputIdx(s)].shape
    BY <1>3, <1>6, <2>1, <2>2, <2>5 DEF Child, Alike, Output
  <2>7. DOMAIN c.from = 1..1 /\ c.from[1] = OutputIdx(s) /\ OutputIdx(s) # 0
    BY <1>5, <1>6 DEF Child
  <2>8. \A i \in 1..1 : i = 1
    OBVIOUS
  <2> QED
    BY <1>5, <2>6, <2>7, <2>8 DEF ShapesFrom
<1>7. CASE c = Child("accum", CanonicalSpec(a), Own(s))
  <2>1. \A i \in 1..n : Alike(s.ops[i], CanonicalOps(s.typ, s.ops)[i])
    BY <1>4, CanonicalOpsAlike
  <2>2. DOMAIN c.from = 1..n /\ \A i \in 1..n : c.from[i] = i /\ i # 0
    BY <1>4, <1>7 DEF Child, Own
  <2>3. \A i \in 1..n : c.spec.ops[i].shape = s.ops[i].shape
    BY <1>3, <1>7, <2>1 DEF Child, Alike
  <2> QED
    BY <1>4, <2>2, <2>3 DEF ShapesFrom
<1> QED
  BY <1>1, <1>6, <1>7

-----------------------------------------------------------------------------
(* Operands agree.                                                         *)

\* Where the operands of each kind of Spec are: those of a product, of a copy and
\* of a convolution of one value, whose loops all have one step.
Together(s, vs) ==
    /\ ViewsPlaced(s.ops, vs)
    /\ s.typ = "Matmul" => ProductTogether(vs)
    /\ s.typ = "Move" => vs[1].at = vs[2].at
    /\ s.typ = "Conv" => AllOnes(Output(s).shape) /\ \A i \in 1..3 : \A d \in 1..4 : vs[i].at[d] = 0

\* Each Conv at a root has one value of output (see the finding on schedule_conv).
OneValueConvs == \A r \in Roots : r.typ = "Conv" => AllOnes(Output(r).shape)

Placed == Together(spec, views)

\* Operands that are together agree (parameter_dim_axes).
LEMMA TogetherAgrees ==
    ASSUME SizedSpec(spec), Placed
    PROVE  OperandsAgree
<1> DEFINE axes == DimAxes(spec.typ, Len(Output(spec).shape))
<1>0. SizedOps(spec.typ, spec.ops) /\ ShapesAgree(spec) /\ spec.typ \in {"Zero", "Move", "Matmul", "Conv"}
  BY DEF SizedSpec, SizedOps, InputCount
<1>1. CASE spec.typ = "Matmul"
  <2>1. DOMAIN spec.ops = 1..3 /\ \A i \in 1..3 : i = 1 \/ i = 2 \/ i = 3
    BY <1>0, <1>1, AgreeMeans
  <2>2. axes = <<<<1, 3>>, <<3, 2>>, <<1, 2>>>>
    BY <1>1 DEF DimAxes
  <2>3. ProductTogether(views)
    BY <1>1 DEF Placed, Together
  <2>4. \A i \in 1..3 : \A d \in DOMAIN axes[i] : d = 1 \/ d = 2
    BY <2>1, <2>2
  <2>5. ASSUME NEW i \in 1..3, NEW j \in 1..3, NEW d \in DOMAIN axes[i], NEW e \in DOMAIN axes[j], axes[i][d] = axes[j][e]
        PROVE  views[i].at[d] = views[j].at[e]
    <3>1. d = 1 \/ d = 2
      BY <2>4
    <3>2. e = 1 \/ e = 2
      BY <2>4
    <3>3. i = 1 \/ i = 2 \/ i = 3
      BY <2>1
    <3>4. j = 1 \/ j = 2 \/ j = 3
      BY <2>1
    <3> QED
      BY <2>2, <2>3, <2>5, <3>1, <3>2, <3>3, <3>4 DEF ProductTogether
  <2> HIDE DEF axes
  <2> QED
    BY <2>1, <2>3, <2>5 DEF OperandsAgree, ProductTogether, axes
<1>2. CASE spec.typ = "Conv"
  <2>1. DOMAIN spec.ops = 1..3
    BY <1>0, <1>2, AgreeMeans
  <2>2. axes = <<<<1, 3, 4, 5>>, <<2, 3, 6, 7>>, <<1, 2, 4, 5>>>>
    BY <1>2 DEF DimAxes
  <2>3. \A i \in 1..3 : \A d \in 1..4 : views[i].at[d] = 0
    BY <1>2 DEF Placed, Together
  <2>4. \A i \in 1..3 : DOMAIN axes[i] = 1..4
    <3>1. \A i \in 1..3 : i = 1 \/ i = 2 \/ i = 3
      OBVIOUS
    <3> QED
      BY <2>2, <3>1
  <2>5. \A i, j \in 1..3 : \A d \in DOMAIN axes[i] : \A e \in DOMAIN axes[j] : views[i].at[d] = views[j].at[e]
    BY <2>3, <2>4
  <2> HIDE DEF axes
  <2> QED
    BY <1>2, <2>1, <2>5 DEF OperandsAgree, axes
<1>3. CASE spec.typ \in {"Zero", "Move"}
  <2> DEFINE r == Len(Output(spec).shape)
             n == InputCount[spec.typ] + 1
  <2>1. axes = [i \in 1..n |-> [d \in 1..r |-> d]]
    BY <1>3 DEF DimAxes
  <2>2. DOMAIN spec.ops = 1..n
    BY <1>0 DEF SizedOps
  <2>3. \A i, j \in 1..n : views[i].at = views[j].at
    <3>1. CASE spec.typ = "Zero"
      <4>1. \A i \in 1..n : i = 1
        BY <3>1 DEF InputCount
      <4> QED
        BY <4>1
    <3>2. CASE spec.typ = "Move"
      <4>1. \A i \in 1..n : i = 1 \/ i = 2
        BY <3>2 DEF InputCount
      <4>2. views[1].at = views[2].at
        BY <3>2 DEF Placed, Together
      <4> QED
        BY <4>1, <4>2
    <3> QED
      BY <1>3, <3>1, <3>2
  <2> HIDE DEF n, r
  <2>4. ASSUME NEW i \in 1..n, NEW j \in 1..n, NEW d \in DOMAIN axes[i], NEW e \in DOMAIN axes[j], axes[i][d] = axes[j][e]
        PROVE  views[i].at[d] = views[j].at[e]
    <3>1. axes[i][d] = d /\ axes[j][e] = e
      BY <2>1
    <3>2. d = e
      BY <2>4, <3>1
    <3> QED
      BY <2>3, <3>2
  <2>5. spec.typ # "Matmul"
    BY <1>3
  <2> HIDE DEF axes
  <2> QED
    BY <2>2, <2>4, <2>5 DEF OperandsAgree, axes
<1> QED
  BY <1>0, <1>1, <1>2, <1>3

\* A path starts at the problem's origin.
LEMMA InitPlaced ==
    ASSUME OneValueConvs, Init
    PROVE  Placed
<1>1. PICK r \in Roots : /\ root = r /\ spec = r
                         /\ views = [i \in DOMAIN r.ops |->
                                        Buffer(r.ops[i], Zeros(r.ops[i].shape), <<>>,
                                               i # OutputIdx(r) \/ OutputIsRead(r), TRUE)]
  BY DEF Init
<1>2. SizedSpec(r)
  BY RootSized
<1>3. \A i \in DOMAIN r.ops : /\ views[i].at = Zeros(r.ops[i].shape) /\ views[i].rest = <<>>
                              /\ views[i].dims \in [DOMAIN r.ops[i].shape -> DOMAIN views[i].org]
  BY <1>1 DEF Buffer, Identity, Zeros
<1>4. ViewsPlaced(r.ops, views)
  <2>1. DOMAIN views = DOMAIN r.ops
    BY <1>1
  <2>2. \A shape : Zeros(shape) \in [DOMAIN shape -> Nat]
    BY DEF Zeros
  <2> QED
    BY <1>3, <2>1, <2>2 DEF ViewsPlaced
<1>5. r.typ = "Matmul" => ProductTogether(views)
  <2>1. HAVE r.typ = "Matmul"
  <2>2. PICK m \in Nat \ {0}, k \in Nat \ {0}, n \in Nat \ {0} : MatmulShapes(r.ops, m, k, n)
    BY <1>2, <2>1, AgreeMatmul DEF SizedSpec
  <2>3. DOMAIN r.ops = 1..3
    BY <1>2, <2>1, AgreeMeans DEF SizedSpec
  <2> QED
    BY <1>3, <2>2, <2>3 DEF MatmulShapes, ProductTogether, Zeros
<1>6. r.typ = "Move" => views[1].at = views[2].at
  <2>1. HAVE r.typ = "Move"
  <2>2. DOMAIN r.ops = 1..2
    BY <1>2, <2>1, AgreeMeans DEF SizedSpec
  <2>3. r.ops[1].shape = r.ops[2].shape
    BY <1>2, <2>1, <2>2, AgreeElementwise DEF SizedSpec
  <2> QED
    BY <1>3, <2>2, <2>3
<1>7. r.typ = "Conv" => AllOnes(Output(r).shape) /\ \A i \in 1..3 : \A d \in 1..4 : views[i].at[d] = 0
  <2>1. HAVE r.typ = "Conv"
  <2>2. PICK b \in Nat \ {0}, f \in Nat \ {0}, c \in Nat \ {0}, h \in Nat \ {0}, w \in Nat \ {0},
             y \in Nat \ {0}, x \in Nat \ {0} : ConvShapes(r.ops, b, f, c, h, w, y, x)
    BY <1>2, <2>1, AgreeConv DEF SizedSpec
  <2>3. DOMAIN r.ops = 1..3
    BY <1>2, <2>1, AgreeMeans DEF SizedSpec
  <2>4. DOMAIN r.ops[1].shape = 1..4 /\ DOMAIN r.ops[2].shape = 1..4 /\ DOMAIN r.ops[3].shape = 1..4
    BY <2>2 DEF ConvShapes
  <2>5. \A i \in 1..3 : i = 1 \/ i = 2 \/ i = 3
    OBVIOUS
  <2>6. \A i \in 1..3 : DOMAIN r.ops[i].shape = 1..4
    BY <2>4, <2>5
  <2> QED
    BY <1>3, <2>1, <2>3, <2>6 DEF OneValueConvs, Zeros
<1> QED
  BY <1>1, <1>4, <1>5, <1>6, <1>7 DEF Placed, Together

\* A Matmul's operands are matrices.
LEMMA MatrixRanks ==
    ASSUME NEW s, SizedSpec(s), s.typ \in {"Matmul"}
    PROVE  DOMAIN s.ops = 1..3 /\ OutputIdx(s) = 3 /\ \A i \in 1..3 : DOMAIN s.ops[i].shape = 1..2 /\ Len(s.ops[i].shape) = 2
<1>1. DOMAIN s.ops = 1..3 /\ OutputIdx(s) = 3
  BY AgreeMeans, OpsCount DEF SizedSpec
<1>2. PICK m \in Nat \ {0}, k \in Nat \ {0}, n \in Nat \ {0} : MatmulShapes(s.ops, m, k, n)
  BY AgreeMatmul DEF SizedSpec
<1>3. /\ DOMAIN s.ops[1].shape = 1..2 /\ DOMAIN s.ops[2].shape = 1..2 /\ DOMAIN s.ops[3].shape = 1..2
      /\ Len(s.ops[1].shape) = 2 /\ Len(s.ops[2].shape) = 2 /\ Len(s.ops[3].shape) = 2
  BY <1>2 DEF MatmulShapes
<1>4. \A i \in 1..3 : i = 1 \/ i = 2 \/ i = 3
  OBVIOUS
<1> QED
  BY <1>1, <1>3, <1>4

\* Only the ranks of the operands matter to that.
LEMMA PlacedAlike ==
    ASSUME NEW ops, NEW new, NEW vs, ViewsPlaced(ops, vs), DOMAIN new = DOMAIN ops,
           \A i \in DOMAIN ops : DOMAIN new[i].shape = DOMAIN ops[i].shape
    PROVE  ViewsPlaced(new, vs)
BY DEF ViewsPlaced

\* A TileOut keeps them there; a Conv of one value has none.
LEMMA TileOutKeepsPlaced ==
    ASSUME Safe, Placed, TileOut
    PROVE  Placed'
<1>1. PICK a \in TileOutActions(spec) : /\ TileOutApplies(spec, a.shape, a.parallel)
                                        /\ EnterLoop(LoopOver(spec, TileOutTiles(spec, a.shape), a.parallel))
  BY DEF TileOut
<1> DEFINE c == BodyOfLoop(spec, TileOutTiles(spec, a.shape), a.parallel)
<1>2. PICK index \in Indices(TileOutTiles(spec, a.shape)) :
          spec' = c /\ views' = BodyViews(TileOutTiles(spec, a.shape), index)
  BY <1>1 DEF EnterLoop, BodyOfLoop, LoopOver, Impl
<1>3. SizedSpec(spec) /\ SizedSpec(c) /\ c.typ = spec.typ /\ ViewsSized
  BY <1>1, TileOutBody, LoopKeeps DEF Safe, Flows, ViewsSized
<1>4. Output(spec).shape \in Seq(Nat \ {0}) /\ spec.typ \in {"Zero", "Move", "Matmul", "Conv"}
  BY <1>3, OpsCount DEF SizedSpec, SizedOps, Sized, Output, InputCount
<1>5. /\ a.shape \in Seq(Nat \ {0}) /\ DOMAIN a.shape = DOMAIN Output(spec).shape /\ Len(a.shape) = Len(Output(spec).shape)
      /\ a.parallel \in BOOLEAN
      /\ a.shape # Output(spec).shape /\ \A d \in DOMAIN a.shape : a.shape[d] <= Output(spec).shape[d]
  BY <1>1, <1>4, TileOutActionsAre DEF TileOutApplies
<1>6. ViewsPlaced(spec.ops, views)
  BY DEF Placed, Together
<1>7. CASE spec.typ = "Matmul"
  <2>1. spec.typ \in {"Matmul"} /\ c.typ \in {"Matmul"}
    BY <1>3, <1>7
  <2>2. /\ DOMAIN spec.ops = 1..3 /\ \A i \in 1..3 : DOMAIN spec.ops[i].shape = 1..2 /\ Len(spec.ops[i].shape) = 2
        /\ DOMAIN c.ops = 1..3 /\ \A i \in 1..3 : DOMAIN c.ops[i].shape = 1..2
        /\ OutputIdx(spec) = 3
    BY <1>3, <2>1, MatrixRanks
  <2>3. Len(a.shape) = 2
    BY <1>5, <2>2 DEF Output
  <2>4. ProductTogether(views)
    BY <1>7 DEF Placed, Together
  <2>5. ViewsPlaced(spec.ops, views') /\ ProductTogether(views')
    BY <1>2, <1>3, <1>5, <1>6, <2>1, <2>3, <2>4, TileOutMatmulPlaced
  <2> HIDE DEF c
  <2>6. ViewsPlaced(c.ops, views')
    BY <2>2, <2>5, PlacedAlike
  <2> QED
    BY <1>2, <2>1, <2>5, <2>6 DEF Placed, Together
<1>8. CASE spec.typ \in {"Zero", "Move"}
  <2>1. c.ops[1].shape = a.shape
    BY <1>3, <1>5, <1>8, TileOutElementwise
  <2>2. /\ ViewsPlaced(spec.ops, views')
        /\ spec.typ = "Move" /\ views[1].at = views[2].at => views'[1].at = views'[2].at
    BY <1>2, <1>3, <1>5, <1>6, <1>8, TileOutElementwisePlaced
  <2>3. DOMAIN spec.ops = DOMAIN c.ops /\ OutputIdx(spec) \in DOMAIN spec.ops
    BY <1>3, OpsCount DEF SizedSpec, SizedOps
  <2>4. /\ \A i \in DOMAIN spec.ops : spec.ops[i].shape = spec.ops[1].shape
        /\ \A i \in DOMAIN c.ops : c.ops[i].shape = c.ops[1].shape
    BY <1>3, <1>8, AgreeElementwise DEF SizedSpec
  <2> HIDE DEF c
  <2>5. \A i \in DOMAIN spec.ops : DOMAIN c.ops[i].shape = DOMAIN spec.ops[i].shape
    BY <1>5, <2>1, <2>3, <2>4 DEF Output
  <2>6. ViewsPlaced(c.ops, views')
    BY <2>2, <2>3, <2>5, PlacedAlike
  <2>7. spec.typ = "Move" => views[1].at = views[2].at
    BY DEF Placed, Together
  <2>8. c.typ # "Matmul" /\ c.typ # "Conv"
    BY <1>3, <1>8
  <2> QED
    BY <1>2, <1>3, <2>2, <2>6, <2>7, <2>8 DEF Placed, Together
<1>9. CASE spec.typ = "Conv"
  <2>1. AllOnes(Output(spec).shape)
    BY <1>9 DEF Placed, Together
  <2>2. \A d \in DOMAIN a.shape : a.shape[d] = Output(spec).shape[d]
    <3>1. ASSUME NEW d \in DOMAIN a.shape
          PROVE  a.shape[d] = Output(spec).shape[d]
      <4>1. a.shape[d] \in Nat \ {0} /\ a.shape[d] <= Output(spec).shape[d] /\ Output(spec).shape[d] = 1
        BY <1>5, <2>1 DEF AllOnes
      <4> QED
        BY <4>1
    <3> QED
      BY <3>1
  <2>3. a.shape = Output(spec).shape
    <3>1. ASSUME NEW f \in Seq(Nat \ {0}), NEW g \in Seq(Nat \ {0}), DOMAIN f = DOMAIN g, \A d \in DOMAIN f : f[d] = g[d]
          PROVE  f = g
      BY <3>1
    <3> QED
      BY <1>4, <1>5, <2>2, <3>1
  <2> QED
    BY <1>5, <2>3
<1> QED
  BY <1>4, <1>7, <1>8, <1>9

\* So does a Split,
LEMMA SplitKeepsPlaced ==
    ASSUME Safe, Placed, Split
    PROVE  Placed'
<1>1. PICK a \in SplitActions(spec) : EnterLoop(LoopOver(spec, SplitTiles(spec, a.k), FALSE))
  BY DEF Split
<1> DEFINE c == BodyOfLoop(spec, SplitTiles(spec, a.k), FALSE)
<1>2. PICK index \in Indices(SplitTiles(spec, a.k)) : spec' = c /\ views' = BodyViews(SplitTiles(spec, a.k), index)
  BY <1>1 DEF EnterLoop, BodyOfLoop, LoopOver, Impl
<1>3. SizedSpec(spec) /\ SizedSpec(c) /\ c.typ = spec.typ /\ ViewsSized /\ spec.typ \in {"Matmul"} /\ c.typ \in {"Matmul"}
  <2>1. spec.typ \in {"Matmul"} /\ SizedSpec(spec)
    BY DEF Split, Safe
  <2>2. SizedSpec(c) /\ c.typ = spec.typ
    BY <2>1, SplitBody, LoopKeeps
  <2> QED
    BY <2>1, <2>2 DEF Safe, Flows, ViewsSized
<1>4. /\ DOMAIN spec.ops = 1..3 /\ \A i \in 1..3 : DOMAIN spec.ops[i].shape = 1..2
      /\ DOMAIN c.ops = 1..3 /\ \A i \in 1..3 : DOMAIN c.ops[i].shape = 1..2
  BY <1>3, MatrixRanks
<1>5. a.k \in Nat \ {0}
  <2>1. PICK j \in DimRange(spec.ops[1].shape[2], FALSE) : a = [kind |-> "Split", k |-> j]
    BY DEF SplitActions
  <2>2. PICK m \in Nat \ {0}, k \in Nat \ {0}, n \in Nat \ {0} : MatmulShapes(spec.ops, m, k, n)
    BY <1>3, AgreeMatmul DEF SizedSpec
  <2>3. spec.ops[1].shape[2] = k
    BY <2>2 DEF MatmulShapes
  <2> QED
    BY <2>1, <2>3, DimRangeIs
<1>6. ViewsPlaced(spec.ops, views) /\ ProductTogether(views)
  BY <1>3 DEF Placed, Together
<1>7. ViewsPlaced(spec.ops, views') /\ ProductTogether(views')
  BY <1>2, <1>3, <1>5, <1>6, SplitPlaced
<1> HIDE DEF c
<1>8. ViewsPlaced(c.ops, views')
  BY <1>4, <1>7, PlacedAlike
<1> QED
  BY <1>2, <1>3, <1>7, <1>8 DEF Placed, Together

\* a SpatialSplit,
LEMMA SpatialKeepsPlaced ==
    ASSUME Safe, Placed, EnterSpatialSplit
    PROVE  Placed'
<1> DEFINE c == SpatialSplit(spec).children[1].spec
           tiles == SpatialTiles(spec)
<1>1. PICK index \in Indices(tiles) :
          views' = <<SqueezeView(BodyViews(tiles, index)[1]), TransposeView(SqueezeView(BodyViews(tiles, index)[2])),
                     SqueezeView(BodyViews(tiles, index)[3])>>
  BY DEF EnterSpatialSplit
<1>2. spec' = c /\ spec.typ \in {"Conv"} /\ SizedSpec(spec) /\ ViewsSized
  BY DEF EnterSpatialSplit, Safe, Flows, ViewsSized
<1>3. SizedSpec(c) /\ c.typ \in {"Matmul"}
  BY <1>2, SpatialBodySized
<1>4. DOMAIN c.ops = 1..3 /\ \A i \in 1..3 : DOMAIN c.ops[i].shape = 1..2
  BY <1>3, MatrixRanks
<1>5. ViewsPlaced(spec.ops, views) /\ \A i \in 1..3 : \A d \in 1..4 : views[i].at[d] = 0
  BY <1>2 DEF Placed, Together
<1>6. /\ MatrixView(views'[1]) /\ MatrixView(views'[2]) /\ MatrixView(views'[3]) /\ ProductTogether(views')
      /\ DOMAIN views' = 1..3
  BY <1>1, <1>2, <1>5, SpatialPlaced
<1> HIDE DEF c
<1>7. ViewsPlaced(c.ops, views')
  <2>1. \A i \in 1..3 : i = 1 \/ i = 2 \/ i = 3
    OBVIOUS
  <2>2. \A i \in 1..3 : MatrixView(views'[i])
    BY <1>6, <2>1
  <2> QED
    BY <1>4, <1>6, <2>2 DEF ViewsPlaced, MatrixView
<1> QED
  BY <1>2, <1>3, <1>6, <1>7 DEF Placed, Together

\* The views of a part: of the new buffer, or as they were.
PartViews(c, inner) == [i \in DOMAIN c.from |-> IF c.from[i] = 0 THEN inner ELSE Views[c.from[i]]]
StandsFor(inner, source, shape) ==
    /\ inner.at = source.at /\ inner.rest = source.rest /\ inner.dims \in [DOMAIN shape -> DOMAIN inner.org]

\* A move's new buffer is where the operand it moves was.
LEMMA MoveGoes ==
    ASSUME Safe, Placed, Move
    PROVE  \E a \in MoveActions(spec) : \E c \in Range(MoveLet(spec, a).children) : \E inner :
               /\ MoveApplies(spec, a) /\ spec' = c.spec /\ views' = PartViews(c, inner)
               /\ StandsFor(inner, Views[a.source], spec.ops[a.source].shape)
<1>1. PICK a \in MoveActions(spec) :
          /\ MoveApplies(spec, a)
          /\ \E impl \in {MoveLet(spec, a)} : \E child \in Range(impl.children) :
                LET source == Views[a.source]
                    isOutput == a.source = OutputIdx(spec)
                    new == Buffer(impl.introduced[1], source.at, source.rest,
                                  CASE child.part = "prologue" -> FALSE
                                    [] child.part = "body" -> source.filled /\ GensPrologue(spec, a)
                                    [] child.part = "epilogue" -> TRUE,
                                  isOutput /\ child.part = "body" => source.kept /\ GensEpilogue(spec, a))
                    inner == IF IsCacheView(spec, a) THEN source ELSE new
                IN  /\ spec' = child.spec
                    /\ views' = [i \in DOMAIN child.from |->
                                    IF child.from[i] = 0 THEN inner ELSE Views[child.from[i]]]
                    /\ used' = [l \in 1..4 |-> used[l] + Allocated(impl)[l]]
                    /\ UNCHANGED <<root, kernel>>
  BY DEF Move
<1> DEFINE source == Views[a.source]
           NewFor(impl, c) ==
               Buffer(impl.introduced[1], source.at, source.rest,
                      CASE c.part = "prologue" -> FALSE
                        [] c.part = "body" -> source.filled /\ GensPrologue(spec, a)
                        [] c.part = "epilogue" -> TRUE,
                      a.source = OutputIdx(spec) /\ c.part = "body" => source.kept /\ GensEpilogue(spec, a))
           Inner(c) == IF IsCacheView(spec, a) THEN source ELSE NewFor(MoveLet(spec, a), c)
           Goes(impl, c) ==
               /\ spec' = c.spec
               /\ views' = [i \in DOMAIN c.from |->
                               IF c.from[i] = 0
                               THEN IF IsCacheView(spec, a) THEN source ELSE NewFor(impl, c) ELSE Views[c.from[i]]]
<1>2. \E impl \in {MoveLet(spec, a)} : \E c \in Range(impl.children) : Goes(impl, c)
  BY <1>1
<1>3. PICK c \in Range(MoveLet(spec, a).children) : Goes(MoveLet(spec, a), c)
  <2> HIDE DEF Goes
  <2> QED
    BY <1>2
<1>4. spec' = c.spec /\ views' = PartViews(c, Inner(c))
  BY <1>3 DEF PartViews
<1>5. /\ a.source \in DOMAIN spec.ops
      /\ MovedOperand(spec, a).shape = spec.ops[a.source].shape
  BY MovedIs DEF Safe
<1>6. MoveLet(spec, a).introduced[1] = MovedOperand(spec, a)
  BY DEF MoveLet, MoveLetOf, Impl
<1>7. StandsFor(NewFor(MoveLet(spec, a), c), source, spec.ops[a.source].shape)
  BY <1>5, <1>6 DEF StandsFor, Buffer, Identity, Zeros
<1>8. StandsFor(source, source, spec.ops[a.source].shape)
  <2>1. ViewsSized /\ ViewsPlaced(spec.ops, views)
    BY DEF Safe, Flows, ViewsSized, Placed, Together
  <2>2. ViewsPlaced(spec.ops, Views)
    BY <2>1, FlatPlaced
  <2> QED
    BY <1>5, <2>2 DEF ViewsPlaced, StandsFor
<1> HIDE DEF NewFor, source
<1>9. StandsFor(Inner(c), source, spec.ops[a.source].shape)
  BY <1>7, <1>8
<1> HIDE DEF Inner
<1> QED
  BY <1>1, <1>4, <1>9 DEF source

\* So a move keeps them there,
LEMMA MoveKeepsPlaced ==
    ASSUME Safe, Placed, Move
    PROVE  Placed'
<1>1. PICK a \in MoveActions(spec) : \E c \in Range(MoveLet(spec, a).children) : \E inner :
               /\ MoveApplies(spec, a) /\ spec' = c.spec /\ views' = PartViews(c, inner)
               /\ StandsFor(inner, Views[a.source], spec.ops[a.source].shape)
  BY MoveGoes
<1>2. PICK c \in Range(MoveLet(spec, a).children) : \E inner :
               /\ MoveApplies(spec, a) /\ spec' = c.spec /\ views' = PartViews(c, inner)
               /\ StandsFor(inner, Views[a.source], spec.ops[a.source].shape)
  BY <1>1
<1>3. PICK inner : /\ MoveApplies(spec, a) /\ spec' = c.spec /\ views' = PartViews(c, inner)
                   /\ StandsFor(inner, Views[a.source], spec.ops[a.source].shape)
  BY <1>2
<1> DEFINE source == Views[a.source]
<1>4. SizedSpec(spec) /\ a.source \in DOMAIN spec.ops
  BY MovedIs DEF Safe
<1>5. SizedSpec(c.spec) /\ DOMAIN c.from = DOMAIN c.spec.ops
  <2>1. SizedSpec(c.spec)
    BY <1>3, <1>4, MoveParts
  <2>2. FromPerOperand(c)
    BY <1>3, <1>4, MoveParts
  <2> QED
    BY <2>1, <2>2 DEF FromPerOperand
<1>6. \/ c.spec.typ = "Move" /\ (c.from = <<a.source, 0>> \/ c.from = <<0, a.source>>)
      \/ /\ c.spec.typ = spec.typ
         /\ c.from = [i \in DOMAIN spec.ops |-> IF i = a.source THEN 0 ELSE i]
  BY <1>3, <1>4, MoveParts
<1>7. ShapesFrom(spec, a.source, c)
  BY <1>4, MoveShapes
<1>8. /\ ViewsPlaced(spec.ops, Views)
      /\ \A i \in DOMAIN spec.ops : Views[i].at = views[i].at /\ Views[i].rest = views[i].rest
  <2>1. ViewsSized /\ ViewsPlaced(spec.ops, views)
    BY DEF Safe, Flows, ViewsSized, Placed, Together
  <2> QED
    BY <2>1, FlatPlaced
<1>9. inner.at = source.at /\ inner.rest = source.rest /\ inner.dims \in [DOMAIN spec.ops[a.source].shape -> DOMAIN inner.org]
  BY <1>3 DEF StandsFor
<1>10. /\ DOMAIN views' = DOMAIN c.from
       /\ \A i \in DOMAIN c.from : /\ c.from[i] = 0 => views'[i] = inner
                                   /\ c.from[i] # 0 => views'[i] = Views[c.from[i]]
  BY <1>3 DEF PartViews
<1>a. source = Views[a.source]
  OBVIOUS
<1> HIDE DEF source
<1>11. ViewsPlaced(c.spec.ops, views')
  <2>1. ASSUME NEW i \in DOMAIN c.from
        PROVE  /\ views'[i].at \in [DOMAIN c.spec.ops[i].shape -> Nat]
               /\ views'[i].dims \in [DOMAIN c.spec.ops[i].shape -> DOMAIN views'[i].org]
    <3>1. CASE c.from[i] = 0
      <4>1. c.spec.ops[i].shape = spec.ops[a.source].shape
        BY <1>7, <3>1 DEF ShapesFrom
      <4> QED
        BY <1>4, <1>8, <1>9, <1>10, <1>a, <3>1, <4>1 DEF ViewsPlaced
    <3>2. CASE c.from[i] # 0
      <4>1. c.from[i] \in DOMAIN spec.ops /\ c.spec.ops[i].shape = spec.ops[c.from[i]].shape
        BY <1>7, <3>2 DEF ShapesFrom
      <4> QED
        BY <1>8, <1>10, <3>2, <4>1 DEF ViewsPlaced
    <3> QED
      BY <3>1, <3>2
  <2> QED
    BY <1>5, <1>10, <2>1 DEF ViewsPlaced
<1>12. CASE c.spec.typ = "Move" /\ (c.from = <<a.source, 0>> \/ c.from = <<0, a.source>>)
  <2>1. a.source # 0
    BY <1>4, OpsDomain DEF SizedSpec
  <2>2. DOMAIN c.from = 1..2 /\ ((c.from[1] = a.source /\ c.from[2] = 0) \/ (c.from[1] = 0 /\ c.from[2] = a.source))
    BY <1>12
  <2>3. views'[1].at = views'[2].at
    BY <1>9, <1>10, <1>a, <2>1, <2>2
  <2> QED
    BY <1>3, <1>11, <1>12, <2>3 DEF Placed, Together
<1>13. CASE c.spec.typ = spec.typ /\ c.from = [i \in DOMAIN spec.ops |-> IF i = a.source THEN 0 ELSE i]
  <2>1. 0 \notin DOMAIN spec.ops /\ DOMAIN c.from = DOMAIN spec.ops
    BY <1>4, <1>13, OpsDomain DEF SizedSpec
  <2>2. \A i \in DOMAIN spec.ops : views'[i].at = views[i].at /\ views'[i].rest = views[i].rest
    <3>1. SUFFICES ASSUME NEW i \in DOMAIN spec.ops
                   PROVE  views'[i].at = views[i].at /\ views'[i].rest = views[i].rest
      OBVIOUS
    <3>2. CASE i = a.source
      BY <1>8, <1>9, <1>10, <1>13, <1>a, <2>1, <3>2
    <3>3. CASE i # a.source
      <4>1. i \in DOMAIN c.from /\ c.from[i] = i /\ i # 0
        BY <1>13, <2>1, <3>3
      <4>2. views'[i] = Views[i]
        BY <1>10, <4>1
      <4> QED
        BY <1>8, <4>2
    <3> QED
      BY <3>2, <3>3
  <2>3. \A i \in DOMAIN spec.ops : c.spec.ops[i].shape = spec.ops[i].shape
    <3>1. SUFFICES ASSUME NEW i \in DOMAIN spec.ops
                   PROVE  c.spec.ops[i].shape = spec.ops[i].shape
      OBVIOUS
    <3>2. c.from[i] = (IF i = a.source THEN 0 ELSE i) /\ i \in DOMAIN c.from /\ i # 0
      BY <1>13, <2>1
    <3> QED
      BY <1>7, <3>2 DEF ShapesFrom
  <2>4. spec.typ = "Matmul" => ProductTogether(views')
    <3>1. HAVE spec.typ = "Matmul"
    <3>2. DOMAIN spec.ops = 1..3
      BY <1>4, <3>1, AgreeMeans DEF SizedSpec
    <3>3. ProductTogether(views)
      BY <3>1 DEF Placed, Together
    <3> QED
      BY <2>2, <3>2, <3>3 DEF ProductTogether
  <2>5. spec.typ = "Move" => views'[1].at = views'[2].at
    <3>1. HAVE spec.typ = "Move"
    <3>2. DOMAIN spec.ops = 1..2
      BY <1>4, <3>1, AgreeMeans DEF SizedSpec
    <3>3. views[1].at = views[2].at
      BY <3>1 DEF Placed, Together
    <3> QED
      BY <2>2, <3>2, <3>3
  <2>6. spec.typ = "Conv" => AllOnes(Output(c.spec).shape) /\ \A i \in 1..3 : \A d \in 1..4 : views'[i].at[d] = 0
    <3>1. HAVE spec.typ = "Conv"
    <3>2. DOMAIN spec.ops = 1..3 /\ OutputIdx(spec) = 3 /\ OutputIdx(c.spec) = 3
      BY <1>4, <1>5, <1>13, <3>1, AgreeMeans DEF SizedSpec, OutputIdx
    <3>3. AllOnes(Output(spec).shape) /\ \A i \in 1..3 : \A d \in 1..4 : views[i].at[d] = 0
      BY <3>1 DEF Placed, Together
    <3> QED
      BY <2>2, <2>3, <3>2, <3>3 DEF Output
  <2> QED
    BY <1>3, <1>11, <1>13, <2>4, <2>5, <2>6 DEF Placed, Together
<1> QED
  BY <1>6, <1>12, <1>13

\* and so does a ToAccum,
LEMMA AccumKeepsPlaced ==
    ASSUME Safe, Placed, ZeroThenAccum
    PROVE  Placed'
<1>1. PICK c \in Range(ToAccum(spec).children) :
          /\ spec' = c.spec
          /\ views' = [i \in DOMAIN c.from |->
                          [views[c.from[i]] EXCEPT
                              !.filled = @ \/ (c.part = "accum" /\ c.from[i] = OutputIdx(spec))]]
  BY DEF ZeroThenAccum
<1>2. Accumulates(spec.typ) /\ SizedSpec(spec)
  BY DEF ZeroThenAccum, Safe
<1>3. /\ SizedSpec(c.spec)
      /\ DOMAIN c.from = DOMAIN c.spec.ops /\ \A i \in DOMAIN c.from : c.from[i] \in DOMAIN spec.ops
      /\ \/ c.spec.typ = "Zero"
         \/ c.spec.typ = spec.typ /\ \A i \in DOMAIN c.from : c.from[i] = i
  BY <1>2, ToAccumParts
<1>4. ShapesFrom(spec, 1, c)
  BY <1>2, ToAccumShapes
<1>5. 0 \notin DOMAIN spec.ops
  BY <1>2, OpsDomain DEF SizedSpec
<1>6. /\ DOMAIN views' = DOMAIN c.spec.ops
      /\ \A i \in DOMAIN c.from :
            /\ views'[i].at = views[c.from[i]].at /\ views'[i].rest = views[c.from[i]].rest
            /\ views'[i].dims = views[c.from[i]].dims /\ views'[i].org = views[c.from[i]].org
  <2>1. \A i \in DOMAIN spec.ops : DOMAIN views[i] = ViewFields
    BY DEF Safe, Flows
  <2> QED
    BY <1>1, <1>3, <2>1 DEF ViewFields
<1>7. \A i \in DOMAIN c.from : c.spec.ops[i].shape = spec.ops[c.from[i]].shape
  BY <1>3, <1>4, <1>5 DEF ShapesFrom
<1>8. ViewsPlaced(c.spec.ops, views')
  BY <1>3, <1>6, <1>7 DEF Placed, Together, ViewsPlaced
<1>9. CASE c.spec.typ = "Zero"
  BY <1>1, <1>8, <1>9 DEF Placed, Together
<1>10. CASE c.spec.typ = spec.typ /\ \A i \in DOMAIN c.from : c.from[i] = i
  <2>1. spec.typ \in {"Matmul", "Conv"}
    BY <1>2 DEF Accumulates
  <2>2. /\ DOMAIN spec.ops = 1..3 /\ OutputIdx(spec) = 3 /\ OutputIdx(c.spec) = 3 /\ DOMAIN c.from = 1..3
    BY <1>2, <1>3, <1>10, <2>1, AgreeMeans DEF SizedSpec, OutputIdx
  <2>3. \A i \in 1..3 : /\ views'[i].at = views[i].at /\ views'[i].rest = views[i].rest
                        /\ c.spec.ops[i].shape = spec.ops[i].shape
    BY <1>6, <1>7, <1>10, <2>2
  <2>4. spec.typ = "Matmul" => ProductTogether(views')
    <3>1. HAVE spec.typ = "Matmul"
    <3>2. ProductTogether(views)
      BY <3>1 DEF Placed, Together
    <3> QED
      BY <2>3, <3>2 DEF ProductTogether
  <2>5. spec.typ = "Conv" => AllOnes(Output(c.spec).shape) /\ \A i \in 1..3 : \A d \in 1..4 : views'[i].at[d] = 0
    <3>1. HAVE spec.typ = "Conv"
    <3>2. AllOnes(Output(spec).shape) /\ \A i \in 1..3 : \A d \in 1..4 : views[i].at[d] = 0
      BY <3>1 DEF Placed, Together
    <3> QED
      BY <2>2, <2>3, <3>2 DEF Output
  <2>6. spec.typ # "Move"
    BY <2>1
  <2> QED
    BY <1>1, <1>8, <1>10, <2>4, <2>5, <2>6 DEF Placed, Together
<1> QED
  BY <1>3, <1>9, <1>10

\* and every other step.
LEMMA NextKeepsPlaced ==
    ASSUME Safe, Placed, [Next]_vars
    PROVE  Placed'
<1>1. CASE UNCHANGED vars
  BY <1>1 DEF vars, Placed
<1>2. CASE Place
  BY <1>2 DEF Place, Placed
<1> QED
  BY <1>1, <1>2, TileOutKeepsPlaced, SplitKeepsPlaced, SpatialKeepsPlaced, MoveKeepsPlaced, AccumKeepsPlaced DEF Next

\* OperandsAgree: whatever nest of loops, moves and accumulations a schedule has, its
\* body's operands are tiles of one place of the problem (the zipping of tiles in
\* scheduling.rs and the axes of datadeps.rs).
THEOREM OperandsAlwaysAgree ==
    ASSUME OneValueConvs
    PROVE  Spec => []OperandsAgree
<1>1. Init => Placed
  BY InitPlaced
<1>2. Safe /\ Placed /\ [Next]_vars => Placed'
  BY NextKeepsPlaced
<1>3. Safe /\ Placed => OperandsAgree
  BY TogetherAgrees DEF Safe
<1> QED
  BY SafeAlways, <1>1, <1>2, <1>3, PTL DEF Spec

-----------------------------------------------------------------------------
(* Canonical Specs: their layouts apply, and canonicalize leaves them alone.*)

\* A canonical operand: a record, with a layout of its own shape that applies to it.
IsRecord(t) == t = [f \in DOMAIN t |-> t[f]]
LaidOut(t) ==
    /\ IsRecord(t) /\ IsLayout(t.layout, Len(t.shape)) /\ AppliesTo(t.layout, t.shape)
    /\ CanonicalLayout(t.layout, t.shape, t.contig)

\* A shape is one, of its rank.
LEMMA ShapeOf ==
    ASSUME NEW shape, shape \in Seq(Nat \ {0})
    PROVE  Len(shape) \in Nat /\ IsShape(shape, Len(shape)) /\ DOMAIN shape = 1..Len(shape)
<1>1. Len(shape) \in Nat /\ DOMAIN shape = 1..Len(shape) /\ shape \in [1..Len(shape) -> Nat \ {0}]
  BY LenProperties
<1> QED
  BY <1>1 DEF IsShape

\* Two layouts of a rank, row-major, are one.
LEMMA RowMajorOnly ==
    ASSUME NEW L, NEW rank \in Nat, IsLayout(L, rank), IsRowMajor(L)
    PROVE  L = RowMajor(rank) /\ Len(L) = rank
<1> DEFINE n == Len(L)
<1>1. n \in Nat /\ DOMAIN L = 1..n /\ L \in Seq(PhysDims) /\ L \in [1..n -> PhysDims]
  BY LenProperties DEF IsLayout
<1>2. \A i \in 1..n : L[i].dim \in 1..rank
  BY LayoutDivides
<1>3. \A i \in 1..n : L[i] = Dynamic(i) /\ L[i].dim = i
  BY <1>1, DynamicIs DEF IsRowMajor
<1>4. \A d \in Nat : Has(L, d) <=> d \in 1..rank
  BY LayoutParts
<1>5. \A i \in 1..n : i \in 1..rank
  BY <1>2, <1>3
<1>6. \A d \in 1..rank : d \in 1..n
  <2>1. TAKE d \in 1..rank
  <2>2. PICK i \in 1..n : L[i].dim = d
    BY <1>4 DEF Has
  <2> QED
    BY <1>3, <2>2
<1>7. L = [i \in 1..n |-> L[i]]
  BY <1>1
<1> HIDE DEF n
<1>8. n = rank
  <2>1. n \in 1..n => n \in 1..rank
    BY <1>5
  <2>2. rank \in 1..rank => rank \in 1..n
    BY <1>6
  <2> QED
    BY <1>1, <2>1, <2>2
<1>9. L = RowMajor(rank)
  BY <1>3, <1>7, <1>8 DEF RowMajor
<1> QED
  BY <1>8, <1>9 DEF n

\* is_canonical holds of such an operand.
LEMMA LaidIsCanonical ==
    ASSUME NEW t, LaidOut(t)
    PROVE  IsCanonical(t)
BY DEF LaidOut, IsCanonical, CanonicalLayout, NoneWhole

\* Canonicalizing, and keeping what is canonical.
LEMMA CanonicalizedLaid ==
    ASSUME NEW t, Sized(t), IsLayout(t.layout, Len(t.shape)), AllOnes(t.shape) \/ AppliesTo(t.layout, t.shape),
           t.contig \in Nat
    PROVE  LaidOut(Canonicalized(t))
<1>1. PICK rank \in Nat : rank = Len(t.shape)
  BY ShapeOf DEF Sized
<1>2. IsShape(t.shape, rank)
  BY <1>1, ShapeOf DEF Sized
<1>3. PICK u : u = UpdateForTiling(t.layout, t.shape, t.shape, t.contig)
  OBVIOUS
<1>4. /\ IsLayout(u.layout, rank) /\ AppliesTo(u.layout, t.shape)
      /\ CanonicalLayout(u.layout, t.shape, u.contig)
  BY <1>1, <1>2, <1>3, UpdateForTilingIs
<1>5. PICK c : c = Canonicalized(t)
  OBVIOUS
<1>6. c = [t EXCEPT !.layout = u.layout, !.contig = u.contig]
  BY <1>3, <1>5 DEF Canonicalized, WithLayout
<1>7. c.layout = u.layout /\ c.contig = u.contig /\ c.shape = t.shape
  BY <1>6 DEF Sized, OpFields
<1>8. IsRecord(c)
  BY <1>6 DEF IsRecord
<1> QED
  BY <1>1, <1>4, <1>5, <1>7, <1>8 DEF LaidOut

\* canonicalize leaves it alone.
LEMMA CanonicalizedSame ==
    ASSUME NEW t, Sized(t), LaidOut(t)
    PROVE  Canonicalized(t) = t
<1>1. PICK rank \in Nat : rank = Len(t.shape)
  BY ShapeOf DEF Sized
<1>2. IsShape(t.shape, rank)
  BY <1>1, ShapeOf DEF Sized
<1>3. UpdateForTiling(t.layout, t.shape, t.shape, t.contig) = [layout |-> t.layout, contig |-> t.contig]
  BY <1>1, <1>2, UpdateSame DEF LaidOut
<1>4. Canonicalized(t) = [t EXCEPT !.layout = t.layout, !.contig = t.contig]
  BY <1>3 DEF Canonicalized, WithLayout
<1>5. t = [f \in DOMAIN t |-> t[f]] /\ DOMAIN t = OpFields
  BY DEF LaidOut, IsRecord, Sized
<1>6. [t EXCEPT !.layout = t.layout, !.contig = t.contig] = [f \in DOMAIN t |-> t[f]]
  BY <1>5 DEF OpFields
<1> QED
  BY <1>4, <1>5, <1>6

\* TensorSpec::new_canon makes one.
LEMMA NewCanonLaid ==
    ASSUME NEW shape \in Seq(Nat \ {0}), NEW dtype \in Dtypes, NEW level \in CpuLevels,
           NEW layout, NEW contig \in Nat, NEW aligned, NEW vector,
           IsLayout(layout, Len(shape)), AllOnes(shape) \/ AppliesTo(layout, shape)
    PROVE  LaidOut(NewCanon(shape, dtype, level, layout, contig, aligned, vector))
<1>1. PICK t : t = TensorSpec(shape, dtype, level, layout, contig, aligned, vector)
  OBVIOUS
<1>2. t.shape = shape /\ t.layout = layout /\ t.contig = contig /\ Sized(t)
  BY <1>1 DEF TensorSpec, Sized, OpFields
<1>3. LaidOut(Canonicalized(t))
  BY <1>2, CanonicalizedLaid
<1> QED
  BY <1>1, <1>3 DEF NewCanon

\* So does shrink, of a tile that the layout applies to.
LEMMA ShrunkLaid ==
    ASSUME NEW t, Sized(t), LaidOut(t), NEW shape \in Seq(Nat \ {0}), Len(shape) = Len(t.shape),
           AllOnes(shape) \/ AppliesTo(t.layout, shape), NEW aligned
    PROVE  LaidOut(Shrunk(t, shape, aligned)) /\ Shrunk(t, shape, aligned).level = t.level
<1>1. PICK rank \in Nat : rank = Len(t.shape)
  BY ShapeOf DEF Sized
<1>2. IsShape(shape, rank)
  BY <1>1, ShapeOf
<1>3. PICK u : u = UpdateForTiling(t.layout, t.shape, shape, t.contig)
  OBVIOUS
<1>4. t.contig \in Nat
  <2>1. t.contig \in 0..Len(t.layout) /\ IsLayout(t.layout, rank)
    BY <1>1 DEF LaidOut, CanonicalLayout
  <2>2. Len(t.layout) \in Nat
    BY <2>1, LayoutDivides
  <2> QED
    BY <2>1, <2>2
<1>5. /\ IsLayout(u.layout, rank) /\ AppliesTo(u.layout, shape)
      /\ CanonicalLayout(u.layout, shape, u.contig)
  BY <1>1, <1>2, <1>3, <1>4, UpdateForTilingIs DEF LaidOut
<1>6. PICK c : c = Shrunk(t, shape, aligned)
  OBVIOUS
<1>7. c = [[t EXCEPT !.layout = u.layout, !.contig = u.contig] EXCEPT !.shape = shape, !.aligned = aligned]
  BY <1>3, <1>6 DEF Shrunk, WithLayout
<1>8. c.layout = u.layout /\ c.contig = u.contig /\ c.shape = shape /\ c.level = t.level
  BY <1>7 DEF Sized, OpFields
<1>9. IsRecord(c)
  BY <1>7 DEF IsRecord
<1> QED
  BY <1>1, <1>5, <1>6, <1>8, <1>9 DEF LaidOut

\* An operand of a bitwise Move is relabelled to one,
LEMMA RelabelledLaid ==
    ASSUME NEW t, Sized(t)
    PROVE  LaidOut(Relabelled(t)) /\ IsRowMajor(Relabelled(t).layout)
<1>1. PICK rank \in Nat : rank = Len(t.shape)
  BY ShapeOf DEF Sized
<1>2. IsShape(t.shape, rank)
  BY <1>1, ShapeOf DEF Sized
<1>3. /\ IsLayout(RowMajor(rank), rank) /\ AppliesTo(RowMajor(rank), t.shape)
      /\ CanonicalLayout(RowMajor(rank), t.shape, rank) /\ IsRowMajor(RowMajor(rank))
  BY <1>2, RowMajorIs
<1>4. PICK c : c = Relabelled(t)
  OBVIOUS
<1>5. c = [t EXCEPT !.layout = RowMajor(rank), !.contig = rank]
  BY <1>1, <1>4 DEF Relabelled
<1>6. c.layout = RowMajor(rank) /\ c.contig = rank /\ c.shape = t.shape
  BY <1>5 DEF Sized, OpFields
<1>7. IsRecord(c)
  BY <1>5 DEF IsRecord
<1> QED
  BY <1>1, <1>3, <1>4, <1>6, <1>7 DEF LaidOut

\* and only once.
LEMMA RelabelledSame ==
    ASSUME NEW t, Sized(t), LaidOut(t), IsRowMajor(t.layout), IsContiguous(t)
    PROVE  Relabelled(t) = t
<1>1. PICK rank \in Nat : rank = Len(t.shape)
  BY ShapeOf DEF Sized
<1>2. t.layout = RowMajor(rank) /\ Len(t.layout) = rank
  BY <1>1, RowMajorOnly DEF LaidOut
<1>3. t.contig = rank
  BY <1>2 DEF IsContiguous, ContiguousFull
<1>4. Relabelled(t) = [t EXCEPT !.layout = t.layout, !.contig = t.contig]
  BY <1>1, <1>2, <1>3 DEF Relabelled
<1>5. t = [f \in DOMAIN t |-> t[f]] /\ DOMAIN t = OpFields
  BY DEF LaidOut, IsRecord, Sized
<1>6. [t EXCEPT !.layout = t.layout, !.contig = t.contig] = [f \in DOMAIN t |-> t[f]]
  BY <1>5 DEF OpFields
<1> QED
  BY <1>4, <1>5, <1>6

\* Squeezing the pixels' dimensions away,
LEMMA SqueezedLaid ==
    ASSUME NEW t, Sized(t), LaidOut(t), NEW p \in Nat \ {0}, NEW q \in Nat \ {0}, NEW g, NEW k, t.shape = <<p, q, g, k>>
    PROVE  LaidOut(Squeezed(t)) /\ Squeezed(t).level = t.level /\ Sized(Squeezed(t)) /\ Squeezed(t).shape = <<p, q>>
<1>1. PICK shape : shape = SubSeq(t.shape, 1, 2)
  OBVIOUS
<1>2. t.shape \in Seq(Nat \ {0}) /\ Len(t.shape) = 4
  BY DEF Sized
<1>3. shape \in Seq(Nat \ {0}) /\ Len(shape) = 2 /\ shape[1] = p /\ shape[2] = q
  BY <1>1, <1>2, SubSeqProperties
<1>4. shape[1] = t.shape[1] /\ shape[2] = t.shape[2]
  BY <1>3
<1>5. PICK rank \in Nat, r \in Nat : rank = 4 /\ r = 2
  OBVIOUS
<1>6. IsShape(t.shape, rank) /\ IsShape(shape, r)
  BY <1>2, <1>3, <1>5, ShapeOf
<1>7. /\ IsLayout(t.layout, rank) /\ AppliesTo(t.layout, t.shape) /\ t.contig \in 0..Len(t.layout)
  BY <1>2, <1>5 DEF LaidOut, CanonicalLayout
<1>8. PICK dropped : dropped = IF AllOnes(shape) THEN [layout |-> RowMajor(2), contig |-> 2]
                               ELSE DimDrop(t.layout, 3..Len(t.shape), t.contig)
  OBVIOUS
<1>9. IsLayout(dropped.layout, r) /\ AppliesTo(dropped.layout, shape) /\ dropped.contig \in Nat
  <2>1. CASE AllOnes(shape)
    <3>1. dropped.layout = RowMajor(r) /\ dropped.contig = 2
      BY <1>5, <1>8, <2>1
    <3> QED
      BY <1>6, <3>1, RowMajorIs
  <2>2. CASE ~AllOnes(shape)
    <3>1. dropped = DimDrop(t.layout, r + 1..rank, t.contig)
      BY <1>2, <1>5, <1>8, <2>2
    <3>2. r \in 0..rank /\ \A d \in 1..r : shape[d] = t.shape[d]
      <4>1. \A d \in 1..r : d = 1 \/ d = 2
        BY <1>5
      <4> QED
        BY <1>4, <1>5, <4>1
    <3> QED
      BY <1>6, <1>7, <3>1, <3>2, DimDropApplies
  <2> QED
    BY <2>1, <2>2
<1>10. Squeezed(t) = NewCanon(shape, t.dtype, t.level, dropped.layout, dropped.contig, t.aligned, t.vector)
  BY <1>1, <1>8 DEF Squeezed
<1>11. t.dtype \in Dtypes /\ t.level \in CpuLevels /\ Len(shape) = r
  BY <1>3, <1>5 DEF Sized
<1>12. LaidOut(Squeezed(t))
  BY <1>3, <1>9, <1>10, <1>11, NewCanonLaid
<1>13. Squeezed(t).level = t.level /\ Sized(Squeezed(t)) /\ Squeezed(t).shape = shape
  BY <1>3, <1>10, <1>11, NewCanonSized
<1>14. shape = <<p, q>>
  BY <1>3
<1> QED
  BY <1>12, <1>13, <1>14

\* and transposing, keep operands canonical.
LEMMA TransposedLaid ==
    ASSUME NEW t, Sized(t), LaidOut(t), NEW p \in Nat \ {0}, NEW q \in Nat \ {0}, t.shape = <<p, q>>
    PROVE  LaidOut(Transposed(t)) /\ Transposed(t).level = t.level
<1>1. PICK shape : shape = <<t.shape[2], t.shape[1]>>
  OBVIOUS
<1>2. t.shape \in Seq(Nat \ {0}) /\ Len(t.shape) = 2
  BY DEF Sized
<1>3. shape \in Seq(Nat \ {0}) /\ Len(shape) = 2 /\ shape[1] = t.shape[2] /\ shape[2] = t.shape[1]
  BY <1>1
<1>4. PICK rank \in Nat : rank = 2
  OBVIOUS
<1>5. IsShape(t.shape, 2) /\ IsShape(shape, 2)
  <2>1. IsShape(t.shape, rank) /\ IsShape(shape, rank)
    BY <1>2, <1>3, <1>4, ShapeOf
  <2> QED
    BY <1>4, <2>1
<1>6. IsLayout(t.layout, 2) /\ AppliesTo(t.layout, t.shape) /\ t.contig \in 0..Len(t.layout)
  <2>1. IsLayout(t.layout, Len(t.shape))
    BY DEF LaidOut
  <2> QED
    BY <1>2, <2>1 DEF LaidOut, CanonicalLayout
<1>7. IsLayout(SwapDims(t.layout), 2) /\ AppliesTo(SwapDims(t.layout), shape)
  BY <1>3, <1>5, <1>6, SwapDimsApplies
<1>8. t.contig \in Nat
  <2>1. IsLayout(t.layout, rank)
    BY <1>4, <1>6
  <2>2. Len(t.layout) \in Nat
    BY <2>1, LayoutDivides
  <2> QED
    BY <1>6, <2>2
<1>9. Transposed(t) = NewCanon(shape, t.dtype, t.level, SwapDims(t.layout), t.contig, t.aligned, t.vector)
  BY <1>1 DEF Transposed
<1>10. t.dtype \in Dtypes /\ t.level \in CpuLevels /\ IsLayout(SwapDims(t.layout), Len(shape))
  BY <1>3, <1>7 DEF Sized
<1>11. PICK new : new = SwapDims(t.layout)
  OBVIOUS
<1>12. PICK c : c = NewCanon(shape, t.dtype, t.level, new, t.contig, t.aligned, t.vector)
  OBVIOUS
<1>13. LaidOut(c)
  BY <1>3, <1>7, <1>8, <1>10, <1>11, <1>12, NewCanonLaid
<1>14. c.level = t.level
  BY <1>3, <1>10, <1>12, NewCanonSized
<1> QED
  BY <1>9, <1>11, <1>12, <1>13, <1>14

\* What a move makes of its operand.
LEMMA MovedLaid ==
    ASSUME NEW s, SizedSpec(s), NEW a \in MoveActions(s), LaidOut(s.ops[a.source])
    PROVE  LaidOut(MovedOperand(s, a))
<1>1. PICK t : t = s.ops[a.source]
  OBVIOUS
<1>2. Sized(t) /\ a.dtype \in Dtypes /\ a.level \in CpuLevels /\ a.layout \in MoveDestinationLayouts(t.shape, t.dtype)
  BY <1>1, MoveActionsAre, MovedIs
<1>3. t.shape \in Seq(Nat \ {0}) /\ t.dtype \in Dtypes
  BY <1>2 DEF Sized
<1>4. PICK rank \in Nat : rank = Len(t.shape)
  BY <1>3, ShapeOf
<1>5. IsShape(t.shape, rank)
  BY <1>3, <1>4, ShapeOf
<1>6. IsLayout(a.layout, rank) /\ AppliesTo(a.layout, t.shape)
  BY <1>2, <1>3, <1>5, DestinationsApply
<1>7. PICK miss : miss = MoveIsCacheMiss(t, a.dtype, a.level, a.layout)
  OBVIOUS
<1>8. PICK contig : contig = IF MoveIsCacheMiss(t, a.dtype, a.level, a.layout) THEN t.contig ELSE ContiguousFull(a.layout)
  OBVIOUS
<1>9. contig \in Nat
  <2>1. t.contig \in 0..Len(t.layout) /\ IsLayout(t.layout, rank)
    BY <1>1, <1>4 DEF LaidOut, CanonicalLayout
  <2>2. Len(t.layout) \in Nat /\ Len(a.layout) \in Nat
    BY <1>6, <2>1, LayoutDivides
  <2>3. contig = t.contig \/ contig = Len(a.layout)
    BY <1>8 DEF ContiguousFull
  <2> QED
    BY <2>1, <2>2, <2>3
<1>10. PICK aligned : MovedOperand(s, a) = NewCanon(t.shape, a.dtype, a.level, a.layout, contig, aligned, a.vector)
  BY <1>1, <1>8 DEF MovedOperand, MoveletInner
<1> QED
  BY <1>2, <1>3, <1>4, <1>6, <1>9, <1>10, NewCanonLaid

\* An operand that can be canonicalized.
Layable(t) ==
    /\ Sized(t) /\ IsLayout(t.layout, Len(t.shape)) /\ t.contig \in Nat
    /\ AllOnes(t.shape) \/ AppliesTo(t.layout, t.shape)

BitwiseRowMajor(typ, ops) == IsBitwise(typ, ops) => \A i \in 1..2 : IsRowMajor(ops[i].layout)

LimitsUsable(s) == \A l \in 1..4 : s.limits[l] # 0 => ~SlowerThanAll(s.ops, l)

\* A canonical Spec, whose operands are.
LaidSpec(s) ==
    /\ s = [f \in SpecFields |-> s[f]] /\ s.ops = [i \in DOMAIN s.ops |-> s.ops[i]]
    /\ \A i \in DOMAIN s.ops : LaidOut(s.ops[i])
    /\ BitwiseRowMajor(s.typ, s.ops) /\ LimitsUsable(s)

\* An operand that is canonical can be.
LEMMA LaidLayable ==
    ASSUME NEW t, Sized(t), LaidOut(t)
    PROVE  Layable(t)
<1>1. PICK rank \in Nat : rank = Len(t.shape)
  BY ShapeOf DEF Sized
<1>2. IsLayout(t.layout, rank) /\ t.contig \in 0..Len(t.layout) /\ AppliesTo(t.layout, t.shape)
  BY <1>1 DEF LaidOut, CanonicalLayout
<1>3. Len(t.layout) \in Nat
  BY <1>2, LayoutDivides
<1> QED
  BY <1>1, <1>2, <1>3 DEF Layable

\* Canonicalizing a Spec's operands makes them canonical, a bitwise Move's row-major.
LEMMA CanonicalOpsLaid ==
    ASSUME NEW typ, NEW ops, NEW n \in Nat, DOMAIN ops = 1..n, \A i \in 1..n : Layable(ops[i]),
           typ = "Move" => n = 2
    PROVE  LET c == CanonicalOps(typ, ops)
           IN  /\ c = [i \in 1..n |-> c[i]] /\ \A i \in 1..n : LaidOut(c[i])
               /\ BitwiseRowMajor(typ, c)
<1>0. PICK c : c = CanonicalOps(typ, ops)
  OBVIOUS
<1>1. PICK once : once = [i \in DOMAIN ops |-> Canonicalized(ops[i])]
  OBVIOUS
<1>2. \A i \in 1..n : LaidOut(once[i]) /\ Sized(once[i])
  <2>1. TAKE i \in 1..n
  <2>2. Layable(ops[i]) /\ once[i] = Canonicalized(ops[i])
    BY <1>1
  <2>3. LaidOut(Canonicalized(ops[i]))
    BY <2>2, CanonicalizedLaid DEF Layable
  <2>4. Sized(Canonicalized(ops[i]))
    BY <2>2, CanonicalizedAlike DEF Layable, Alike, Sized
  <2> QED
    BY <2>2, <2>3, <2>4
<1>3. CASE IsBitwise(typ, once)
  <2>1. c = [i \in 1..n |-> Relabelled(once[i])]
    BY <1>0, <1>1, <1>3 DEF CanonicalOps, RelabelledIfBitwise
  <2>2. \A i \in 1..n : LaidOut(Relabelled(once[i])) /\ IsRowMajor(Relabelled(once[i]).layout)
    BY <1>2, RelabelledLaid
  <2>3. n = 2
    BY <1>3 DEF IsBitwise
  <2> QED
    BY <1>0, <2>1, <2>2, <2>3 DEF BitwiseRowMajor
<1>4. CASE ~IsBitwise(typ, once)
  <2>1. c = once
    BY <1>0, <1>1, <1>4 DEF CanonicalOps, RelabelledIfBitwise
  <2> QED
    BY <1>0, <1>1, <1>2, <1>4, <2>1 DEF BitwiseRowMajor
<1> QED
  BY <1>3, <1>4

\* And leaves them alone when they are.
LEMMA CanonicalOpsSame ==
    ASSUME NEW typ, NEW ops, NEW n \in Nat, ops = [i \in 1..n |-> ops[i]],
           \A i \in 1..n : Sized(ops[i]) /\ LaidOut(ops[i]), typ = "Move" => n = 2, BitwiseRowMajor(typ, ops)
    PROVE  CanonicalOps(typ, ops) = ops
<1>1. [i \in DOMAIN ops |-> Canonicalized(ops[i])] = ops
  <2>1. \A i \in 1..n : Canonicalized(ops[i]) = ops[i]
    BY CanonicalizedSame
  <2>2. DOMAIN ops = 1..n
    OBVIOUS
  <2> QED
    BY <2>1, <2>2
<1>2. CanonicalOps(typ, ops) = RelabelledIfBitwise(typ, ops)
  BY <1>1 DEF CanonicalOps
<1>3. CASE IsBitwise(typ, ops)
  <2>1. n = 2 /\ IsContiguous(ops[1]) /\ IsContiguous(ops[2])
    BY <1>3 DEF IsBitwise
  <2>2. \A i \in 1..2 : Relabelled(ops[i]) = ops[i]
    <3>1. TAKE i \in 1..2
    <3>2. IsRowMajor(ops[i].layout) /\ IsContiguous(ops[i])
      <4>1. i = 1 \/ i = 2
        OBVIOUS
      <4> QED
        BY <1>3, <2>1, <4>1 DEF BitwiseRowMajor
    <3>3. Sized(ops[i]) /\ LaidOut(ops[i])
      BY <2>1
    <3> QED
      BY <3>2, <3>3, RelabelledSame
  <2>3. DOMAIN ops = 1..2
    BY <2>1
  <2>4. [i \in DOMAIN ops |-> Relabelled(ops[i])] = ops
    BY <2>1, <2>2, <2>3
  <2> QED
    BY <1>2, <1>3, <2>4 DEF RelabelledIfBitwise
<1>4. CASE ~IsBitwise(typ, ops)
  BY <1>2, <1>4 DEF RelabelledIfBitwise
<1> QED
  BY <1>3, <1>4

\* Which levels are slower than all depends on the operands' levels alone.
LEMMA SameLevels ==
    ASSUME NEW ops, NEW new, DOMAIN new = DOMAIN ops, \A i \in DOMAIN ops : new[i].level = ops[i].level, NEW l
    PROVE  SlowerThanAll(new, l) <=> SlowerThanAll(ops, l)
BY DEF SlowerThanAll

\* Spec::canonicalize makes a canonical Spec,
LEMMA CanonicalSpecLaid ==
    ASSUME NEW s, DOMAIN s = SpecFields, SizedOps(s.typ, s.ops), \A i \in DOMAIN s.ops : Layable(s.ops[i])
    PROVE  LaidSpec(CanonicalSpec(s))
<1>1. PICK c : c = CanonicalSpec(s)
  OBVIOUS
<1>2. PICK n \in 1..3 : DOMAIN s.ops = 1..n /\ n = InputCount[s.typ] + 1
  BY OpsDomain
<1>3. s.typ = "Move" => n = 2
  BY <1>2 DEF InputCount
<1>4. c = [s EXCEPT !.ops = CanonicalOps(s.typ, s.ops), !.limits = ZeroSlower(s.ops, s.limits)]
  BY <1>1 DEF CanonicalSpec
<1>5. /\ DOMAIN s = SpecFields /\ c = [f \in SpecFields |-> c[f]] /\ c.typ = s.typ
      /\ c.ops = CanonicalOps(s.typ, s.ops) /\ c.limits = ZeroSlower(s.ops, s.limits)
  BY <1>4 DEF SpecFields
<1>6. /\ c.ops = [i \in 1..n |-> c.ops[i]] /\ \A i \in 1..n : LaidOut(c.ops[i])
      /\ BitwiseRowMajor(s.typ, c.ops)
  <2>1. PICK typ, ops : typ = s.typ /\ ops = s.ops
    OBVIOUS
  <2>2. n \in Nat /\ DOMAIN ops = 1..n /\ (typ = "Move" => n = 2) /\ \A i \in 1..n : Layable(ops[i])
    BY <1>2, <1>3, <2>1
  <2>3. PICK d : d = CanonicalOps(typ, ops)
    OBVIOUS
  <2>4. d = [i \in 1..n |-> d[i]] /\ (\A i \in 1..n : LaidOut(d[i])) /\ BitwiseRowMajor(typ, d)
    BY <2>2, <2>3, CanonicalOpsLaid
  <2> QED
    BY <1>5, <2>1, <2>3, <2>4
<1>7. DOMAIN c.ops = 1..n
  BY <1>6
<1>8. \A i \in 1..n : c.ops[i].level = s.ops[i].level
  <2>1. \A i \in 1..n : Alike(s.ops[i], c.ops[i])
    <3>1. PICK typ, ops : typ = s.typ /\ ops = s.ops
      OBVIOUS
    <3>2. n \in Nat /\ DOMAIN ops = 1..n /\ \A i \in 1..n : Sized(ops[i])
      BY <1>2, <3>1 DEF Layable
    <3>3. \A i \in 1..n : Alike(ops[i], CanonicalOps(typ, ops)[i])
      BY <3>2, CanonicalOpsAlike
    <3> QED
      BY <1>5, <3>1, <3>3
  <2> QED
    BY <2>1 DEF Alike
<1>9. LimitsUsable(c)
  <2>1. \A l \in 1..4 : SlowerThanAll(c.ops, l) <=> SlowerThanAll(s.ops, l)
    BY <1>2, <1>7, <1>8, SameLevels
  <2>2. \A l \in 1..4 : c.limits[l] = IF SlowerThanAll(s.ops, l) THEN 0 ELSE s.limits[l]
    BY <1>5 DEF ZeroSlower
  <2> QED
    BY <2>1, <2>2 DEF LimitsUsable
<1> QED
  BY <1>1, <1>5, <1>6, <1>7, <1>9 DEF LaidSpec

\* and keeps one as it is.
LEMMA CanonicalSpecSame ==
    ASSUME NEW s, SizedSpec(s), LaidSpec(s)
    PROVE  CanonicalSpec(s) = s
<1>2. PICK n \in 1..3 : DOMAIN s.ops = 1..n /\ n = InputCount[s.typ] + 1
  BY OpsDomain DEF SizedSpec
<1>3. s.typ = "Move" => n = 2
  BY <1>2 DEF InputCount
<1>4. \A i \in 1..n : Sized(s.ops[i])
  BY <1>2 DEF SizedSpec, SizedOps
<1>5. CanonicalOps(s.typ, s.ops) = s.ops
  <2>1. PICK typ, ops : typ = s.typ /\ ops = s.ops
    OBVIOUS
  <2>2. n \in Nat /\ ops = [i \in 1..n |-> ops[i]] /\ (typ = "Move" => n = 2) /\ BitwiseRowMajor(typ, ops)
    <3>1. ops = [i \in DOMAIN ops |-> ops[i]] /\ BitwiseRowMajor(typ, ops)
      BY <2>1 DEF LaidSpec
    <3>2. DOMAIN ops = 1..n
      BY <1>2, <2>1
    <3> QED
      BY <1>2, <1>3, <2>1, <3>1, <3>2
  <2>3. \A i \in 1..n : Sized(ops[i]) /\ LaidOut(ops[i])
    BY <1>2, <1>4, <2>1 DEF LaidSpec
  <2>4. CanonicalOps(typ, ops) = ops
    BY <2>2, <2>3, CanonicalOpsSame
  <2> QED
    BY <2>1, <2>4
<1>6. ZeroSlower(s.ops, s.limits) = s.limits
  <2>1. s.limits \in [1..4 -> Nat]
    BY DEF SizedSpec
  <2>2. \A l \in 1..4 : (IF SlowerThanAll(s.ops, l) THEN 0 ELSE s.limits[l]) = s.limits[l]
    BY <2>1 DEF LaidSpec, LimitsUsable
  <2> QED
    BY <2>1, <2>2 DEF ZeroSlower
<1>7. CanonicalSpec(s) = [s EXCEPT !.ops = s.ops, !.limits = s.limits]
  BY <1>5, <1>6 DEF CanonicalSpec
<1>8. s = [f \in SpecFields |-> s[f]]
  BY DEF LaidSpec
<1>9. [s EXCEPT !.ops = s.ops, !.limits = s.limits] = [f \in SpecFields |-> s[f]]
  BY <1>8 DEF SpecFields
<1> QED
  BY <1>7, <1>8, <1>9

\* The roots are canonical.
LEMMA RootLaid ==
    ASSUME NEW r \in Roots
    PROVE  LaidSpec(r)
<1>1. /\ r \in SpecRecords /\ \A i \in DOMAIN r.ops : WellLaid(r.ops[i])
      /\ SpecIsCanonical(r)
  BY WalkAssumption
<1>2. r = [f \in SpecFields |-> r[f]] /\ r.ops \in Seq(Tensors)
  BY <1>1 DEF SpecRecords, SpecFields
<1>3. r.ops = [i \in DOMAIN r.ops |-> r.ops[i]] /\ \A i \in DOMAIN r.ops : r.ops[i] \in Tensors
  <2>1. PICK ops : ops = r.ops
    OBVIOUS
  <2>2. Len(ops) \in Nat /\ DOMAIN ops = 1..Len(ops) /\ ops \in [1..Len(ops) -> Tensors]
    BY <1>2, <2>1, LenProperties
  <2>3. ops = [i \in DOMAIN ops |-> ops[i]] /\ \A i \in DOMAIN ops : ops[i] \in Tensors
    BY <2>2
  <2> QED
    BY <2>1, <2>3
<1>4. \A i \in DOMAIN r.ops : LaidOut(r.ops[i])
  <2>1. TAKE i \in DOMAIN r.ops
  <2>2. PICK t : t = r.ops[i]
    OBVIOUS
  <2>3. WellLaid(t) /\ t \in Tensors /\ IsCanonical(t)
    BY <1>1, <1>3, <2>2 DEF SpecIsCanonical
  <2>4. IsRecord(t)
    BY <2>3 DEF IsRecord, Tensors
  <2>5. CanonicalLayout(t.layout, t.shape, t.contig)
    BY <2>3 DEF WellLaid, IsCanonical, CanonicalLayout, NoneWhole
  <2> QED
    BY <2>2, <2>3, <2>4, <2>5 DEF LaidOut, WellLaid
<1>5. BitwiseRowMajor(r.typ, r.ops) /\ LimitsUsable(r)
  BY <1>1 DEF SpecIsCanonical, BitwiseRowMajor, LimitsUsable
<1> QED
  BY <1>2, <1>3, <1>4, <1>5 DEF LaidSpec

\* A tile that an operand may have.
TileFits(t, shape) ==
    /\ shape \in Seq(Nat \ {0}) /\ Len(shape) = Len(t.shape)
    /\ AllOnes(shape) \/ AppliesTo(t.layout, shape)
TilesFit(s, tiles) ==
    \A i \in DOMAIN s.ops : IsTiled(tiles, i) => TileFits(s.ops[i], TileFor(tiles, i).tiling.shape)

\* The operands of a loop's body, before they are canonicalized.
LEMMA TiledLaid ==
    ASSUME NEW s, SizedSpec(s), LaidSpec(s), NEW tiles, TilesFit(s, tiles)
    PROVE  /\ DOMAIN TiledOps(s, tiles) = DOMAIN s.ops
           /\ \A i \in DOMAIN s.ops : /\ LaidOut(TiledOps(s, tiles)[i]) /\ Sized(TiledOps(s, tiles)[i])
                                      /\ TiledOps(s, tiles)[i].level = s.ops[i].level
<1>0. SizedOps(s.typ, s.ops)
  BY DEF SizedSpec
<1>1. \A i \in DOMAIN s.ops : TiledShape(s, tiles, i) \in Seq(Nat \ {0})
  BY <1>0 DEF TiledShape, TilesFit, TileFits, SizedOps, Sized
<1>2. SizedOps(s.typ, TiledOps(s, tiles)) /\ DOMAIN TiledOps(s, tiles) = DOMAIN s.ops
  BY <1>0, <1>1, TiledSized
<1>3. ASSUME NEW i \in DOMAIN s.ops
      PROVE  LaidOut(TiledOps(s, tiles)[i]) /\ TiledOps(s, tiles)[i].level = s.ops[i].level
  <2>1. Sized(s.ops[i]) /\ LaidOut(s.ops[i])
    BY <1>0 DEF SizedOps, LaidSpec
  <2>2. CASE IsTiled(tiles, i)
    <3>1. PICK t, tiling : t = s.ops[i] /\ tiling = TileFor(tiles, i).tiling
      OBVIOUS
    <3>2. TileFits(t, tiling.shape)
      BY <2>2, <3>1 DEF TilesFit
    <3>3. TiledOps(s, tiles)[i] = Shrunk(t, tiling.shape, AlignedApprox(tiling, t))
      BY <2>2, <3>1 DEF TiledOps, TileSpec
    <3> QED
      BY <2>1, <3>1, <3>2, <3>3, ShrunkLaid DEF TileFits
  <2>3. CASE ~IsTiled(tiles, i)
    <3>1. TiledOps(s, tiles)[i] = s.ops[i]
      BY <2>3 DEF TiledOps
    <3> QED
      BY <2>1, <3>1
  <2> QED
    BY <2>2, <2>3
<1> QED
  BY <1>2, <1>3 DEF SizedOps

\* The body of a loop is canonical: its layouts are those of the tiles, and the
\* levels, so the limits, stay.
LEMMA LoopBodyLaid ==
    ASSUME NEW s, SizedSpec(s), LaidSpec(s), NEW tiles, TilesFit(s, tiles), NEW parallel
    PROVE  LaidSpec(BodyOfLoop(s, tiles, parallel))
<1>1. PICK c : c = BodyOfLoop(s, tiles, parallel)
  OBVIOUS
<1>2. PICK tiled : tiled = TiledOps(s, tiles)
  OBVIOUS
<1>3. c = [s EXCEPT !.ops = CanonicalOps(s.typ, tiled), !.serial = @ \/ parallel]
  BY <1>1, <1>2 DEF BodyOfLoop, LoopOver, Impl, Child
<1>4. /\ c = [f \in SpecFields |-> c[f]] /\ c.typ = s.typ /\ c.limits = s.limits
      /\ c.ops = CanonicalOps(s.typ, tiled)
  BY <1>3 DEF SizedSpec, SpecFields
<1>5. PICK n \in 1..3 : DOMAIN s.ops = 1..n /\ n = InputCount[s.typ] + 1
  BY OpsDomain DEF SizedSpec
<1>6. PICK typ : typ = s.typ
  OBVIOUS
<1>7. n \in Nat /\ DOMAIN tiled = 1..n /\ (typ = "Move" => n = 2) /\ \A i \in 1..n : Layable(tiled[i]) /\ Sized(tiled[i])
  <2>1. DOMAIN tiled = 1..n /\ \A i \in 1..n : LaidOut(tiled[i]) /\ Sized(tiled[i])
    BY <1>2, <1>5, TiledLaid
  <2>2. \A i \in 1..n : Layable(tiled[i])
    BY <2>1, LaidLayable
  <2> QED
    BY <1>5, <1>6, <2>1, <2>2 DEF InputCount
<1>8. PICK d : d = CanonicalOps(typ, tiled)
  OBVIOUS
<1>9. d = [i \in 1..n |-> d[i]] /\ (\A i \in 1..n : LaidOut(d[i])) /\ BitwiseRowMajor(typ, d)
  BY <1>7, <1>8, CanonicalOpsLaid
<1>10. \A i \in 1..n : d[i].level = s.ops[i].level
  <2>1. \A i \in 1..n : Alike(tiled[i], CanonicalOps(typ, tiled)[i])
    BY <1>7, CanonicalOpsAlike
  <2>2. \A i \in 1..n : tiled[i].level = s.ops[i].level
    BY <1>2, <1>5, TiledLaid
  <2> QED
    BY <1>8, <2>1, <2>2 DEF Alike
<1>11. c.ops = d /\ DOMAIN c.ops = DOMAIN s.ops
  BY <1>4, <1>5, <1>6, <1>8, <1>9
<1>12. LimitsUsable(c)
  <2>1. \A l \in 1..4 : SlowerThanAll(c.ops, l) <=> SlowerThanAll(s.ops, l)
    BY <1>5, <1>10, <1>11, SameLevels
  <2>2. LimitsUsable(s)
    BY DEF LaidSpec
  <2> QED
    BY <1>4, <2>1, <2>2 DEF LimitsUsable
<1>13. LaidSpec(c)
  <2>1. c.ops = [i \in DOMAIN c.ops |-> c.ops[i]] /\ \A i \in DOMAIN c.ops : LaidOut(c.ops[i])
    BY <1>5, <1>9, <1>11
  <2>2. BitwiseRowMajor(c.typ, c.ops)
    BY <1>4, <1>6, <1>9, <1>11
  <2> QED
    BY <1>4, <1>12, <2>1, <2>2 DEF LaidSpec
<1> QED
  BY <1>1, <1>13

\* The operands of the body have the shapes of the tiles.
LEMMA BodyShapes ==
    ASSUME NEW s, SizedSpec(s), NEW tiles, NEW parallel, NEW i \in DOMAIN s.ops
    PROVE  BodyOfLoop(s, tiles, parallel).ops[i].shape = TiledShape(s, tiles, i)
<1>1. PICK tiled : tiled = TiledOps(s, tiles)
  OBVIOUS
<1>2. BodyOfLoop(s, tiles, parallel).ops = CanonicalOps(s.typ, tiled)
  BY <1>1 DEF BodyOfLoop, LoopOver, Impl, Child, SizedSpec, SpecFields
<1>3. \A j \in DOMAIN s.ops : DOMAIN s.ops[j] = OpFields
  BY DEF SizedSpec, SizedOps, Sized
<1>4. ASSUME NEW t, DOMAIN t = OpFields
      PROVE  /\ \A tiling : DOMAIN TileSpec(tiling, t) = OpFields /\ TileSpec(tiling, t).shape = tiling.shape
             /\ DOMAIN Canonicalized(t) = OpFields /\ Canonicalized(t).shape = t.shape
             /\ Relabelled(t).shape = t.shape
  BY <1>4 DEF TileSpec, Shrunk, WithLayout, OpFields, Canonicalized, Relabelled
<1>5. DOMAIN tiled = DOMAIN s.ops /\ DOMAIN tiled[i] = OpFields /\ tiled[i].shape = TiledShape(s, tiles, i)
  <2>1. DOMAIN tiled = DOMAIN s.ops
    BY <1>1 DEF TiledOps
  <2>2. tiled[i] = IF IsTiled(tiles, i) THEN TileSpec(TileFor(tiles, i).tiling, s.ops[i]) ELSE s.ops[i]
    BY <1>1 DEF TiledOps
  <2>3. CASE IsTiled(tiles, i)
    <3>1. PICK tiling : tiling = TileFor(tiles, i).tiling
      OBVIOUS
    <3>2. TiledShape(s, tiles, i) = tiling.shape /\ tiled[i] = TileSpec(tiling, s.ops[i])
      BY <2>2, <2>3, <3>1 DEF TiledShape
    <3>3. DOMAIN TileSpec(tiling, s.ops[i]) = OpFields /\ TileSpec(tiling, s.ops[i]).shape = tiling.shape
      BY <1>3, <1>4
    <3> QED
      BY <2>1, <3>2, <3>3
  <2>4. CASE ~IsTiled(tiles, i)
    BY <1>3, <2>1, <2>2, <2>4 DEF TiledShape
  <2> QED
    BY <2>3, <2>4
<1>6. PICK once : once = [j \in DOMAIN tiled |-> Canonicalized(tiled[j])]
  OBVIOUS
<1>7. DOMAIN once = DOMAIN s.ops /\ DOMAIN once[i] = OpFields /\ once[i].shape = TiledShape(s, tiles, i)
  BY <1>4, <1>5, <1>6
<1>8. CanonicalOps(s.typ, tiled) = RelabelledIfBitwise(s.typ, once)
  BY <1>6 DEF CanonicalOps
<1>9. RelabelledIfBitwise(s.typ, once)[i].shape = TiledShape(s, tiles, i)
  BY <1>4, <1>7 DEF RelabelledIfBitwise
<1> QED
  BY <1>2, <1>8, <1>9

\* A TileOut tiles every input.
LEMMA TilingPerInput ==
    ASSUME NEW s, NEW out, s.typ \in {"Zero", "Move", "Matmul", "Conv"}
    PROVE  DOMAIN InputTilings(s, out) = 1..InputCount[s.typ]
<1>1. CASE s.typ = "Zero"
  BY <1>1 DEF InputTilings, InputCount
<1>2. CASE s.typ = "Move"
  BY <1>2 DEF InputTilings, InputCount
<1>3. CASE s.typ = "Matmul"
  BY <1>3 DEF InputTilings, InputCount
<1>4. CASE s.typ = "Conv"
  BY <1>4 DEF InputTilings, InputCount
<1> QED
  BY <1>1, <1>2, <1>3, <1>4

\* Every operand of a Matmul has two dimensions, and of a Conv four.
LEMMA OperandRanks ==
    ASSUME NEW s, SizedSpec(s)
    PROVE  /\ s.typ = "Matmul" => \A i \in DOMAIN s.ops : Len(s.ops[i].shape) = 2
           /\ s.typ = "Conv" => \A i \in DOMAIN s.ops : Len(s.ops[i].shape) = 4
           /\ s.typ \in {"Zero", "Move"} => \A i \in DOMAIN s.ops : s.ops[i].shape = s.ops[1].shape
<1>0. SizedOps(s.typ, s.ops) /\ ShapesAgree(s)
  BY DEF SizedSpec
<1>1. ASSUME s.typ = "Matmul"
      PROVE  \A i \in DOMAIN s.ops : Len(s.ops[i].shape) = 2
  <2>1. PICK m \in Nat \ {0}, k \in Nat \ {0}, n \in Nat \ {0} : MatmulShapes(s.ops, m, k, n)
    BY <1>0, <1>1, AgreeMatmul
  <2>2. \A i \in DOMAIN s.ops : i = 1 \/ i = 2 \/ i = 3
    BY <1>0, <1>1, AgreeMeans
  <2>3. Len(s.ops[1].shape) = 2 /\ Len(s.ops[2].shape) = 2 /\ Len(s.ops[3].shape) = 2
    BY <2>1 DEF MatmulShapes
  <2> QED
    BY <2>2, <2>3
<1>2. ASSUME s.typ = "Conv"
      PROVE  \A i \in DOMAIN s.ops : Len(s.ops[i].shape) = 4
  <2>1. PICK b \in Nat \ {0}, f \in Nat \ {0}, e \in Nat \ {0}, h \in Nat \ {0}, w \in Nat \ {0},
             y \in Nat \ {0}, x \in Nat \ {0} : ConvShapes(s.ops, b, f, e, h, w, y, x)
    BY <1>0, <1>2, AgreeConv
  <2>2. \A i \in DOMAIN s.ops : i = 1 \/ i = 2 \/ i = 3
    BY <1>0, <1>2, AgreeMeans
  <2>3. Len(s.ops[1].shape) = 4 /\ Len(s.ops[2].shape) = 4 /\ Len(s.ops[3].shape) = 4
    BY <2>1 DEF ConvShapes
  <2> QED
    BY <2>2, <2>3
<1>3. s.typ \in {"Zero", "Move"} => \A i \in DOMAIN s.ops : s.ops[i].shape = s.ops[1].shape
  BY <1>0, AgreeElementwise
<1> QED
  BY <1>1, <1>2, <1>3

\* The body's operands have the ranks of the Spec's.
LEMMA TileOutRanks ==
    ASSUME NEW s, SizedSpec(s), NEW a \in TileOutActions(s), TileOutApplies(s, a.shape, a.parallel)
    PROVE  LET c == BodyOfLoop(s, TileOutTiles(s, a.shape), a.parallel) IN
           /\ SizedSpec(c) /\ DOMAIN c.ops = DOMAIN s.ops
           /\ \A i \in DOMAIN s.ops : Len(c.ops[i].shape) = Len(s.ops[i].shape)
<1>1. PICK c : c = BodyOfLoop(s, TileOutTiles(s, a.shape), a.parallel)
  OBVIOUS
<1>2. SizedSpec(c) /\ c.typ = s.typ
  BY <1>1, TileOutBody, LoopKeeps
<1>3. DOMAIN c.ops = DOMAIN s.ops /\ s.typ \in {"Zero", "Move", "Matmul", "Conv"}
  BY <1>2 DEF SizedSpec, SizedOps, InputCount
<1>4. ASSUME NEW i \in DOMAIN s.ops
      PROVE  Len(c.ops[i].shape) = Len(s.ops[i].shape)
  <2>1. CASE s.typ \in {"Matmul", "Conv"}
    <3>1. i \in DOMAIN c.ops
      BY <1>3
    <3>2. \/ s.typ = "Matmul" /\ Len(s.ops[i].shape) = 2 /\ Len(c.ops[i].shape) = 2
          \/ s.typ = "Conv" /\ Len(s.ops[i].shape) = 4 /\ Len(c.ops[i].shape) = 4
      BY <1>2, <2>1, <3>1, OperandRanks
    <3> QED
      BY <3>2
  <2>2. CASE s.typ \in {"Zero", "Move"}
    <3>1. c.ops[i].shape = c.ops[1].shape /\ s.ops[i].shape = s.ops[1].shape
      BY <1>2, <1>3, <2>2, OperandRanks
    <3>2. SizedOps(s.typ, s.ops)
      BY DEF SizedSpec
    <3>3. OutputIdx(s) \in DOMAIN s.ops
      BY <3>2, OpsCount
    <3>4. Output(s).shape = s.ops[1].shape /\ Output(s).shape \in Seq(Nat \ {0})
      BY <2>2, <3>2, <3>3, OperandRanks DEF Output, SizedOps, Sized
    <3>5. a.shape \in Seq(Nat \ {0}) /\ Len(a.shape) = Len(Output(s).shape) /\ a.parallel \in BOOLEAN
      BY <3>4, TileOutActionsAre
    <3>6. c.ops[1].shape = a.shape
      BY <1>1, <2>2, <3>5, TileOutElementwise
    <3> QED
      BY <3>1, <3>4, <3>5, <3>6
  <2> QED
    BY <1>3, <2>1, <2>2
<1> QED
  BY <1>1, <1>2, <1>3, <1>4

\* TileOut has asked whether its tiles are valid.
LEMMA TileOutFits ==
    ASSUME NEW s, SizedSpec(s), NEW a \in TileOutActions(s), TileOutApplies(s, a.shape, a.parallel)
    PROVE  TilesFit(s, TileOutTiles(s, a.shape))
<1>1. PICK tiles : tiles = TileOutTiles(s, a.shape)
  OBVIOUS
<1>2. PICK c : c = BodyOfLoop(s, tiles, a.parallel)
  OBVIOUS
<1>3. /\ SizedSpec(c) /\ DOMAIN c.ops = DOMAIN s.ops
      /\ \A i \in DOMAIN s.ops : Len(c.ops[i].shape) = Len(s.ops[i].shape)
  BY <1>1, <1>2, TileOutRanks
<1>4. SizedOps(s.typ, s.ops) /\ s.typ \in {"Zero", "Move", "Matmul", "Conv"}
  BY DEF SizedSpec, SizedOps, InputCount
<1>5. PICK tilings : tilings = InputTilings(s, SimpleTiling(a.shape))
  OBVIOUS
<1>6. DOMAIN tilings = 1..InputCount[s.typ]
  BY <1>4, <1>5, TilingPerInput
<1>7. /\ TileFor(tiles, OutputIdx(s)) = OutputTile(s, a.shape)
      /\ \A i \in 1..InputCount[s.typ] :
            IsTiled(tiles, i) => TileFor(tiles, i) = InputTile(s, a.shape, i)
  BY <1>1, <1>4, <1>5, <1>6, TileOutTileFor
<1>8. /\ AllOnes(a.shape) \/ AppliesTo(Output(s).layout, a.shape)
      /\ \A i \in DOMAIN tilings : AllOnes(tilings[i].tiling.shape) \/ AppliesTo(s.ops[i].layout, tilings[i].tiling.shape)
  BY <1>5 DEF TileOutApplies, IsValidTileShape
<1>9. ASSUME NEW i \in DOMAIN s.ops, IsTiled(tiles, i)
      PROVE  TileFits(s.ops[i], TileFor(tiles, i).tiling.shape)
  <2>1. PICK shape : shape = TileFor(tiles, i).tiling.shape
    OBVIOUS
  <2>2. shape = c.ops[i].shape
    BY <1>2, <1>9, <2>1, BodyShapes DEF TiledShape
  <2>3. shape \in Seq(Nat \ {0}) /\ Len(shape) = Len(s.ops[i].shape)
    BY <1>3, <2>2 DEF SizedSpec, SizedOps, Sized
  <2>4. AllOnes(shape) \/ AppliesTo(s.ops[i].layout, shape)
    <3>1. CASE i = OutputIdx(s)
      <4>1. shape = a.shape
        BY <1>7, <2>1, <3>1 DEF OutputTile, LoopTile, SimpleTiling
      <4> QED
        BY <1>8, <3>1, <4>1 DEF Output
    <3>2. CASE i \in 1..InputCount[s.typ]
      <4>1. shape = tilings[i].tiling.shape
        BY <1>5, <1>7, <1>9, <2>1, <3>2 DEF InputTile, LoopTile
      <4> QED
        BY <1>6, <1>8, <3>2, <4>1
    <3>3. i = OutputIdx(s) \/ i \in 1..InputCount[s.typ]
      <4>1. PICK n \in Nat : n = InputCount[s.typ] /\ OutputIdx(s) = n + 1
        BY <1>4, OpsCount
      <4>2. DOMAIN s.ops = 1..n + 1
        BY <1>4, <4>1 DEF SizedOps
      <4> QED
        BY <4>1, <4>2
    <3> QED
      BY <3>1, <3>2, <3>3
  <2> QED
    BY <2>1, <2>3, <2>4 DEF TileFits
<1> QED
  BY <1>1, <1>9 DEF TilesFit

\* Split has asked whether its tiles are valid.
LEMMA SplitFits ==
    ASSUME NEW s, SizedSpec(s), s.typ \in {"Matmul"}, NEW a \in SplitActions(s)
    PROVE  TilesFit(s, SplitTiles(s, a.k))
<1>0. SizedOps(s.typ, s.ops) /\ ShapesAgree(s) /\ s.typ = "Matmul"
  BY DEF SizedSpec
<1>1. PICK m \in Nat \ {0}, k \in Nat \ {0}, n \in Nat \ {0} : MatmulShapes(s.ops, m, k, n)
  BY <1>0, AgreeMatmul
<1>2. PICK j \in DimRange(s.ops[1].shape[2], FALSE) :
         /\ a = [kind |-> "Split", k |-> j]
         /\ IsValidTileShape(s.ops[1], <<s.ops[1].shape[1], j>>, FALSE)
         /\ IsValidTileShape(s.ops[2], <<j, s.ops[2].shape[2]>>, FALSE)
  BY DEF SplitActions
<1>3. j \in Nat \ {0} /\ a.k = j
  <2>1. s.ops[1].shape[2] = k
    BY <1>1 DEF MatmulShapes
  <2> QED
    BY <1>2, <2>1, DimRangeIs
<1>4. s.ops[1].shape[1] = m /\ s.ops[2].shape[2] = n /\ Len(s.ops[1].shape) = 2 /\ Len(s.ops[2].shape) = 2
  BY <1>1 DEF MatmulShapes
<1>5. PICK tiles : tiles = SplitTiles(s, a.k)
  OBVIOUS
<1>6. /\ DOMAIN tiles = 1..2 /\ tiles[1].operand = 1 /\ tiles[2].operand = 2
      /\ tiles[1].tiling.shape = <<m, j>> /\ tiles[2].tiling.shape = <<j, n>>
  BY <1>3, <1>4, <1>5 DEF SplitTiles, LoopTile, SimpleTiling
<1>7. TileFits(s.ops[1], <<m, j>>) /\ TileFits(s.ops[2], <<j, n>>)
  <2>1. /\ <<m, j>> \in Seq(Nat \ {0}) /\ Len(<<m, j>>) = 2
        /\ <<j, n>> \in Seq(Nat \ {0}) /\ Len(<<j, n>>) = 2
    BY <1>3
  <2>2. /\ AllOnes(<<m, j>>) \/ AppliesTo(s.ops[1].layout, <<m, j>>)
        /\ AllOnes(<<j, n>>) \/ AppliesTo(s.ops[2].layout, <<j, n>>)
    BY <1>2, <1>4 DEF IsValidTileShape
  <2> QED
    BY <1>4, <2>1, <2>2 DEF TileFits
<1>8. \A i \in DOMAIN s.ops : IsTiled(tiles, i) => i = 1 \/ i = 2
  <2>1. \A i : IsTiled(tiles, i) <=> i \in 1..2
    BY <1>6, TwoTiles
  <2> QED
    BY <2>1
<1>9. TileFor(tiles, 1).tiling.shape = <<m, j>> /\ TileFor(tiles, 2).tiling.shape = <<j, n>>
  BY <1>6, TwoTiles
<1> QED
  BY <1>5, <1>7, <1>8, <1>9 DEF TilesFit

\* So has a SpatialSplit.
LEMMA SpatialFits ==
    ASSUME NEW s, SizedSpec(s), s.typ \in {"Conv"}, SpatialApplies(s)
    PROVE  TilesFit(s, SpatialTiles(s))
<1>0. SizedOps(s.typ, s.ops) /\ ShapesAgree(s) /\ s.typ = "Conv"
  BY DEF SizedSpec
<1>1. PICK b \in Nat \ {0}, f \in Nat \ {0}, e \in Nat \ {0}, h \in Nat \ {0}, w \in Nat \ {0},
           y \in Nat \ {0}, x \in Nat \ {0} : ConvShapes(s.ops, b, f, e, h, w, y, x)
  BY <1>0, AgreeConv
<1>2. PICK tiles : tiles = SpatialTiles(s)
  OBVIOUS
<1>3. s.ops[1].shape = <<b, e, h, w>> /\ s.ops[2].shape = <<f, e, y, x>>
  BY <1>1 DEF ConvShapes
<1>4. DOMAIN tiles = 1..2 /\ tiles[1].operand = 1 /\ tiles[2].operand = 2
  BY <1>2 DEF SpatialTiles, LoopTile
<1>5. tiles[1].tiling.shape = <<b, e, 1, 1>>
  BY <1>2, <1>3 DEF SpatialTiles, LoopTile, SimpleTiling
<1>6. tiles[2].tiling.shape = <<f, e, 1, 1>>
  BY <1>2, <1>3 DEF SpatialTiles, LoopTile, SimpleTiling
<1>7. tiles[1] \in Range(tiles) /\ tiles[2] \in Range(tiles)
  BY <1>4 DEF Range
<1>8. /\ AllOnes(<<b, e, 1, 1>>) \/ AppliesTo(s.ops[1].layout, <<b, e, 1, 1>>)
      /\ AllOnes(<<f, e, 1, 1>>) \/ AppliesTo(s.ops[2].layout, <<f, e, 1, 1>>)
  BY <1>2, <1>4, <1>5, <1>6, <1>7 DEF SpatialApplies
<1>9. TileFits(s.ops[1], <<b, e, 1, 1>>) /\ TileFits(s.ops[2], <<f, e, 1, 1>>)
  <2>1. /\ <<b, e, 1, 1>> \in Seq(Nat \ {0}) /\ Len(<<b, e, 1, 1>>) = 4
        /\ <<f, e, 1, 1>> \in Seq(Nat \ {0}) /\ Len(<<f, e, 1, 1>>) = 4
    OBVIOUS
  <2>2. Len(s.ops[1].shape) = 4 /\ Len(s.ops[2].shape) = 4
    BY <1>3
  <2> QED
    BY <1>8, <2>1, <2>2 DEF TileFits
<1>10. \A i \in DOMAIN s.ops : IsTiled(tiles, i) => i = 1 \/ i = 2
  <2>1. \A i : IsTiled(tiles, i) <=> i \in 1..2
    BY <1>4, TwoTiles
  <2> QED
    BY <2>1
<1>11. TileFor(tiles, 1).tiling.shape = <<b, e, 1, 1>> /\ TileFor(tiles, 2).tiling.shape = <<f, e, 1, 1>>
  BY <1>4, <1>5, <1>6, TwoTiles
<1> QED
  BY <1>2, <1>9, <1>10, <1>11 DEF TilesFit

\* The body of a SpatialSplit is.
LEMMA SpatialBodyLaid ==
    ASSUME NEW s, SizedSpec(s), LaidSpec(s), s.typ \in {"Conv"}, SpatialApplies(s)
    PROVE  LaidSpec(SpatialSplit(s).children[1].spec)
<1>0. SizedOps(s.typ, s.ops) /\ ShapesAgree(s) /\ s.typ = "Conv"
  BY DEF SizedSpec
<1>1. PICK b \in Nat \ {0}, f \in Nat \ {0}, e \in Nat \ {0}, h \in Nat \ {0}, w \in Nat \ {0},
           y \in Nat \ {0}, x \in Nat \ {0} : ConvShapes(s.ops, b, f, e, h, w, y, x)
  BY <1>0, AgreeConv
<1>2. DOMAIN s.ops = 1..3 /\ \A i \in 1..3 : Sized(s.ops[i])
  BY <1>0, AgreeMeans DEF SizedOps
<1>3. PICK tiles : tiles = SpatialTiles(s)
  OBVIOUS
<1>4. /\ DOMAIN tiles = 1..2 /\ tiles[1].operand = 1 /\ tiles[2].operand = 2
      /\ tiles[1].tiling.shape = <<b, e, 1, 1>> /\ tiles[2].tiling.shape = <<f, e, 1, 1>>
  <2>1. s.ops[1].shape = <<b, e, h, w>> /\ s.ops[2].shape = <<f, e, y, x>>
    BY <1>1 DEF ConvShapes
  <2>2. DOMAIN tiles = 1..2 /\ tiles[1].operand = 1 /\ tiles[2].operand = 2
    BY <1>3 DEF SpatialTiles, LoopTile
  <2>3. tiles[1].tiling.shape = <<b, e, 1, 1>>
    BY <1>3, <2>1 DEF SpatialTiles, LoopTile, SimpleTiling
  <2>4. tiles[2].tiling.shape = <<f, e, 1, 1>>
    BY <1>3, <2>1 DEF SpatialTiles, LoopTile, SimpleTiling
  <2> QED
    BY <2>2, <2>3, <2>4
<1>5. /\ TiledShape(s, tiles, 1) = <<b, e, 1, 1>> /\ TiledShape(s, tiles, 2) = <<f, e, 1, 1>>
      /\ TiledShape(s, tiles, 3) = <<b, f, 1 + h - y, 1 + w - x>>
  BY <1>1, <1>4, TwoTiles DEF TiledShape, ConvShapes
<1>6. PICK tiled : tiled = TiledOps(s, tiles)
  OBVIOUS
<1>7. \A i \in 1..3 : LaidOut(tiled[i]) /\ Sized(tiled[i]) /\ tiled[i].level = s.ops[i].level
  <2>1. TilesFit(s, tiles)
    BY <1>3, SpatialFits
  <2> QED
    BY <1>2, <1>6, <2>1, TiledLaid
<1>8. \A i \in 1..3 : tiled[i].shape = TiledShape(s, tiles, i)
  <2>1. \A i \in 1..3 : tiled[i] = IF IsTiled(tiles, i) THEN TileSpec(TileFor(tiles, i).tiling, s.ops[i]) ELSE s.ops[i]
    BY <1>2, <1>6 DEF TiledOps
  <2>2. \A i \in 1..3 : \A tiling : TileSpec(tiling, s.ops[i]).shape = tiling.shape
    BY <1>2 DEF TileSpec, Shrunk, WithLayout, Sized, OpFields
  <2> QED
    BY <2>1, <2>2 DEF TiledShape
<1>9. PICK t1, t2, t3 : t1 = Squeezed(tiled[1]) /\ t2 = Squeezed(tiled[2]) /\ t3 = Squeezed(tiled[3])
  OBVIOUS
<1>10. LaidOut(t1) /\ t1.level = s.ops[1].level
  BY <1>5, <1>7, <1>8, <1>9, SqueezedLaid
<1>11. LaidOut(t2) /\ t2.level = s.ops[2].level /\ Sized(t2) /\ t2.shape = <<f, e>>
  BY <1>5, <1>7, <1>8, <1>9, SqueezedLaid
<1>12. LaidOut(t3) /\ t3.level = s.ops[3].level
  <2>1. tiled[3].shape = <<b, f, 1 + h - y, 1 + w - x>>
    BY <1>5, <1>8
  <2> QED
    BY <1>7, <1>9, <2>1, SqueezedLaid
<1>13. PICK t4 : t4 = Transposed(t2)
  OBVIOUS
<1>14. LaidOut(t4) /\ t4.level = s.ops[2].level
  BY <1>11, <1>13, TransposedLaid
<1>15. PICK c : c = SpatialSplit(s).children[1].spec
  OBVIOUS
<1>16. c = [s EXCEPT !.typ = "Matmul", !.ops = <<t1, t4, t3>>]
  BY <1>3, <1>6, <1>9, <1>13, <1>15 DEF SpatialSplit, Impl, Child, SpatialBody
<1>17. c = [g \in SpecFields |-> c[g]] /\ c.typ = "Matmul" /\ c.limits = s.limits /\ c.ops = <<t1, t4, t3>>
  BY <1>16 DEF SizedSpec, SpecFields
<1>18. DOMAIN c.ops = 1..3 /\ c.ops[1] = t1 /\ c.ops[2] = t4 /\ c.ops[3] = t3 /\ c.ops = [i \in DOMAIN c.ops |-> c.ops[i]]
  BY <1>17
<1>19. \A i \in 1..3 : i = 1 \/ i = 2 \/ i = 3
  OBVIOUS
<1>20. \A i \in DOMAIN c.ops : LaidOut(c.ops[i]) /\ c.ops[i].level = s.ops[i].level
  BY <1>10, <1>12, <1>14, <1>18, <1>19
<1>21. LimitsUsable(c)
  <2>1. \A l \in 1..4 : SlowerThanAll(c.ops, l) <=> SlowerThanAll(s.ops, l)
    BY <1>2, <1>18, <1>20, SameLevels
  <2>2. LimitsUsable(s)
    BY DEF LaidSpec
  <2> QED
    BY <1>17, <2>1, <2>2 DEF LimitsUsable
<1>22. BitwiseRowMajor(c.typ, c.ops)
  BY <1>17 DEF BitwiseRowMajor, IsBitwise
<1>23. LaidSpec(c)
  BY <1>17, <1>18, <1>20, <1>21, <1>22 DEF LaidSpec
<1> QED
  BY <1>15, <1>23

\* A part of a move is, when the layouts of its operands apply.
LEMMA SubLaid ==
    ASSUME NEW s, SizedSpec(s), NEW a, NEW part, NEW typ, NEW accum, NEW ops, NEW from, SizedOps(typ, ops),
           \A i \in DOMAIN ops : LaidOut(ops[i])
    PROVE  LaidSpec(SubOf(s, a, part, typ, accum, ops, from).spec)
<1>1. PICK u : u = Lowered(s, a, typ, accum, ops)
  OBVIOUS
<1>2. DOMAIN u = SpecFields /\ u.typ = typ /\ u.ops = ops
  BY <1>1 DEF Lowered, SizedSpec, SpecFields
<1>3. \A i \in DOMAIN ops : Layable(ops[i])
  BY LaidLayable DEF SizedOps
<1>4. LaidSpec(CanonicalSpec(u))
  BY <1>2, <1>3, CanonicalSpecLaid
<1> QED
  BY <1>1, <1>4 DEF SubOf, Child

\* The parts of a move are canonical.
LEMMA MovePartsLaid ==
    ASSUME NEW s, SizedSpec(s), LaidSpec(s), NEW a \in MoveActions(s), NEW c \in Range(MoveLet(s, a).children)
    PROVE  LaidSpec(c.spec)
<1>0. SizedOps(s.typ, s.ops)
  BY DEF SizedSpec
<1>1. PICK t, m : t = s.ops[a.source] /\ m = MovedOperand(s, a)
  OBVIOUS
<1>2. a.source \in DOMAIN s.ops /\ Sized(t) /\ Sized(m) /\ LaidOut(t) /\ LaidOut(m)
  <2>1. a.source \in DOMAIN s.ops /\ Sized(t) /\ Sized(m)
    BY <1>1, MovedIs
  <2>2. LaidOut(t)
    BY <1>1, <2>1 DEF LaidSpec
  <2>3. LaidOut(m)
    BY <1>1, <2>2, MovedLaid
  <2> QED
    BY <2>1, <2>2, <2>3
<1>3. ASSUME NEW x, NEW y, Sized(x), Sized(y), LaidOut(x), LaidOut(y), NEW part, NEW from
      PROVE  LaidSpec(SubOf(s, a, part, "Move", FALSE, <<x, y>>, from).spec)
  <2>1. PICK ops : ops = <<x, y>>
    OBVIOUS
  <2>2. DOMAIN ops = 1..2 /\ ops[1] = x /\ ops[2] = y /\ \A i \in 1..2 : i = 1 \/ i = 2
    BY <2>1
  <2>3. \A i \in DOMAIN ops : Sized(ops[i]) /\ LaidOut(ops[i])
    BY <1>3, <2>2
  <2>4. InputCount["Move"] + 1 = 2 /\ "Move" \in DOMAIN InputCount
    BY DEF InputCount
  <2>5. SizedOps("Move", ops)
    BY <2>2, <2>3, <2>4 DEF SizedOps
  <2> QED
    BY <2>1, <2>3, <2>5, SubLaid
<1>4. LaidSpec(PrologueOf(s, a).spec) /\ LaidSpec(EpilogueOf(s, a).spec)
  BY <1>1, <1>2, <1>3 DEF PrologueOf, EpilogueOf
<1>5. LaidSpec(BodyOf(s, a).spec)
  <2>1. PICK ops : ops = [s.ops EXCEPT ![a.source] = m]
    OBVIOUS
  <2>2. DOMAIN ops = DOMAIN s.ops /\ \A i \in DOMAIN ops : ops[i] = IF i = a.source THEN m ELSE s.ops[i]
    BY <2>1
  <2>3. \A i \in DOMAIN ops : Sized(ops[i]) /\ LaidOut(ops[i])
    BY <1>0, <1>2, <2>2 DEF SizedOps, LaidSpec
  <2>4. PICK typ, accum, from : typ = s.typ /\ accum = s.accum /\ from = [Own(s) EXCEPT ![a.source] = 0]
    OBVIOUS
  <2>5. SizedOps(typ, ops)
    BY <1>0, <2>2, <2>3, <2>4 DEF SizedOps
  <2>6. LaidSpec(SubOf(s, a, "body", typ, accum, ops, from).spec)
    BY <2>3, <2>5, SubLaid
  <2> QED
    BY <1>1, <2>1, <2>4, <2>6 DEF BodyOf
<1> QED
  BY <1>4, <1>5, MoveChildren

\* So are the parts of a ToAccum.
LEMMA ToAccumLaid ==
    ASSUME NEW s, SizedSpec(s), LaidSpec(s), NEW c \in Range(ToAccum(s).children)
    PROVE  LaidSpec(c.spec)
<1>0. SizedOps(s.typ, s.ops) /\ OutputIdx(s) \in DOMAIN s.ops
  BY OpsCount DEF SizedSpec
<1>1. PICK z, a : z = ZeroOutput(s) /\ a = AsAccum(s)
  OBVIOUS
<1>2. c.spec = CanonicalSpec(z) \/ c.spec = CanonicalSpec(a)
  <2>1. \A n \in 1..2 : n = 1 \/ n = 2
    OBVIOUS
  <2> QED
    BY <1>1, <2>1 DEF ToAccum, Impl, Range, Child
<1>3. \A i \in DOMAIN s.ops : Layable(s.ops[i])
  BY <1>0, LaidLayable DEF SizedOps, LaidSpec
<1>4. LaidSpec(CanonicalSpec(a))
  <2>1. DOMAIN a = SpecFields /\ a.typ = s.typ /\ a.ops = s.ops
    BY <1>1 DEF AsAccum, SizedSpec, SpecFields
  <2> QED
    BY <1>0, <1>3, <2>1, CanonicalSpecLaid
<1>5. LaidSpec(CanonicalSpec(z))
  <2>1. DOMAIN z = SpecFields /\ z.typ = "Zero" /\ z.ops = <<Output(s)>>
    BY <1>1 DEF ZeroOutput, SizedSpec, SpecFields
  <2>2. Layable(Output(s))
    BY <1>0, <1>3 DEF Output
  <2>3. DOMAIN z.ops = 1..1 /\ z.ops[1] = Output(s) /\ \A i \in 1..1 : i = 1
    BY <2>1
  <2>4. \A i \in DOMAIN z.ops : Layable(z.ops[i])
    BY <2>2, <2>3
  <2>5. InputCount["Zero"] + 1 = 1 /\ "Zero" \in DOMAIN InputCount
    BY DEF InputCount
  <2>6. SizedOps(z.typ, z.ops)
    BY <2>1, <2>3, <2>4, <2>5 DEF SizedOps, Layable
  <2> QED
    BY <2>1, <2>4, <2>6, CanonicalSpecLaid
<1> QED
  BY <1>2, <1>4, <1>5

\* That the Spec come to is canonical, together with Safe, is inductive.
Laid == LaidSpec(spec)

\* An iteration of a loop,
LEMMA LoopKeepsLaid ==
    ASSUME Safe, Laid, NEW tiles, TilesFit(spec, tiles), NEW parallel, EnterLoop(LoopOver(spec, tiles, parallel))
    PROVE  Laid'
<1>1. spec' = BodyOfLoop(spec, tiles, parallel)
  BY DEF EnterLoop, BodyOfLoop
<1>2. LaidSpec(BodyOfLoop(spec, tiles, parallel))
  BY LoopBodyLaid DEF Safe, Laid
<1> QED
  BY <1>1, <1>2 DEF Laid

\* of a TileOut,
LEMMA TileOutKeepsLaid ==
    ASSUME Safe, Laid, TileOut
    PROVE  Laid'
<1>1. PICK a \in TileOutActions(spec) :
         /\ TileOutApplies(spec, a.shape, a.parallel)
         /\ EnterLoop(LoopOver(spec, TileOutTiles(spec, a.shape), a.parallel))
  BY DEF TileOut
<1>2. TilesFit(spec, TileOutTiles(spec, a.shape))
  BY <1>1, TileOutFits DEF Safe
<1> QED
  BY <1>1, <1>2, LoopKeepsLaid

\* of a Split,
LEMMA SplitKeepsLaid ==
    ASSUME Safe, Laid, Split
    PROVE  Laid'
<1>1. PICK a \in SplitActions(spec) : EnterLoop(LoopOver(spec, SplitTiles(spec, a.k), FALSE))
  BY DEF Split
<1>2. TilesFit(spec, SplitTiles(spec, a.k))
  <2>1. spec.typ \in {"Matmul"} /\ SizedSpec(spec)
    BY DEF Split, Safe
  <2> QED
    BY <2>1, SplitFits
<1> QED
  BY <1>1, <1>2, LoopKeepsLaid

\* a SpatialSplit,
LEMMA SpatialKeepsLaid ==
    ASSUME Safe, Laid, EnterSpatialSplit
    PROVE  Laid'
<1>1. /\ spec.typ \in {"Conv"} /\ SizedSpec(spec) /\ LaidSpec(spec) /\ SpatialApplies(spec)
      /\ spec' = SpatialSplit(spec).children[1].spec
  BY DEF EnterSpatialSplit, Safe, Laid
<1> QED
  BY <1>1, SpatialBodyLaid DEF Laid

\* a move,
LEMMA MoveKeepsLaid ==
    ASSUME Safe, Laid, Move
    PROVE  Laid'
<1>1. PICK a \in MoveActions(spec) : \E c \in Range(MoveLet(spec, a).children) : spec' = c.spec
  BY DEF Move
<1>2. PICK c \in Range(MoveLet(spec, a).children) : spec' = c.spec
  BY <1>1
<1> QED
  BY <1>2, MovePartsLaid DEF Safe, Laid

\* a ToAccum,
LEMMA AccumKeepsLaid ==
    ASSUME Safe, Laid, ZeroThenAccum
    PROVE  Laid'
<1>1. PICK c \in Range(ToAccum(spec).children) : spec' = c.spec
  BY DEF ZeroThenAccum
<1> QED
  BY <1>1, ToAccumLaid DEF Safe, Laid

\* and every other step keep the Spec canonical.
LEMMA NextKeepsLaid ==
    ASSUME Safe, Laid, [Next]_vars
    PROVE  Laid'
<1>1. ASSUME Place
      PROVE  Laid'
  BY <1>1 DEF Place, Laid
<1>2. ASSUME UNCHANGED vars
      PROVE  Laid'
  BY <1>2 DEF vars, Laid
<1> QED
  BY <1>1, <1>2, TileOutKeepsLaid, SplitKeepsLaid, SpatialKeepsLaid, MoveKeepsLaid, AccumKeepsLaid DEF Next

\* A path starts with a canonical Spec.
LEMMA InitLaid == Init => Laid
<1> SUFFICES ASSUME Init
             PROVE  Laid
  OBVIOUS
<1>1. PICK r \in Roots : spec = r
  BY DEF Init
<1> QED
  BY <1>1, RootLaid DEF Laid

\* LaidAlways: every Spec that a path comes to is canonical, part by part (TensorSpec and
\* Spec canonicalization in tensorspec.rs and spec.rs).
THEOREM LaidAlways == Spec => [](Safe /\ Laid)
<1>1. Init => Safe /\ Laid
  BY InitSafe, InitLaid
<1>2. Safe /\ Laid /\ [Next]_vars => Safe' /\ Laid'
  BY NextSafe, StutterSafe, NextKeepsLaid
<1> QED
  BY <1>1, <1>2, PTL DEF Spec

\* LayoutsApply: what apply unwraps and asserts when it tiles, squeezes, transposes or
\* moves an operand (scheduling.rs) never fails, since whatever apply makes is
\* canonicalized, and precompute enumerates every layout that a move may choose.
THEOREM LayoutsAlwaysApply == Spec => []LayoutsApply
<1>1. ASSUME Safe, Laid
      PROVE  LayoutsApply
  <2>1. ASSUME NEW i \in DOMAIN spec.ops
        PROVE  /\ AppliesTo(spec.ops[i].layout, spec.ops[i].shape)
               /\ \A layout \in MoveDestinationLayouts(spec.ops[i].shape, spec.ops[i].dtype) :
                     /\ AppliesTo(layout, spec.ops[i].shape)
                     /\ layout \in AllLayoutsForShape(spec.ops[i].shape, spec.ops[i].dtype)
    <3>1. PICK t : t = spec.ops[i]
      OBVIOUS
    <3>2. LaidOut(t) /\ Sized(t)
      BY <1>1, <2>1, <3>1 DEF Laid, LaidSpec, Safe, SizedSpec, SizedOps
    <3>3. PICK rank \in Nat : IsShape(t.shape, rank)
      BY <3>2, ShapeOf DEF Sized
    <3>4. t.dtype \in Dtypes
      BY <3>2 DEF Sized
    <3>5. \A layout \in MoveDestinationLayouts(t.shape, t.dtype) :
             AppliesTo(layout, t.shape) /\ layout \in AllLayoutsForShape(t.shape, t.dtype)
      BY <3>3, <3>4, DestinationsApply
    <3> QED
      BY <3>1, <3>2, <3>5 DEF LaidOut
  <2> QED
    BY <2>1 DEF LayoutsApply
<1> QED
  BY LaidAlways, <1>1, PTL

\* Canonical: every Spec that a search meets is canonical, as apply asks of its
\* argument (scheduling.rs:103), and is_canonical, which is written apart from
\* canonicalize, says so.
THEOREM AlwaysCanonical == Spec => []Canonical
<1>1. ASSUME Safe, Laid
      PROVE  Canonical
  <2>1. SizedSpec(spec) /\ LaidSpec(spec)
    BY <1>1 DEF Safe, Laid
  <2>2. CanonicalSpec(spec) = spec
    BY <2>1, CanonicalSpecSame
  <2>3. SpecIsCanonical(spec)
    <3>1. \A i \in DOMAIN spec.ops : IsCanonical(spec.ops[i])
      BY <2>1, LaidIsCanonical DEF LaidSpec
    <3> QED
      BY <2>1, <3>1 DEF SpecIsCanonical, LaidSpec, LimitsUsable, BitwiseRowMajor
  <2> QED
    BY <2>1, <2>2, <2>3 DEF Canonical, SizedSpec
<1> QED
  BY LaidAlways, <1>1, PTL

-----------------------------------------------------------------------------
(* Tiles that divide what they are tiles of.                               *)

\* A tile that divides its operand along each dimension.
EvenTile(s, t) ==
    /\ t.operand \in DOMAIN s.ops /\ s.ops[t.operand].shape \in Seq(Nat \ {0})
    /\ DOMAIN t.axes = DOMAIN s.ops[t.operand].shape
    /\ t.tiling.steps \in [DOMAIN s.ops[t.operand].shape -> Nat \ {0}]
    /\ \A d \in DOMAIN t.axes : \E q \in Nat \ {0} : s.ops[t.operand].shape[d] = q * t.tiling.steps[d]

\* The tiles of a loop, zipped along their axes: all that are tiled along an axis
\* have as many steps, and the last is tiled along every axis that is looped over.
Innermost(tiles) == tiles[Len(tiles)]
EvenTiles(s, tiles) ==
    /\ Len(tiles) \in Nat \ {0} /\ DOMAIN tiles = 1..Len(tiles)
    /\ \A n \in DOMAIN tiles : EvenTile(s, tiles[n])
    /\ \A n, m \in DOMAIN tiles : \A d \in DOMAIN tiles[n].axes : \A e \in DOMAIN tiles[m].axes :
          tiles[n].axes[d] = tiles[m].axes[e] => TileSteps(s, tiles[n], d) = TileSteps(s, tiles[m], e)
    /\ \A d, e \in DOMAIN Innermost(tiles).axes : Innermost(tiles).axes[d] = Innermost(tiles).axes[e] => d = e
    /\ \A n \in DOMAIN tiles : \A d \in DOMAIN tiles[n].axes : TileSteps(s, tiles[n], d) # 1 =>
          \E e \in DOMAIN Innermost(tiles).axes : Innermost(tiles).axes[e] = tiles[n].axes[d]

\* Such a tile has whole steps.
LEMMA EvenSteps ==
    ASSUME NEW s, NEW t, EvenTile(s, t), NEW d \in DOMAIN t.axes
    PROVE  /\ TileSteps(s, t, d) \in Nat \ {0} /\ TileFullSteps(s, t, d) = TileSteps(s, t, d)
           /\ t.tiling.steps[d] \in Nat \ {0}
           /\ s.ops[t.operand].shape[d] = TileSteps(s, t, d) * t.tiling.steps[d]
<1>1. PICK m \in Nat \ {0}, q \in Nat \ {0}, n \in Nat :
          m = t.tiling.steps[d] /\ n = s.ops[t.operand].shape[d] /\ n = q * m
  <2>1. PICK q \in Nat \ {0} : s.ops[t.operand].shape[d] = q * t.tiling.steps[d]
    BY DEF EvenTile
  <2>2. t.tiling.steps[d] \in Nat \ {0}
    BY DEF EvenTile
  <2>3. q * t.tiling.steps[d] \in Nat
    BY <2>2
  <2> QED
    BY <2>1, <2>2, <2>3
<1>2. CeilDiv(n, m) = q /\ n \div m = q
  BY <1>1, ExactTiles
<1>3. TileSteps(s, t, d) = q /\ TileFullSteps(s, t, d) = q
  BY <1>1, <1>2 DEF TileSteps, TileFullSteps, StepsDim
<1> QED
  BY <1>1, <1>3

\* The image of a finite set.
LEMMA ImageFinite ==
    ASSUME NEW S, IsFiniteSet(S), NEW f, DOMAIN f = S, f = [x \in S |-> f[x]]
    PROVE  IsFiniteSet({f[x] : x \in S})
<1> DEFINE T == {f[x] : x \in S}
<1>1. f \in Surjection(S, T)
  <2>1. f \in [S -> T] /\ \A y \in T : \E x \in S : f[x] = y
    OBVIOUS
  <2> QED
    BY <2>1 DEF Surjection
<1> QED
  BY <1>1, FS_Surjection

\* The dimensions of a loop's tiles.
DimsOf(tiles) == UNION {{n} \X DOMAIN tiles[n].axes : n \in DOMAIN tiles}
LEMMA DimsFinite ==
    ASSUME NEW s, NEW tiles, EvenTiles(s, tiles)
    PROVE  /\ IsFiniteSet(DimsOf(tiles))
           /\ \A x : x \in DimsOf(tiles) <=> \E n \in DOMAIN tiles : \E d \in DOMAIN tiles[n].axes : x = <<n, d>>
<1>1. IsFiniteSet(DOMAIN tiles)
  BY FS_Interval DEF EvenTiles
<1>2. ASSUME NEW n \in DOMAIN tiles
      PROVE  IsFiniteSet({n} \X DOMAIN tiles[n].axes)
  <2>1. s.ops[tiles[n].operand].shape \in Seq(Nat \ {0}) /\ DOMAIN tiles[n].axes = DOMAIN s.ops[tiles[n].operand].shape
    BY DEF EvenTiles, EvenTile
  <2>2. PICK r \in Nat : DOMAIN tiles[n].axes = 1..r
    BY <2>1
  <2>3. IsFiniteSet(DOMAIN tiles[n].axes)
    BY <2>2, FS_Interval
  <2>4. IsFiniteSet({n})
    BY FS_Singleton
  <2> QED
    BY <2>3, <2>4, FS_Product
<1> DEFINE parts == {{n} \X DOMAIN tiles[n].axes : n \in DOMAIN tiles}
<1>3. IsFiniteSet(parts)
  <2> DEFINE f == [n \in DOMAIN tiles |-> {n} \X DOMAIN tiles[n].axes]
  <2>1. DOMAIN f = DOMAIN tiles /\ f = [n \in DOMAIN tiles |-> f[n]]
    OBVIOUS
  <2>2. {f[n] : n \in DOMAIN tiles} = parts
    OBVIOUS
  <2> HIDE DEF f
  <2> QED
    BY <1>1, <2>1, <2>2, ImageFinite
<1>4. \A p \in parts : IsFiniteSet(p)
  BY <1>2
<1>5. IsFiniteSet(UNION parts)
  <2> HIDE DEF parts
  <2> QED
    BY <1>3, <1>4, FS_UNION
<1>6. \A x : x \in DimsOf(tiles) <=> \E n \in DOMAIN tiles : \E d \in DOMAIN tiles[n].axes : x = <<n, d>>
  BY DEF DimsOf
<1> QED
  BY <1>5, <1>6 DEF DimsOf

\* A tile's steps along each dimension.
StepsAlong(s, t) == [d \in DOMAIN t.axes |-> TileSteps(s, t, d)]

\* What a tile's steps are factors of.
LEMMA StepsAreFactors ==
    ASSUME NEW s, NEW t, EvenTile(s, t)
    PROVE  Factors(DOMAIN t.axes, StepsAlong(s, t))
<1>1. PICK r \in Nat : DOMAIN t.axes = 1..r
  <2>1. s.ops[t.operand].shape \in Seq(Nat \ {0}) /\ DOMAIN t.axes = DOMAIN s.ops[t.operand].shape
    BY DEF EvenTile
  <2> QED
    BY <2>1
<1>2. IsFiniteSet(DOMAIN t.axes)
  BY <1>1, FS_Interval
<1>3. \A d \in DOMAIN t.axes : TileSteps(s, t, d) \in Nat \ {0}
  BY EvenSteps
<1> QED
  BY <1>2, <1>3 DEF StepsAlong, Factors

\* The innermost tile is one of them.
LEMMA InnermostEven ==
    ASSUME NEW s, NEW tiles, EvenTiles(s, tiles)
    PROVE  EvenTile(s, Innermost(tiles)) /\ Len(tiles) \in DOMAIN tiles
BY DEF EvenTiles, Innermost

\* The loops that are emitted.
LEMMA LoopsAre ==
    ASSUME NEW s, NEW tiles, EvenTiles(s, tiles)
    PROVE  /\ \A x \in EmittedLoops(s, tiles) :
                 \E n \in DOMAIN tiles : \E d \in DOMAIN tiles[n].axes :
                    x = <<tiles[n].axes[d], TileSteps(s, tiles[n], d)>> /\ TileSteps(s, tiles[n], d) # 1
           /\ \A n \in DOMAIN tiles : \A d \in DOMAIN tiles[n].axes : TileSteps(s, tiles[n], d) # 1 =>
                 <<tiles[n].axes[d], TileSteps(s, tiles[n], d)>> \in EmittedLoops(s, tiles)
           /\ IsFiniteSet(EmittedLoops(s, tiles))
<1> DEFINE D == {x \in DimsOf(tiles) : TileSteps(s, tiles[x[1]], x[2]) # 1}
           L == EmittedLoops(s, tiles)
<1>1. L = {<<tiles[x[1]].axes[x[2]], TileSteps(s, tiles[x[1]], x[2])>> : x \in D}
  BY DEF EmittedLoops, DimsOf
<1>2. \A x : x \in DimsOf(tiles) <=> \E n \in DOMAIN tiles : \E d \in DOMAIN tiles[n].axes : x = <<n, d>>
  BY DimsFinite
<1>3. IsFiniteSet(D)
  BY DimsFinite, FS_Subset
<1>4. IsFiniteSet(L)
  <2> DEFINE f == [x \in D |-> <<tiles[x[1]].axes[x[2]], TileSteps(s, tiles[x[1]], x[2])>>]
  <2>1. DOMAIN f = D /\ f = [x \in D |-> f[x]]
    OBVIOUS
  <2>2. {f[x] : x \in D} = L
    BY <1>1
  <2> HIDE DEF f, D, L
  <2> QED
    BY <1>3, <2>1, <2>2, ImageFinite
<1>5. \A x \in L : \E n \in DOMAIN tiles : \E d \in DOMAIN tiles[n].axes :
          x = <<tiles[n].axes[d], TileSteps(s, tiles[n], d)>> /\ TileSteps(s, tiles[n], d) # 1
  <2> SUFFICES ASSUME NEW x \in L
               PROVE  \E n \in DOMAIN tiles : \E d \in DOMAIN tiles[n].axes :
                         x = <<tiles[n].axes[d], TileSteps(s, tiles[n], d)>> /\ TileSteps(s, tiles[n], d) # 1
    OBVIOUS
  <2>1. PICK y \in D : x = <<tiles[y[1]].axes[y[2]], TileSteps(s, tiles[y[1]], y[2])>>
    BY <1>1
  <2>2. PICK n \in DOMAIN tiles : \E d \in DOMAIN tiles[n].axes : y = <<n, d>>
    BY <1>2, <2>1
  <2>3. PICK d \in DOMAIN tiles[n].axes : y = <<n, d>>
    BY <2>2
  <2> QED
    BY <2>1, <2>3
<1>6. ASSUME NEW n \in DOMAIN tiles, NEW d \in DOMAIN tiles[n].axes, TileSteps(s, tiles[n], d) # 1
      PROVE  <<tiles[n].axes[d], TileSteps(s, tiles[n], d)>> \in L
  <2>1. <<n, d>> \in D
    BY <1>2, <1>6
  <2> QED
    BY <1>1, <2>1
<1> QED
  BY <1>4, <1>5, <1>6

\* One loop for each axis, and together as many iterations as the innermost tile has
\* steps.
LEMMA LoopsOnce ==
    ASSUME NEW s, NEW tiles, EvenTiles(s, tiles)
    PROVE  /\ \A x, y \in EmittedLoops(s, tiles) : x[1] = y[1] => x = y
           /\ Product([x \in EmittedLoops(s, tiles) |-> x[2]]) = Product(StepsAlong(s, Innermost(tiles)))
<1> DEFINE L == EmittedLoops(s, tiles)
           u == Innermost(tiles)
           S == DOMAIN u.axes
           f == StepsAlong(s, u)
           g == [x \in L |-> x[2]]
           h == [d \in NotOne(S, f) |-> <<u.axes[d], f[d]>>]
<1>1. ASSUME NEW x \in L
      PROVE  \E n \in DOMAIN tiles : \E d \in DOMAIN tiles[n].axes :
                x = <<tiles[n].axes[d], TileSteps(s, tiles[n], d)>> /\ TileSteps(s, tiles[n], d) # 1
  BY LoopsAre
<1>2. ASSUME NEW x \in L, NEW y \in L, x[1] = y[1]
      PROVE  x = y
  <2>1. PICK n \in DOMAIN tiles : \E d \in DOMAIN tiles[n].axes :
            x = <<tiles[n].axes[d], TileSteps(s, tiles[n], d)>>
    BY <1>1
  <2>1p. PICK d \in DOMAIN tiles[n].axes : x = <<tiles[n].axes[d], TileSteps(s, tiles[n], d)>>
    BY <2>1
  <2>2. PICK m \in DOMAIN tiles : \E e \in DOMAIN tiles[m].axes :
            y = <<tiles[m].axes[e], TileSteps(s, tiles[m], e)>>
    BY <1>1
  <2>2p. PICK e \in DOMAIN tiles[m].axes : y = <<tiles[m].axes[e], TileSteps(s, tiles[m], e)>>
    BY <2>2
  <2>3. tiles[n].axes[d] = tiles[m].axes[e]
    BY <1>2, <2>1p, <2>2p
  <2>4. TileSteps(s, tiles[n], d) = TileSteps(s, tiles[m], e)
    BY <2>3 DEF EvenTiles
  <2> QED
    BY <2>1p, <2>2p, <2>3, <2>4
<1>3. EvenTile(s, u) /\ Len(tiles) \in DOMAIN tiles /\ u = tiles[Len(tiles)]
  BY InnermostEven DEF Innermost
<1>4. Factors(S, f) /\ \A d \in S : f[d] = TileSteps(s, u, d)
  BY <1>3, StepsAreFactors DEF StepsAlong
<1>5. \A x \in L : x[2] \in Nat \ {0} /\ x[2] # 1
  <2> SUFFICES ASSUME NEW x \in L
               PROVE  x[2] \in Nat \ {0} /\ x[2] # 1
    OBVIOUS
  <2>1. PICK n \in DOMAIN tiles : \E d \in DOMAIN tiles[n].axes :
            x = <<tiles[n].axes[d], TileSteps(s, tiles[n], d)>> /\ TileSteps(s, tiles[n], d) # 1
    BY <1>1
  <2>1p. PICK d \in DOMAIN tiles[n].axes : x = <<tiles[n].axes[d], TileSteps(s, tiles[n], d)>> /\ TileSteps(s, tiles[n], d) # 1
    BY <2>1
  <2>2. TileSteps(s, tiles[n], d) \in Nat \ {0}
    BY EvenSteps DEF EvenTiles
  <2> QED
    BY <2>1p, <2>2
<1>6. Factors(L, g)
  BY <1>5, LoopsAre DEF Factors
<1>7. NotOne(L, g) = L
  BY <1>5 DEF NotOne
<1>8. \A d \in NotOne(S, f) : d \in S /\ <<u.axes[d], f[d]>> \in L /\ g[<<u.axes[d], f[d]>>] = f[d]
  <2> SUFFICES ASSUME NEW d \in NotOne(S, f)
               PROVE  d \in S /\ <<u.axes[d], f[d]>> \in L /\ g[<<u.axes[d], f[d]>>] = f[d]
    OBVIOUS
  <2>1. d \in S /\ f[d] = TileSteps(s, u, d) /\ f[d] # 1
    BY <1>4 DEF NotOne
  <2>2. <<u.axes[d], f[d]>> \in L
    <3>1. <<tiles[Len(tiles)].axes[d], TileSteps(s, tiles[Len(tiles)], d)>> \in EmittedLoops(s, tiles)
      BY <1>3, <2>1, LoopsAre
    <3> QED
      BY <1>3, <2>1, <3>1
  <2>3. \A x \in L : g[x] = x[2]
    OBVIOUS
  <2> HIDE DEF g, L, u, f
  <2> QED
    BY <2>1, <2>2, <2>3
<1>9. ASSUME NEW x \in L
      PROVE  \E d \in NotOne(S, f) : x = <<u.axes[d], f[d]>>
  <2>1. PICK n \in DOMAIN tiles : \E d \in DOMAIN tiles[n].axes :
            x = <<tiles[n].axes[d], TileSteps(s, tiles[n], d)>> /\ TileSteps(s, tiles[n], d) # 1
    BY <1>1
  <2>1p. PICK d \in DOMAIN tiles[n].axes : x = <<tiles[n].axes[d], TileSteps(s, tiles[n], d)>> /\ TileSteps(s, tiles[n], d) # 1
    BY <2>1
  <2>2. PICK e \in S : u.axes[e] = tiles[n].axes[d]
    BY <2>1p DEF EvenTiles
  <2>3. TileSteps(s, u, e) = TileSteps(s, tiles[n], d)
    BY <1>3, <2>2 DEF EvenTiles
  <2>4. e \in NotOne(S, f) /\ f[e] = TileSteps(s, tiles[n], d)
    BY <1>4, <2>1p, <2>2, <2>3 DEF NotOne
  <2> QED
    BY <2>1p, <2>2, <2>4
<1>10. \A d, e \in NotOne(S, f) : u.axes[d] = u.axes[e] => d = e
  BY DEF NotOne, EvenTiles
<1>11. Matches(S, f, L, g, h)
  <2> HIDE DEF g, L, u, f
  <2>1. h \in [NotOne(S, f) -> NotOne(L, g)]
    BY <1>7, <1>8
  <2>2. \A d \in NotOne(S, f) : g[h[d]] = f[d]
    BY <1>8
  <2>3. \A d, e \in NotOne(S, f) : h[d] = h[e] => d = e
    BY <1>10
  <2>4. \A x \in NotOne(L, g) : \E d \in NotOne(S, f) : h[d] = x
    BY <1>7, <1>9
  <2> HIDE DEF h
  <2> QED
    BY <2>1, <2>2, <2>3, <2>4 DEF Matches
<1>12. Product(f) = Product(g)
  <2> HIDE DEF g, L, u, f, h
  <2> QED
    BY <1>4, <1>6, <1>11, SameProduct
<1> QED
  BY <1>2, <1>12

\* Dimensions, by their axes and in the order in which the loops are emitted: the
\* first of each axis makes the loop.
AxisOf(tiles, x) == tiles[x[1]].axes[x[2]]
NotAfter(x, y) == x[1] < y[1] \/ (x[1] = y[1] /\ x[2] <= y[2])

\* They are among the tiles' dimensions, one for each axis.
LEMMA FirstDims ==
    ASSUME NEW s, NEW tiles, EvenTiles(s, tiles)
    PROVE  /\ FirstDimPerAxis(tiles) \subseteq DimsOf(tiles) /\ IsFiniteSet(FirstDimPerAxis(tiles))
           /\ \A x, y \in FirstDimPerAxis(tiles) : AxisOf(tiles, x) = AxisOf(tiles, y) => x = y
           /\ \A y \in DimsOf(tiles) : \E x \in FirstDimPerAxis(tiles) : AxisOf(tiles, x) = AxisOf(tiles, y)
<1> DEFINE D == DimsOf(tiles)
           F == FirstDimPerAxis(tiles)
<1>1. F = {x \in D : \A y \in D : AxisOf(tiles, y) = AxisOf(tiles, x) => NotAfter(x, y)}
  BY DEF FirstDimPerAxis, DimsOf, AxisOf, NotAfter
<1>2. /\ IsFiniteSet(D)
      /\ \A x : x \in D <=> \E n \in DOMAIN tiles : \E d \in DOMAIN tiles[n].axes : x = <<n, d>>
  BY DimsFinite
<1>3. \A n \in DOMAIN tiles : n \in Nat /\ \A d \in DOMAIN tiles[n].axes : d \in Nat
  <2> SUFFICES ASSUME NEW n \in DOMAIN tiles
               PROVE  n \in Nat /\ \A d \in DOMAIN tiles[n].axes : d \in Nat
    OBVIOUS
  <2>1. s.ops[tiles[n].operand].shape \in Seq(Nat \ {0}) /\ DOMAIN tiles[n].axes = DOMAIN s.ops[tiles[n].operand].shape
    BY DEF EvenTiles, EvenTile
  <2>2. n \in Nat
    BY DEF EvenTiles
  <2>3. PICK r \in Nat : DOMAIN tiles[n].axes = 1..r
    BY <2>1
  <2> QED
    BY <2>2, <2>3
<1> HIDE DEF D, F
<1>4. \A x \in D : x = <<x[1], x[2]>> /\ x[1] \in Nat /\ x[2] \in Nat
  <2> SUFFICES ASSUME NEW x \in D
               PROVE  x = <<x[1], x[2]>> /\ x[1] \in Nat /\ x[2] \in Nat
    OBVIOUS
  <2>1. PICK n \in DOMAIN tiles : \E d \in DOMAIN tiles[n].axes : x = <<n, d>>
    BY <1>2
  <2>2. PICK d \in DOMAIN tiles[n].axes : x = <<n, d>>
    BY <2>1
  <2> QED
    BY <1>3, <2>2
<1>5. F \subseteq D /\ IsFiniteSet(F)
  <2>1. F \in SUBSET D
    BY <1>1
  <2> QED
    BY <1>2, <2>1, FS_Subset
<1>6. ASSUME NEW x \in F, NEW y \in F, AxisOf(tiles, x) = AxisOf(tiles, y)
      PROVE  x = y
  <2>1. x \in D /\ y \in D /\ NotAfter(x, y) /\ NotAfter(y, x)
    BY <1>1, <1>6
  <2>2. x[1] \in Nat /\ x[2] \in Nat /\ y[1] \in Nat /\ y[2] \in Nat
    BY <1>4, <2>1
  <2>3. x[1] = y[1] /\ x[2] = y[2]
    BY <2>1, <2>2 DEF NotAfter
  <2>4. x = <<x[1], x[2]>> /\ y = <<y[1], y[2]>>
    BY <1>4, <2>1
  <2> QED
    BY <2>3, <2>4
<1>7. ASSUME NEW y \in D
      PROVE  \E x \in F : AxisOf(tiles, x) = AxisOf(tiles, y)
  <2> DEFINE A == {z \in D : AxisOf(tiles, z) = AxisOf(tiles, y)}
             N == {n \in Nat : \E z \in A : z[1] = n}
  <2>1. \A z \in A : z \in D /\ z[1] \in Nat /\ z[2] \in Nat
    BY <1>4
  <2>2. y \in A
    OBVIOUS
  <2>3. N # {}
    BY <2>1, <2>2
  <2>4. PICK n \in N : \A i \in N : n <= i
    BY <2>3, LeastNat
  <2> DEFINE M == {d \in Nat : \E z \in A : z[1] = n /\ z[2] = d}
  <2>5. M # {}
    BY <2>1, <2>4
  <2>6. PICK d \in M : \A i \in M : d <= i
    BY <2>5, LeastNat
  <2>7. PICK x \in A : x[1] = n /\ x[2] = d
    BY <2>6
  <2>8. ASSUME NEW z \in D, AxisOf(tiles, z) = AxisOf(tiles, x)
        PROVE  NotAfter(x, z)
    <3>1. z \in A
      BY <2>7, <2>8
    <3>2. z[1] \in Nat /\ z[2] \in Nat /\ n \in Nat /\ d \in Nat
      BY <2>1, <3>1
    <3>3. z[1] \in N
      BY <3>1, <3>2
    <3>4. n <= z[1]
      BY <2>4, <3>3
    <3>5. z[1] = n => d <= z[2]
      <4>1. z[1] = n => z[2] \in M
        BY <3>1, <3>2
      <4> QED
        BY <2>6, <4>1
    <3> HIDE DEF A, N, M
    <3> QED
      BY <2>7, <3>2, <3>4, <3>5 DEF NotAfter
  <2>9. x \in F
    BY <1>1, <2>7, <2>8
  <2> QED
    BY <2>7, <2>9
<1> QED
  BY <1>5, <1>6, <1>7 DEF D, F

\* The steps that the cost counts are those of the innermost tile, and none is cut by
\* an edge.
LEMMA StepsOnce ==
    ASSUME NEW s, NEW tiles, EvenTiles(s, tiles)
    PROVE  /\ LoopSteps(s, tiles) = Product(StepsAlong(s, Innermost(tiles)))
           /\ LoopFullSteps(s, tiles) = LoopSteps(s, tiles)
<1> DEFINE F == FirstDimPerAxis(tiles)
           u == Innermost(tiles)
           S == DOMAIN u.axes
           f == StepsAlong(s, u)
           g == [x \in F |-> TileSteps(s, tiles[x[1]], x[2])]
<1>1. LoopSteps(s, tiles) = Product(g)
  BY DEF LoopSteps
<1>2. /\ F \subseteq DimsOf(tiles) /\ IsFiniteSet(F)
      /\ \A x, y \in F : AxisOf(tiles, x) = AxisOf(tiles, y) => x = y
      /\ \A y \in DimsOf(tiles) : \E x \in F : AxisOf(tiles, x) = AxisOf(tiles, y)
  BY FirstDims
<1>d. \A x : x \in DimsOf(tiles) <=> \E n \in DOMAIN tiles : \E d \in DOMAIN tiles[n].axes : x = <<n, d>>
  BY DimsFinite
<1>3. EvenTile(s, u) /\ Len(tiles) \in DOMAIN tiles /\ u = tiles[Len(tiles)]
  BY InnermostEven DEF Innermost
<1>4. Factors(S, f) /\ \A d \in S : f[d] = TileSteps(s, u, d)
  BY <1>3, StepsAreFactors DEF StepsAlong
<1>5. \A x \in DimsOf(tiles) :
         /\ x[1] \in DOMAIN tiles /\ x[2] \in DOMAIN tiles[x[1]].axes
         /\ TileSteps(s, tiles[x[1]], x[2]) \in Nat \ {0}
         /\ TileFullSteps(s, tiles[x[1]], x[2]) = TileSteps(s, tiles[x[1]], x[2])
  <2> SUFFICES ASSUME NEW x \in DimsOf(tiles)
               PROVE  /\ x[1] \in DOMAIN tiles /\ x[2] \in DOMAIN tiles[x[1]].axes
                      /\ TileSteps(s, tiles[x[1]], x[2]) \in Nat \ {0}
                      /\ TileFullSteps(s, tiles[x[1]], x[2]) = TileSteps(s, tiles[x[1]], x[2])
    OBVIOUS
  <2>1. PICK n \in DOMAIN tiles : \E d \in DOMAIN tiles[n].axes : x = <<n, d>>
    BY <1>d
  <2>2. PICK d \in DOMAIN tiles[n].axes : x = <<n, d>>
    BY <2>1
  <2>3. TileSteps(s, tiles[n], d) \in Nat \ {0} /\ TileFullSteps(s, tiles[n], d) = TileSteps(s, tiles[n], d)
    BY EvenSteps DEF EvenTiles
  <2> QED
    BY <2>2, <2>3
<1>6. LoopFullSteps(s, tiles) = LoopSteps(s, tiles)
  <2>1. [x \in F |-> TileFullSteps(s, tiles[x[1]], x[2])] = g
    BY <1>2, <1>5
  <2> QED
    BY <1>1, <2>1 DEF LoopFullSteps
<1>7. Factors(F, g)
  BY <1>2, <1>5 DEF Factors
<1>8. ASSUME NEW d \in S
      PROVE  \E x \in F : AxisOf(tiles, x) = u.axes[d] /\ g[x] = f[d]
  <2>1. <<Len(tiles), d>> \in DimsOf(tiles) /\ AxisOf(tiles, <<Len(tiles), d>>) = u.axes[d]
    BY <1>3, <1>d DEF AxisOf
  <2>2. PICK x \in F : AxisOf(tiles, x) = u.axes[d]
    BY <1>2, <2>1
  <2>3. x[1] \in DOMAIN tiles /\ x[2] \in DOMAIN tiles[x[1]].axes /\ tiles[x[1]].axes[x[2]] = u.axes[d]
    BY <1>2, <1>5, <2>2 DEF AxisOf
  <2>4. TileSteps(s, tiles[x[1]], x[2]) = TileSteps(s, u, d)
    BY <1>3, <2>3 DEF EvenTiles
  <2> QED
    BY <1>4, <2>2, <2>4
<1> DEFINE h == [d \in NotOne(S, f) |-> CHOOSE x \in F : AxisOf(tiles, x) = u.axes[d] /\ g[x] = f[d]]
<1>9. \A d \in NotOne(S, f) : d \in S /\ f[d] # 1 /\ h[d] \in F /\ AxisOf(tiles, h[d]) = u.axes[d] /\ g[h[d]] = f[d]
  <2> SUFFICES ASSUME NEW d \in NotOne(S, f)
               PROVE  d \in S /\ f[d] # 1 /\ h[d] \in F /\ AxisOf(tiles, h[d]) = u.axes[d] /\ g[h[d]] = f[d]
    OBVIOUS
  <2>1. d \in S /\ f[d] # 1
    BY DEF NotOne
  <2> HIDE DEF F, u, f, g
  <2>2. \E x \in F : AxisOf(tiles, x) = u.axes[d] /\ g[x] = f[d]
    BY <1>8, <2>1
  <2>3. h[d] = CHOOSE x \in F : AxisOf(tiles, x) = u.axes[d] /\ g[x] = f[d]
    OBVIOUS
  <2> HIDE DEF h
  <2> QED
    BY <2>1, <2>2, <2>3
<1>10. ASSUME NEW x \in NotOne(F, g)
       PROVE  \E d \in NotOne(S, f) : h[d] = x
  <2>1. x \in F /\ x \in DimsOf(tiles) /\ TileSteps(s, tiles[x[1]], x[2]) # 1 /\ g[x] = TileSteps(s, tiles[x[1]], x[2])
        /\ x[1] \in DOMAIN tiles /\ x[2] \in DOMAIN tiles[x[1]].axes
    BY <1>2, <1>5 DEF NotOne
  <2>2. PICK d \in S : u.axes[d] = tiles[x[1]].axes[x[2]]
    BY <2>1 DEF EvenTiles
  <2>3. TileSteps(s, u, d) = TileSteps(s, tiles[x[1]], x[2])
    BY <1>3, <2>1, <2>2 DEF EvenTiles
  <2>4. d \in NotOne(S, f)
    BY <1>4, <2>1, <2>3 DEF NotOne
  <2>5. AxisOf(tiles, h[d]) = AxisOf(tiles, x) /\ h[d] \in F
    <3> HIDE DEF h
    <3> QED
      BY <1>9, <2>2, <2>4 DEF AxisOf
  <2> HIDE DEF h
  <2> QED
    BY <1>2, <2>1, <2>4, <2>5
<1>11. \A d, e \in NotOne(S, f) : h[d] = h[e] => d = e
  <2>1. \A d, e \in S : u.axes[d] = u.axes[e] => d = e
    BY DEF EvenTiles
  <2> HIDE DEF h, u, f, g, F
  <2> QED
    BY <1>9, <2>1
<1>12. Matches(S, f, F, g, h)
  <2> HIDE DEF u, f, g, F
  <2>1. DOMAIN h = NotOne(S, f) /\ h = [d \in NotOne(S, f) |-> h[d]]
    OBVIOUS
  <2> HIDE DEF h
  <2>2. h \in [NotOne(S, f) -> NotOne(F, g)]
    <3>1. \A d \in NotOne(S, f) : h[d] \in NotOne(F, g)
      BY <1>9 DEF NotOne
    <3> QED
      BY <2>1, <3>1
  <2> QED
    BY <1>9, <1>10, <1>11, <2>2 DEF Matches
<1>13. Product(f) = Product(g)
  <2> HIDE DEF h, u, f, g, F
  <2> QED
    BY <1>4, <1>7, <1>12, SameProduct
<1> QED
  BY <1>1, <1>6, <1>13

-----------------------------------------------------------------------------
(* Sizes that are powers of two.                                           *)

\* A shape, and a Spec, of powers of two.
PowersOnly(shape) == \A d \in DOMAIN shape : IsPowerOfTwo(shape[d])
Binary(s) == \A i \in DOMAIN s.ops : PowersOnly(s.ops[i].shape)

\* One is a power of two.
LEMMA OneIsPower == IsPowerOfTwo(1)
<1>1. 0 \in Exponents /\ PowerOfTwo[0] = 1
  BY PowersGrow DEF Exponents
<1> QED
  BY <1>1 DEF IsPowerOfTwo

\* The tiles offered of a shape of powers of two are.
LEMMA OfferedArePowers ==
    ASSUME NEW s, NEW a \in TileOutActions(s), Output(s).shape \in Seq(Nat \ {0}), PowersOnly(Output(s).shape)
    PROVE  PowersOnly(a.shape)
<1> DEFINE shape == Output(s).shape
           largest == Max({shape[d] : d \in DOMAIN shape})
<1>1. CASE s.serial
  <2>1. a.shape \in UNION {{[shape EXCEPT ![d] = n] : n \in DimRange(largest, TRUE)} : d \in DOMAIN shape}
    BY <1>1 DEF TileOutActions
  <2>2. PICK d \in DOMAIN shape : \E n \in DimRange(largest, TRUE) : a.shape = [shape EXCEPT ![d] = n]
    BY <2>1, ZenonT(60)
  <2>3. largest \in Nat \ {0} /\ IsPowerOfTwo(largest)
    <3>1. shape # <<>>
      BY <2>2
    <3>2. largest \in {shape[e] : e \in DOMAIN shape}
      BY <3>1, LargestSize
    <3>3. \A e \in DOMAIN shape : shape[e] \in Nat \ {0} /\ IsPowerOfTwo(shape[e])
      BY DEF PowersOnly
    <3> QED
      BY <3>2, <3>3
  <2> HIDE DEF largest
  <2>4. PICK n \in DimRange(largest, TRUE) : a.shape = [shape EXCEPT ![d] = n]
    BY <2>2
  <2>5. IsPowerOfTwo(n)
    BY <2>3, <2>4, DimRangeIs
  <2> QED
    BY <2>2, <2>4, <2>5 DEF PowersOnly
<1>2. CASE ~s.serial
  <2>1. a.shape \in TileSizes(shape)
    BY <1>2 DEF TileOutActions
  <2>2. DOMAIN a.shape = DOMAIN shape /\ \A d \in DOMAIN shape : a.shape[d] \in DimRange(shape[d], TRUE)
    BY <2>1 DEF TileSizes
  <2>3. \A d \in DOMAIN shape : shape[d] \in Nat \ {0} /\ IsPowerOfTwo(shape[d])
    BY DEF PowersOnly
  <2>4. \A d \in DOMAIN shape : IsPowerOfTwo(a.shape[d])
    BY <2>2, <2>3, DimRangeIs
  <2> QED
    BY <2>2, <2>4 DEF PowersOnly
<1> QED
  BY <1>1, <1>2

\* A tile of powers of two, no larger than its operand, divides it.
LEMMA PowerTile ==
    ASSUME NEW s, NEW t, t.operand \in DOMAIN s.ops, s.ops[t.operand].shape \in Seq(Nat \ {0}),
           PowersOnly(s.ops[t.operand].shape), DOMAIN t.axes = DOMAIN s.ops[t.operand].shape,
           DOMAIN t.tiling.steps = DOMAIN s.ops[t.operand].shape,
           t.tiling.steps = [d \in DOMAIN t.tiling.steps |-> t.tiling.steps[d]],
           PowersOnly(t.tiling.steps), \A d \in DOMAIN t.axes : t.tiling.steps[d] <= s.ops[t.operand].shape[d]
    PROVE  EvenTile(s, t)
<1>1. PICK shape, steps : shape = s.ops[t.operand].shape /\ steps = t.tiling.steps
  OBVIOUS
<1>2. \A d \in DOMAIN shape : steps[d] \in Nat \ {0} /\ \E q \in Nat \ {0} : shape[d] = q * steps[d]
  <2>1. \A d \in DOMAIN shape : IsPowerOfTwo(steps[d]) /\ IsPowerOfTwo(shape[d]) /\ steps[d] <= shape[d]
    BY <1>1 DEF PowersOnly
  <2> QED
    BY <2>1, PowerDivides
<1>3. steps \in [DOMAIN shape -> Nat \ {0}]
  <2>1. steps = [d \in DOMAIN shape |-> steps[d]]
    BY <1>1
  <2> QED
    BY <1>2, <2>1
<1> QED
  BY <1>1, <1>2, <1>3 DEF EvenTile

\* A matrix product is one of powers of two when its rows, sums and columns are.
LEMMA ProductBinary ==
    ASSUME NEW s, DOMAIN s.ops = 1..3, NEW m, NEW k, NEW n, MatmulShapes(s.ops, m, k, n)
    PROVE  Binary(s) <=> IsPowerOfTwo(m) /\ IsPowerOfTwo(k) /\ IsPowerOfTwo(n)
<1>1. ASSUME NEW g, NEW h
      PROVE  PowersOnly(<<g, h>>) <=> IsPowerOfTwo(g) /\ IsPowerOfTwo(h)
  <2>1. 1 \in DOMAIN <<g, h>> /\ 2 \in DOMAIN <<g, h>> /\ \A d \in DOMAIN <<g, h>> : d = 1 \/ d = 2
    OBVIOUS
  <2>2. <<g, h>>[1] = g /\ <<g, h>>[2] = h
    OBVIOUS
  <2> QED
    BY <2>1, <2>2 DEF PowersOnly
<1>2. s.ops[1].shape = <<m, k>> /\ s.ops[2].shape = <<k, n>> /\ s.ops[3].shape = <<m, n>>
  BY DEF MatmulShapes
<1>3. \A i \in 1..3 : i = 1 \/ i = 2 \/ i = 3
  OBVIOUS
<1>4. Binary(s) <=> PowersOnly(<<m, k>>) /\ PowersOnly(<<k, n>>) /\ PowersOnly(<<m, n>>)
  BY <1>2, <1>3 DEF Binary
<1> QED
  BY <1>1, <1>4

\* The tiles of a TileOut, the output's last.
LEMMA TileOutSequence ==
    ASSUME NEW s, NEW shape
    PROVE  LET tiles == TileOutTiles(s, shape) IN
           /\ Len(tiles) \in Nat \ {0} /\ DOMAIN tiles = 1..Len(tiles)
           /\ Innermost(tiles) = OutputTile(s, shape)
           /\ \A n \in DOMAIN tiles : tiles[n] \in Range(tiles)
<1> DEFINE x == InputTile(s, shape, 1)
           y == InputTile(s, shape, 2)
<1>1. PICK z : z = OutputTile(s, shape)
  OBVIOUS
<1>2. TileOutTiles(s, shape) = (IF Cuts(s, shape, 1) THEN <<x>> ELSE <<>>)
                               \o (IF Cuts(s, shape, 2) THEN <<y>> ELSE <<>>) \o <<z>>
  BY <1>1 DEF TileOutTiles, Cuts, InputTile, OutputTile
<1>3. PICK a, b : /\ a = IF Cuts(s, shape, 1) THEN <<x>> ELSE <<>>
                  /\ b = IF Cuts(s, shape, 2) THEN <<y>> ELSE <<>>
  OBVIOUS
<1>4. PICK S : S = {x, y, z}
  OBVIOUS
<1>5. a \in Seq(S) /\ b \in Seq(S) /\ <<z>> \in Seq(S) /\ z \in S
  <2>1. <<x>> \in Seq(S) /\ <<y>> \in Seq(S) /\ <<z>> \in Seq(S)
    BY <1>4
  <2>2. <<>> \in Seq(S)
    OBVIOUS
  <2> QED
    BY <1>3, <1>4, <2>1, <2>2
<1>6. PICK p \in Seq(S) : p = a \o b
  BY <1>5, ConcatProperties
<1>7. PICK tiles : tiles = TileOutTiles(s, shape)
  OBVIOUS
<1> HIDE DEF x, y
<1>8. tiles = p \o <<z>>
  BY <1>2, <1>3, <1>6, <1>7
<1>9. Len(tiles) \in Nat \ {0} /\ DOMAIN tiles = 1..Len(tiles) /\ tiles[Len(tiles)] = z
  BY <1>5, <1>8
<1> QED
  BY <1>1, <1>7, <1>9 DEF Innermost, Range

\* Those of a matrix product divide it evenly.
LEMMA MatmulEven ==
    ASSUME NEW s, SizedSpec(s), Binary(s), s.typ \in {"Matmul"}, NEW out, out \in Seq(Nat \ {0}), Len(out) = 2,
           PowersOnly(out), \A d \in DOMAIN out : out[d] <= Output(s).shape[d]
    PROVE  EvenTiles(s, TileOutTiles(s, out))
<1>0. SizedOps(s.typ, s.ops) /\ ShapesAgree(s) /\ s.typ = "Matmul"
  BY DEF SizedSpec
<1>1. PICK m \in Nat \ {0}, k \in Nat \ {0}, n \in Nat \ {0} : MatmulShapes(s.ops, m, k, n)
  BY <1>0, AgreeMatmul
<1>2. DOMAIN s.ops = 1..3 /\ OutputIdx(s) = 3
  BY MatrixRanks
<1>3. /\ s.ops[1].shape = <<m, k>> /\ s.ops[2].shape = <<k, n>> /\ s.ops[3].shape = <<m, n>>
  BY <1>1 DEF MatmulShapes
<1>4. PICK p \in Nat \ {0}, q \in Nat \ {0} : out[1] = p /\ out[2] = q /\ out = <<p, q>>
  OBVIOUS
<1>5. p <= m /\ q <= n /\ IsPowerOfTwo(p) /\ IsPowerOfTwo(q)
  BY <1>2, <1>3, <1>4 DEF Output, PowersOnly
<1>6. IsPowerOfTwo(m) /\ IsPowerOfTwo(k) /\ IsPowerOfTwo(n)
  BY <1>1, <1>2, ProductBinary
<1>7. PICK tiles : tiles = TileOutTiles(s, out)
  OBVIOUS
<1>8. /\ Len(tiles) \in Nat \ {0} /\ DOMAIN tiles = 1..Len(tiles) /\ Innermost(tiles) = OutputTile(s, out)
      /\ \A i \in DOMAIN tiles : tiles[i] \in Range(tiles)
  BY <1>7, TileOutSequence
<1>9. \A t \in Range(tiles) : RowsTile(t, p, k) \/ ColumnsTile(t, k, q) \/ ProductTile(t, p, q)
  <2>1. k = s.ops[1].shape[2]
    BY <1>3
  <2> QED
    BY <1>4, <1>7, <2>1, MatmulTiles
<1>10. ProductTile(Innermost(tiles), p, q)
  BY <1>2, <1>4, <1>8 DEF OutputTile, LoopTile, SimpleTiling, ProductTile
<1>11. \A i \in DOMAIN tiles : EvenTile(s, tiles[i])
  <2>1. ASSUME NEW t, NEW u \in Nat \ {0}, NEW v \in Nat \ {0}, NEW g \in Nat \ {0}, NEW h \in Nat \ {0},
               t.operand \in 1..3, s.ops[t.operand].shape = <<u, v>>, t.tiling.steps = <<g, h>>, DOMAIN t.axes = 1..2,
               g <= u, h <= v, IsPowerOfTwo(g), IsPowerOfTwo(h), IsPowerOfTwo(u), IsPowerOfTwo(v)
        PROVE  EvenTile(s, t)
    <3>1. PowersOnly(<<u, v>>) /\ PowersOnly(<<g, h>>)
      BY <2>1 DEF PowersOnly
    <3>2. DOMAIN <<u, v>> = 1..2 /\ DOMAIN <<g, h>> = 1..2 /\ <<u, v>> \in Seq(Nat \ {0})
      OBVIOUS
    <3>3. \A d \in 1..2 : <<g, h>>[d] <= <<u, v>>[d]
      BY <2>1
    <3>4. <<g, h>> = [d \in DOMAIN <<g, h>> |-> <<g, h>>[d]]
      OBVIOUS
    <3> QED
      BY <1>2, <2>1, <3>1, <3>2, <3>3, <3>4, PowerTile
  <2>2. \A t : RowsTile(t, p, k) => EvenTile(s, t)
    BY <1>3, <1>5, <1>6, <2>1 DEF RowsTile
  <2>3. \A t : ColumnsTile(t, k, q) => EvenTile(s, t)
    BY <1>3, <1>5, <1>6, <2>1 DEF ColumnsTile
  <2>4. \A t : ProductTile(t, p, q) => EvenTile(s, t)
    BY <1>3, <1>5, <1>6, <2>1 DEF ProductTile
  <2> QED
    BY <1>8, <1>9, <2>2, <2>3, <2>4
<1> DEFINE Count(axis) == IF axis = 1 THEN CeilDiv(m, p) ELSE IF axis = 2 THEN CeilDiv(n, q) ELSE 1
<1>12. \A i \in DOMAIN tiles : /\ DOMAIN tiles[i].axes = 1..2
                               /\ \A d \in 1..2 : TileSteps(s, tiles[i], d) = Count(tiles[i].axes[d])
  <2>1. CeilDiv(k, k) = 1
    BY OneTile
  <2>2. \A d \in 1..2 : d = 1 \/ d = 2
    OBVIOUS
  <2>3. \A axis : axis > 2 => axis # 1 /\ axis # 2
    OBVIOUS
  <2>4. ASSUME NEW t, RowsTile(t, p, k)
        PROVE  DOMAIN t.axes = 1..2 /\ \A d \in 1..2 : TileSteps(s, t, d) = Count(t.axes[d])
    <3>1. TileSteps(s, t, 1) = CeilDiv(m, p) /\ TileSteps(s, t, 2) = 1
      BY <1>3, <2>1, <2>4 DEF RowsTile, TileSteps, StepsDim
    <3>2. DOMAIN t.axes = 1..2 /\ t.axes[1] = 1 /\ t.axes[2] # 1 /\ t.axes[2] # 2
      BY <2>3, <2>4 DEF RowsTile
    <3> QED
      BY <2>2, <3>1, <3>2
  <2>5. ASSUME NEW t, ColumnsTile(t, k, q)
        PROVE  DOMAIN t.axes = 1..2 /\ \A d \in 1..2 : TileSteps(s, t, d) = Count(t.axes[d])
    <3>1. TileSteps(s, t, 1) = 1 /\ TileSteps(s, t, 2) = CeilDiv(n, q)
      BY <1>3, <2>1, <2>5 DEF ColumnsTile, TileSteps, StepsDim
    <3>2. DOMAIN t.axes = 1..2 /\ t.axes[2] = 2 /\ t.axes[1] # 1 /\ t.axes[1] # 2
      BY <2>3, <2>5 DEF ColumnsTile
    <3> QED
      BY <2>2, <3>1, <3>2
  <2>6. ASSUME NEW t, ProductTile(t, p, q)
        PROVE  DOMAIN t.axes = 1..2 /\ \A d \in 1..2 : TileSteps(s, t, d) = Count(t.axes[d])
    <3>1. TileSteps(s, t, 1) = CeilDiv(m, p) /\ TileSteps(s, t, 2) = CeilDiv(n, q)
      BY <1>3, <2>6 DEF ProductTile, TileSteps, StepsDim
    <3>2. DOMAIN t.axes = 1..2 /\ t.axes[1] = 1 /\ t.axes[2] = 2
      BY <2>6 DEF ProductTile
    <3> QED
      BY <2>2, <3>1, <3>2
  <2> HIDE DEF Count
  <2> QED
    BY <1>8, <1>9, <2>4, <2>5, <2>6
<1>13. /\ DOMAIN Innermost(tiles).axes = 1..2
       /\ Innermost(tiles).axes[1] = 1 /\ Innermost(tiles).axes[2] = 2
  BY <1>10 DEF ProductTile
<1>14. \A d, e \in 1..2 : Innermost(tiles).axes[d] = Innermost(tiles).axes[e] => d = e
  <2>1. \A d \in 1..2 : Innermost(tiles).axes[d] = d
    BY <1>13
  <2> QED
    BY <2>1
<1>15. ASSUME NEW i \in DOMAIN tiles, NEW d \in 1..2, TileSteps(s, tiles[i], d) # 1
       PROVE  \E e \in 1..2 : Innermost(tiles).axes[e] = tiles[i].axes[d]
  <2>1. Count(tiles[i].axes[d]) # 1
    BY <1>12, <1>15
  <2>2. tiles[i].axes[d] = 1 \/ tiles[i].axes[d] = 2
    BY <2>1
  <2> QED
    BY <1>13, <2>2
<1> HIDE DEF Count
<1>16. \A i, j \in DOMAIN tiles : \A d, e \in 1..2 :
          tiles[i].axes[d] = tiles[j].axes[e] => TileSteps(s, tiles[i], d) = TileSteps(s, tiles[j], e)
  BY <1>12
<1>17. EvenTiles(s, tiles)
  <2>1. \A i \in DOMAIN tiles : DOMAIN tiles[i].axes = 1..2
    BY <1>12
  <2>2. /\ \A i, j \in DOMAIN tiles : \A d \in DOMAIN tiles[i].axes : \A e \in DOMAIN tiles[j].axes :
              tiles[i].axes[d] = tiles[j].axes[e] => TileSteps(s, tiles[i], d) = TileSteps(s, tiles[j], e)
        /\ \A i \in DOMAIN tiles : \A d \in DOMAIN tiles[i].axes : TileSteps(s, tiles[i], d) # 1 =>
              \E e \in DOMAIN Innermost(tiles).axes : Innermost(tiles).axes[e] = tiles[i].axes[d]
    BY <1>13, <1>15, <1>16, <2>1
  <2>3. \A d, e \in DOMAIN Innermost(tiles).axes : Innermost(tiles).axes[d] = Innermost(tiles).axes[e] => d = e
    BY <1>13, <1>14
  <2> QED
    BY <1>8, <1>11, <2>2, <2>3 DEF EvenTiles
<1> QED
  BY <1>7, <1>17

\* The one input's axes are those of the output.
LEMMA OnlyInputAxes ==
    ASSUME NEW tilings, NEW r \in Nat, DOMAIN tilings = 1..1, tilings[1].axes = [d \in 1..r |-> d]
    PROVE  DOMAIN InputAxes(tilings, r, 1) = 1..r /\ \A d \in 1..r : InputAxes(tilings, r, 1)[d] = d
<1>1. ASSUME NEW n \in Nat, DOMAIN tilings = 1..n, NEW i \in 1..n,
             \A j \in 1..n : DOMAIN tilings[j].axes = 1..r
      PROVE  /\ DOMAIN InputAxes(tilings, r, i) = 1..r
             /\ \A d \in 1..r : tilings[i].axes[d] # 0 => InputAxes(tilings, r, i)[d] = tilings[i].axes[d]
             /\ \A d \in 1..r : tilings[i].axes[d] = 0 => InputAxes(tilings, r, i)[d] > r
  BY <1>1, InputAxesAre
<1>2. \A j \in 1..1 : DOMAIN tilings[j].axes = 1..r
  OBVIOUS
<1>3. /\ DOMAIN InputAxes(tilings, r, 1) = 1..r
      /\ \A d \in 1..r : tilings[1].axes[d] # 0 => InputAxes(tilings, r, 1)[d] = tilings[1].axes[d]
  <2>1. 1 \in Nat /\ 1 \in 1..1
    OBVIOUS
  <2> QED
    BY <1>1, <1>2, <2>1
<1>4. \A d \in 1..r : tilings[1].axes[d] = d /\ d # 0
  OBVIOUS
<1> QED
  BY <1>3, <1>4

\* Nor do those of a Move or a Zero hang over.
LEMMA ElementwiseEven ==
    ASSUME NEW s, SizedSpec(s), Binary(s), s.typ \in {"Zero", "Move"}, NEW out, out \in Seq(Nat \ {0}),
           DOMAIN out = DOMAIN Output(s).shape, PowersOnly(out), \A d \in DOMAIN out : out[d] <= Output(s).shape[d]
    PROVE  EvenTiles(s, TileOutTiles(s, out))
<1>0. SizedOps(s.typ, s.ops) /\ ShapesAgree(s)
  BY DEF SizedSpec
<1>1. /\ OutputIdx(s) \in DOMAIN s.ops /\ DOMAIN s.ops = 1..OutputIdx(s)
      /\ s.typ = "Move" => OutputIdx(s) = 2
      /\ s.typ = "Zero" => OutputIdx(s) = 1
  <2>1. /\ OutputIdx(s) \in DOMAIN s.ops /\ DOMAIN s.ops = 1..OutputIdx(s)
        /\ OutputIdx(s) = InputCount[s.typ] + 1
    BY <1>0, OpsCount DEF SizedOps
  <2>2. (s.typ = "Move" => InputCount[s.typ] = 1) /\ (s.typ = "Zero" => InputCount[s.typ] = 0)
    BY DEF InputCount
  <2> QED
    BY <2>1, <2>2
<1>2. PICK shape \in Seq(Nat \ {0}) : shape = Output(s).shape /\ PowersOnly(shape)
  <2>1. Sized(s.ops[OutputIdx(s)]) /\ PowersOnly(s.ops[OutputIdx(s)].shape)
    BY <1>0, <1>1 DEF SizedOps, Binary
  <2> QED
    BY <2>1 DEF Sized, Output
<1>3. \A i \in DOMAIN s.ops : s.ops[i].shape = shape
  <2>1. \A i \in DOMAIN s.ops : s.ops[i].shape = s.ops[1].shape
    BY <1>0, AgreeElementwise
  <2> QED
    BY <1>1, <1>2, <2>1 DEF Output
<1>4. PICK r \in Nat : r = Len(out) /\ DOMAIN out = 1..r /\ DOMAIN shape = 1..r /\ out = [d \in 1..r |-> out[d]]
  BY <1>2
<1>5. PICK tilings : tilings = InputTilings(s, SimpleTiling(out))
  OBVIOUS
<1>6. /\ s.typ = "Zero" => DOMAIN tilings = {}
      /\ s.typ = "Move" => /\ DOMAIN tilings = 1..1 /\ tilings[1].axes = [d \in 1..r |-> d]
                           /\ tilings[1].tiling.steps = out
  <2>1. s.typ = "Zero" => DOMAIN InputTilings(s, SimpleTiling(out)) = {}
    BY DEF InputTilings
  <2>2. s.typ = "Move" =>
           InputTilings(s, SimpleTiling(out)) = <<[tiling |-> SlidingTiling(out, out), axes |-> [d \in DOMAIN out |-> d]]>>
    BY DEF InputTilings, SimpleTiling
  <2>3. PICK x : x = [tiling |-> SlidingTiling(out, out), axes |-> [d \in DOMAIN out |-> d]]
    OBVIOUS
  <2>4. x.axes = [d \in 1..r |-> d] /\ x.tiling.steps = out
    BY <1>4, <2>3 DEF SlidingTiling
  <2>5. s.typ = "Move" => tilings = <<x>>
    BY <1>5, <2>2, <2>3
  <2>6. s.typ = "Zero" => DOMAIN tilings = {}
    BY <1>5, <2>1
  <2>7. DOMAIN <<x>> = 1..1 /\ <<x>>[1] = x
    OBVIOUS
  <2> QED
    BY <2>4, <2>5, <2>6, <2>7
<1>7. ASSUME NEW i \in 1..2, Cuts(s, out, i)
      PROVE  /\ InputTile(s, out, i).operand \in DOMAIN s.ops /\ InputTile(s, out, i).tiling.steps = out
             /\ DOMAIN InputTile(s, out, i).axes = 1..r /\ \A d \in 1..r : InputTile(s, out, i).axes[d] = d
  <2>1. i \in DOMAIN tilings
    BY <1>5, <1>7 DEF Cuts
  <2>2. s.typ = "Move" /\ i = 1
    BY <1>6, <2>1
  <2>3. DOMAIN InputAxes(tilings, r, 1) = 1..r /\ \A d \in 1..r : InputAxes(tilings, r, 1)[d] = d
    BY <1>4, <1>6, <2>2, OnlyInputAxes
  <2>4. /\ InputTile(s, out, i).operand = 1 /\ InputTile(s, out, i).tiling.steps = out
        /\ InputTile(s, out, i).axes = InputAxes(tilings, r, 1)
    BY <1>4, <1>5, <1>6, <2>2 DEF InputTile, LoopTile
  <2> QED
    BY <1>1, <2>2, <2>3, <2>4
<1>8. /\ OutputTile(s, out).operand \in DOMAIN s.ops /\ OutputTile(s, out).tiling.steps = out
      /\ DOMAIN OutputTile(s, out).axes = 1..r /\ \A d \in 1..r : OutputTile(s, out).axes[d] = d
  BY <1>1, <1>4 DEF OutputTile, LoopTile, SimpleTiling
<1>9. PICK tiles : tiles = TileOutTiles(s, out)
  OBVIOUS
<1>10. /\ Len(tiles) \in Nat \ {0} /\ DOMAIN tiles = 1..Len(tiles) /\ Innermost(tiles) = OutputTile(s, out)
       /\ \A n \in DOMAIN tiles : tiles[n] \in Range(tiles)
  BY <1>9, TileOutSequence
<1>11. \A n \in DOMAIN tiles : /\ tiles[n].operand \in DOMAIN s.ops /\ tiles[n].tiling.steps = out
                               /\ DOMAIN tiles[n].axes = 1..r /\ \A d \in 1..r : tiles[n].axes[d] = d
  <2>1. \A n \in DOMAIN tiles : tiles[n] = OutputTile(s, out) \/ \E i \in 1..2 : Cuts(s, out, i) /\ tiles[n] = InputTile(s, out, i)
    BY <1>9, <1>10, TileOutTilesAre
  <2> QED
    BY <1>7, <1>8, <2>1
<1>12. \A n \in DOMAIN tiles : EvenTile(s, tiles[n])
  <2>1. \A d \in 1..r : out[d] <= shape[d]
    BY <1>2, <1>4
  <2>2. ASSUME NEW t, t.operand \in DOMAIN s.ops, t.tiling.steps = out, DOMAIN t.axes = 1..r
        PROVE  EvenTile(s, t)
    <3>1. s.ops[t.operand].shape = shape
      BY <1>3, <2>2
    <3>2. DOMAIN t.tiling.steps = 1..r /\ t.tiling.steps = [d \in DOMAIN t.tiling.steps |-> t.tiling.steps[d]]
      BY <1>4, <2>2
    <3>3. PowersOnly(t.tiling.steps) /\ \A d \in DOMAIN t.axes : t.tiling.steps[d] <= shape[d]
      BY <2>1, <2>2
    <3> QED
      BY <1>2, <1>4, <2>2, <3>1, <3>2, <3>3, PowerTile
  <2> QED
    BY <1>11, <2>2
<1>13. \A n \in DOMAIN tiles : \A d \in 1..r : TileSteps(s, tiles[n], d) = CeilDiv(shape[d], out[d])
  BY <1>3, <1>11 DEF TileSteps, StepsDim
<1>14. DOMAIN Innermost(tiles).axes = 1..r /\ \A d \in 1..r : Innermost(tiles).axes[d] = d
  BY <1>8, <1>10
<1>15. EvenTiles(s, tiles)
  <2>1. /\ \A i, j \in DOMAIN tiles : \A d \in DOMAIN tiles[i].axes : \A e \in DOMAIN tiles[j].axes :
              tiles[i].axes[d] = tiles[j].axes[e] => TileSteps(s, tiles[i], d) = TileSteps(s, tiles[j], e)
        /\ \A i \in DOMAIN tiles : \A d \in DOMAIN tiles[i].axes : TileSteps(s, tiles[i], d) # 1 =>
              \E e \in DOMAIN Innermost(tiles).axes : Innermost(tiles).axes[e] = tiles[i].axes[d]
    BY <1>11, <1>13, <1>14
  <2>2. \A d, e \in DOMAIN Innermost(tiles).axes : Innermost(tiles).axes[d] = Innermost(tiles).axes[e] => d = e
    BY <1>14
  <2> QED
    BY <1>10, <1>12, <2>1, <2>2 DEF EvenTiles
<1> QED
  BY <1>9, <1>15

\* Two tiles are zipped when an axis has as many steps in each (cnt), and the second is
\* tiled along all that is looped over.
LEMMA TwoEven ==
    ASSUME NEW s, NEW t, NEW u, NEW r \in Nat, NEW cnt, EvenTile(s, t), EvenTile(s, u),
           DOMAIN t.axes = 1..r, DOMAIN u.axes = 1..r,
           \A d \in 1..r : TileSteps(s, t, d) = cnt[t.axes[d]] /\ TileSteps(s, u, d) = cnt[u.axes[d]],
           \A d, e \in 1..r : u.axes[d] = u.axes[e] => d = e,
           \A d \in 1..r : cnt[t.axes[d]] # 1 => \E e \in 1..r : u.axes[e] = t.axes[d]
    PROVE  EvenTiles(s, <<t, u>>)
<1>1. PICK tiles : tiles = <<t, u>>
  OBVIOUS
<1>2. Len(tiles) = 2 /\ DOMAIN tiles = 1..2 /\ tiles[1] = t /\ tiles[2] = u
  BY <1>1
<1>3. \A n \in 1..2 : n = 1 \/ n = 2
  OBVIOUS
<1>4. Innermost(tiles) = u
  BY <1>2 DEF Innermost
<1>5. \A n \in 1..2 : /\ EvenTile(s, tiles[n]) /\ DOMAIN tiles[n].axes = 1..r
                      /\ \A d \in 1..r : TileSteps(s, tiles[n], d) = cnt[tiles[n].axes[d]]
  BY <1>2, <1>3
<1>6. ASSUME NEW n \in 1..2, NEW d \in 1..r, TileSteps(s, tiles[n], d) # 1
      PROVE  \E e \in 1..r : u.axes[e] = tiles[n].axes[d]
  <2>1. CASE n = 1
    BY <1>2, <1>6, <2>1
  <2>2. CASE n = 2
    BY <1>2, <2>2
  <2> QED
    BY <1>3, <2>1, <2>2
<1>7. EvenTiles(s, tiles)
  <2>1. /\ \A i, j \in DOMAIN tiles : \A d \in DOMAIN tiles[i].axes : \A e \in DOMAIN tiles[j].axes :
              tiles[i].axes[d] = tiles[j].axes[e] => TileSteps(s, tiles[i], d) = TileSteps(s, tiles[j], e)
        /\ \A i \in DOMAIN tiles : \A d \in DOMAIN tiles[i].axes : TileSteps(s, tiles[i], d) # 1 =>
              \E e \in DOMAIN Innermost(tiles).axes : Innermost(tiles).axes[e] = tiles[i].axes[d]
    BY <1>2, <1>4, <1>5, <1>6
  <2>2. \A d, e \in DOMAIN Innermost(tiles).axes : Innermost(tiles).axes[d] = Innermost(tiles).axes[e] => d = e
    BY <1>4
  <2>3. Len(tiles) \in Nat \ {0} /\ DOMAIN tiles = 1..Len(tiles)
    BY <1>2
  <2> QED
    BY <1>2, <1>5, <2>1, <2>2, <2>3 DEF EvenTiles
<1> QED
  BY <1>1, <1>7

\* A Split's tiles are even.
LEMMA SplitEven ==
    ASSUME NEW s, SizedSpec(s), Binary(s), s.typ \in {"Matmul"}, NEW a \in SplitActions(s)
    PROVE  /\ EvenTiles(s, SplitTiles(s, a.k)) /\ IsPowerOfTwo(a.k)
<1>0. SizedOps(s.typ, s.ops) /\ ShapesAgree(s) /\ s.typ = "Matmul"
  BY DEF SizedSpec
<1>1. PICK m \in Nat \ {0}, k \in Nat \ {0}, n \in Nat \ {0} : MatmulShapes(s.ops, m, k, n)
  BY <1>0, AgreeMatmul
<1>2. DOMAIN s.ops = 1..3
  BY MatrixRanks
<1>3. s.ops[1].shape = <<m, k>> /\ s.ops[2].shape = <<k, n>>
  BY <1>1 DEF MatmulShapes
<1>4. IsPowerOfTwo(m) /\ IsPowerOfTwo(k) /\ IsPowerOfTwo(n)
  BY <1>1, <1>2, ProductBinary
<1>5. PICK j \in Nat \ {0} : j = a.k /\ j < k /\ IsPowerOfTwo(j)
  <2>1. a.k \in DimRange(s.ops[1].shape[2], FALSE)
    <3>1. PICK j \in DimRange(s.ops[1].shape[2], FALSE) : a = [kind |-> "Split", k |-> j]
      BY DEF SplitActions
    <3> QED
      BY <3>1
  <2>2. s.ops[1].shape[2] = k
    BY <1>3
  <2> QED
    BY <1>4, <2>1, <2>2, DimRangeIs
<1>6. PICK t, u : /\ t = LoopTile(1, SimpleTiling(<<m, j>>), <<1, 2>>)
                  /\ u = LoopTile(2, SimpleTiling(<<j, n>>), <<2, 3>>)
  OBVIOUS
<1>7. SplitTiles(s, a.k) = <<t, u>>
  BY <1>3, <1>5, <1>6 DEF SplitTiles
<1>8. /\ t.operand = 1 /\ t.tiling.steps = <<m, j>> /\ t.axes = <<1, 2>>
      /\ u.operand = 2 /\ u.tiling.steps = <<j, n>> /\ u.axes = <<2, 3>>
  BY <1>6 DEF LoopTile, SimpleTiling
<1>9. EvenTile(s, t) /\ EvenTile(s, u)
  <2>1. ASSUME NEW v, NEW g \in Nat \ {0}, NEW h \in Nat \ {0}, NEW x \in Nat \ {0}, NEW y \in Nat \ {0},
               v.operand \in 1..3, s.ops[v.operand].shape = <<g, h>>, v.tiling.steps = <<x, y>>, DOMAIN v.axes = 1..2,
               x <= g, y <= h, IsPowerOfTwo(x), IsPowerOfTwo(y), IsPowerOfTwo(g), IsPowerOfTwo(h)
        PROVE  EvenTile(s, v)
    <3>1. PowersOnly(<<g, h>>) /\ PowersOnly(<<x, y>>)
      BY <2>1 DEF PowersOnly
    <3>2. DOMAIN <<g, h>> = 1..2 /\ DOMAIN <<x, y>> = 1..2 /\ <<g, h>> \in Seq(Nat \ {0})
      OBVIOUS
    <3>3. \A d \in 1..2 : <<x, y>>[d] <= <<g, h>>[d]
      BY <2>1
    <3>4. <<x, y>> = [d \in DOMAIN <<x, y>> |-> <<x, y>>[d]]
      OBVIOUS
    <3> QED
      BY <1>2, <2>1, <3>1, <3>2, <3>3, <3>4, PowerTile
  <2>2. DOMAIN t.axes = 1..2 /\ DOMAIN u.axes = 1..2
    BY <1>8
  <2>3. EvenTile(s, t)
    BY <1>3, <1>4, <1>5, <1>8, <2>1, <2>2
  <2>4. EvenTile(s, u)
    BY <1>3, <1>4, <1>5, <1>8, <2>1, <2>2
  <2> QED
    BY <2>3, <2>4
<1>10. PICK cnt : cnt = [axis \in 1..3 |-> IF axis = 2 THEN CeilDiv(k, j) ELSE 1]
  OBVIOUS
<1>11. /\ TileSteps(s, t, 1) = 1 /\ TileSteps(s, t, 2) = CeilDiv(k, j)
       /\ TileSteps(s, u, 1) = CeilDiv(k, j) /\ TileSteps(s, u, 2) = 1
  BY <1>3, <1>8, OneTile DEF TileSteps, StepsDim
<1>12. cnt[1] = 1 /\ cnt[2] = CeilDiv(k, j) /\ cnt[3] = 1
  BY <1>10
<1>13. EvenTiles(s, <<t, u>>)
  <2>1. \A d \in 1..2 : d = 1 \/ d = 2
    OBVIOUS
  <2>2. t.axes[1] = 1 /\ t.axes[2] = 2 /\ u.axes[1] = 2 /\ u.axes[2] = 3 /\ DOMAIN t.axes = 1..2 /\ DOMAIN u.axes = 1..2
    BY <1>8
  <2>3. \A d \in 1..2 : TileSteps(s, t, d) = cnt[t.axes[d]] /\ TileSteps(s, u, d) = cnt[u.axes[d]]
    BY <1>11, <1>12, <2>1, <2>2
  <2>4. \A d, e \in 1..2 : u.axes[d] = u.axes[e] => d = e
    BY <2>1, <2>2
  <2>5. \A d \in 1..2 : cnt[t.axes[d]] # 1 => \E e \in 1..2 : u.axes[e] = t.axes[d]
    <3>1. 1 \in 1..2 /\ u.axes[1] = t.axes[2]
      BY <2>2
    <3> QED
      BY <1>12, <2>1, <2>2, <3>1
  <2>6. 2 \in Nat
    OBVIOUS
  <2> QED
    BY <1>9, <2>2, <2>3, <2>4, <2>5, <2>6, TwoEven
<1> QED
  BY <1>5, <1>7, <1>13

\* Nor do a SpatialSplit's tiles hang over.
LEMMA SpatialEven ==
    ASSUME NEW s, SizedSpec(s), Binary(s), s.typ \in {"Conv"}, CanSpatialSplit(s)
    PROVE  EvenTiles(s, SpatialTiles(s))
<1>1. PICK b \in Nat \ {0}, f \in Nat \ {0}, ch \in Nat \ {0}, h \in Nat \ {0}, w \in Nat \ {0},
           y \in Nat \ {0}, x \in Nat \ {0} : ConvShapes(s.ops, b, f, ch, h, w, y, x)
  BY AgreeConv DEF SizedSpec
<1>2. DOMAIN s.ops = 1..3
  BY AgreeMeans DEF SizedSpec
<1>3. s.ops[1].shape = <<b, ch, h, w>> /\ s.ops[2].shape = <<f, ch, y, x>>
  BY <1>1 DEF ConvShapes
<1>4. y = h /\ x = w
  <2>1. SubSeq(<<b, ch, h, w>>, 3, 4) = SubSeq(<<f, ch, y, x>>, 3, 4)
    BY <1>3 DEF CanSpatialSplit
  <2>2. <<b, ch, h, w>> \in [1..4 -> Nat] /\ <<f, ch, y, x>> \in [1..4 -> Nat]
    OBVIOUS
  <2>3. Len(<<b, ch, h, w>>) = 4 /\ Len(<<f, ch, y, x>>) = 4
    OBVIOUS
  <2>4. SubSeq(<<b, ch, h, w>>, 3, Len(<<b, ch, h, w>>)) = <<h, w>> /\ SubSeq(<<f, ch, y, x>>, 3, Len(<<f, ch, y, x>>)) = <<y, x>>
    <3>1. PICK p, q : p = <<b, ch, h, w>> /\ q = <<f, ch, y, x>>
      OBVIOUS
    <3>2. SubSeq(p, 3, Len(p)) = <<p[3], p[4]>> /\ SubSeq(q, 3, Len(q)) = <<q[3], q[4]>>
      BY <2>2, <3>1, FirstTwo
    <3>3. p[3] = h /\ p[4] = w /\ q[3] = y /\ q[4] = x
      BY <3>1
    <3> QED
      BY <3>1, <3>2, <3>3
  <2>5. <<h, w>> = <<y, x>>
    BY <2>1, <2>3, <2>4
  <2>6. <<h, w>>[1] = h /\ <<h, w>>[2] = w /\ <<y, x>>[1] = y /\ <<y, x>>[2] = x
    OBVIOUS
  <2> QED
    BY <2>5, <2>6
<1>5. /\ IsPowerOfTwo(b) /\ IsPowerOfTwo(ch) /\ IsPowerOfTwo(f) /\ IsPowerOfTwo(h) /\ IsPowerOfTwo(w)
  <2>1. PowersOnly(<<b, ch, h, w>>) /\ PowersOnly(<<f, ch, y, x>>)
    <3>1. PowersOnly(s.ops[1].shape) /\ PowersOnly(s.ops[2].shape)
      BY <1>2 DEF Binary
    <3> QED
      BY <1>3, <3>1
  <2>2. DOMAIN <<b, ch, h, w>> = 1..4 /\ DOMAIN <<f, ch, y, x>> = 1..4
    OBVIOUS
  <2>3. \A d \in 1..4 : IsPowerOfTwo(<<b, ch, h, w>>[d]) /\ IsPowerOfTwo(<<f, ch, y, x>>[d])
    BY <2>1, <2>2 DEF PowersOnly
  <2>4. IsPowerOfTwo(<<b, ch, h, w>>[1]) /\ IsPowerOfTwo(<<b, ch, h, w>>[2]) /\ IsPowerOfTwo(<<b, ch, h, w>>[3])
        /\ IsPowerOfTwo(<<b, ch, h, w>>[4]) /\ IsPowerOfTwo(<<f, ch, y, x>>[1])
    BY <2>3
  <2> QED
    BY <2>4
<1>6. PICK t, u : /\ t = LoopTile(1, SimpleTiling(<<b, ch, 1, 1>>), <<8, 9, 1, 2>>)
                  /\ u = LoopTile(2, SimpleTiling(<<f, ch, 1, 1>>), <<10, 9, 1, 2>>)
  OBVIOUS
<1>7. SpatialTiles(s) = <<t, u>>
  <2>1. /\ [d \in 1..4 |-> IF d <= 2 THEN s.ops[1].shape[d] ELSE 1] = <<b, ch, 1, 1>>
        /\ [d \in 1..4 |-> IF d <= 2 THEN s.ops[2].shape[d] ELSE 1] = <<f, ch, 1, 1>>
    BY <1>3
  <2>2. PICK tiles : tiles = SpatialTiles(s)
    OBVIOUS
  <2>3. tiles = [i \in 1..2 |-> tiles[i]] /\ tiles[1] = t /\ tiles[2] = u
    BY <1>6, <2>1, <2>2 DEF SpatialTiles
  <2>4. tiles = <<t, u>>
    BY <2>3
  <2> QED
    BY <2>2, <2>4
<1>8. /\ t.operand = 1 /\ t.tiling.steps = <<b, ch, 1, 1>> /\ t.axes = <<8, 9, 1, 2>>
      /\ u.operand = 2 /\ u.tiling.steps = <<f, ch, 1, 1>> /\ u.axes = <<10, 9, 1, 2>>
  BY <1>6 DEF LoopTile, SimpleTiling
<1>9. \A d \in 1..4 : d = 1 \/ d = 2 \/ d = 3 \/ d = 4
  OBVIOUS
<1>10. EvenTile(s, t) /\ EvenTile(s, u)
  <2>1. ASSUME NEW v, NEW g \in Nat \ {0}, v.operand \in 1..2, s.ops[v.operand].shape = <<g, ch, h, w>>,
               v.tiling.steps = <<g, ch, 1, 1>>, DOMAIN v.axes = 1..4, IsPowerOfTwo(g)
        PROVE  EvenTile(s, v)
    <3>1. PowersOnly(<<g, ch, h, w>>) /\ PowersOnly(<<g, ch, 1, 1>>)
      BY <1>5, <2>1, OneIsPower DEF PowersOnly
    <3>2. DOMAIN <<g, ch, h, w>> = 1..4 /\ DOMAIN <<g, ch, 1, 1>> = 1..4 /\ <<g, ch, h, w>> \in Seq(Nat \ {0})
      OBVIOUS
    <3>3. \A d \in 1..4 : <<g, ch, 1, 1>>[d] <= <<g, ch, h, w>>[d]
      BY <1>9
    <3>4. <<g, ch, 1, 1>> = [d \in DOMAIN <<g, ch, 1, 1>> |-> <<g, ch, 1, 1>>[d]]
      OBVIOUS
    <3>5. v.operand \in DOMAIN s.ops
      BY <1>2, <2>1
    <3> QED
      BY <2>1, <3>1, <3>2, <3>3, <3>4, <3>5, PowerTile
  <2>2. DOMAIN t.axes = 1..4 /\ DOMAIN u.axes = 1..4
    BY <1>8
  <2>3. EvenTile(s, t)
    BY <1>3, <1>5, <1>8, <2>1, <2>2
  <2>4. EvenTile(s, u)
    BY <1>3, <1>4, <1>5, <1>8, <2>1, <2>2
  <2> QED
    BY <2>3, <2>4
<1>11. PICK cnt : cnt = [axis \in 1..10 |-> IF axis = 1 THEN CeilDiv(h, 1) ELSE IF axis = 2 THEN CeilDiv(w, 1) ELSE 1]
  OBVIOUS
<1>12. /\ TileSteps(s, t, 1) = 1 /\ TileSteps(s, t, 2) = 1 /\ TileSteps(s, t, 3) = CeilDiv(h, 1) /\ TileSteps(s, t, 4) = CeilDiv(w, 1)
       /\ TileSteps(s, u, 1) = 1 /\ TileSteps(s, u, 2) = 1 /\ TileSteps(s, u, 3) = CeilDiv(h, 1) /\ TileSteps(s, u, 4) = CeilDiv(w, 1)
  BY <1>3, <1>4, <1>8, OneTile DEF TileSteps, StepsDim
<1>13. cnt[1] = CeilDiv(h, 1) /\ cnt[2] = CeilDiv(w, 1) /\ cnt[8] = 1 /\ cnt[9] = 1 /\ cnt[10] = 1
  BY <1>11
<1>14. /\ DOMAIN t.axes = 1..4 /\ t.axes[1] = 8 /\ t.axes[2] = 9 /\ t.axes[3] = 1 /\ t.axes[4] = 2
       /\ DOMAIN u.axes = 1..4 /\ u.axes[1] = 10 /\ u.axes[2] = 9 /\ u.axes[3] = 1 /\ u.axes[4] = 2
  BY <1>8
<1>15. EvenTiles(s, <<t, u>>)
  <2>1. \A d \in 1..4 : TileSteps(s, t, d) = cnt[t.axes[d]] /\ TileSteps(s, u, d) = cnt[u.axes[d]]
    BY <1>9, <1>12, <1>13, <1>14
  <2>2. \A d, e \in 1..4 : u.axes[d] = u.axes[e] => d = e
    BY <1>9, <1>14
  <2>3. \A d \in 1..4 : cnt[t.axes[d]] # 1 => \E e \in 1..4 : u.axes[e] = t.axes[d]
    <3>1. 3 \in 1..4 /\ 4 \in 1..4 /\ u.axes[3] = t.axes[3] /\ u.axes[4] = t.axes[4]
      BY <1>14
    <3> QED
      BY <1>9, <1>13, <1>14, <3>1
  <2>4. 4 \in Nat
    OBVIOUS
  <2> QED
    <3>1. DOMAIN t.axes = 1..4 /\ DOMAIN u.axes = 1..4 /\ EvenTile(s, t) /\ EvenTile(s, u)
      BY <1>10, <1>14
    <3>2. PICK r \in Nat : r = 4
      OBVIOUS
    <3>3. /\ DOMAIN t.axes = 1..r /\ DOMAIN u.axes = 1..r
          /\ \A d \in 1..r : TileSteps(s, t, d) = cnt[t.axes[d]] /\ TileSteps(s, u, d) = cnt[u.axes[d]]
          /\ \A d, e \in 1..r : u.axes[d] = u.axes[e] => d = e
          /\ \A d \in 1..r : cnt[t.axes[d]] # 1 => \E e \in 1..r : u.axes[e] = t.axes[d]
      BY <2>1, <2>2, <2>3, <3>1, <3>2
    <3> QED
      BY <3>1, <3>3, TwoEven
<1> QED
  BY <1>7, <1>15

\* A Conv of one value cannot be tiled.
LEMMA ConvWhole ==
    ASSUME SizedSpec(spec), Placed, spec.typ \in {"Conv"}, NEW a \in TileOutActions(spec),
           TileOutApplies(spec, a.shape, a.parallel)
    PROVE  FALSE
<1>1. Output(spec).shape \in Seq(Nat \ {0})
  BY OpsCount DEF SizedSpec, SizedOps, Sized, Output
<1>2. /\ a.shape \in Seq(Nat \ {0}) /\ DOMAIN a.shape = DOMAIN Output(spec).shape
      /\ a.shape # Output(spec).shape /\ \A d \in DOMAIN a.shape : a.shape[d] <= Output(spec).shape[d]
  BY <1>1, TileOutActionsAre DEF TileOutApplies
<1>3. AllOnes(Output(spec).shape)
  BY DEF Placed, Together
<1>4. \A d \in DOMAIN a.shape : a.shape[d] = Output(spec).shape[d]
  <2>1. SUFFICES ASSUME NEW d \in DOMAIN a.shape
                 PROVE  a.shape[d] = Output(spec).shape[d]
    OBVIOUS
  <2>2. a.shape[d] \in Nat \ {0} /\ a.shape[d] <= Output(spec).shape[d] /\ Output(spec).shape[d] = 1
    BY <1>2, <1>3 DEF AllOnes
  <2> QED
    BY <2>2
<1>5. a.shape = Output(spec).shape
  <2>1. ASSUME NEW f \in Seq(Nat \ {0}), NEW g \in Seq(Nat \ {0}), DOMAIN f = DOMAIN g, \A d \in DOMAIN f : f[d] = g[d]
        PROVE  f = g
    BY <2>1
  <2> QED
    BY <1>1, <1>2, <1>4, <2>1
<1> QED
  BY <1>2, <1>5

\* What a TileOut's shape is, of a Spec of powers of two.
LEMMA OfferedTile ==
    ASSUME SizedSpec(spec), Placed, Binary(spec), NEW a \in TileOutActions(spec),
           TileOutApplies(spec, a.shape, a.parallel)
    PROVE  /\ a.shape \in Seq(Nat \ {0}) /\ DOMAIN a.shape = DOMAIN Output(spec).shape
           /\ Len(a.shape) = Len(Output(spec).shape) /\ PowersOnly(a.shape) /\ a.parallel \in BOOLEAN
           /\ \A d \in DOMAIN a.shape : a.shape[d] <= Output(spec).shape[d]
           /\ spec.typ \in {"Zero", "Move"} \/ (spec.typ \in {"Matmul"} /\ Len(a.shape) = 2)
<1>1. OutputIdx(spec) \in DOMAIN spec.ops /\ SizedOps(spec.typ, spec.ops)
  BY OpsCount DEF SizedSpec
<1>2. Output(spec).shape \in Seq(Nat \ {0}) /\ PowersOnly(Output(spec).shape)
  BY <1>1 DEF SizedOps, Sized, Output, Binary
<1>3. spec.typ \in {"Zero", "Move", "Matmul"}
  <2>1. spec.typ \in {"Zero", "Move", "Matmul", "Conv"}
    BY <1>1 DEF SizedOps, InputCount
  <2> QED
    BY <2>1, ConvWhole
<1>4. spec.typ \in {"Matmul"} => Len(Output(spec).shape) = 2
  BY <1>1, MatrixRanks DEF Output
<1> QED
  BY <1>2, <1>3, <1>4, TileOutActionsAre, OfferedArePowers DEF TileOutApplies

\* The loops that a Spec of powers of two may be split into are even.
LEMMA TilingsEven ==
    ASSUME SizedSpec(spec), Placed, Binary(spec), NEW tiles \in LoopTilings
    PROVE  EvenTiles(spec, tiles)
<1>1. CASE tiles \in {TileOutTiles(spec, a.shape) :
                         a \in {a \in TileOutActions(spec) : TileOutApplies(spec, a.shape, a.parallel)}}
  <2>1. PICK a \in TileOutActions(spec) : TileOutApplies(spec, a.shape, a.parallel) /\ tiles = TileOutTiles(spec, a.shape)
    BY <1>1
  <2> QED
    BY <2>1, OfferedTile, MatmulEven, ElementwiseEven
<1>2. CASE spec.typ = "Matmul" /\ tiles \in {SplitTiles(spec, a.k) : a \in SplitActions(spec)}
  <2>1. PICK a \in SplitActions(spec) : tiles = SplitTiles(spec, a.k)
    BY <1>2
  <2>2. spec.typ \in {"Matmul"}
    BY <1>2
  <2> QED
    BY <2>1, <2>2, SplitEven
<1>3. CASE spec.typ = "Conv" /\ CanSpatialSplit(spec) /\ tiles = SpatialTiles(spec)
  <2>1. spec.typ \in {"Conv"}
    BY <1>3
  <2> QED
    BY <1>3, <2>1, SpatialEven
<1> QED
  BY <1>1, <1>2, <1>3 DEF LoopTilings

\* So their bodies run once per tile.
LEMMA EvenOnce ==
    ASSUME SizedSpec(spec), Placed, Binary(spec)
    PROVE  LoopsOncePerTile
<1>1. ASSUME NEW tiles \in LoopTilings
      PROVE  /\ \A x, y \in EmittedLoops(spec, tiles) : x[1] = y[1] => x = y
             /\ Product([x \in EmittedLoops(spec, tiles) |-> x[2]]) = Product(StepsAlong(spec, tiles[Len(tiles)]))
             /\ LoopSteps(spec, tiles) = Product(StepsAlong(spec, tiles[Len(tiles)]))
             /\ LoopFullSteps(spec, tiles) = LoopSteps(spec, tiles)
  <2>1. EvenTiles(spec, tiles)
    BY <1>1, TilingsEven
  <2> QED
    BY <2>1, LoopsOnce, StepsOnce DEF Innermost
<1> QED
  BY <1>1 DEF LoopsOncePerTile, StepsAlong

-----------------------------------------------------------------------------
(* Every Spec on the way is of powers of two.                              *)

\* The tiles of a TileOut,
LEMMA TileOutKeepsBinary ==
    ASSUME Safe, Placed, Binary(spec), TileOut
    PROVE  Binary(spec')
<1>1. PICK a \in TileOutActions(spec) : /\ TileOutApplies(spec, a.shape, a.parallel)
                                        /\ EnterLoop(LoopOver(spec, TileOutTiles(spec, a.shape), a.parallel))
  BY DEF TileOut
<1>2. PICK c : c = BodyOfLoop(spec, TileOutTiles(spec, a.shape), a.parallel)
  OBVIOUS
<1>3. spec' = c
  BY <1>1, <1>2 DEF EnterLoop, BodyOfLoop, LoopOver, Impl
<1>4. SizedSpec(spec) /\ SizedSpec(c) /\ c.typ = spec.typ
  BY <1>1, <1>2, TileOutBody, LoopKeeps DEF Safe
<1>5. /\ a.shape \in Seq(Nat \ {0}) /\ PowersOnly(a.shape) /\ a.parallel \in BOOLEAN
      /\ spec.typ \in {"Zero", "Move"} \/ (spec.typ \in {"Matmul"} /\ Len(a.shape) = 2)
  BY <1>1, <1>4, OfferedTile
<1>6. CASE spec.typ \in {"Zero", "Move"}
  <2>1. c.ops[1].shape = a.shape
    BY <1>2, <1>4, <1>5, <1>6, TileOutElementwise
  <2>2. \A i \in DOMAIN c.ops : c.ops[i].shape = c.ops[1].shape
    BY <1>4, <1>6, AgreeElementwise DEF SizedSpec
  <2> QED
    BY <1>3, <1>5, <2>1, <2>2 DEF Binary
<1>7. CASE spec.typ \in {"Matmul"} /\ Len(a.shape) = 2
  <2>1. PICK m \in Nat \ {0}, k \in Nat \ {0}, n \in Nat \ {0} : MatmulShapes(spec.ops, m, k, n)
    BY <1>4, <1>7, AgreeMatmul DEF SizedSpec
  <2>2. PICK p \in Nat \ {0}, q \in Nat \ {0} : a.shape = <<p, q>>
    <3>1. PICK out \in Seq(Nat \ {0}) : out = a.shape /\ Len(out) = 2
      BY <1>5, <1>7
    <3>2. out[1] \in Nat \ {0} /\ out[2] \in Nat \ {0} /\ out = <<out[1], out[2]>>
      BY <3>1
    <3> QED
      BY <3>1, <3>2
  <2>3. MatmulShapes(c.ops, p, k, q)
    BY <1>2, <1>4, <1>5, <1>7, <2>1, <2>2, TileOutMatmul
  <2>4. IsPowerOfTwo(p) /\ IsPowerOfTwo(q)
    <3>1. 1 \in DOMAIN <<p, q>> /\ 2 \in DOMAIN <<p, q>> /\ <<p, q>>[1] = p /\ <<p, q>>[2] = q
      OBVIOUS
    <3> QED
      BY <1>5, <2>2, <3>1 DEF PowersOnly
  <2>5. DOMAIN spec.ops = 1..3 /\ DOMAIN c.ops = 1..3
    BY <1>4, <1>7, MatrixRanks
  <2>6. IsPowerOfTwo(k)
    BY <2>1, <2>5, ProductBinary
  <2> QED
    BY <1>3, <2>3, <2>4, <2>5, <2>6, ProductBinary
<1> QED
  BY <1>5, <1>6, <1>7

\* of a Split,
LEMMA SplitKeepsBinary ==
    ASSUME Safe, Binary(spec), Split
    PROVE  Binary(spec')
<1>1. PICK a \in SplitActions(spec) : EnterLoop(LoopOver(spec, SplitTiles(spec, a.k), FALSE))
  BY DEF Split
<1>2. PICK c : c = BodyOfLoop(spec, SplitTiles(spec, a.k), FALSE)
  OBVIOUS
<1>3. spec' = c
  BY <1>1, <1>2 DEF EnterLoop, BodyOfLoop, LoopOver, Impl
<1>4. spec.typ \in {"Matmul"} /\ SizedSpec(spec)
  BY DEF Split, Safe
<1>5. SizedSpec(c) /\ c.typ = spec.typ /\ IsPowerOfTwo(a.k)
  BY <1>2, <1>4, SplitBody, LoopKeeps, SplitEven
<1>6. PICK m \in Nat \ {0}, k \in Nat \ {0}, n \in Nat \ {0} : MatmulShapes(spec.ops, m, k, n)
  BY <1>4, AgreeMatmul DEF SizedSpec
<1>7. DOMAIN spec.ops = 1..3 /\ DOMAIN c.ops = 1..3
  BY <1>4, <1>5, MatrixRanks
<1>8. MatmulShapes(c.ops, m, a.k, n)
  <2>1. PICK tiles : tiles = SplitTiles(spec, a.k)
    OBVIOUS
  <2>2. \A i \in DOMAIN spec.ops : c.ops[i].shape = TiledShape(spec, tiles, i)
    BY <1>2, <1>4, <2>1, BodyShapes
  <2>3. /\ DOMAIN tiles = 1..2 /\ tiles[1].operand = 1 /\ tiles[2].operand = 2
        /\ tiles[1].tiling.shape = <<m, a.k>> /\ tiles[2].tiling.shape = <<a.k, n>>
    BY <1>6, <2>1 DEF SplitTiles, LoopTile, SimpleTiling, MatmulShapes
  <2>4. /\ TiledShape(spec, tiles, 1) = <<m, a.k>> /\ TiledShape(spec, tiles, 2) = <<a.k, n>>
        /\ TiledShape(spec, tiles, 3) = <<m, n>>
    BY <1>6, <2>3, TwoTiles DEF TiledShape, MatmulShapes
  <2> QED
    BY <1>7, <2>2, <2>4 DEF MatmulShapes
<1>9. IsPowerOfTwo(m) /\ IsPowerOfTwo(n)
  BY <1>6, <1>7, ProductBinary
<1> QED
  BY <1>3, <1>5, <1>7, <1>8, <1>9, ProductBinary

\* of a SpatialSplit,
LEMMA SpatialKeepsBinary ==
    ASSUME Safe, Binary(spec), EnterSpatialSplit
    PROVE  Binary(spec')
<1>1. spec' = SpatialSplit(spec).children[1].spec /\ spec.typ \in {"Conv"} /\ SizedSpec(spec)
  BY DEF EnterSpatialSplit, Safe
<1>2. PICK c : c = SpatialSplit(spec).children[1].spec
  OBVIOUS
<1>3. /\ SizedSpec(c) /\ c.typ \in {"Matmul"}
      /\ MatmulShapes(c.ops, spec.ops[1].shape[1], spec.ops[1].shape[2], spec.ops[2].shape[1])
  BY <1>1, <1>2, SpatialBodySized
<1>4. DOMAIN c.ops = 1..3 /\ DOMAIN spec.ops = 1..3
  BY <1>1, <1>3, MatrixRanks, AgreeMeans DEF SizedSpec
<1>5. DOMAIN spec.ops[1].shape = 1..4 /\ DOMAIN spec.ops[2].shape = 1..4
  <2>1. PICK b \in Nat \ {0}, f \in Nat \ {0}, ch \in Nat \ {0}, h \in Nat \ {0}, w \in Nat \ {0},
             y \in Nat \ {0}, x \in Nat \ {0} : ConvShapes(spec.ops, b, f, ch, h, w, y, x)
    BY <1>1, AgreeConv DEF SizedSpec
  <2> QED
    BY <2>1 DEF ConvShapes
<1>6. IsPowerOfTwo(spec.ops[1].shape[1]) /\ IsPowerOfTwo(spec.ops[1].shape[2]) /\ IsPowerOfTwo(spec.ops[2].shape[1])
  <2>1. PowersOnly(spec.ops[1].shape) /\ PowersOnly(spec.ops[2].shape)
    BY <1>4 DEF Binary
  <2> QED
    BY <1>5, <2>1 DEF PowersOnly
<1> QED
  BY <1>1, <1>2, <1>3, <1>4, <1>6, ProductBinary

\* The operands of a move's and a ToAccum's parts have shapes that were there.
LEMMA FromBinary ==
    ASSUME NEW s, Binary(s), NEW i \in DOMAIN s.ops, NEW c, ShapesFrom(s, i, c), DOMAIN c.from = DOMAIN c.spec.ops
    PROVE  Binary(c.spec)
BY DEF Binary, ShapesFrom

\* the parts of a move,
LEMMA MoveKeepsBinary ==
    ASSUME Safe, Binary(spec), Move
    PROVE  Binary(spec')
<1>1. PICK a \in MoveActions(spec) : MoveApplies(spec, a) /\ \E c \in Range(MoveLet(spec, a).children) : spec' = c.spec
  BY DEF Move
<1>2. PICK c \in Range(MoveLet(spec, a).children) : spec' = c.spec
  BY <1>1
<1>3. ShapesFrom(spec, a.source, c) /\ DOMAIN c.from = DOMAIN c.spec.ops
  <2>1. SizedSpec(spec)
    BY DEF Safe
  <2>2. ShapesFrom(spec, a.source, c)
    BY <1>2, <2>1, MoveShapes
  <2>3. FromPerOperand(c)
    BY <1>1, <1>2, <2>1, MoveParts
  <2> QED
    BY <2>2, <2>3 DEF FromPerOperand
<1>4. a.source \in DOMAIN spec.ops
  BY MoveActionsAre
<1> QED
  BY <1>2, <1>3, <1>4, FromBinary

\* of a ToAccum,
LEMMA AccumKeepsBinary ==
    ASSUME Safe, Binary(spec), ZeroThenAccum
    PROVE  Binary(spec')
<1>1. PICK c \in Range(ToAccum(spec).children) : spec' = c.spec
  BY DEF ZeroThenAccum
<1>2. SizedSpec(spec) /\ Accumulates(spec.typ)
  BY DEF ZeroThenAccum, Safe
<1>3. ShapesFrom(spec, 1, c) /\ DOMAIN c.from = DOMAIN c.spec.ops
  BY <1>1, <1>2, ToAccumShapes, ToAccumParts
<1>4. 1 \in DOMAIN spec.ops
  BY <1>2, OpsDomain DEF SizedSpec
<1> QED
  BY <1>1, <1>3, <1>4, FromBinary

\* and those of every other step are of powers of two.
LEMMA NextKeepsBinary ==
    ASSUME Safe, Placed, Binary(spec), [Next]_vars
    PROVE  Binary(spec')
<1>1. ASSUME Place
      PROVE  Binary(spec')
  BY <1>1 DEF Place
<1>2. ASSUME UNCHANGED vars
      PROVE  Binary(spec')
  BY <1>2 DEF vars
<1> QED
  BY <1>1, <1>2, TileOutKeepsBinary, SplitKeepsBinary, SpatialKeepsBinary, MoveKeepsBinary, AccumKeepsBinary DEF Next

\* Roots of powers of two, as the database has them.
BinaryRoots == \A r \in Roots : Binary(r)
OfPowers == Binary(spec)

\* LoopsAlwaysOnce: the loops that a Spec of powers of two may be split into run their body
\* once per tile: one for-loop is emitted per axis (axis_order_and_steps), those loops
\* together take as many iterations as the cost counts (LoopImpl's steps), and no tile hangs
\* over an edge (full_steps).
THEOREM LoopsAlwaysOnce ==
    ASSUME OneValueConvs, BinaryRoots
    PROVE  Spec => []LoopsOncePerTile
<1>1. Init => Placed
  BY InitPlaced
<1>2. Init => OfPowers
  BY DEF Init, BinaryRoots, OfPowers
<1>3. Safe /\ Placed /\ [Next]_vars => Placed'
  BY NextKeepsPlaced
<1>4. Safe /\ Placed /\ OfPowers /\ [Next]_vars => OfPowers'
  BY NextKeepsBinary DEF OfPowers
<1>5. Safe /\ Placed /\ OfPowers => LoopsOncePerTile
  BY EvenOnce DEF Safe, OfPowers
<1> QED
  BY SafeAlways, <1>1, <1>2, <1>3, <1>4, <1>5, PTL DEF Spec

-----------------------------------------------------------------------------
(* The database's numbers.                                                 *)

\* Between which powers of two a number is, in one way.
LEMMA OneBracket ==
    ASSUME NEW n \in Nat, NEW a \in 0..31, NEW b \in 0..31,
           a \in Exponents => n < PowerOfTwo[a], a > 0 => PowerOfTwo[a - 1] <= n,
           b \in Exponents => n < PowerOfTwo[b], b > 0 => PowerOfTwo[b - 1] <= n
    PROVE  a = b
<1>1. ASSUME NEW i \in 0..31, NEW j \in 0..31, i < j, i \in Exponents => n < PowerOfTwo[i],
             j > 0 => PowerOfTwo[j - 1] <= n
      PROVE  FALSE
  <2>1. i \in Nat /\ j \in Nat /\ j > 0 /\ i \in Exponents /\ j - 1 \in Exponents /\ i <= j - 1
    BY <1>1 DEF Exponents
  <2>2. PICK x \in Nat, y \in Nat : x = PowerOfTwo[i] /\ y = PowerOfTwo[j - 1] /\ x <= y
    <3>1. i < j - 1 => PowerOfTwo[i] < PowerOfTwo[j - 1]
      BY <2>1, PowersGrow
    <3>2. i = j - 1 \/ i < j - 1
      BY <2>1
    <3>3. PowerOfTwo[i] \in Nat /\ PowerOfTwo[j - 1] \in Nat
      BY <2>1, PowersGrow
    <3> QED
      BY <3>1, <3>2, <3>3
  <2> QED
    BY <1>1, <2>1, <2>2
<1>2. a \in Nat /\ b \in Nat
  OBVIOUS
<1>3. ~(a < b) /\ ~(b < a)
  BY <1>1
<1> QED
  BY <1>2, <1>3

\* So a number has one bit length.
LEMMA BitLengthIs ==
    ASSUME NEW n \in Nat, NEW b \in 0..31, b \in Exponents => n < PowerOfTwo[b], b > 0 => PowerOfTwo[b - 1] <= n
    PROVE  BitLength(n) = b
<1>1. PICK c : c = BitLength(n)
  OBVIOUS
<1>2. c \in 0..31 /\ (c \in Exponents => n < PowerOfTwo[c]) /\ (c > 0 => PowerOfTwo[c - 1] <= n)
  BY <1>1 DEF BitLength
<1> QED
  BY <1>1, <1>2, OneBracket

\* And one next power of two.
LEMMA NextPowerIs ==
    ASSUME NEW n \in Nat \ {0}, NEW b \in Exponents, n <= PowerOfTwo[b], b > 0 => PowerOfTwo[b - 1] < n
    PROVE  NextPowerOfTwo(n) = PowerOfTwo[b]
<1>1. PICK c : c = CHOOSE e \in Exponents : n <= PowerOfTwo[e] /\ (e > 0 => PowerOfTwo[e - 1] < n)
  OBVIOUS
<1>2. c \in Exponents /\ n <= PowerOfTwo[c] /\ (c > 0 => PowerOfTwo[c - 1] < n)
  BY <1>1
<1>3. \A e \in Exponents : PowerOfTwo[e] \in Nat /\ (e > 0 => PowerOfTwo[e - 1] \in Nat)
  BY PowersGrow DEF Exponents
<1>4. PICK m \in Nat : n = m + 1
  <2>1. n - 1 \in Nat /\ n = (n - 1) + 1
    OBVIOUS
  <2> QED
    BY <2>1
<1>5. m < PowerOfTwo[c] /\ (c > 0 => PowerOfTwo[c - 1] <= m)
  BY <1>2, <1>3, <1>4
<1>6. m < PowerOfTwo[b] /\ (b > 0 => PowerOfTwo[b - 1] <= m)
  BY <1>3, <1>4
<1>7. c = b
  <2>1. c \in 0..31 /\ b \in 0..31
    BY <1>2 DEF Exponents
  <2> QED
    BY <1>5, <1>6, <2>1, OneBracket
<1> QED
  BY <1>1, <1>7 DEF NextPowerOfTwo

\* A size that is a power of two is given back (binary_scale_shapes).
LEMMA SizeBack ==
    ASSUME NEW n, IsPowerOfTwo(n)
    PROVE  BitLength(n - 1) \in Nat /\ NextPowerOfTwo(BitLengthInverse(BitLength(n - 1)) + 1) = n
<1>1. PICK e \in Exponents : n = PowerOfTwo[e]
  BY DEF IsPowerOfTwo
<1>2. n \in Nat \ {0} /\ e \in Nat /\ n - 1 \in Nat
  <2>1. PowerOfTwo[e] \in Nat \ {0}
    BY PowersGrow
  <2>2. e \in Nat
    BY DEF Exponents
  <2> QED
    BY <1>1, <2>1, <2>2
<1>3. CASE e = 0
  <2>1. n = 1
    BY <1>1, <1>3, PowersGrow
  <2>2. BitLength(0) = 0
    <3>1. 0 \in 0..31 /\ 0 < PowerOfTwo[0]
      BY <1>1, <1>3, <2>1
    <3> QED
      BY <3>1, BitLengthIs
  <2>3. BitLengthInverse(0) + 1 = 1
    BY DEF BitLengthInverse
  <2>4. NextPowerOfTwo(1) = PowerOfTwo[0]
    <3>1. 0 \in Exponents /\ 1 <= PowerOfTwo[0]
      BY <1>1, <1>3, <2>1
    <3> QED
      BY <3>1, NextPowerIs
  <2>5. n - 1 = 0
    BY <2>1
  <2> QED
    BY <1>1, <1>3, <2>2, <2>3, <2>4, <2>5
<1>4. CASE e > 0
  <2>1. e \in Exponents \ {0} /\ e - 1 \in Exponents
    BY <1>4 DEF Exponents
  <2>2. PICK m \in Nat \ {0} : m = PowerOfTwo[e - 1] /\ n = 2 * m
    BY <1>1, <2>1, PowersGrow
  <2>3. BitLength(n - 1) = e
    <3>1. n - 1 < PowerOfTwo[e] /\ PowerOfTwo[e - 1] <= n - 1 /\ e \in 0..31
      BY <1>1, <2>2 DEF Exponents
    <3> QED
      BY <1>2, <3>1, BitLengthIs
  <2>4. BitLengthInverse(e) = m
    BY <1>4, <2>2 DEF BitLengthInverse
  <2>5. NextPowerOfTwo(m + 1) = n
    <3>1. m + 1 \in Nat \ {0} /\ m + 1 <= PowerOfTwo[e] /\ PowerOfTwo[e - 1] < m + 1
      BY <1>1, <2>2
    <3> QED
      BY <1>1, <3>1, NextPowerIs
  <2> QED
    BY <1>2, <2>3, <2>4, <2>5
<1> QED
  BY <1>2, <1>3, <1>4

\* A limit that is zero or a power of two is given back.
IsLimit(n) == n = 0 \/ IsPowerOfTwo(n)
LEMMA LimitBack ==
    ASSUME NEW n, IsLimit(n)
    PROVE  n \in Nat /\ BitLength(n) \in Nat /\ BitLengthInverse(BitLength(n)) = n
<1>1. CASE n = 0
  <2>1. 0 \in 0..31 /\ 0 < PowerOfTwo[0]
    BY PowersGrow DEF Exponents
  <2>2. BitLength(0) = 0
    BY <2>1, BitLengthIs
  <2> QED
    BY <1>1, <2>2 DEF BitLengthInverse
<1>2. CASE IsPowerOfTwo(n)
  <2>1. PICK e \in Exponents : n = PowerOfTwo[e]
    BY <1>2 DEF IsPowerOfTwo
  <2>2. n \in Nat \ {0} /\ e \in Nat /\ e <= 30
    <3>1. PowerOfTwo[e] \in Nat \ {0}
      BY PowersGrow
    <3>2. e \in Nat /\ e <= 30
      BY DEF Exponents
    <3> QED
      BY <2>1, <3>1, <3>2
  <2>4. e + 1 \in 0..31 /\ e < e + 1 /\ (e + 1) - 1 = e
    BY <2>2
  <2>5. (e + 1 \in Exponents => n < PowerOfTwo[e + 1]) /\ PowerOfTwo[(e + 1) - 1] <= n
    BY <2>1, <2>2, <2>4, PowersGrow
  <2>6. BitLength(n) = e + 1
    BY <2>2, <2>4, <2>5, BitLengthIs
  <2>7. e + 1 # 0
    BY <2>2
  <2> QED
    BY <2>1, <2>2, <2>4, <2>6, <2>7 DEF BitLengthInverse
<1> QED
  BY <1>1, <1>2 DEF IsLimit

\* One to three pairs, one after the other.
IsPairs(seqs, n, S) ==
    /\ seqs = [i \in 1..n |-> seqs[i]]
    /\ \A i \in 1..n : \E x, y \in S : seqs[i] = <<x, y>>
PairsInOrder(f, seqs, n, S) ==
    /\ f \in Seq(S) /\ Len(f) = 2 * n
    /\ \A i \in 1..n : f[2 * i - 1] = seqs[i][1] /\ f[2 * i] = seqs[i][2]
LEMMA FlattenPairs ==
    ASSUME NEW n \in 1..3, NEW S, NEW seqs, IsPairs(seqs, n, S)
    PROVE  PairsInOrder(FlattenSeq(seqs), seqs, n, S)
<1> DEFINE G(g) == g = [i \in 1..Len(seqs) |-> IF i = 1 THEN seqs[i] ELSE g[i - 1] \o seqs[i]]
<1>1. Len(seqs) = n /\ n \in Nat /\ n # 0
  BY DEF IsPairs
<1>2. FlattenSeq(seqs) = (CHOOSE g : G(g))[Len(seqs)]
  BY <1>1 DEF FlattenSeq
<1>3. \E g : G(g)
  <2> DEFINE w == [i \in 1..Len(seqs) |-> IF i = 1 THEN seqs[1] ELSE IF i = 2 THEN seqs[1] \o seqs[2]
                                        ELSE (seqs[1] \o seqs[2]) \o seqs[3]]
  <2>1. \A i \in 1..Len(seqs) : i = 1 \/ i = 2 \/ i = 3
    BY <1>1
  <2>2. \A i \in 1..Len(seqs) : w[i] = IF i = 1 THEN seqs[i] ELSE w[i - 1] \o seqs[i]
    <3>1. SUFFICES ASSUME NEW i \in 1..Len(seqs)
                   PROVE  w[i] = IF i = 1 THEN seqs[i] ELSE w[i - 1] \o seqs[i]
      OBVIOUS
    <3>2. CASE i = 1
      BY <3>2
    <3>3. CASE i = 2
      <4>1. 1 \in 1..Len(seqs) /\ i - 1 = 1 /\ i # 1
        BY <1>1, <3>3
      <4>2. w[i - 1] = seqs[1] /\ w[i] = seqs[1] \o seqs[2]
        BY <3>3, <4>1
      <4> HIDE DEF w
      <4> QED
        BY <3>3, <4>1, <4>2
    <3>4. CASE i = 3
      <4>1. 2 \in 1..Len(seqs) /\ i - 1 = 2 /\ i # 1 /\ i # 2
        BY <1>1, <3>4
      <4>2. w[i - 1] = seqs[1] \o seqs[2] /\ w[i] = (seqs[1] \o seqs[2]) \o seqs[3]
        BY <3>4, <4>1
      <4> HIDE DEF w
      <4> QED
        BY <3>4, <4>1, <4>2
    <3> QED
      BY <2>1, <3>2, <3>3, <3>4
  <2>3. w = [i \in 1..Len(seqs) |-> w[i]]
    OBVIOUS
  <2> HIDE DEF w
  <2>4. G(w)
    BY <2>2, <2>3
  <2> QED
    BY <2>4
<1>4. PICK g : G(g) /\ g[n] = FlattenSeq(seqs)
  <2>1. G(CHOOSE g : G(g))
    BY <1>3
  <2> HIDE DEF G
  <2> QED
    BY <1>1, <1>2, <2>1
<1>5. \A i \in 1..n : g[i] = IF i = 1 THEN seqs[i] ELSE g[i - 1] \o seqs[i]
  BY <1>1, <1>4
<1> HIDE DEF G
<1>6. \A i \in 1..n : seqs[i] \in Seq(S) /\ Len(seqs[i]) = 2
  <2>1. SUFFICES ASSUME NEW i \in 1..n
                 PROVE  seqs[i] \in Seq(S) /\ Len(seqs[i]) = 2
    OBVIOUS
  <2>2. PICK x \in S, y \in S : seqs[i] = <<x, y>>
    BY DEF IsPairs
  <2>3. <<x, y>> \in Seq(S) /\ Len(<<x, y>>) = 2
    OBVIOUS
  <2> QED
    BY <2>2, <2>3
<1>7. g[1] = seqs[1]
  BY <1>1, <1>5
<1>8. n >= 2 => g[2] = seqs[1] \o seqs[2]
  <2>1. HAVE n >= 2
  <2>2. 2 \in 1..n /\ 2 # 1 /\ 2 - 1 = 1
    BY <2>1
  <2>3. g[2] = g[2 - 1] \o seqs[2]
    BY <1>5, <2>2
  <2> QED
    BY <1>7, <2>2, <2>3
<1>9. n = 3 => g[3] = (seqs[1] \o seqs[2]) \o seqs[3]
  <2>1. HAVE n = 3
  <2>2. 3 \in 1..n /\ 3 # 1 /\ 3 - 1 = 2 /\ n >= 2
    BY <2>1
  <2>3. g[3] = g[3 - 1] \o seqs[3]
    BY <1>5, <2>2
  <2> QED
    BY <1>8, <2>2, <2>3
<1>10. PICK f : f = FlattenSeq(seqs)
  OBVIOUS
<1>11. \A a, b \in Seq(S) : Len(a) = 2 /\ Len(b) = 2 =>
          /\ a \o b \in Seq(S) /\ Len(a \o b) = 4
          /\ (a \o b)[1] = a[1] /\ (a \o b)[2] = a[2] /\ (a \o b)[3] = b[1] /\ (a \o b)[4] = b[2]
  <2>1. SUFFICES ASSUME NEW a \in Seq(S), NEW b \in Seq(S), Len(a) = 2, Len(b) = 2
                 PROVE  /\ a \o b \in Seq(S) /\ Len(a \o b) = 4
                        /\ (a \o b)[1] = a[1] /\ (a \o b)[2] = a[2] /\ (a \o b)[3] = b[1] /\ (a \o b)[4] = b[2]
    OBVIOUS
  <2>2. /\ a \o b \in Seq(S) /\ Len(a \o b) = 4
        /\ \A i \in 1..4 : (a \o b)[i] = IF i <= 2 THEN a[i] ELSE b[i - 2]
    <3>1. /\ a \o b \in Seq(S) /\ Len(a \o b) = Len(a) + Len(b)
          /\ \A i \in 1..Len(a) + Len(b) : (a \o b)[i] = IF i <= Len(a) THEN a[i] ELSE b[i - Len(a)]
      BY ConcatProperties
    <3>2. Len(a) = 2 /\ Len(b) = 2 /\ 2 + 2 = 4
      BY <2>1
    <3> QED
      BY <3>1, <3>2
  <2>3. 1 \in 1..4 /\ 2 \in 1..4 /\ 3 \in 1..4 /\ 4 \in 1..4 /\ ~(3 <= 2) /\ ~(4 <= 2) /\ 3 - 2 = 1 /\ 4 - 2 = 2
    OBVIOUS
  <2> QED
    BY <2>2, <2>3
<1>12. \A a, b \in Seq(S) : Len(a) = 4 /\ Len(b) = 2 =>
          /\ a \o b \in Seq(S) /\ Len(a \o b) = 6
          /\ (a \o b)[1] = a[1] /\ (a \o b)[2] = a[2] /\ (a \o b)[3] = a[3] /\ (a \o b)[4] = a[4]
          /\ (a \o b)[5] = b[1] /\ (a \o b)[6] = b[2]
  <2>1. SUFFICES ASSUME NEW a \in Seq(S), NEW b \in Seq(S), Len(a) = 4, Len(b) = 2
                 PROVE  /\ a \o b \in Seq(S) /\ Len(a \o b) = 6
                        /\ (a \o b)[1] = a[1] /\ (a \o b)[2] = a[2] /\ (a \o b)[3] = a[3] /\ (a \o b)[4] = a[4]
                        /\ (a \o b)[5] = b[1] /\ (a \o b)[6] = b[2]
    OBVIOUS
  <2>2. /\ a \o b \in Seq(S) /\ Len(a \o b) = 6
        /\ \A i \in 1..6 : (a \o b)[i] = IF i <= 4 THEN a[i] ELSE b[i - 4]
    <3>1. /\ a \o b \in Seq(S) /\ Len(a \o b) = Len(a) + Len(b)
          /\ \A i \in 1..Len(a) + Len(b) : (a \o b)[i] = IF i <= Len(a) THEN a[i] ELSE b[i - Len(a)]
      BY ConcatProperties
    <3>2. Len(a) = 4 /\ Len(b) = 2 /\ 4 + 2 = 6
      BY <2>1
    <3> QED
      BY <3>1, <3>2
  <2>3. /\ 1 \in 1..6 /\ 2 \in 1..6 /\ 3 \in 1..6 /\ 4 \in 1..6 /\ 5 \in 1..6 /\ 6 \in 1..6
        /\ ~(5 <= 4) /\ ~(6 <= 4) /\ 5 - 4 = 1 /\ 6 - 4 = 2
    OBVIOUS
  <2> QED
    BY <2>2, <2>3
<1>13. /\ f \in Seq(S) /\ Len(f) = 2 * n
       /\ \A i \in 1..n : f[2 * i - 1] = seqs[i][1] /\ f[2 * i] = seqs[i][2]
  <2>1. CASE n = 1
    <3>1. f = seqs[1] /\ 1 \in 1..n
      BY <1>4, <1>7, <1>10, <2>1
    <3> QED
      BY <1>6, <2>1, <3>1
  <2>2. CASE n = 2
    <3>1. f = seqs[1] \o seqs[2] /\ 1 \in 1..n /\ 2 \in 1..n
      <4>1. f = g[2] /\ n >= 2 /\ 1 \in 1..n /\ 2 \in 1..n
        BY <1>4, <1>10, <2>2
      <4> QED
        BY <1>8, <4>1
    <3>2. /\ f \in Seq(S) /\ Len(f) = 4
          /\ f[1] = seqs[1][1] /\ f[2] = seqs[1][2] /\ f[3] = seqs[2][1] /\ f[4] = seqs[2][2]
      BY <1>6, <1>11, <3>1
    <3>3. \A i \in 1..n : i = 1 \/ i = 2
      BY <2>2
    <3>4. 2 * 1 - 1 = 1 /\ 2 * 1 = 2 /\ 2 * 2 - 1 = 3 /\ 2 * 2 = 4
      OBVIOUS
    <3> QED
      BY <2>2, <3>2, <3>3, <3>4
  <2>3. CASE n = 3
    <3>1. f = (seqs[1] \o seqs[2]) \o seqs[3] /\ 1 \in 1..n /\ 2 \in 1..n /\ 3 \in 1..n
      <4>1. f = g[3] /\ n = 3 /\ 1 \in 1..n /\ 2 \in 1..n /\ 3 \in 1..n
        BY <1>4, <1>10, <2>3
      <4> QED
        BY <1>9, <4>1
    <3>2. PICK e : e = seqs[1] \o seqs[2]
      OBVIOUS
    <3>3. /\ e \in Seq(S) /\ Len(e) = 4
          /\ e[1] = seqs[1][1] /\ e[2] = seqs[1][2] /\ e[3] = seqs[2][1] /\ e[4] = seqs[2][2]
      BY <1>6, <1>11, <3>1, <3>2
    <3>4. /\ f \in Seq(S) /\ Len(f) = 6
          /\ f[1] = e[1] /\ f[2] = e[2] /\ f[3] = e[3] /\ f[4] = e[4] /\ f[5] = seqs[3][1] /\ f[6] = seqs[3][2]
      BY <1>6, <1>12, <3>1, <3>2, <3>3
    <3>5. \A i \in 1..n : i = 1 \/ i = 2 \/ i = 3
      BY <2>3
    <3>6. 2 * 1 - 1 = 1 /\ 2 * 1 = 2 /\ 2 * 2 - 1 = 3 /\ 2 * 2 = 4 /\ 2 * 3 - 1 = 5 /\ 2 * 3 = 6
      OBVIOUS
    <3> QED
      BY <2>3, <3>3, <3>4, <3>5, <3>6
  <2> QED
    BY <2>1, <2>2, <2>3
<1> QED
  BY <1>10, <1>13 DEF PairsInOrder

\* A number put in front of others, and taken away.
LEMMA TailBack ==
    ASSUME NEW x \in Int, NEW s \in Seq(Int)
    PROVE  /\ <<x>> \o s \in Seq(Int) /\ (<<x>> \o s)[1] = x
           /\ Tail(<<x>> \o s) = s
<1> DEFINE r == <<x>> \o s
<1>1. <<x>> \in Seq(Int) /\ Len(<<x>>) = 1 /\ <<x>>[1] = x
  OBVIOUS
<1>2. Len(s) \in Nat
  BY LenProperties
<1>3. /\ r \in Seq(Int) /\ Len(r) = Len(<<x>>) + Len(s)
      /\ \A i \in 1..Len(<<x>>) + Len(s) : r[i] = IF i <= Len(<<x>>) THEN <<x>>[i] ELSE s[i - Len(<<x>>)]
  BY <1>1, ConcatProperties
<1> HIDE DEF r
<1>4. Len(r) = 1 + Len(s) /\ r[1] = x /\ \A i \in 1..Len(s) : r[i + 1] = s[i]
  <2>1. \A i \in 1..Len(s) : i + 1 \in 1..1 + Len(s) /\ ~(i + 1 <= 1) /\ (i + 1) - 1 = i
    BY <1>2
  <2>2. 1 \in 1..1 + Len(s)
    BY <1>2
  <2> QED
    BY <1>1, <1>3, <2>1, <2>2
<1>5. r # <<>>
  BY <1>2, <1>4
<1>6. /\ Tail(r) \in Seq(Int) /\ Len(Tail(r)) = Len(r) - 1
      /\ \A i \in 1..Len(Tail(r)) : Tail(r)[i] = r[i + 1]
  BY <1>3, <1>5, HeadTailProperties
<1>7. Len(Tail(r)) = Len(s) /\ \A i \in 1..Len(Tail(r)) : Tail(r)[i] = s[i]
  BY <1>2, <1>4, <1>6
<1>8. Tail(r) = s
  BY <1>6, <1>7, SeqEqual
<1> QED
  BY <1>3, <1>4, <1>8 DEF r

\* Two sequences put together, and taken apart.
LEMMA ApartAgain ==
    ASSUME NEW a \in Seq(Int), NEW b \in Seq(Int)
    PROVE  /\ a \o b \in Seq(Int) /\ Len(a \o b) = Len(a) + Len(b)
           /\ SubSeq(a \o b, 1, Len(a)) = a
           /\ SubSeq(a \o b, Len(a) + 1, Len(a \o b)) = b
<1> DEFINE r == a \o b
<1>1. /\ r \in Seq(Int) /\ Len(r) = Len(a) + Len(b)
      /\ \A i \in 1..Len(a) + Len(b) : r[i] = IF i <= Len(a) THEN a[i] ELSE b[i - Len(a)]
  BY ConcatProperties
<1> HIDE DEF r
<1>2. PICK n \in Nat, m \in Nat : n = Len(a) /\ m = Len(b)
  BY LenProperties
<1>3. \A i \in 1..n + m : r[i] \in Int
  BY <1>1, <1>2, ElementOfSeq
<1>4. SubSeq(r, 1, n) = a
  <2>1. \A i \in 1..n : r[i] \in Int /\ r[i] = a[i]
    <3>1. \A i \in 1..n : i \in 1..n + m /\ i <= n
      BY <1>2
    <3> QED
      BY <1>1, <1>2, <1>3, <3>1
  <2>2. /\ SubSeq(r, 1, n) \in Seq(Int) /\ Len(SubSeq(r, 1, n)) = IF 1 <= n THEN n - 1 + 1 ELSE 0
        /\ \A i \in 1..n - 1 + 1 : SubSeq(r, 1, n)[i] = r[1 + i - 1]
    <3>1. 1 \in Int /\ n \in Int
      BY <1>2
    <3> QED
      BY <2>1, <3>1, SubSeqProperties
  <2>3. Len(SubSeq(r, 1, n)) = n
    BY <1>2, <2>2
  <2>4. \A i \in 1..n : SubSeq(r, 1, n)[i] = a[i]
    <3>1. \A i \in 1..n : i \in 1..n - 1 + 1 /\ 1 + i - 1 = i
      BY <1>2
    <3> QED
      BY <2>1, <2>2, <3>1
  <2> QED
    BY <1>2, <2>2, <2>3, <2>4, SeqEqual
<1>5. SubSeq(r, n + 1, n + m) = b
  <2>1. \A i \in n + 1..n + m : r[i] \in Int
    <3>1. \A i \in n + 1..n + m : i \in 1..n + m
      BY <1>2
    <3> QED
      BY <1>3, <3>1
  <2>2. /\ SubSeq(r, n + 1, n + m) \in Seq(Int)
        /\ Len(SubSeq(r, n + 1, n + m)) = IF n + 1 <= n + m THEN n + m - (n + 1) + 1 ELSE 0
        /\ \A i \in 1..n + m - (n + 1) + 1 : SubSeq(r, n + 1, n + m)[i] = r[n + 1 + i - 1]
    <3>1. n + 1 \in Int /\ n + m \in Int
      BY <1>2
    <3> QED
      BY <2>1, <3>1, SubSeqProperties
  <2>3. Len(SubSeq(r, n + 1, n + m)) = m
    BY <1>2, <2>2
  <2>4. \A i \in 1..m : SubSeq(r, n + 1, n + m)[i] = b[i]
    <3>1. \A i \in 1..m : i \in 1..n + m - (n + 1) + 1 /\ n + 1 + i - 1 \in 1..n + m /\ ~(n + 1 + i - 1 <= n) /\ (n + 1 + i - 1) - n = i
      BY <1>2
    <3> QED
      BY <1>1, <1>2, <2>2, <3>1
  <2> QED
    BY <1>2, <2>2, <2>3, <2>4, SeqEqual
<1> QED
  BY <1>1, <1>2, <1>4, <1>5 DEF r

\* A shape of powers of two, and whether the Spec accumulates, are given back.
LEMMA BasicsBack ==
    ASSUME NEW typ, NEW accum \in BOOLEAN, NEW shape, shape \in Seq(Nat \ {0}), PowersOnly(shape),
           typ = "Conv" => Len(shape) = 7
    PROVE  /\ BasicsPoint(typ, accum, shape) \in Seq(Int)
           /\ ShapeOfBasics(typ, BasicsPoint(typ, accum, shape)) = shape
           /\ Accumulates(typ) => (BasicsPoint(typ, accum, shape)[1] = 0 <=> accum)
<1> DEFINE pt == ShapePoint(shape)
           own == [d \in DOMAIN pt |-> IF typ = "Conv" /\ d \in {4, 5} THEN pt[d] - pt[d + 2] ELSE pt[d]]
           back(q) == [d \in DOMAIN q |-> IF typ = "Conv" /\ d \in {4, 5} THEN q[d] + q[d + 2] ELSE q[d]]
           x == IF accum THEN 0 ELSE 1
           B == BasicsPoint(typ, accum, shape)
<1>1. PICK n \in Nat : n = Len(shape) /\ DOMAIN shape = 1..n /\ shape = [d \in 1..n |-> shape[d]]
  <2>1. Len(shape) \in Nat /\ DOMAIN shape = 1..Len(shape) /\ shape \in [1..Len(shape) -> Nat \ {0}]
    BY LenProperties
  <2> QED
    BY <2>1
<1>2. DOMAIN pt = 1..n /\ \A d \in 1..n : pt[d] \in Nat /\ NextPowerOfTwo(BitLengthInverse(pt[d]) + 1) = shape[d]
  <2>1. \A d \in 1..n : IsPowerOfTwo(shape[d])
    BY <1>1 DEF PowersOnly
  <2>2. \A d \in 1..n : BitLength(shape[d] - 1) \in Nat /\ NextPowerOfTwo(BitLengthInverse(BitLength(shape[d] - 1)) + 1) = shape[d]
    BY <2>1, SizeBack
  <2>3. DOMAIN pt = 1..n /\ \A d \in 1..n : pt[d] = BitLength(shape[d] - 1)
    BY <1>1 DEF ShapePoint
  <2> HIDE DEF pt
  <2> QED
    BY <2>2, <2>3
<1>3. \A d \in 1..n : typ = "Conv" /\ d \in {4, 5} => d + 2 \in 1..n /\ d + 2 \notin {4, 5}
  <2>1. typ = "Conv" => n = 7
    BY <1>1
  <2> QED
    BY <2>1
<1>4. pt = [d \in 1..n |-> pt[d]]
  BY <1>1 DEF ShapePoint
<1> HIDE DEF pt
<1>5. DOMAIN own = 1..n /\ \A d \in 1..n : own[d] \in Int
  <2>1. DOMAIN own = 1..n
    BY <1>2
  <2>2. ASSUME NEW d \in 1..n
        PROVE  own[d] \in Int
    <3>1. CASE typ = "Conv" /\ d \in {4, 5}
      <4>1. own[d] = pt[d] - pt[d + 2]
        BY <1>2, <3>1
      <4>2. pt[d] \in Nat /\ pt[d + 2] \in Nat
        BY <1>2, <1>3, <3>1
      <4> QED
        BY <4>1, <4>2
    <3>2. CASE ~(typ = "Conv" /\ d \in {4, 5})
      <4>1. own[d] = pt[d]
        BY <1>2, <3>2
      <4> QED
        BY <1>2, <4>1
    <3> QED
      BY <3>1, <3>2
  <2> QED
    BY <2>1, <2>2
<1>6. own \in Seq(Int)
  <2>1. own \in [1..n -> Int]
    BY <1>5
  <2> QED
    BY <2>1, SeqDef
<1>7. back(own) = pt
  <2>1. \A d \in 1..n : back(own)[d] = pt[d]
    <3> SUFFICES ASSUME NEW d \in 1..n
                 PROVE  back(own)[d] = pt[d]
      OBVIOUS
    <3>1. CASE typ = "Conv" /\ d \in {4, 5}
      <4>1. own[d] = pt[d] - pt[d + 2] /\ own[d + 2] = pt[d + 2]
        BY <1>2, <1>3, <3>1
      <4>2. back(own)[d] = own[d] + own[d + 2]
        BY <1>5, <3>1
      <4>3. pt[d] \in Nat /\ pt[d + 2] \in Nat
        BY <1>2, <1>3, <3>1
      <4> HIDE DEF own, back
      <4> QED
        BY <4>1, <4>2, <4>3
    <3>2. CASE ~(typ = "Conv" /\ d \in {4, 5})
      BY <1>2, <1>5, <3>2
    <3> QED
      BY <3>1, <3>2
  <2>2. back(own) = [d \in 1..n |-> back(own)[d]]
    <3> HIDE DEF own
    <3>1. DOMAIN own = 1..n
      BY <1>5
    <3> QED
      BY <3>1
  <2> HIDE DEF back, own
  <2> QED
    BY <1>4, <2>1, <2>2
<1>8. ShapeOfPoint(pt) = shape
  <2>1. ShapeOfPoint(pt) = [d \in 1..n |-> NextPowerOfTwo(BitLengthInverse(pt[d]) + 1)]
    BY <1>2 DEF ShapeOfPoint
  <2>2. ShapeOfPoint(pt) = [d \in 1..n |-> shape[d]]
    BY <1>2, <2>1
  <2> QED
    BY <1>1, <2>2
<1>9. B = (IF Accumulates(typ) THEN <<x>> ELSE <<>>) \o own
  BY DEF BasicsPoint, pt
<1>10. ShapeOfBasics(typ, B) = ShapeOfPoint(back(IF Accumulates(typ) THEN Tail(B) ELSE B))
  BY DEF ShapeOfBasics
<1>11. x \in Int /\ (x = 0 <=> accum)
  OBVIOUS
<1> HIDE DEF B, x, own, back
<1>12. CASE Accumulates(typ)
  <2>1. B = <<x>> \o own
    BY <1>9, <1>12
  <2>2. <<x>> \o own \in Seq(Int) /\ (<<x>> \o own)[1] = x /\ Tail(<<x>> \o own) = own
    BY <1>6, <1>11, TailBack
  <2>3. ShapeOfBasics(typ, B) = shape
    BY <1>7, <1>8, <1>10, <1>12, <2>1, <2>2
  <2> QED
    BY <1>11, <2>1, <2>2, <2>3 DEF B
<1>13. CASE ~Accumulates(typ)
  <2>1. B = own
    BY <1>6, <1>9, <1>13, ConcatEmptySeq
  <2>2. ShapeOfBasics(typ, B) = shape
    BY <1>7, <1>8, <1>10, <1>13, <2>1
  <2> QED
    BY <1>6, <1>13, <2>1, <2>2 DEF B
<1> QED
  BY <1>12, <1>13

\* What of a Spec the database's numbers tell, beyond its operands' shapes and layouts:
\* an operand is aligned or not, and has a vector size of the target.
Described(t) == t.aligned \in BOOLEAN /\ t.vector \in VectorSizes(t.dtype, t.level) \cup {16, 32}
Keyable(s) ==
    /\ s.serial \in BOOLEAN /\ (s.accum => Accumulates(s.typ))
    /\ \A i \in DOMAIN s.ops : Described(s.ops[i])
    /\ \A l \in 1..4 : IsLimit(s.limits[l])

\* The problem's sizes are those of its operands.
LEMMA ShapeBinary ==
    ASSUME NEW s, SizedSpec(s), Binary(s)
    PROVE  /\ SpecShape(s) \in Seq(Nat \ {0}) /\ PowersOnly(SpecShape(s))
           /\ s.typ = "Conv" => Len(SpecShape(s)) = 7
<1>0. SizedOps(s.typ, s.ops) /\ ShapesAgree(s) /\ s.typ \in DOMAIN InputCount
  BY DEF SizedSpec, SizedOps
<1>1. PICK n \in 1..3 : DOMAIN s.ops = 1..n /\ n = InputCount[s.typ] + 1
  BY <1>0, OpsDomain
<1>2. \A i \in 1..n : s.ops[i].shape \in Seq(Nat \ {0}) /\ \A d \in DOMAIN s.ops[i].shape : IsPowerOfTwo(s.ops[i].shape[d])
  BY <1>0, <1>1 DEF SizedOps, Sized, Binary, PowersOnly
<1>3. CASE s.typ = "Matmul"
  <2>1. PICK m \in Nat \ {0}, k \in Nat \ {0}, p \in Nat \ {0} : MatmulShapes(s.ops, m, k, p)
    BY <1>0, <1>3, AgreeMatmul
  <2>2. s.ops[1].shape = <<m, k>> /\ s.ops[2].shape = <<k, p>> /\ n = 3
    BY <1>0, <1>1, <1>3, <2>1, OpsCount DEF MatmulShapes
  <2>3. IsPowerOfTwo(m) /\ IsPowerOfTwo(k) /\ IsPowerOfTwo(p)
    <3>1. PowersOnly(<<m, k>>) /\ PowersOnly(<<k, p>>)
      BY <1>1, <2>2 DEF Binary
    <3>2. DOMAIN <<m, k>> = 1..2 /\ DOMAIN <<k, p>> = 1..2
      OBVIOUS
    <3>3. (\A d \in 1..2 : IsPowerOfTwo(<<m, k>>[d])) /\ \A d \in 1..2 : IsPowerOfTwo(<<k, p>>[d])
      BY <3>1, <3>2 DEF PowersOnly
    <3>4. IsPowerOfTwo(<<m, k>>[1]) /\ IsPowerOfTwo(<<m, k>>[2]) /\ IsPowerOfTwo(<<k, p>>[2])
      BY <3>3
    <3> QED
      BY <3>4
  <2>4. SpecShape(s) = <<m, k, p>>
    BY <1>3, <2>2 DEF SpecShape
  <2>5. <<m, k, p>> \in Seq(Nat \ {0}) /\ DOMAIN <<m, k, p>> = 1..3
    OBVIOUS
  <2>6. PowersOnly(<<m, k, p>>)
    BY <2>3, <2>5 DEF PowersOnly
  <2> QED
    BY <1>3, <2>4, <2>5, <2>6
<1>4. CASE s.typ = "Conv"
  <2>1. PICK b \in Nat \ {0}, f \in Nat \ {0}, c \in Nat \ {0}, h \in Nat \ {0}, w \in Nat \ {0}, y \in Nat \ {0}, x \in Nat \ {0} :
            ConvShapes(s.ops, b, f, c, h, w, y, x)
    BY <1>0, <1>4, AgreeConv
  <2>2. s.ops[1].shape = <<b, c, h, w>> /\ s.ops[2].shape = <<f, c, y, x>> /\ n = 3
    BY <1>0, <1>1, <1>4, <2>1, OpsCount DEF ConvShapes
  <2>3. /\ IsPowerOfTwo(b) /\ IsPowerOfTwo(c) /\ IsPowerOfTwo(h) /\ IsPowerOfTwo(w)
        /\ IsPowerOfTwo(f) /\ IsPowerOfTwo(y) /\ IsPowerOfTwo(x)
    <3>1. PowersOnly(<<b, c, h, w>>) /\ PowersOnly(<<f, c, y, x>>)
      BY <1>1, <2>2 DEF Binary
    <3>2. DOMAIN <<b, c, h, w>> = 1..4 /\ DOMAIN <<f, c, y, x>> = 1..4
      OBVIOUS
    <3>3. /\ \A d \in 1..4 : IsPowerOfTwo(<<b, c, h, w>>[d])
          /\ \A d \in 1..4 : IsPowerOfTwo(<<f, c, y, x>>[d])
      BY <3>1, <3>2 DEF PowersOnly
    <3>4. /\ IsPowerOfTwo(<<b, c, h, w>>[1]) /\ IsPowerOfTwo(<<b, c, h, w>>[2])
          /\ IsPowerOfTwo(<<b, c, h, w>>[3]) /\ IsPowerOfTwo(<<b, c, h, w>>[4])
          /\ IsPowerOfTwo(<<f, c, y, x>>[1]) /\ IsPowerOfTwo(<<f, c, y, x>>[3])
          /\ IsPowerOfTwo(<<f, c, y, x>>[4])
      BY <3>3
    <3> QED
      BY <3>4
  <2>4. SpecShape(s) = <<b, f, c, h, w, y, x>>
    BY <1>4, <2>2 DEF SpecShape
  <2>5. <<b, f, c, h, w, y, x>> \in Seq(Nat \ {0}) /\ DOMAIN <<b, f, c, h, w, y, x>> = 1..7 /\ Len(<<b, f, c, h, w, y, x>>) = 7
    OBVIOUS
  <2>6. PowersOnly(<<b, f, c, h, w, y, x>>)
    BY <2>3, <2>5 DEF PowersOnly
  <2> QED
    BY <2>4, <2>5, <2>6
<1>5. CASE s.typ \in {"Move", "Zero"}
  <2>1. SpecShape(s) = s.ops[1].shape /\ 1 \in 1..n
    BY <1>5 DEF SpecShape
  <2> QED
    BY <1>2, <1>5, <2>1 DEF PowersOnly
<1> QED
  BY <1>0, <1>3, <1>4, <1>5 DEF InputCount

\* The numbers of the operands, two of each.
AuxPoints(s) == [i \in DOMAIN s.ops |-> AuxPoint(s.ops[i])]
LEMMA AuxPointsBack ==
    ASSUME NEW s, SizedSpec(s), LaidSpec(s), Keyable(s), NEW n \in 1..3, DOMAIN s.ops = 1..n
    PROVE  LET f == FlattenSeq(AuxPoints(s))
           IN  /\ f \in Seq(Nat) /\ Len(f) = 2 * n
               /\ \A i \in 1..n : f[2 * i - 1] = s.ops[i].contig /\ (f[2 * i] # 0) = s.ops[i].aligned
<1>0. PICK p : p = AuxPoints(s)
  OBVIOUS
<1>1. ASSUME NEW i \in 1..n
      PROVE  /\ p[i] = <<s.ops[i].contig, IF s.ops[i].aligned THEN 1 ELSE 0>>
             /\ s.ops[i].contig \in Nat /\ s.ops[i].aligned \in BOOLEAN
  <2>1. Sized(s.ops[i]) /\ LaidOut(s.ops[i])
    BY DEF SizedSpec, SizedOps, LaidSpec
  <2>2. PICK rank \in Nat : rank = Len(s.ops[i].shape)
    BY <2>1, ShapeOf DEF Sized
  <2>3. IsLayout(s.ops[i].layout, rank) /\ s.ops[i].contig \in 0..Len(s.ops[i].layout)
    BY <2>1, <2>2 DEF LaidOut, CanonicalLayout
  <2>4. Len(s.ops[i].layout) \in Nat
    BY <2>3, LayoutDivides
  <2>5. s.ops[i].contig \in Nat
    BY <2>3, <2>4
  <2> QED
    BY <1>0, <2>5 DEF AuxPoints, AuxPoint, Keyable, Described
<1>2. DOMAIN p = 1..n /\ p = [i \in 1..n |-> p[i]]
  BY <1>0 DEF AuxPoints
<1>3. \A i \in 1..n : \E x, y \in Nat : p[i] = <<x, y>> /\ x = s.ops[i].contig /\ (y # 0) = s.ops[i].aligned
  <2> SUFFICES ASSUME NEW i \in 1..n
               PROVE  \E x, y \in Nat : p[i] = <<x, y>> /\ x = s.ops[i].contig /\ (y # 0) = s.ops[i].aligned
    OBVIOUS
  <2>1. CASE s.ops[i].aligned = TRUE
    <3>1. p[i] = <<s.ops[i].contig, 1>> /\ s.ops[i].contig \in Nat
      BY <1>1, <2>1
    <3>2. 1 \in Nat /\ (1 # 0) = TRUE
      OBVIOUS
    <3> QED
      BY <2>1, <3>1, <3>2
  <2>2. CASE s.ops[i].aligned = FALSE
    <3>1. p[i] = <<s.ops[i].contig, 0>> /\ s.ops[i].contig \in Nat
      BY <1>1, <2>2
    <3>2. 0 \in Nat /\ (0 # 0) = FALSE
      OBVIOUS
    <3> QED
      BY <2>2, <3>1, <3>2
  <2> QED
    BY <1>1, <2>1, <2>2
<1>4. IsPairs(p, n, Nat)
  BY <1>2, <1>3 DEF IsPairs
<1>4a. PairsInOrder(FlattenSeq(p), p, n, Nat)
  BY <1>4, FlattenPairs
<1>5. LET f == FlattenSeq(p)
      IN  /\ f \in Seq(Nat) /\ Len(f) = 2 * n
          /\ \A i \in 1..n : f[2 * i - 1] = p[i][1] /\ f[2 * i] = p[i][2]
  BY <1>4a DEF PairsInOrder
<1>6. \A i \in 1..n : p[i][1] = s.ops[i].contig /\ (p[i][2] # 0) = s.ops[i].aligned
  BY <1>3
<1> QED
  BY <1>0, <1>5, <1>6

\* A Spec's limits, as numbers.
LimitPoints(s) == [l \in DOMAIN s.limits |-> BitLength(s.limits[l])]
LEMMA LimitPointsBack ==
    ASSUME NEW s, SizedSpec(s), Keyable(s)
    PROVE  /\ LimitPoints(s) \in Seq(Nat) /\ Len(LimitPoints(s)) = 4
           /\ \A l \in 1..4 : BitLengthInverse(LimitPoints(s)[l]) = s.limits[l]
<1>1. DOMAIN s.limits = 1..4
  BY DEF SizedSpec
<1>2. \A l \in 1..4 : BitLength(s.limits[l]) \in Nat /\ BitLengthInverse(BitLength(s.limits[l])) = s.limits[l]
  BY LimitBack DEF Keyable
<1>3. LimitPoints(s) = [l \in 1..4 |-> BitLength(s.limits[l])]
  BY <1>1 DEF LimitPoints
<1>4. LimitPoints(s) \in [1..4 -> Nat]
  BY <1>2, <1>3
<1>5. LimitPoints(s) \in Seq(Nat) /\ Len(LimitPoints(s)) = 4
  <2>1. 4 \in Nat
    OBVIOUS
  <2>2. LimitPoints(s) \in Seq(Nat)
    BY <1>4, <2>1, SeqDef
  <2>3. Len(LimitPoints(s)) = 4
    BY <1>4, <2>2, LenProperties
  <2> QED
    BY <2>2, <2>3
<1> QED
  BY <1>2, <1>3, <1>5

\* What comes after the basics: the operands', whether it is serial, the limits.
RestPoints(s) == FlattenSeq(AuxPoints(s)) \o <<IF s.serial THEN 0 ELSE 1>> \o LimitPoints(s)
LEMMA RestPointsBack ==
    ASSUME NEW s, SizedSpec(s), LaidSpec(s), Keyable(s), NEW n \in 1..3, DOMAIN s.ops = 1..n
    PROVE  /\ RestPoints(s) \in Seq(Int) /\ Len(RestPoints(s)) = 2 * n + 1 + 4
           /\ \A i \in 1..n : /\ RestPoints(s)[2 * i - 1] = s.ops[i].contig
                              /\ (RestPoints(s)[2 * i] # 0) = s.ops[i].aligned
           /\ (RestPoints(s)[2 * n + 1] = 0) = s.serial
           /\ \A l \in 1..4 : BitLengthInverse(RestPoints(s)[2 * n + 1 + l]) = s.limits[l]
<1>0. PICK f, y, g : f = FlattenSeq(AuxPoints(s)) /\ y = (IF s.serial THEN 0 ELSE 1) /\ g = LimitPoints(s)
  OBVIOUS
<1>1. /\ f \in Seq(Nat) /\ Len(f) = 2 * n
      /\ \A i \in 1..n : f[2 * i - 1] = s.ops[i].contig /\ (f[2 * i] # 0) = s.ops[i].aligned
  <2>1. LET h == FlattenSeq(AuxPoints(s))
        IN  /\ h \in Seq(Nat) /\ Len(h) = 2 * n
            /\ \A i \in 1..n : h[2 * i - 1] = s.ops[i].contig /\ (h[2 * i] # 0) = s.ops[i].aligned
    BY AuxPointsBack
  <2> QED
    BY <1>0, <2>1
<1>2. g \in Seq(Nat) /\ Len(g) = 4 /\ \A l \in 1..4 : BitLengthInverse(g[l]) = s.limits[l]
  BY <1>0, LimitPointsBack
<1>3. y \in Nat /\ (y = 0) = s.serial /\ <<y>> \in Seq(Nat) /\ Len(<<y>>) = 1 /\ <<y>>[1] = y
  BY <1>0 DEF Keyable
<1>4. PICK a : a = f \o <<y>>
  OBVIOUS
<1>5. /\ a \in Seq(Nat) /\ Len(a) = Len(f) + Len(<<y>>)
      /\ \A i \in 1..Len(f) + Len(<<y>>) : a[i] = IF i <= Len(f) THEN f[i] ELSE <<y>>[i - Len(f)]
  BY <1>1, <1>3, <1>4, ConcatProperties
<1>6. PICK b : b = a \o g
  OBVIOUS
<1>7. /\ b \in Seq(Nat) /\ Len(b) = Len(a) + Len(g)
      /\ \A i \in 1..Len(a) + Len(g) : b[i] = IF i <= Len(a) THEN a[i] ELSE g[i - Len(a)]
  <2>1. a \in Seq(Nat) /\ g \in Seq(Nat)
    BY <1>2, <1>5
  <2> QED
    BY <1>6, <2>1, ConcatProperties
<1>8. RestPoints(s) = b
  BY <1>0, <1>4, <1>6 DEF RestPoints
<1>9. Len(a) = 2 * n + 1 /\ Len(b) = 2 * n + 1 + 4 /\ n \in Nat
  BY <1>1, <1>2, <1>3, <1>5, <1>7
<1>10. \A j \in 1..2 * n : b[j] = f[j]
  <2>1. \A j \in 1..2 * n : j \in 1..2 * n + 1 + 4 /\ j <= 2 * n + 1 /\ j \in 1..2 * n + 1 /\ j <= 2 * n
    BY <1>9
  <2>2. Len(f) + Len(<<y>>) = 2 * n + 1 /\ Len(a) + Len(g) = 2 * n + 1 + 4
    BY <1>1, <1>2, <1>3, <1>9
  <2> QED
    BY <1>1, <1>5, <1>7, <1>9, <2>1, <2>2
<1>11. b[2 * n + 1] = y
  <2>1. 2 * n + 1 \in 1..2 * n + 1 + 4 /\ 2 * n + 1 \in 1..2 * n + 1 /\ ~(2 * n + 1 <= 2 * n) /\ (2 * n + 1) - 2 * n = 1
    BY <1>9
  <2>2. Len(f) + Len(<<y>>) = 2 * n + 1 /\ Len(a) + Len(g) = 2 * n + 1 + 4
    BY <1>1, <1>2, <1>3, <1>9
  <2>3. b[2 * n + 1] = a[2 * n + 1]
    BY <1>7, <1>9, <2>1, <2>2
  <2>4. a[2 * n + 1] = <<y>>[1]
    BY <1>1, <1>5, <2>1, <2>2
  <2> QED
    BY <1>3, <2>3, <2>4
<1>12. \A l \in 1..4 : b[2 * n + 1 + l] = g[l]
  <2>1. \A l \in 1..4 : 2 * n + 1 + l \in 1..2 * n + 1 + 4 /\ ~(2 * n + 1 + l <= 2 * n + 1) /\ (2 * n + 1 + l) - (2 * n + 1) = l
    BY <1>9
  <2>2. Len(a) + Len(g) = 2 * n + 1 + 4
    BY <1>2, <1>9
  <2> QED
    BY <1>7, <1>9, <2>1, <2>2
<1>13. \A i \in 1..n : b[2 * i - 1] = f[2 * i - 1] /\ b[2 * i] = f[2 * i]
  <2>1. \A i \in 1..n : 2 * i - 1 \in 1..2 * n /\ 2 * i \in 1..2 * n
    BY <1>9
  <2> QED
    BY <1>10, <2>1
<1>14. \A i \in 1..n : b[2 * i - 1] = s.ops[i].contig /\ (b[2 * i] # 0) = s.ops[i].aligned
  BY <1>1, <1>13
<1>15. (b[2 * n + 1] = 0) = s.serial
  BY <1>3, <1>11
<1>16. \A l \in 1..4 : BitLengthInverse(b[2 * n + 1 + l]) = s.limits[l]
  BY <1>2, <1>12
<1>17. b \in Seq(Int)
  BY <1>7, SeqMonotonic
<1> QED
  BY <1>8, <1>9, <1>14, <1>15, <1>16, <1>17

\* The point of a Spec: the basics, then the rest.
LEMMA PointIs ==
    ASSUME NEW s, SizedSpec(s), LaidSpec(s), Binary(s), Keyable(s)
    PROVE  PointOf(s) = BasicsPoint(s.typ, s.accum, SpecShape(s)) \o RestPoints(s)
<1>1. PICK b, f, y, g : /\ b = BasicsPoint(s.typ, s.accum, SpecShape(s)) /\ f = FlattenSeq(AuxPoints(s))
                        /\ y = <<IF s.serial THEN 0 ELSE 1>> /\ g = LimitPoints(s)
  OBVIOUS
<1>2. PointOf(s) = ((b \o f) \o y) \o g
  BY <1>1 DEF PointOf, AuxPoints, LimitPoints
<1>3. RestPoints(s) = (f \o y) \o g
  BY <1>1 DEF RestPoints
<1>4. SizedOps(s.typ, s.ops) /\ s.accum \in BOOLEAN
  BY DEF SizedSpec
<1>5. PICK n \in 1..3 : DOMAIN s.ops = 1..n /\ n = InputCount[s.typ] + 1
  BY <1>4, OpsDomain
<1>6. b \in Seq(Int)
  BY <1>1, <1>4, BasicsBack, ShapeBinary
<1>7. f \in Seq(Int)
  <2>1. LET h == FlattenSeq(AuxPoints(s))
        IN  /\ h \in Seq(Nat) /\ Len(h) = 2 * n
            /\ \A i \in 1..n : h[2 * i - 1] = s.ops[i].contig /\ (h[2 * i] # 0) = s.ops[i].aligned
    BY <1>5, AuxPointsBack
  <2>2. f \in Seq(Nat)
    BY <1>1, <2>1
  <2> QED
    BY <2>2, SeqMonotonic
<1>8. y \in Seq(Int)
  BY <1>1
<1>9. g \in Seq(Int)
  <2>1. g \in Seq(Nat)
    BY <1>1, LimitPointsBack
  <2> QED
    BY <2>1, SeqMonotonic
<1>10. (b \o f) \o y = b \o (f \o y) /\ f \o y \in Seq(Int)
  BY <1>6, <1>7, <1>8, ConcatAssociative, ConcatProperties
<1>11. (b \o (f \o y)) \o g = b \o ((f \o y) \o g)
  <2>1. PICK h : h = f \o y
    OBVIOUS
  <2>2. h \in Seq(Int)
    BY <1>10, <2>1
  <2>3. (b \o h) \o g = b \o (h \o g)
    BY <1>6, <1>9, <2>2, ConcatAssociative
  <2> QED
    BY <2>1, <2>3
<1> QED
  BY <1>1, <1>2, <1>3, <1>10, <1>11

\* What SpecAt makes of a key and a point.
AuxesAt(key, rest) ==
    [i \in 1..Len(key.auxes) |->
        [layout |-> key.auxes[i][1], level |-> LevelOrder[key.auxes[i][2] + 1],
         vector |-> key.auxes[i][3], contig |-> rest[2 * i - 1], aligned |-> rest[2 * i] # 0]]
SpecMadeOf(key, basics, rest, n) ==
    [typ    |-> key.typ,
     accum  |-> Accumulates(key.typ) /\ basics[1] = 0,
     ops    |-> Parameters(key.typ, ShapeOfBasics(key.typ, basics), key.dtypes, AuxesAt(key, rest)),
     serial |-> rest[2 * n + 1] = 0,
     limits |-> [l \in 1..4 |-> BitLengthInverse(rest[2 * n + 1 + l])]]
LEMMA SpecAtIs ==
    ASSUME NEW key, NEW basics \in Seq(Int), NEW rest \in Seq(Int), NEW n \in Nat, n = Len(key.auxes),
           Len(rest) = 2 * n + 1 + 4
    PROVE  SpecAt(key, basics \o rest) = SpecMadeOf(key, basics, rest, n)
<1>1. PICK pt : pt = basics \o rest
  OBVIOUS
<1>2. /\ Len(pt) = Len(basics) + Len(rest) /\ SubSeq(pt, 1, Len(basics)) = basics
      /\ SubSeq(pt, Len(basics) + 1, Len(pt)) = rest
  BY <1>1, ApartAgain
<1>3. Len(pt) - 4 - 1 - 2 * Len(key.auxes) = Len(basics)
  <2>1. Len(basics) \in Nat
    BY LenProperties
  <2> QED
    BY <1>2, <2>1
<1>4. SubSeq(pt, 1, Len(pt) - 4 - 1 - 2 * Len(key.auxes)) = basics
  BY <1>2, <1>3
<1> QED
  BY <1>1, <1>2, <1>4 DEF SpecAt, AuxesAt, SpecMadeOf

\* The database gives a Spec's place back to it.
LEMMA PlaceBack ==
    ASSUME NEW s, SizedSpec(s), LaidSpec(s), Binary(s), Keyable(s)
    PROVE  SpecAt(KeyOf(s), PointOf(s)) = s
<1>1. SizedOps(s.typ, s.ops) /\ s.accum \in BOOLEAN /\ ShapesAgree(s) /\ s.limits \in [1..4 -> Nat]
  BY DEF SizedSpec
<1>2. PICK n \in 1..3 : DOMAIN s.ops = 1..n /\ n = InputCount[s.typ] + 1
  BY <1>1, OpsDomain
<1>3. PICK key, basics, rest, pt : /\ key = KeyOf(s) /\ basics = BasicsPoint(s.typ, s.accum, SpecShape(s))
                                   /\ rest = RestPoints(s) /\ pt = PointOf(s)
  OBVIOUS
<1>4. pt = basics \o rest
  BY <1>3, PointIs
<1>5. basics \in Seq(Int) /\ ShapeOfBasics(s.typ, basics) = SpecShape(s) /\ (Accumulates(s.typ) => (basics[1] = 0 <=> s.accum))
  <2>1. PICK shape : shape = SpecShape(s)
    OBVIOUS
  <2>2. shape \in Seq(Nat \ {0}) /\ PowersOnly(shape) /\ (s.typ = "Conv" => Len(shape) = 7)
    BY <2>1, ShapeBinary
  <2>3. PICK typ, accum : typ = s.typ /\ accum = s.accum
    OBVIOUS
  <2>4. /\ BasicsPoint(typ, accum, shape) \in Seq(Int)
        /\ ShapeOfBasics(typ, BasicsPoint(typ, accum, shape)) = shape
        /\ Accumulates(typ) => (BasicsPoint(typ, accum, shape)[1] = 0 <=> accum)
    BY <1>1, <2>2, <2>3, BasicsBack
  <2> QED
    BY <1>3, <2>1, <2>3, <2>4
<1>6. /\ rest \in Seq(Int) /\ Len(rest) = 2 * n + 1 + 4
      /\ \A i \in 1..n : rest[2 * i - 1] = s.ops[i].contig /\ (rest[2 * i] # 0) = s.ops[i].aligned
      /\ (rest[2 * n + 1] = 0) = s.serial
      /\ \A l \in 1..4 : BitLengthInverse(rest[2 * n + 1 + l]) = s.limits[l]
  <2>1. /\ RestPoints(s) \in Seq(Int) /\ Len(RestPoints(s)) = 2 * n + 1 + 4
        /\ \A i \in 1..n : /\ RestPoints(s)[2 * i - 1] = s.ops[i].contig
                           /\ (RestPoints(s)[2 * i] # 0) = s.ops[i].aligned
        /\ (RestPoints(s)[2 * n + 1] = 0) = s.serial
        /\ \A l \in 1..4 : BitLengthInverse(RestPoints(s)[2 * n + 1 + l]) = s.limits[l]
    BY <1>2, RestPointsBack
  <2> QED
    BY <1>3, <2>1
<1>7. /\ key.typ = s.typ /\ key.dtypes = [i \in 1..n |-> s.ops[i].dtype]
      /\ key.auxes = [i \in 1..n |-> AuxKey(s.ops[i])] /\ n = Len(key.auxes) /\ n \in Nat
  BY <1>2, <1>3 DEF KeyOf
<1>8. SpecAt(key, basics \o rest) = SpecMadeOf(key, basics, rest, n)
  <2>1. basics \in Seq(Int) /\ rest \in Seq(Int) /\ n \in Nat /\ n = Len(key.auxes) /\ Len(rest) = 2 * n + 1 + 4
    BY <1>5, <1>6, <1>7
  <2> QED
    BY <2>1, SpecAtIs
<1>9. (Accumulates(key.typ) /\ basics[1] = 0) = s.accum
  BY <1>1, <1>5, <1>7 DEF Keyable
<1>10. [l \in 1..4 |-> BitLengthInverse(rest[2 * n + 1 + l])] = s.limits
  BY <1>1, <1>6
<1>11. Parameters(key.typ, ShapeOfBasics(key.typ, basics), key.dtypes, AuxesAt(key, rest)) = s.ops
  <2>1. PICK auxes, shapes : auxes = AuxesAt(key, rest) /\ shapes = ParameterShapes(s.typ, SpecShape(s))
    OBVIOUS
  <2>2. ASSUME NEW i \in 1..n
        PROVE  TensorSpec(shapes[i], s.ops[i].dtype, auxes[i].level, auxes[i].layout,
                          auxes[i].contig, auxes[i].aligned, auxes[i].vector) = s.ops[i]
    <3>1. shapes[i] = s.ops[i].shape
      BY <1>1, <1>2, <2>1 DEF ShapesAgree
    <3>2. key.auxes[i] = <<s.ops[i].layout, LevelIndex(s.ops[i].level) - 1, s.ops[i].vector>>
      BY <1>7 DEF AuxKey
    <3>3. LevelIndex(s.ops[i].level) \in 1..4 /\ LevelOrder[LevelIndex(s.ops[i].level)] = s.ops[i].level
      BY <1>1, <1>2, LevelsIndexed DEF SizedOps, Sized
    <3>4. (LevelIndex(s.ops[i].level) - 1) + 1 = LevelIndex(s.ops[i].level)
      BY <3>3
    <3>5. /\ auxes[i].layout = s.ops[i].layout /\ auxes[i].level = s.ops[i].level
          /\ auxes[i].vector = s.ops[i].vector
      <4>1. /\ auxes[i].layout = key.auxes[i][1] /\ auxes[i].level = LevelOrder[key.auxes[i][2] + 1]
            /\ auxes[i].vector = key.auxes[i][3]
        BY <1>7, <2>1 DEF AuxesAt
      <4>2. /\ key.auxes[i][1] = s.ops[i].layout /\ key.auxes[i][2] = LevelIndex(s.ops[i].level) - 1
            /\ key.auxes[i][3] = s.ops[i].vector
        BY <3>2
      <4> QED
        BY <3>3, <3>4, <4>1, <4>2
    <3>6. auxes[i].contig = s.ops[i].contig /\ auxes[i].aligned = s.ops[i].aligned
      BY <1>6, <1>7, <2>1 DEF AuxesAt
    <3>7. DOMAIN s.ops[i] = OpFields /\ s.ops[i] = [f \in DOMAIN s.ops[i] |-> s.ops[i][f]]
      BY <1>1, <1>2 DEF SizedOps, Sized, LaidSpec, LaidOut, IsRecord
    <3>8. s.ops[i] = [shape |-> s.ops[i].shape, dtype |-> s.ops[i].dtype, level |-> s.ops[i].level,
                      layout |-> s.ops[i].layout, contig |-> s.ops[i].contig, aligned |-> s.ops[i].aligned,
                      vector |-> s.ops[i].vector]
      BY <3>7 DEF OpFields
    <3> QED
      BY <3>1, <3>5, <3>6, <3>8 DEF TensorSpec
  <2>3. DOMAIN auxes = 1..n
    BY <1>7, <2>1 DEF AuxesAt
  <2>4. Parameters(key.typ, ShapeOfBasics(key.typ, basics), key.dtypes, auxes)
           = [i \in 1..n |-> TensorSpec(shapes[i], s.ops[i].dtype, auxes[i].level, auxes[i].layout,
                                        auxes[i].contig, auxes[i].aligned, auxes[i].vector)]
    <3>1. PICK q, typ, dtypes : q = ShapeOfBasics(key.typ, basics) /\ typ = key.typ /\ dtypes = key.dtypes
      OBVIOUS
    <3>2. ParameterShapes(typ, q) = shapes /\ \A i \in 1..n : dtypes[i] = s.ops[i].dtype
      <4>1. q = SpecShape(s) /\ typ = s.typ
        BY <1>5, <1>7, <3>1
      <4>2. ParameterShapes(typ, q) = shapes
        BY <2>1, <4>1
      <4>3. \A i \in 1..n : dtypes[i] = s.ops[i].dtype
        BY <1>7, <3>1
      <4> QED
        BY <4>2, <4>3
    <3>3. Parameters(typ, q, dtypes, auxes)
             = [i \in 1..n |-> TensorSpec(shapes[i], dtypes[i], auxes[i].level, auxes[i].layout,
                                          auxes[i].contig, auxes[i].aligned, auxes[i].vector)]
      BY <2>3, <3>2 DEF Parameters
    <3>4. Parameters(typ, q, dtypes, auxes)
             = [i \in 1..n |-> TensorSpec(shapes[i], s.ops[i].dtype, auxes[i].level, auxes[i].layout,
                                          auxes[i].contig, auxes[i].aligned, auxes[i].vector)]
      BY <3>2, <3>3
    <3> QED
      BY <3>1, <3>4
  <2>5. s.ops = [i \in 1..n |-> s.ops[i]]
    BY <1>2 DEF LaidSpec
  <2> QED
    BY <2>1, <2>2, <2>4, <2>5
<1>12. s = [f \in SpecFields |-> s[f]]
  BY DEF LaidSpec
<1>13. s = [typ |-> s.typ, accum |-> s.accum, ops |-> s.ops, serial |-> s.serial, limits |-> s.limits]
  BY <1>12 DEF SpecFields
<1>14. (rest[2 * n + 1] = 0) = s.serial
  BY <1>6
<1>15. SpecAt(key, pt) = [typ |-> s.typ, accum |-> s.accum, ops |-> s.ops, serial |-> s.serial, limits |-> s.limits]
  BY <1>4, <1>7, <1>8, <1>9, <1>10, <1>11, <1>14 DEF SpecMadeOf
<1> QED
  BY <1>3, <1>13, <1>15

\* Canonicalizing an operand keeps what describes it.
LEMMA CanonicalizedDescribed ==
    ASSUME NEW t, Sized(t), Described(t)
    PROVE  /\ Described(Canonicalized(t)) /\ Described(Relabelled(t)) /\ Sized(Canonicalized(t))
<1>1. \A laid : Described(WithLayout(t, laid))
  <2> SUFFICES ASSUME NEW laid
               PROVE  Described(WithLayout(t, laid))
    OBVIOUS
  <2>1. PICK u : u = WithLayout(t, laid)
    OBVIOUS
  <2>2. u.aligned = t.aligned /\ u.vector = t.vector /\ u.dtype = t.dtype /\ u.level = t.level
    BY <2>1 DEF WithLayout, Sized, OpFields
  <2> QED
    BY <2>1, <2>2 DEF Described
<1>2. Described(Canonicalized(t))
  BY <1>1 DEF Canonicalized
<1>3. Described(Relabelled(t))
  <2>1. PICK u : u = Relabelled(t)
    OBVIOUS
  <2>2. u.aligned = t.aligned /\ u.vector = t.vector /\ u.dtype = t.dtype /\ u.level = t.level
    BY <2>1 DEF Relabelled, Sized, OpFields
  <2> QED
    BY <2>1, <2>2 DEF Described
<1>4. Sized(Canonicalized(t))
  BY CanonicalizedAlike DEF Alike, Sized
<1> QED
  BY <1>2, <1>3, <1>4

\* So does canonicalizing a Spec's operands.
LEMMA CanonicalOpsDescribed ==
    ASSUME NEW typ, NEW ops, \A i \in DOMAIN ops : Sized(ops[i]) /\ Described(ops[i])
    PROVE  \A i \in DOMAIN CanonicalOps(typ, ops) : Described(CanonicalOps(typ, ops)[i])
<1>1. PICK once : once = [i \in DOMAIN ops |-> Canonicalized(ops[i])]
  OBVIOUS
<1>2. DOMAIN once = DOMAIN ops /\ \A i \in DOMAIN once : Sized(once[i]) /\ Described(once[i])
  BY <1>1, CanonicalizedDescribed
<1>3. \A i \in DOMAIN once : Described(Relabelled(once[i]))
  BY <1>2, CanonicalizedDescribed
<1>4. CanonicalOps(typ, ops) = RelabelledIfBitwise(typ, once)
  BY <1>1 DEF CanonicalOps
<1> QED
  BY <1>2, <1>3, <1>4 DEF RelabelledIfBitwise

\* A tile of an operand is aligned or not, and has its vector size.
LEMMA TileDescribed ==
    ASSUME NEW t, Sized(t), Described(t), NEW tiling
    PROVE  Described(TileSpec(tiling, t))
<1>1. PICK u, aligned : u = TileSpec(tiling, t) /\ aligned = AlignedApprox(tiling, t)
  OBVIOUS
<1>2. aligned \in BOOLEAN
  BY <1>1 DEF AlignedApprox
<1>3. u.aligned = aligned /\ u.vector = t.vector /\ u.dtype = t.dtype /\ u.level = t.level
  BY <1>1 DEF TileSpec, Shrunk, WithLayout, Sized, OpFields
<1> QED
  BY <1>1, <1>2, <1>3 DEF Described

\* A new TensorSpec has what it is given.
LEMMA NewCanonDescribed ==
    ASSUME NEW shape, shape \in Seq(Nat \ {0}), NEW dtype \in Dtypes, NEW level \in CpuLevels, NEW layout, NEW contig,
           NEW aligned \in BOOLEAN, NEW vector, vector \in VectorSizes(dtype, level) \cup {16, 32}
    PROVE  Described(NewCanon(shape, dtype, level, layout, contig, aligned, vector))
<1>1. PICK u : u = TensorSpec(shape, dtype, level, layout, contig, aligned, vector)
  OBVIOUS
<1>2. Sized(u) /\ Described(u)
  BY <1>1 DEF TensorSpec, Sized, OpFields, Described
<1> QED
  BY <1>1, <1>2, CanonicalizedDescribed DEF NewCanon

\* A move offers vector sizes of the target, for the source's dtype.
LEMMA VectorSizesAre ==
    ASSUME NEW dtype \in Dtypes, NEW level \in CpuLevels, NEW to \in {dtype} \cup HigherPrecision(dtype)
    PROVE  VectorSizes(dtype, level) \subseteq VectorSizes(to, level) \cup {16, 32}
<1>1. CASE to = dtype
  BY <1>1
<1>2. CASE dtype = "bf16" /\ to = "f32"
  <2>1. SizeOf["bf16"] = 2 /\ SizeOf["f32"] = 4
    BY DEF SizeOf
  <2>2. 16 \div 2 = 8 /\ 32 \div 2 = 16 /\ 32 \div 4 = 8
    OBVIOUS
  <2>3. CASE level = "VRF"
    <3>1. VectorBytes(level) = {16, 32}
      BY <2>3 DEF VectorBytes
    <3>2. VectorSizes(dtype, level) = {8, 16}
      <4>1. VectorSizes(dtype, level) = {b \div 2 : b \in {16, 32}}
        BY <1>2, <2>1, <3>1 DEF VectorSizes
      <4> QED
        BY <2>2, <4>1
    <3>3. 8 \in VectorSizes(to, level)
      <4>1. VectorSizes(to, level) = {b \div 4 : b \in {16, 32}}
        BY <1>2, <2>1, <3>1 DEF VectorSizes
      <4> QED
        BY <2>2, <4>1
    <3> QED
      BY <3>2, <3>3
  <2>4. CASE level # "VRF"
    BY <2>4 DEF VectorSizes, VectorBytes
  <2> QED
    BY <2>3, <2>4
<1> QED
  BY <1>1, <1>2 DEF HigherPrecision

\* The buffer that a move introduces.
LEMMA MovedDescribed ==
    ASSUME NEW s, SizedSpec(s), \A i \in DOMAIN s.ops : Described(s.ops[i]), NEW a \in MoveActions(s)
    PROVE  Described(MovedOperand(s, a))
<1>1. PICK t : t = s.ops[a.source]
  OBVIOUS
<1>2. /\ a.source \in DOMAIN s.ops /\ Sized(t) /\ Described(t) /\ a.dtype \in Dtypes /\ a.level \in CpuLevels
      /\ a.dtype \in {t.dtype} \cup HigherPrecision(t.dtype) /\ a.vector \in VectorSizes(t.dtype, a.level)
  BY <1>1, MovedIs, MoveActionsAre
<1>3. t.dtype \in Dtypes /\ t.shape \in Seq(Nat \ {0})
  BY <1>2 DEF Sized
<1>4. a.vector \in VectorSizes(a.dtype, a.level) \cup {16, 32}
  BY <1>2, <1>3, VectorSizesAre
<1>5. PICK contig, miss, aligned :
          /\ MovedOperand(s, a) = NewCanon(t.shape, a.dtype, a.level, a.layout, contig, aligned, a.vector)
          /\ aligned = (miss => t.aligned)
  BY <1>1 DEF MovedOperand, MoveletInner
<1>6. aligned \in BOOLEAN
  BY <1>5
<1> QED
  BY <1>2, <1>3, <1>4, <1>5, <1>6, NewCanonDescribed

\* What a move leaves of a limit is a limit.
LEMMA LoweredLimits ==
    ASSUME NEW s, SizedSpec(s), \A l \in 1..4 : IsLimit(s.limits[l]), NEW a \in MoveActions(s), MoveApplies(s, a)
    PROVE  DOMAIN LowerLimits(s, a) = 1..4 /\ \A l \in 1..4 : IsLimit(LowerLimits(s, a)[l])
<1>1. PICK k, bytes, n : k = LevelIndex(a.level) /\ bytes = MovedBytes(s, a) /\ n = s.limits[k] - bytes
  OBVIOUS
<1>2. k \in 1..4
  BY <1>1, MovedIs, LevelsIndexed
<1>3. bytes \in Nat \ {0} /\ s.limits \in [1..4 -> Nat] /\ s.limits[k] >= bytes
  BY <1>1, MovedIs DEF SizedSpec, MoveApplies
<1>4. PICK w \in Nat : w = s.limits[k]
  BY <1>2, <1>3
<1>5. n \in Nat /\ n <= w
  BY <1>1, <1>3, <1>4
<1>6. LowerLimits(s, a) = [s.limits EXCEPT ![k] = PrevPowerOfTwo(n)]
  BY <1>1 DEF LowerLimits
<1>7. IsLimit(PrevPowerOfTwo(n))
  <2>1. PICK p : p = PrevPowerOfTwo(n)
    OBVIOUS
  <2>2. p \in Nat /\ p <= n /\ (p = 0 \/ IsPowerOfTwo(p))
    BY <1>5, <2>1, PrevPowerIs
  <2> QED
    BY <2>1, <2>2 DEF IsLimit
<1> QED
  BY <1>2, <1>3, <1>6, <1>7

\* Canonicalizing a Spec keeps what the database's numbers tell.
LEMMA CanonicalKeyable ==
    ASSUME NEW s, DOMAIN s = SpecFields, \A i \in DOMAIN s.ops : Sized(s.ops[i]), Keyable(s)
    PROVE  Keyable(CanonicalSpec(s))
<1>1. PICK c : c = CanonicalSpec(s)
  OBVIOUS
<1>2. /\ c.typ = s.typ /\ c.accum = s.accum /\ c.serial = s.serial
      /\ c.ops = CanonicalOps(s.typ, s.ops) /\ c.limits = ZeroSlower(s.ops, s.limits)
  BY <1>1 DEF CanonicalSpec, SpecFields
<1>3. \A i \in DOMAIN c.ops : Described(c.ops[i])
  BY <1>2, CanonicalOpsDescribed DEF Keyable
<1>4. \A l \in 1..4 : IsLimit(c.limits[l])
  <2>1. \A l \in 1..4 : c.limits[l] = 0 \/ c.limits[l] = s.limits[l]
    BY <1>2 DEF ZeroSlower
  <2>2. IsLimit(0)
    BY DEF IsLimit
  <2> QED
    BY <2>1, <2>2 DEF Keyable
<1> QED
  BY <1>1, <1>2, <1>3, <1>4 DEF Keyable

\* So do a loop's body,
LEMMA LoopBodyKeyable ==
    ASSUME NEW s, SizedSpec(s), Keyable(s), NEW tiles, NEW parallel \in BOOLEAN,
           \A i \in DOMAIN s.ops : TiledShape(s, tiles, i) \in Seq(Nat \ {0})
    PROVE  Keyable(BodyOfLoop(s, tiles, parallel))
<1>1. PICK c : c = BodyOfLoop(s, tiles, parallel)
  OBVIOUS
<1>2. /\ c.typ = s.typ /\ c.accum = s.accum /\ c.limits = s.limits
      /\ c.serial = (s.serial \/ parallel) /\ c.ops = CanonicalOps(s.typ, TiledOps(s, tiles))
  BY <1>1 DEF BodyOfLoop, LoopOver, Impl, Child, SizedSpec, SpecFields
<1>3. \A i \in DOMAIN TiledOps(s, tiles) : Sized(TiledOps(s, tiles)[i])
  BY TiledSized DEF SizedSpec, SizedOps
<1>4. \A i \in DOMAIN TiledOps(s, tiles) : Described(TiledOps(s, tiles)[i])
  <2> SUFFICES ASSUME NEW i \in DOMAIN s.ops
               PROVE  Described(TiledOps(s, tiles)[i])
    BY DEF TiledOps
  <2>1. Sized(s.ops[i]) /\ Described(s.ops[i])
    BY DEF SizedSpec, SizedOps, Keyable
  <2>2. \A tiling : Described(TileSpec(tiling, s.ops[i]))
    BY <2>1, TileDescribed
  <2> QED
    BY <2>1, <2>2 DEF TiledOps
<1>5. \A i \in DOMAIN c.ops : Described(c.ops[i])
  BY <1>2, <1>3, <1>4, CanonicalOpsDescribed
<1>6. c.serial \in BOOLEAN
  BY <1>2
<1> QED
  BY <1>1, <1>2, <1>5, <1>6 DEF Keyable

\* the parts of a move,
LEMMA MovePartsKeyable ==
    ASSUME NEW s, SizedSpec(s), Keyable(s), NEW a \in MoveActions(s), MoveApplies(s, a),
           NEW c \in Range(MoveLet(s, a).children)
    PROVE  Keyable(c.spec)
<1>1. PICK t, m : t = s.ops[a.source] /\ m = MovedOperand(s, a)
  OBVIOUS
<1>2. a.source \in DOMAIN s.ops /\ Sized(t) /\ Sized(m) /\ Described(t) /\ Described(m)
  BY <1>1, MovedIs, MovedDescribed DEF Keyable
<1>3. ASSUME NEW typ, NEW accum, accum => Accumulates(typ), NEW ops,
             \A i \in DOMAIN ops : Sized(ops[i]) /\ Described(ops[i]), NEW part, NEW from
      PROVE  Keyable(SubOf(s, a, part, typ, accum, ops, from).spec)
  <2>1. PICK x : x = Lowered(s, a, typ, accum, ops)
    OBVIOUS
  <2>2. /\ DOMAIN x = SpecFields /\ x.typ = typ /\ x.accum = accum /\ x.ops = ops /\ x.serial = s.serial
        /\ x.limits = LowerLimits(s, a)
    BY <2>1 DEF Lowered, SizedSpec, SpecFields
  <2>3. Keyable(x)
    <3>1. \A l \in 1..4 : IsLimit(x.limits[l])
      BY <2>2, LoweredLimits DEF Keyable
    <3> QED
      BY <1>3, <2>2, <3>1 DEF Keyable
  <2>4. Keyable(CanonicalSpec(x))
    BY <1>3, <2>2, <2>3, CanonicalKeyable
  <2> QED
    BY <2>1, <2>4 DEF SubOf, Child
<1>4. \A x, y : Sized(x) /\ Described(x) /\ Sized(y) /\ Described(y) =>
        \A i \in DOMAIN <<x, y>> : Sized(<<x, y>>[i]) /\ Described(<<x, y>>[i])
  <2> SUFFICES ASSUME NEW x, NEW y, Sized(x), Described(x), Sized(y), Described(y)
               PROVE  \A i \in DOMAIN <<x, y>> : Sized(<<x, y>>[i]) /\ Described(<<x, y>>[i])
    OBVIOUS
  <2>1. DOMAIN <<x, y>> = 1..2 /\ <<x, y>>[1] = x /\ <<x, y>>[2] = y /\ \A i \in 1..2 : i = 1 \/ i = 2
    OBVIOUS
  <2> QED
    BY <2>1
<1>5. Keyable(PrologueOf(s, a).spec) /\ Keyable(EpilogueOf(s, a).spec)
  <2>1. /\ \A i \in DOMAIN <<t, m>> : Sized(<<t, m>>[i]) /\ Described(<<t, m>>[i])
        /\ \A i \in DOMAIN <<m, t>> : Sized(<<m, t>>[i]) /\ Described(<<m, t>>[i])
    BY <1>2, <1>4
  <2> QED
    BY <1>1, <1>3, <2>1 DEF PrologueOf, EpilogueOf
<1>6. Keyable(BodyOf(s, a).spec)
  <2>1. PICK ops : ops = [s.ops EXCEPT ![a.source] = m]
    OBVIOUS
  <2>2. DOMAIN ops = DOMAIN s.ops /\ \A i \in DOMAIN ops : ops[i] = IF i = a.source THEN m ELSE s.ops[i]
    BY <2>1
  <2>3. \A i \in DOMAIN s.ops : Sized(s.ops[i]) /\ Described(s.ops[i])
    BY DEF SizedSpec, SizedOps, Keyable
  <2>4. \A i \in DOMAIN ops : Sized(ops[i]) /\ Described(ops[i])
    BY <1>2, <2>2, <2>3
  <2>5. s.accum => Accumulates(s.typ)
    BY DEF Keyable
  <2> QED
    BY <1>1, <1>3, <2>1, <2>4, <2>5 DEF BodyOf
<1> QED
  BY <1>5, <1>6, MoveChildren

\* and of a ToAccum.
LEMMA ToAccumKeyable ==
    ASSUME NEW s, SizedSpec(s), Accumulates(s.typ), Keyable(s), NEW c \in Range(ToAccum(s).children)
    PROVE  Keyable(c.spec)
<1>0. \A i \in DOMAIN s.ops : Sized(s.ops[i]) /\ Described(s.ops[i])
  BY DEF SizedSpec, SizedOps, Keyable
<1>1. PICK z, a : z = ZeroOutput(s) /\ a = AsAccum(s)
  OBVIOUS
<1>2. c.spec = CanonicalSpec(z) \/ c.spec = CanonicalSpec(a)
  <2>1. \A n \in 1..2 : n = 1 \/ n = 2
    OBVIOUS
  <2> QED
    BY <1>1, <2>1 DEF ToAccum, Impl, Range, Child
<1>3. Keyable(CanonicalSpec(a))
  <2>1. /\ DOMAIN a = SpecFields /\ a.typ = s.typ /\ a.ops = s.ops /\ a.serial = s.serial
        /\ a.limits = s.limits
    BY <1>1 DEF AsAccum, SizedSpec, SpecFields
  <2>2. Keyable(a)
    BY <2>1 DEF Keyable
  <2> QED
    BY <1>0, <2>1, <2>2, CanonicalKeyable
<1>4. Keyable(CanonicalSpec(z))
  <2>1. /\ DOMAIN z = SpecFields /\ z.typ = "Zero" /\ z.ops = <<Output(s)>> /\ z.accum = FALSE
        /\ z.serial = s.serial /\ z.limits = s.limits
    BY <1>1 DEF ZeroOutput, SizedSpec, SpecFields
  <2>2. OutputIdx(s) \in DOMAIN s.ops
    BY OpsCount DEF SizedSpec
  <2>3. Sized(Output(s)) /\ Described(Output(s))
    BY <1>0, <2>2 DEF Output
  <2>4. DOMAIN z.ops = 1..1 /\ z.ops[1] = Output(s) /\ \A i \in 1..1 : i = 1
    BY <2>1
  <2>5. \A i \in DOMAIN z.ops : Sized(z.ops[i]) /\ Described(z.ops[i])
    BY <2>3, <2>4
  <2>6. Keyable(z)
    BY <2>1, <2>5 DEF Keyable
  <2> QED
    BY <2>1, <2>5, <2>6, CanonicalKeyable
<1> QED
  BY <1>2, <1>3, <1>4

\* of a SpatialSplit,
LEMMA SpatialBodyKeyable ==
    ASSUME NEW s, SizedSpec(s), s.typ \in {"Conv"}, Keyable(s)
    PROVE  Keyable(SpatialSplit(s).children[1].spec)
<1> DEFINE tiles == SpatialTiles(s)
           tiled == TiledOps(s, tiles)
           c == SpatialBody(s, tiled)
<1>0. SizedOps(s.typ, s.ops) /\ ShapesAgree(s) /\ s.typ = "Conv"
  BY DEF SizedSpec
<1>1. PICK b \in Nat \ {0}, f \in Nat \ {0}, e \in Nat \ {0}, h \in Nat \ {0}, w \in Nat \ {0},
           y \in Nat \ {0}, x \in Nat \ {0} : ConvShapes(s.ops, b, f, e, h, w, y, x)
  BY <1>0, AgreeConv
<1>3. DOMAIN s.ops = 1..3 /\ \A i \in 1..3 : Sized(s.ops[i])
  BY <1>0, AgreeMeans DEF SizedOps
<1>a. PICK u \in Nat \ {0}, v \in Nat \ {0} : s.ops[3].shape = <<b, f, u, v>>
  <2>1. s.ops[3].shape \in Seq(Nat \ {0})
    BY <1>3 DEF Sized
  <2>2. s.ops[3].shape = <<b, f, 1 + h - y, 1 + w - x>>
    BY <1>1 DEF ConvShapes
  <2>3. s.ops[3].shape[3] \in Nat \ {0} /\ s.ops[3].shape[4] \in Nat \ {0}
    BY <2>1, <2>2
  <2> QED
    BY <2>2, <2>3
<1>4. /\ DOMAIN tiles = 1..2 /\ tiles[1].operand = 1 /\ tiles[2].operand = 2
      /\ tiles[1].tiling.shape = <<b, e, 1, 1>> /\ tiles[2].tiling.shape = <<f, e, 1, 1>>
  <2>1. s.ops[1].shape = <<b, e, h, w>> /\ s.ops[2].shape = <<f, e, y, x>>
    BY <1>1 DEF ConvShapes
  <2>2. DOMAIN tiles = 1..2 /\ tiles[1].operand = 1 /\ tiles[2].operand = 2
    BY DEF SpatialTiles, LoopTile
  <2>3. tiles[1].tiling.shape = <<b, e, 1, 1>>
    BY <2>1 DEF SpatialTiles, LoopTile, SimpleTiling
  <2>4. tiles[2].tiling.shape = <<f, e, 1, 1>>
    BY <2>1 DEF SpatialTiles, LoopTile, SimpleTiling
  <2> QED
    BY <2>2, <2>3, <2>4
<1> HIDE DEF tiles
<1>5. /\ TiledShape(s, tiles, 1) = <<b, e, 1, 1>> /\ TiledShape(s, tiles, 2) = <<f, e, 1, 1>>
      /\ TiledShape(s, tiles, 3) = <<b, f, u, v>>
  BY <1>a, <1>4, TwoTiles DEF TiledShape
<1>6. \A i \in DOMAIN s.ops : TiledShape(s, tiles, i) \in Seq(Nat \ {0})
  <2>1. <<b, e, 1, 1>> \in Seq(Nat \ {0}) /\ <<f, e, 1, 1>> \in Seq(Nat \ {0}) /\ <<b, f, u, v>> \in Seq(Nat \ {0})
    OBVIOUS
  <2>2. \A i \in DOMAIN s.ops : i = 1 \/ i = 2 \/ i = 3
    BY <1>3
  <2> QED
    BY <1>5, <2>1, <2>2
<1>7. /\ SizedOps(s.typ, tiled) /\ DOMAIN tiled = DOMAIN s.ops
      /\ \A i \in DOMAIN s.ops : tiled[i].shape = TiledShape(s, tiles, i)
  BY <1>0, <1>6, TiledSized
<1>8. \A i \in 1..3 : Described(tiled[i])
  <2> SUFFICES ASSUME NEW i \in 1..3
               PROVE  Described(tiled[i])
    OBVIOUS
  <2>1. Sized(s.ops[i]) /\ Described(s.ops[i])
    BY <1>3 DEF Keyable
  <2>2. \A tiling : Described(TileSpec(tiling, s.ops[i]))
    BY <2>1, TileDescribed
  <2> QED
    BY <1>3, <2>1, <2>2 DEF TiledOps
<1>b. ASSUME NEW t, Sized(t), Described(t), NEW shape \in Seq(Nat \ {0}), NEW layout, NEW contig
      PROVE  LET n == NewCanon(shape, t.dtype, t.level, layout, contig, t.aligned, t.vector)
             IN  Sized(n) /\ Described(n) /\ n.shape = shape
  <2>1. t.dtype \in Dtypes /\ t.level \in CpuLevels
    BY <1>b DEF Sized
  <2>2. t.aligned \in BOOLEAN /\ t.vector \in VectorSizes(t.dtype, t.level) \cup {16, 32}
    BY <1>b DEF Described
  <2>3. PICK n : n = NewCanon(shape, t.dtype, t.level, layout, contig, t.aligned, t.vector)
    OBVIOUS
  <2>4. Described(n)
    BY <2>1, <2>2, <2>3, NewCanonDescribed
  <2>5. Sized(n) /\ n.shape = shape
    BY <2>1, <2>3, NewCanonSized
  <2> QED
    BY <2>3, <2>4, <2>5
<1>9. ASSUME NEW t, Sized(t), Described(t), Len(t.shape) = 4
      PROVE  Sized(Squeezed(t)) /\ Described(Squeezed(t)) /\ Len(Squeezed(t).shape) = 2
  <2>1. PICK shape : shape = SubSeq(t.shape, 1, 2)
    OBVIOUS
  <2>2. shape \in Seq(Nat \ {0}) /\ Len(shape) = 2
    <3>1. t.shape \in Seq(Nat \ {0}) /\ Len(t.shape) = 4
      BY <1>9 DEF Sized
    <3> QED
      BY <2>1, <3>1, SubSeqProperties
  <2>3. PICK dropped : Squeezed(t) = NewCanon(shape, t.dtype, t.level, dropped.layout, dropped.contig, t.aligned, t.vector)
    BY <2>1 DEF Squeezed
  <2>4. Sized(t) /\ Described(t)
    BY <1>9
  <2> QED
    BY <1>b, <2>2, <2>3, <2>4
<1>10. ASSUME NEW t, Sized(t), Described(t), Len(t.shape) = 2
       PROVE  Described(Transposed(t))
  <2>1. PICK shape : shape = <<t.shape[2], t.shape[1]>>
    OBVIOUS
  <2>2. shape \in Seq(Nat \ {0})
    <3>1. t.shape \in Seq(Nat \ {0}) /\ Len(t.shape) = 2
      BY <1>10 DEF Sized
    <3> QED
      BY <2>1, <3>1
  <2>3. Transposed(t) = NewCanon(shape, t.dtype, t.level, SwapDims(t.layout), t.contig, t.aligned, t.vector)
    BY <2>1 DEF Transposed
  <2>4. Sized(t) /\ Described(t)
    BY <1>10
  <2> QED
    BY <1>b, <2>2, <2>3, <2>4
<1>11. \A i \in 1..3 : Sized(tiled[i]) /\ Len(tiled[i].shape) = 4
  <2>1. \A i \in 1..3 : Sized(tiled[i]) /\ tiled[i].shape = TiledShape(s, tiles, i)
    BY <1>3, <1>7 DEF SizedOps
  <2>2. Len(<<b, e, 1, 1>>) = 4 /\ Len(<<f, e, 1, 1>>) = 4 /\ Len(<<b, f, u, v>>) = 4
    OBVIOUS
  <2>3. \A i \in 1..3 : i = 1 \/ i = 2 \/ i = 3
    OBVIOUS
  <2> QED
    BY <1>5, <2>1, <2>2, <2>3
<1> HIDE DEF tiled
<1>12. /\ Described(Squeezed(tiled[1])) /\ Described(Squeezed(tiled[3]))
       /\ Described(Transposed(Squeezed(tiled[2])))
  <2>1. 1 \in 1..3 /\ 2 \in 1..3 /\ 3 \in 1..3
    OBVIOUS
  <2>2. \A i \in 1..3 : /\ Sized(Squeezed(tiled[i])) /\ Described(Squeezed(tiled[i]))
                        /\ Len(Squeezed(tiled[i]).shape) = 2
    BY <1>8, <1>9, <1>11
  <2> QED
    BY <1>10, <2>1, <2>2
<1>13. /\ c.typ = "Matmul" /\ c.accum = s.accum /\ c.limits = s.limits /\ c.serial = s.serial
       /\ c.ops = <<Squeezed(tiled[1]), Transposed(Squeezed(tiled[2])), Squeezed(tiled[3])>>
  BY DEF SpatialBody, SizedSpec, SpecFields
<1> HIDE DEF c
<1>14. \A i \in DOMAIN c.ops : Described(c.ops[i])
  <2>1. DOMAIN c.ops = 1..3
    BY <1>13
  <2>2. Described(c.ops[1]) /\ Described(c.ops[2]) /\ Described(c.ops[3])
    BY <1>12, <1>13
  <2>3. \A i \in 1..3 : i = 1 \/ i = 2 \/ i = 3
    OBVIOUS
  <2> QED
    BY <2>1, <2>2, <2>3
<1>15. Accumulates("Matmul")
  BY DEF Accumulates
<1>16. Keyable(c)
  BY <1>13, <1>14, <1>15 DEF Keyable
<1>17. SpatialSplit(s).children[1].spec = c
  BY DEF SpatialSplit, Impl, Child, c, tiled, tiles
<1> QED
  BY <1>16, <1>17
\* That the database can tell the Spec come to is inductive, together with Safe and
\* what LoopsAlwaysOnce has: an iteration of a loop,
LEMMA LoopKeepsKeyable ==
    ASSUME Safe, Keyable(spec), NEW tiles, TilesFit(spec, tiles), NEW parallel \in BOOLEAN,
           EnterLoop(LoopOver(spec, tiles, parallel))
    PROVE  Keyable(spec')
<1>1. spec' = BodyOfLoop(spec, tiles, parallel)
  BY DEF EnterLoop, BodyOfLoop
<1>2. SizedSpec(spec)
  BY DEF Safe
<1>3. \A i \in DOMAIN spec.ops : TiledShape(spec, tiles, i) \in Seq(Nat \ {0})
  BY <1>2 DEF TiledShape, TilesFit, TileFits, SizedSpec, SizedOps, Sized
<1> QED
  BY <1>1, <1>2, <1>3, LoopBodyKeyable

\* of a TileOut,
LEMMA TileOutKeepsKeyable ==
    ASSUME Safe, Keyable(spec), TileOut
    PROVE  Keyable(spec')
<1>1. PICK a \in TileOutActions(spec) :
         /\ TileOutApplies(spec, a.shape, a.parallel)
         /\ EnterLoop(LoopOver(spec, TileOutTiles(spec, a.shape), a.parallel))
  BY DEF TileOut
<1>2. TilesFit(spec, TileOutTiles(spec, a.shape))
  BY <1>1, TileOutFits DEF Safe
<1>3. a.parallel \in BOOLEAN
  <2>1. Output(spec).shape \in Seq(Nat \ {0})
    BY OpsCount DEF Safe, SizedSpec, SizedOps, Sized, Output
  <2> QED
    BY <2>1, TileOutActionsAre
<1> QED
  BY <1>1, <1>2, <1>3, LoopKeepsKeyable

\* of a Split,
LEMMA SplitKeepsKeyable ==
    ASSUME Safe, Keyable(spec), Split
    PROVE  Keyable(spec')
<1>1. PICK a \in SplitActions(spec) : EnterLoop(LoopOver(spec, SplitTiles(spec, a.k), FALSE))
  BY DEF Split
<1>2. TilesFit(spec, SplitTiles(spec, a.k))
  <2>1. spec.typ \in {"Matmul"} /\ SizedSpec(spec)
    BY DEF Split, Safe
  <2> QED
    BY <2>1, SplitFits
<1> QED
  BY <1>1, <1>2, LoopKeepsKeyable

\* a SpatialSplit,
LEMMA SpatialKeepsKeyable ==
    ASSUME Safe, Keyable(spec), EnterSpatialSplit
    PROVE  Keyable(spec')
<1>1. /\ spec.typ \in {"Conv"} /\ SizedSpec(spec)
      /\ spec' = SpatialSplit(spec).children[1].spec
  BY DEF EnterSpatialSplit, Safe
<1> QED
  BY <1>1, SpatialBodyKeyable

\* a move,
LEMMA MoveKeepsKeyable ==
    ASSUME Safe, Keyable(spec), Move
    PROVE  Keyable(spec')
<1>1. PICK a \in MoveActions(spec) : MoveApplies(spec, a) /\ \E c \in Range(MoveLet(spec, a).children) : spec' = c.spec
  BY DEF Move
<1>2. PICK c \in Range(MoveLet(spec, a).children) : spec' = c.spec
  BY <1>1
<1> QED
  BY <1>1, <1>2, MovePartsKeyable DEF Safe

\* a ToAccum,
LEMMA AccumKeepsKeyable ==
    ASSUME Safe, Keyable(spec), ZeroThenAccum
    PROVE  Keyable(spec')
<1>1. PICK c \in Range(ToAccum(spec).children) : spec' = c.spec
  BY DEF ZeroThenAccum
<1>2. Accumulates(spec.typ)
  BY DEF ZeroThenAccum
<1> QED
  BY <1>1, <1>2, ToAccumKeyable DEF Safe

\* and every other step.
LEMMA NextKeepsKeyable ==
    ASSUME Safe, Keyable(spec), [Next]_vars
    PROVE  Keyable(spec')
<1>1. ASSUME Place
      PROVE  Keyable(spec')
  BY <1>1 DEF Place
<1>2. ASSUME UNCHANGED vars
      PROVE  Keyable(spec')
  BY <1>2 DEF vars
<1> QED
  BY <1>1, <1>2, TileOutKeepsKeyable, SplitKeepsKeyable, SpatialKeepsKeyable, MoveKeepsKeyable, AccumKeepsKeyable DEF Next

Keyed == Keyable(spec)

\* So does the root.
LEMMA RootKeyable ==
    ASSUME NEW r \in Roots
    PROVE  Keyable(r)
<1>1. /\ r \in SpecRecords /\ \A i \in DOMAIN r.ops : WellLaid(r.ops[i])
      /\ r.accum => Accumulates(r.typ)
      /\ \A l \in 1..4 : r.limits[l] = 0 \/ IsPowerOfTwo(r.limits[l])
  BY WalkAssumption
<1>2. r.serial \in BOOLEAN /\ r.ops \in Seq(Tensors) /\ r.limits \in [1..4 -> Nat]
  BY <1>1 DEF SpecRecords
<1>3. \A i \in DOMAIN r.ops : Described(r.ops[i])
  <2> SUFFICES ASSUME NEW i \in DOMAIN r.ops
               PROVE  Described(r.ops[i])
    OBVIOUS
  <2>1. r.ops[i] \in Tensors
    BY <1>2
  <2> QED
    BY <1>1, <2>1 DEF WellLaid, Tensors, Described
<1>4. \A l \in 1..4 : IsLimit(r.limits[l])
  BY <1>1 DEF IsLimit
<1> QED
  BY <1>1, <1>2, <1>3, <1>4 DEF Keyable

\* KeysAlwaysInvertible: of every Spec that a path comes to, the database's key and point
\* (SurMap::apply of the Spec's surjections) give back that Spec and no other
\* (SurMap::apply_inverse), so no two Specs share an entry: sizes are stored as the
\* exponents of powers of two and limits as their bit lengths, of a Conv's image only what
\* is beyond its filters, and the operands' shapes are worked out from the problem's.
THEOREM KeysAlwaysInvertible ==
    ASSUME OneValueConvs, BinaryRoots
    PROVE  Spec => []KeysInvertible
<1>1. Init => Placed /\ Keyed
  BY InitPlaced, RootKeyable DEF Init, Keyed
<1>2. Init => OfPowers
  BY DEF Init, BinaryRoots, OfPowers
<1>3. Safe /\ Placed /\ [Next]_vars => Placed'
  BY NextKeepsPlaced
<1>4. Safe /\ Placed /\ OfPowers /\ [Next]_vars => OfPowers'
  BY NextKeepsBinary DEF OfPowers
<1>5. Safe /\ Keyed /\ [Next]_vars => Keyed'
  BY NextKeepsKeyable DEF Keyed
<1>6. Safe /\ Laid /\ OfPowers /\ Keyed => KeysInvertible
  <2> SUFFICES ASSUME Safe, Laid, OfPowers, Keyed
               PROVE  KeysInvertible
    OBVIOUS
  <2>1. SizedSpec(spec) /\ LaidSpec(spec) /\ Binary(spec) /\ Keyable(spec)
    BY DEF Safe, Laid, OfPowers, Keyed
  <2>2. PowersOnly(SpecShape(spec))
    BY <2>1, ShapeBinary
  <2>3. SpecAt(KeyOf(spec), PointOf(spec)) = spec
    BY <2>1, PlaceBack
  <2> QED
    BY <2>2, <2>3 DEF KeysInvertible, PowersOnly
<1> QED
  BY LaidAlways, <1>1, <1>2, <1>3, <1>4, <1>5, <1>6, PTL DEF Spec

-----------------------------------------------------------------------------
(* Views stay within their buffers.                                        *)

\* An operand of the shape, from the view's origin on, is inside of the buffer: each of its
\* dimensions runs along one of the buffer's, of its own.
Within(v, shape) ==
    /\ DOMAIN v = ViewFields /\ v.org \in [DOMAIN v.org -> Nat]
    /\ v.dims \in [DOMAIN shape -> DOMAIN v.org]
    /\ \A d, e \in DOMAIN shape : v.dims[d] = v.dims[e] => d = e
    /\ \A d \in DOMAIN shape : /\ v.shape[v.dims[d]] \in Nat
                               /\ v.org[v.dims[d]] + shape[d] <= v.shape[v.dims[d]]

\* A whole buffer is.
LEMMA BufferInside ==
    ASSUME NEW t, t.shape \in Seq(Nat \ {0}), NEW at, NEW rest, NEW filled, NEW kept
    PROVE  Within(Buffer(t, at, rest, filled, kept), t.shape)
<1>1. PICK v : v = Buffer(t, at, rest, filled, kept)
  OBVIOUS
<1>2. PICK shape \in Seq(Nat \ {0}) : shape = t.shape
  OBVIOUS
<1>3. /\ DOMAIN v = ViewFields /\ v.org = [d \in DOMAIN shape |-> 0] /\ v.dims = [d \in DOMAIN shape |-> d]
      /\ v.shape = shape
  BY <1>1, <1>2 DEF Buffer, Zeros, Identity, ViewFields
<1>4. \A d \in DOMAIN shape : shape[d] \in Nat
  OBVIOUS
<1> QED
  BY <1>1, <1>2, <1>3, <1>4 DEF Within

\* A bitwise Move's operand is, as a block.
LEMMA FlatInside ==
    ASSUME NEW v, DOMAIN v = ViewFields, NEW t, t.shape \in Seq(Nat \ {0})
    PROVE  Within(Flat(v, t), t.shape)
<1>1. PICK w : w = Flat(v, t)
  OBVIOUS
<1>2. PICK shape \in Seq(Nat \ {0}) : shape = t.shape
  OBVIOUS
<1>3. /\ DOMAIN w = ViewFields /\ w.org = [d \in DOMAIN shape |-> 0] /\ w.dims = [d \in DOMAIN shape |-> d]
      /\ w.shape = shape
  BY <1>1, <1>2 DEF Flat, Zeros, Identity, ViewFields
<1>4. \A d \in DOMAIN shape : shape[d] \in Nat
  OBVIOUS
<1> QED
  BY <1>1, <1>2, <1>3, <1>4 DEF Within

\* A tile is, when the step to it and its size fit into the operand.
LEMMA TileInside ==
    ASSUME NEW v, NEW shape, Within(v, shape), NEW tile, NEW index, NEW new, DOMAIN new = DOMAIN shape,
           \A d \in DOMAIN shape : /\ shape[d] \in Nat /\ new[d] \in Nat
                                   /\ tile.tiling.steps[d] * index[tile.axes[d]] \in Nat
                                   /\ tile.tiling.steps[d] * index[tile.axes[d]] + new[d] <= shape[d]
    PROVE  Within(TileOf(v, tile, index), new)
<1> DEFINE D == DOMAIN shape
           step == [d \in D |-> tile.tiling.steps[d] * index[tile.axes[d]]]
<1>1. PICK w : w = TileOf(v, tile, index)
  OBVIOUS
<1>2. DOMAIN v = ViewFields /\ v.org \in [DOMAIN v.org -> Nat] /\ DOMAIN v.dims = D /\ v.dims \in [D -> DOMAIN v.org]
  BY DEF Within
<1>3. /\ DOMAIN w = ViewFields /\ w.shape = v.shape /\ w.dims = v.dims
      /\ w.org = [b \in DOMAIN v.org |-> v.org[b] + Along(v, b, step)]
  BY <1>1, <1>2 DEF TileOf, ViewFields
<1>4. step \in [D -> Nat] /\ \A d \in D : step[d] + new[d] <= shape[d]
  OBVIOUS
<1> HIDE DEF step
<1>5. ASSUME NEW d \in D
      PROVE  Along(v, v.dims[d], step) = step[d]
  <2>1. PICK e : e = CHOOSE c \in DOMAIN v.dims : v.dims[c] = v.dims[d]
    OBVIOUS
  <2>2. e \in D /\ v.dims[e] = v.dims[d]
    BY <1>2, <2>1
  <2>3. e = d
    BY <2>2 DEF Within
  <2>4. v.dims[d] \in Range(v.dims)
    BY <1>2 DEF Range
  <2> QED
    BY <2>1, <2>3, <2>4 DEF Along
<1>6. ASSUME NEW b
      PROVE  Along(v, b, step) \in Nat
  <2>1. CASE b \in Range(v.dims)
    <3>1. PICK d \in D : v.dims[d] = b
      BY <1>2, <2>1 DEF Range
    <3> QED
      BY <1>4, <1>5, <3>1
  <2>2. CASE b \notin Range(v.dims)
    BY <2>2 DEF Along
  <2> QED
    BY <2>1, <2>2
<1>7. w.org \in [DOMAIN w.org -> Nat] /\ DOMAIN w.org = DOMAIN v.org
  BY <1>2, <1>3, <1>6
<1>8. ASSUME NEW d \in D
      PROVE  /\ w.shape[w.dims[d]] \in Nat
             /\ w.org[w.dims[d]] + new[d] <= w.shape[w.dims[d]]
  <2>1. PICK b : b = v.dims[d] /\ b \in DOMAIN v.org
    BY <1>2
  <2>2. w.org[b] = v.org[b] + step[d]
    BY <1>3, <1>5, <2>1
  <2>3. v.shape[b] \in Nat /\ v.org[b] + shape[d] <= v.shape[b]
    BY <2>1 DEF Within
  <2>4. PICK x \in Nat, y \in Nat, z \in Nat, p \in Nat, q \in Nat :
            x = v.org[b] /\ y = step[d] /\ z = new[d] /\ p = shape[d] /\ q = v.shape[b]
    BY <1>2, <1>4, <2>1, <2>3
  <2>5. y + z <= p
    BY <1>4, <2>4
  <2>6. x + p <= q
    BY <2>3, <2>4
  <2>7. (x + y) + z <= q
    BY <2>5, <2>6
  <2> QED
    BY <1>3, <2>1, <2>2, <2>3, <2>4, <2>7
<1>9. \A d, e \in DOMAIN new : w.dims[d] = w.dims[e] => d = e
  BY <1>3 DEF Within
<1> QED
  BY <1>1, <1>2, <1>3, <1>7, <1>8, <1>9 DEF Within

\* The first two of four dimensions are,
LEMMA SqueezeInside ==
    ASSUME NEW v, NEW shape, Within(v, shape), DOMAIN shape = 1..4, NEW new, DOMAIN new = 1..2,
           new[1] = shape[1], new[2] = shape[2]
    PROVE  Within(SqueezeView(v), new)
<1>1. PICK w : w = SqueezeView(v)
  OBVIOUS
<1>2. DOMAIN v = ViewFields /\ v.org \in [DOMAIN v.org -> Nat] /\ v.dims \in [1..4 -> DOMAIN v.org]
  BY DEF Within
<1>3. DOMAIN w = ViewFields /\ w.shape = v.shape /\ w.org = v.org /\ w.dims = SubSeq(v.dims, 1, 2)
  BY <1>1, <1>2 DEF SqueezeView, ViewFields
<1>4. w.dims \in [1..2 -> DOMAIN v.org] /\ w.dims[1] = v.dims[1] /\ w.dims[2] = v.dims[2]
  BY <1>2, <1>3, FirstTwo
<1>5. \A d \in 1..2 : d \in 1..4 /\ w.dims[d] = v.dims[d] /\ new[d] = shape[d]
  <2>1. \A d \in 1..2 : d = 1 \/ d = 2
    OBVIOUS
  <2> QED
    BY <1>4, <2>1
<1> QED
  BY <1>1, <1>2, <1>3, <1>4, <1>5 DEF Within

\* and two dimensions the other way around.
LEMMA TransposeInside ==
    ASSUME NEW v, NEW shape, Within(v, shape), DOMAIN shape = 1..2, NEW new, DOMAIN new = 1..2,
           new[1] = shape[2], new[2] = shape[1]
    PROVE  Within(TransposeView(v), new)
<1>1. PICK w : w = TransposeView(v)
  OBVIOUS
<1>2. DOMAIN v = ViewFields /\ v.org \in [DOMAIN v.org -> Nat] /\ v.dims \in [1..2 -> DOMAIN v.org]
  BY DEF Within
<1>3. DOMAIN w = ViewFields /\ w.shape = v.shape /\ w.org = v.org /\ w.dims = Reverse(v.dims)
  BY <1>1, <1>2 DEF TransposeView, ViewFields
<1>4. w.dims \in [1..2 -> DOMAIN v.org] /\ w.dims[1] = v.dims[2] /\ w.dims[2] = v.dims[1]
  BY <1>2, <1>3, TwoReversed
<1>5. \A d \in 1..2 : d = 1 \/ d = 2
  OBVIOUS
<1>6. 1 \in 1..2 /\ 2 \in 1..2
  OBVIOUS
<1>7. \A d \in 1..2 : /\ v.shape[v.dims[d]] \in Nat
                      /\ v.org[v.dims[d]] + shape[d] <= v.shape[v.dims[d]]
  BY DEF Within
<1>8. \A d \in 1..2 : /\ w.shape[w.dims[d]] \in Nat
                      /\ w.org[w.dims[d]] + new[d] <= w.shape[w.dims[d]]
  BY <1>3, <1>4, <1>5, <1>6, <1>7
<1>9. \A d, e \in 1..2 : w.dims[d] = w.dims[e] => d = e
  BY <1>4, <1>5, <1>6 DEF Within
<1> QED
  BY <1>1, <1>2, <1>3, <1>4, <1>8, <1>9 DEF Within

\* Moves, and kernels, start from views that are.
LEMMA ViewsInside ==
    ASSUME SizedSpec(spec), ViewsSized, \A i \in DOMAIN spec.ops : Within(views[i], spec.ops[i].shape)
    PROVE  \A i \in DOMAIN spec.ops : Within(Views[i], spec.ops[i].shape)
<1> SUFFICES ASSUME NEW i \in DOMAIN spec.ops
             PROVE  Within(Views[i], spec.ops[i].shape)
  OBVIOUS
<1>1. spec.ops[i].shape \in Seq(Nat \ {0}) /\ DOMAIN views = DOMAIN spec.ops /\ DOMAIN views[i] = ViewFields
  BY DEF SizedSpec, SizedOps, Sized, ViewsSized
<1>2. Within(Flat(views[i], spec.ops[i]), spec.ops[i].shape)
  BY <1>1, FlatInside
<1> QED
  BY <1>1, <1>2 DEF Views

\* An index is below the number of a tile's steps along its axis.
LEMMA IndexBelow ==
    ASSUME NEW tiles, EvenTiles(spec, tiles), NEW index \in Indices(tiles),
           NEW n \in DOMAIN tiles, NEW d \in DOMAIN tiles[n].axes
    PROVE  index[tiles[n].axes[d]] \in Nat /\ index[tiles[n].axes[d]] < TileSteps(spec, tiles[n], d)
<1> DEFINE axis == tiles[n].axes[d]
           steps == TileSteps(spec, tiles[n], d)
           loops == EmittedLoops(spec, tiles)
           found == {x[2] : x \in {x \in loops : x[1] = axis}}
           StepsOf(a) == Max({1} \cup {x[2] : x \in {x \in loops : x[1] = a}})
           most == Max({StepsOf(a) : a \in AxesOf(tiles)})
<1>1. axis \in AxesOf(tiles)
  BY DEF AxesOf, Range
<1>2. index[axis] \in Nat
  BY <1>1, IndexIs
<1>3. index[axis] < StepsOf(axis)
  <2>1. index \in {f \in [AxesOf(tiles) -> 0..most - 1] : \A a \in AxesOf(tiles) : f[a] < StepsOf(a)}
    BY DEF Indices
  <2> HIDE DEF most, StepsOf
  <2> QED
    BY <1>1, <2>1
<1>4. steps \in Nat \ {0}
  <2>1. EvenTile(spec, tiles[n])
    BY DEF EvenTiles
  <2> QED
    BY <2>1, EvenSteps
<1>5. \A y \in found : y = steps
  <2>1. SUFFICES ASSUME NEW x \in loops, x[1] = axis
                 PROVE  x[2] = steps
    <3> HIDE DEF loops, steps, axis
    <3> QED
      BY DEF steps, axis
  <2>2. PICK m \in DOMAIN tiles : \E e \in DOMAIN tiles[m].axes : x = <<tiles[m].axes[e], TileSteps(spec, tiles[m], e)>>
    BY LoopsAre
  <2>3. PICK e \in DOMAIN tiles[m].axes : x = <<tiles[m].axes[e], TileSteps(spec, tiles[m], e)>>
    BY <2>2
  <2>4. tiles[m].axes[e] = axis /\ x[2] = TileSteps(spec, tiles[m], e)
    BY <2>1, <2>3
  <2> QED
    BY <2>4 DEF EvenTiles
<1>6. steps # 1 => steps \in found
  <2>1. HAVE steps # 1
  <2>2. <<axis, steps>> \in loops
    BY <2>1, LoopsAre
  <2> HIDE DEF loops, axis, steps
  <2>3. <<axis, steps>>[1] = axis /\ <<axis, steps>>[2] = steps
    OBVIOUS
  <2> QED
    BY <2>2, <2>3
<1> HIDE DEF steps, found
<1>7. {1} \cup found = {1, steps}
  BY <1>5, <1>6
<1>8. Max({1, steps}) = steps
  <2>1. steps \in {1, steps} /\ \A y \in {1, steps} : steps >= y
    BY <1>4
  <2>2. \A x \in {1, steps} : (\A y \in {1, steps} : x >= y) => x = steps
    BY <1>4
  <2> QED
    BY <2>1, <2>2 DEF Max
<1>9. StepsOf(axis) = steps
  BY <1>7, <1>8 DEF found
<1> HIDE DEF StepsOf, axis
<1> QED
  BY <1>2, <1>3, <1>9 DEF axis, steps

\* Tiles that touch: each starts where the one before it ends.
Touching(tiles) == \A t \in Range(tiles) : t.tiling.shape = t.tiling.steps

\* Steps to a tile, and the tile, fit into what it divides.
LEMMA StepFits ==
    ASSUME NEW q \in Nat, NEW m \in Nat, NEW i \in Nat, i < q
    PROVE  m * i \in Nat /\ m * i + m <= q * m
<1>1. PICK e \in Nat : q = i + 1 + e
  <2>1. q - i - 1 \in Nat /\ q = i + 1 + (q - i - 1)
    OBVIOUS
  <2> QED
    BY <2>1
<1>2. q * m = i * m + m + e * m /\ e * m \in Nat /\ m * i = i * m /\ i * m \in Nat
  BY <1>1
<1> QED
  BY <1>2

\* The body's operands are within their buffers if the Spec's are.
LEMMA BodyWithin ==
    ASSUME SizedSpec(spec), ViewsSized, \A i \in DOMAIN spec.ops : Within(views[i], spec.ops[i].shape),
           NEW tiles, EvenTiles(spec, tiles), Touching(tiles), NEW index \in Indices(tiles),
           NEW i \in DOMAIN spec.ops
    PROVE  Within(BodyViews(tiles, index)[i], TiledShape(spec, tiles, i))
<1> DEFINE shape == spec.ops[i].shape
           body == BodyViews(tiles, index)
<1>1. Within(Views[i], shape)
  BY ViewsInside
<1>2. CASE ~IsTiled(tiles, i)
  <2>1. body[i] = Views[i] /\ TiledShape(spec, tiles, i) = shape
    BY <1>2 DEF BodyViews, TiledShape
  <2> QED
    BY <1>1, <2>1
<1>3. CASE IsTiled(tiles, i)
  <2>1. PICK n \in DOMAIN tiles : TileFor(tiles, i) = tiles[n] /\ tiles[n].operand = i
    <3>1. PICK n \in DOMAIN tiles : tiles[n].operand = i
      BY <1>3 DEF IsTiled
    <3> QED
      BY <3>1 DEF TileFor
  <2>2. PICK tile : tile = tiles[n]
    OBVIOUS
  <2>3. EvenTile(spec, tile) /\ tile.operand = i /\ tile.tiling.shape = tile.tiling.steps
    <3>1. tile \in Range(tiles)
      BY <2>2 DEF Range
    <3> QED
      BY <2>1, <2>2, <3>1 DEF EvenTiles, Touching
  <2>4. /\ body[i] = TileOf(Views[i], tile, index) /\ TiledShape(spec, tiles, i) = tile.tiling.steps
    BY <1>3, <2>1, <2>2, <2>3 DEF BodyViews, TiledShape
  <2>5. DOMAIN tile.axes = DOMAIN shape /\ DOMAIN tile.tiling.steps = DOMAIN shape /\ shape \in Seq(Nat \ {0})
    BY <2>3 DEF EvenTile
  <2>6. ASSUME NEW d \in DOMAIN shape
        PROVE  /\ shape[d] \in Nat /\ tile.tiling.steps[d] \in Nat
               /\ tile.tiling.steps[d] * index[tile.axes[d]] \in Nat
               /\ tile.tiling.steps[d] * index[tile.axes[d]] + tile.tiling.steps[d] <= shape[d]
    <3>1. /\ TileSteps(spec, tile, d) \in Nat \ {0} /\ tile.tiling.steps[d] \in Nat \ {0}
          /\ shape[d] = TileSteps(spec, tile, d) * tile.tiling.steps[d]
      BY <2>3, <2>5, EvenSteps
    <3>2. index[tile.axes[d]] \in Nat /\ index[tile.axes[d]] < TileSteps(spec, tile, d)
      BY <2>2, <2>5, IndexBelow
    <3>3. PICK q \in Nat, m \in Nat, j \in Nat :
              q = TileSteps(spec, tile, d) /\ m = tile.tiling.steps[d] /\ j = index[tile.axes[d]]
      BY <3>1, <3>2
    <3>4. m * j \in Nat /\ m * j + m <= q * m
      BY <3>2, <3>3, StepFits
    <3>5. q * m \in Nat
      OBVIOUS
    <3> QED
      BY <3>1, <3>3, <3>4, <3>5
  <2> HIDE DEF shape, body
  <2>7. Within(TileOf(Views[i], tile, index), tile.tiling.steps)
    BY <1>1, <2>5, <2>6, TileInside
  <2> QED
    BY <2>4, <2>7 DEF body
<1> QED
  BY <1>2, <1>3

\* Each operand of the Spec is within its buffer.
Contained == \A i \in DOMAIN spec.ops : Within(views[i], spec.ops[i].shape)

\* What even, touching tiles make of operands has a shape.
LEMMA TiledShapes ==
    ASSUME NEW s, SizedSpec(s), NEW tiles, EvenTiles(s, tiles), Touching(tiles), NEW i \in DOMAIN s.ops
    PROVE  TiledShape(s, tiles, i) \in Seq(Nat \ {0})
<1>1. CASE ~IsTiled(tiles, i)
  BY <1>1 DEF TiledShape, SizedSpec, SizedOps, Sized
<1>2. CASE IsTiled(tiles, i)
  <2>1. PICK n \in DOMAIN tiles : TileFor(tiles, i) = tiles[n] /\ tiles[n].operand = i
    <3>1. PICK n \in DOMAIN tiles : tiles[n].operand = i
      BY <1>2 DEF IsTiled
    <3> QED
      BY <3>1 DEF TileFor
  <2>2. tiles[n] \in Range(tiles)
    BY DEF Range
  <2>3. TiledShape(s, tiles, i) = tiles[n].tiling.steps
    BY <1>2, <2>1, <2>2 DEF TiledShape, Touching
  <2>4. PICK shape \in Seq(Nat \ {0}) : tiles[n].tiling.steps \in [DOMAIN shape -> Nat \ {0}]
    BY DEF EvenTiles, EvenTile
  <2>5. PICK f : f = tiles[n].tiling.steps
    OBVIOUS
  <2>6. f \in [1..Len(shape) -> Nat \ {0}] /\ Len(shape) \in Nat
    BY <2>4, <2>5
  <2>7. f \in Seq(Nat \ {0})
    BY <2>6, SeqDef
  <2> QED
    BY <2>3, <2>5, <2>7
<1> QED
  BY <1>1, <1>2

\* A loop over such tiles keeps the operands within their buffers.
LEMMA LoopKeepsContained ==
    ASSUME Safe, Contained, NEW tiles, EvenTiles(spec, tiles), Touching(tiles), NEW parallel \in BOOLEAN,
           EnterLoop(LoopOver(spec, tiles, parallel))
    PROVE  Contained'
<1>1. PICK c : c = BodyOfLoop(spec, tiles, parallel)
  OBVIOUS
<1>2. PICK index \in Indices(tiles) : spec' = c /\ views' = BodyViews(tiles, index)
  BY <1>1 DEF EnterLoop, BodyOfLoop, LoopOver, Impl
<1>3. SizedSpec(spec) /\ ViewsSized /\ \A i \in DOMAIN spec.ops : Within(views[i], spec.ops[i].shape)
  BY DEF Safe, Flows, ViewsSized, Contained
<1>4. \A i \in DOMAIN spec.ops : TiledShape(spec, tiles, i) \in Seq(Nat \ {0})
  BY <1>3, TiledShapes
<1>5. DOMAIN c.ops = DOMAIN spec.ops /\ \A i \in DOMAIN spec.ops : c.ops[i].shape = TiledShape(spec, tiles, i)
  BY <1>1, <1>3, <1>4, LoopBodySized
<1>6. \A i \in DOMAIN spec.ops : Within(BodyViews(tiles, index)[i], TiledShape(spec, tiles, i))
  BY <1>3, BodyWithin
<1> QED
  BY <1>2, <1>5, <1>6 DEF Contained

\* Tiles of Matmuls, Moves and Zeros touch; a Conv's, of the image, overlap.
LEMMA TileOutTouches ==
    ASSUME NEW s, NEW out, s.typ \in {"Zero", "Move", "Matmul"}
    PROVE  Touching(TileOutTiles(s, out))
<1> DEFINE tilings == InputTilings(s, SimpleTiling(out))
<1>1. \A i \in DOMAIN tilings : tilings[i].tiling.shape = tilings[i].tiling.steps
  <2>1. CASE s.typ = "Zero"
    BY <2>1 DEF InputTilings
  <2>2. CASE s.typ = "Move"
    <3>1. DOMAIN tilings = 1..1 /\ tilings[1].tiling.shape = out /\ tilings[1].tiling.steps = out
      BY <2>2 DEF InputTilings, SimpleTiling, SlidingTiling
    <3>2. \A i \in 1..1 : i = 1
      OBVIOUS
    <3> QED
      BY <3>1, <3>2
  <2>3. CASE s.typ = "Matmul"
    <3>1. /\ DOMAIN tilings = 1..2
          /\ tilings[1].tiling.shape = tilings[1].tiling.steps /\ tilings[2].tiling.shape = tilings[2].tiling.steps
      BY <2>3 DEF InputTilings, SimpleTiling, SlidingTiling
    <3>2. \A i \in 1..2 : i = 1 \/ i = 2
      OBVIOUS
    <3> HIDE DEF tilings
    <3> QED
      BY <3>1, <3>2
  <2> QED
    BY <2>1, <2>2, <2>3
<1> HIDE DEF tilings
<1>2. \A i : Cuts(s, out, i) => i \in DOMAIN tilings /\ InputTile(s, out, i).tiling = tilings[i].tiling
  BY DEF Cuts, InputTile, LoopTile, tilings
<1>3. OutputTile(s, out).tiling.shape = OutputTile(s, out).tiling.steps
  BY DEF OutputTile, LoopTile, SimpleTiling
<1>4. ASSUME NEW t \in Range(TileOutTiles(s, out))
      PROVE  t.tiling.shape = t.tiling.steps
  <2>1. t = OutputTile(s, out) \/ \E i \in 1..2 : Cuts(s, out, i) /\ t = InputTile(s, out, i)
    BY TileOutTilesAre
  <2> QED
    BY <1>1, <1>2, <1>3, <2>1
<1> QED
  BY <1>4 DEF Touching

\* Two simple tiles do.
LEMMA TwoTouch ==
    ASSUME NEW tiles, DOMAIN tiles = 1..2, tiles[1].tiling.shape = tiles[1].tiling.steps,
           tiles[2].tiling.shape = tiles[2].tiling.steps
    PROVE  Touching(tiles)
<1>1. \A n \in 1..2 : n = 1 \/ n = 2
  OBVIOUS
<1>2. \A t \in Range(tiles) : t = tiles[1] \/ t = tiles[2]
  BY <1>1 DEF Range
<1> QED
  BY <1>2 DEF Touching

\* So TileOut keeps operands within their buffers,
LEMMA TileOutKeepsContained ==
    ASSUME Safe, Placed, Binary(spec), Contained, TileOut
    PROVE  Contained'
<1>1. PICK a \in TileOutActions(spec) : /\ TileOutApplies(spec, a.shape, a.parallel)
                                        /\ EnterLoop(LoopOver(spec, TileOutTiles(spec, a.shape), a.parallel))
  BY DEF TileOut
<1>2. SizedSpec(spec)
  BY DEF Safe
<1>3. TileOutTiles(spec, a.shape) \in LoopTilings
  BY <1>1 DEF LoopTilings
<1>4. EvenTiles(spec, TileOutTiles(spec, a.shape))
  BY <1>2, <1>3, TilingsEven
<1>5. a.parallel \in BOOLEAN /\ spec.typ \in {"Zero", "Move", "Matmul"}
  BY <1>1, <1>2, OfferedTile
<1> QED
  BY <1>1, <1>4, <1>5, TileOutTouches, LoopKeepsContained

\* and so does Split,
LEMMA SplitKeepsContained ==
    ASSUME Safe, Binary(spec), Contained, Split
    PROVE  Contained'
<1>1. PICK a \in SplitActions(spec) : EnterLoop(LoopOver(spec, SplitTiles(spec, a.k), FALSE))
  BY DEF Split
<1>2. spec.typ \in {"Matmul"} /\ SizedSpec(spec)
  BY DEF Split, Safe
<1>3. EvenTiles(spec, SplitTiles(spec, a.k))
  BY <1>2, SplitEven
<1>4. Touching(SplitTiles(spec, a.k))
  <2>1. PICK tiles : tiles = SplitTiles(spec, a.k)
    OBVIOUS
  <2>2. DOMAIN tiles = 1..2 /\ tiles[1].tiling.shape = tiles[1].tiling.steps /\ tiles[2].tiling.shape = tiles[2].tiling.steps
    BY <2>1 DEF SplitTiles, LoopTile, SimpleTiling
  <2> QED
    BY <2>1, <2>2, TwoTouch
<1>5. PICK no \in BOOLEAN : no = FALSE
  OBVIOUS
<1> QED
  BY <1>1, <1>3, <1>4, <1>5, LoopKeepsContained

\* and a SpatialSplit.
LEMMA SpatialKeepsContained ==
    ASSUME Safe, Binary(spec), Contained, EnterSpatialSplit
    PROVE  Contained'
<1>1. spec.typ \in {"Conv"} /\ SizedSpec(spec) /\ spec' = SpatialSplit(spec).children[1].spec /\ CanSpatialSplit(spec)
  BY DEF EnterSpatialSplit, Safe
<1>2. PICK c : c = SpatialSplit(spec).children[1].spec
  OBVIOUS
<1>3. /\ SizedSpec(c) /\ c.typ \in {"Matmul"}
      /\ MatmulShapes(c.ops, spec.ops[1].shape[1], spec.ops[1].shape[2], spec.ops[2].shape[1])
  BY <1>1, <1>2, SpatialBodySized
<1>4. DOMAIN c.ops = 1..3 /\ DOMAIN spec.ops = 1..3
  BY <1>1, <1>3, MatrixRanks, AgreeMeans DEF SizedSpec
<1>5. PICK b \in Nat \ {0}, f \in Nat \ {0}, e \in Nat \ {0}, h \in Nat \ {0}, w \in Nat \ {0},
           y \in Nat \ {0}, x \in Nat \ {0} : ConvShapes(spec.ops, b, f, e, h, w, y, x)
  BY <1>1, AgreeConv DEF SizedSpec
<1>6. /\ spec.ops[1].shape = <<b, e, h, w>> /\ spec.ops[2].shape = <<f, e, y, x>>
      /\ spec.ops[3].shape = <<b, f, 1 + h - y, 1 + w - x>>
  BY <1>5 DEF ConvShapes
<1>7. c.ops[1].shape = <<b, e>> /\ c.ops[2].shape = <<e, f>> /\ c.ops[3].shape = <<b, f>>
  BY <1>3, <1>6 DEF MatmulShapes
<1>8. PICK tiles : tiles = SpatialTiles(spec)
  OBVIOUS
<1>9. /\ DOMAIN tiles = 1..2 /\ tiles[1].operand = 1 /\ tiles[2].operand = 2
      /\ tiles[1].tiling.shape = tiles[1].tiling.steps /\ tiles[2].tiling.shape = tiles[2].tiling.steps
      /\ tiles[1].tiling.shape = [d \in 1..4 |-> IF d <= 2 THEN spec.ops[1].shape[d] ELSE 1]
      /\ tiles[2].tiling.shape = [d \in 1..4 |-> IF d <= 2 THEN spec.ops[2].shape[d] ELSE 1]
  BY <1>8 DEF SpatialTiles, LoopTile, SimpleTiling
<1>10. PICK s1, s2, s3 : s1 = TiledShape(spec, tiles, 1) /\ s2 = TiledShape(spec, tiles, 2) /\ s3 = TiledShape(spec, tiles, 3)
  OBVIOUS
<1>11. /\ s1 = [d \in 1..4 |-> IF d <= 2 THEN spec.ops[1].shape[d] ELSE 1]
       /\ s2 = [d \in 1..4 |-> IF d <= 2 THEN spec.ops[2].shape[d] ELSE 1]
       /\ s3 = spec.ops[3].shape
  BY <1>9, <1>10, TwoTiles DEF TiledShape
<1>12. /\ DOMAIN s1 = 1..4 /\ DOMAIN s2 = 1..4 /\ DOMAIN s3 = 1..4
       /\ s1[1] = b /\ s1[2] = e /\ s2[1] = f /\ s2[2] = e /\ s3[1] = b /\ s3[2] = f
  BY <1>6, <1>11
<1>13. PICK index \in Indices(tiles) :
          views' = <<SqueezeView(BodyViews(tiles, index)[1]), TransposeView(SqueezeView(BodyViews(tiles, index)[2])),
                     SqueezeView(BodyViews(tiles, index)[3])>>
  BY <1>8 DEF EnterSpatialSplit
<1>14. PICK body : body = BodyViews(tiles, index)
  OBVIOUS
<1>15. EvenTiles(spec, tiles) /\ Touching(tiles)
  BY <1>1, <1>8, <1>9, SpatialEven, TwoTouch
<1>16. Within(body[1], s1) /\ Within(body[2], s2) /\ Within(body[3], s3)
  <2>1. SizedSpec(spec) /\ ViewsSized /\ \A i \in DOMAIN spec.ops : Within(views[i], spec.ops[i].shape)
    BY DEF Safe, Flows, ViewsSized, Contained
  <2>2. \A i \in DOMAIN spec.ops : Within(BodyViews(tiles, index)[i], TiledShape(spec, tiles, i))
    BY <1>15, <2>1, BodyWithin
  <2>3. 1 \in DOMAIN spec.ops /\ 2 \in DOMAIN spec.ops /\ 3 \in DOMAIN spec.ops
    BY <1>4
  <2> QED
    BY <1>10, <1>14, <2>2, <2>3
<1>17. PICK n1, n2, n3, n4 : n1 = <<b, e>> /\ n2 = <<f, e>> /\ n3 = <<b, f>> /\ n4 = <<e, f>>
  OBVIOUS
<1>18. /\ DOMAIN n1 = 1..2 /\ DOMAIN n2 = 1..2 /\ DOMAIN n3 = 1..2 /\ DOMAIN n4 = 1..2
       /\ n1[1] = b /\ n1[2] = e /\ n2[1] = f /\ n2[2] = e /\ n3[1] = b /\ n3[2] = f /\ n4[1] = e /\ n4[2] = f
  BY <1>17
<1>19. Within(SqueezeView(body[1]), n1)
  BY <1>12, <1>16, <1>18, SqueezeInside
<1>20. Within(SqueezeView(body[2]), n2)
  BY <1>12, <1>16, <1>18, SqueezeInside
<1>21. Within(SqueezeView(body[3]), n3)
  BY <1>12, <1>16, <1>18, SqueezeInside
<1>22. Within(TransposeView(SqueezeView(body[2])), n4)
  BY <1>18, <1>20, TransposeInside
<1>23. \A i \in 1..3 : i = 1 \/ i = 2 \/ i = 3
  OBVIOUS
<1>24. views'[1] = SqueezeView(body[1]) /\ views'[2] = TransposeView(SqueezeView(body[2])) /\ views'[3] = SqueezeView(body[3])
  BY <1>13, <1>14
<1>25. \A i \in 1..3 : Within(views'[i], c.ops[i].shape)
  BY <1>7, <1>17, <1>19, <1>21, <1>22, <1>23, <1>24
<1> QED
  BY <1>1, <1>2, <1>4, <1>25 DEF Contained

\* A move's new operand is: a whole buffer, or the view that was moved.
LEMMA MoveIsContained ==
    ASSUME Safe, Contained, Move
    PROVE  \E a \in MoveActions(spec) : \E c \in Range(MoveLet(spec, a).children) : \E inner :
               /\ MoveApplies(spec, a) /\ spec' = c.spec /\ views' = PartViews(c, inner)
               /\ Within(inner, spec.ops[a.source].shape)
<1>1. PICK a \in MoveActions(spec) :
          /\ MoveApplies(spec, a)
          /\ \E impl \in {MoveLet(spec, a)} : \E child \in Range(impl.children) :
                LET source == Views[a.source]
                    isOutput == a.source = OutputIdx(spec)
                    new == Buffer(impl.introduced[1], source.at, source.rest,
                                  CASE child.part = "prologue" -> FALSE
                                    [] child.part = "body" -> source.filled /\ GensPrologue(spec, a)
                                    [] child.part = "epilogue" -> TRUE,
                                  isOutput /\ child.part = "body" => source.kept /\ GensEpilogue(spec, a))
                    inner == IF IsCacheView(spec, a) THEN source ELSE new
                IN  /\ spec' = child.spec
                    /\ views' = [i \in DOMAIN child.from |->
                                    IF child.from[i] = 0 THEN inner ELSE Views[child.from[i]]]
                    /\ used' = [l \in 1..4 |-> used[l] + Allocated(impl)[l]]
                    /\ UNCHANGED <<root, kernel>>
  BY DEF Move
<1> DEFINE source == Views[a.source]
           NewFor(impl, c) ==
               Buffer(impl.introduced[1], source.at, source.rest,
                      CASE c.part = "prologue" -> FALSE
                        [] c.part = "body" -> source.filled /\ GensPrologue(spec, a)
                        [] c.part = "epilogue" -> TRUE,
                      a.source = OutputIdx(spec) /\ c.part = "body" => source.kept /\ GensEpilogue(spec, a))
           Inner(c) == IF IsCacheView(spec, a) THEN source ELSE NewFor(MoveLet(spec, a), c)
           Goes(impl, c) ==
               /\ spec' = c.spec
               /\ views' = [i \in DOMAIN c.from |->
                               IF c.from[i] = 0
                               THEN IF IsCacheView(spec, a) THEN source ELSE NewFor(impl, c) ELSE Views[c.from[i]]]
<1>2. \E impl \in {MoveLet(spec, a)} : \E c \in Range(impl.children) : Goes(impl, c)
  BY <1>1
<1>3. PICK c \in Range(MoveLet(spec, a).children) : Goes(MoveLet(spec, a), c)
  <2> HIDE DEF Goes
  <2> QED
    BY <1>2
<1>4. spec' = c.spec /\ views' = PartViews(c, Inner(c))
  BY <1>3 DEF PartViews
<1>5. /\ a.source \in DOMAIN spec.ops
      /\ MovedOperand(spec, a).shape = spec.ops[a.source].shape /\ MovedOperand(spec, a).shape \in Seq(Nat \ {0})
  BY MovedIs DEF Safe, Sized
<1>6. MoveLet(spec, a).introduced[1] = MovedOperand(spec, a)
  BY DEF MoveLet, MoveLetOf, Impl
<1>7. Within(NewFor(MoveLet(spec, a), c), spec.ops[a.source].shape)
  <2>1. \A at, rest, filled, kept :
            Within(Buffer(MovedOperand(spec, a), at, rest, filled, kept), MovedOperand(spec, a).shape)
    BY <1>5, BufferInside
  <2> QED
    BY <1>5, <1>6, <2>1
<1>8. Within(source, spec.ops[a.source].shape)
  <2>1. SizedSpec(spec) /\ ViewsSized /\ \A i \in DOMAIN spec.ops : Within(views[i], spec.ops[i].shape)
    BY DEF Safe, Flows, ViewsSized, Contained
  <2> QED
    BY <1>5, <2>1, ViewsInside
<1> HIDE DEF NewFor, source
<1>9. Within(Inner(c), spec.ops[a.source].shape)
  BY <1>7, <1>8
<1> HIDE DEF Inner
<1> QED
  BY <1>1, <1>4, <1>9

\* So moves keep operands within their buffers,
LEMMA MoveKeepsContained ==
    ASSUME Safe, Contained, Move
    PROVE  Contained'
<1>1. PICK a \in MoveActions(spec) : \E c \in Range(MoveLet(spec, a).children) : \E inner :
               /\ MoveApplies(spec, a) /\ spec' = c.spec /\ views' = PartViews(c, inner)
               /\ Within(inner, spec.ops[a.source].shape)
  BY MoveIsContained
<1>2. PICK c \in Range(MoveLet(spec, a).children) : \E inner :
               /\ MoveApplies(spec, a) /\ spec' = c.spec /\ views' = PartViews(c, inner)
               /\ Within(inner, spec.ops[a.source].shape)
  BY <1>1
<1>3. PICK inner : /\ MoveApplies(spec, a) /\ spec' = c.spec /\ views' = PartViews(c, inner)
                   /\ Within(inner, spec.ops[a.source].shape)
  BY <1>2
<1>4. SizedSpec(spec) /\ DOMAIN c.from = DOMAIN c.spec.ops /\ ShapesFrom(spec, a.source, c)
  <2>1. SizedSpec(spec)
    BY DEF Safe
  <2>2. FromPerOperand(c)
    BY <1>3, <2>1, MoveParts
  <2> QED
    BY <2>1, <2>2, MoveShapes DEF FromPerOperand
<1>5. \A i \in DOMAIN spec.ops : Within(Views[i], spec.ops[i].shape)
  <2>1. SizedSpec(spec) /\ ViewsSized /\ \A i \in DOMAIN spec.ops : Within(views[i], spec.ops[i].shape)
    BY DEF Safe, Flows, ViewsSized, Contained
  <2> QED
    BY <2>1, ViewsInside
<1>6. ASSUME NEW i \in DOMAIN c.from
      PROVE  Within(views'[i], c.spec.ops[i].shape)
  <2>1. CASE c.from[i] = 0
    <3>1. views'[i] = inner /\ c.spec.ops[i].shape = spec.ops[a.source].shape
      BY <1>3, <1>4, <2>1 DEF PartViews, ShapesFrom
    <3> QED
      BY <1>3, <3>1
  <2>2. CASE c.from[i] # 0
    <3>1. views'[i] = Views[c.from[i]] /\ c.from[i] \in DOMAIN spec.ops /\ c.spec.ops[i].shape = spec.ops[c.from[i]].shape
      BY <1>3, <1>4, <2>2 DEF PartViews, ShapesFrom
    <3> QED
      BY <1>5, <3>1
  <2> QED
    BY <2>1, <2>2
<1> QED
  BY <1>3, <1>4, <1>6 DEF Contained

\* a ToAccum,
LEMMA AccumKeepsContained ==
    ASSUME Safe, Contained, ZeroThenAccum
    PROVE  Contained'
<1>1. PICK c \in Range(ToAccum(spec).children) :
          /\ spec' = c.spec
          /\ views' = [i \in DOMAIN c.from |->
                          [views[c.from[i]] EXCEPT
                              !.filled = @ \/ (c.part = "accum" /\ c.from[i] = OutputIdx(spec))]]
  BY DEF ZeroThenAccum
<1>2. Accumulates(spec.typ) /\ SizedSpec(spec)
  BY DEF ZeroThenAccum, Safe
<1>3. DOMAIN c.from = DOMAIN c.spec.ops /\ \A i \in DOMAIN c.from : c.from[i] \in DOMAIN spec.ops
  BY <1>2, ToAccumParts
<1>4. \A i \in DOMAIN c.from : c.spec.ops[i].shape = spec.ops[c.from[i]].shape
  <2>1. 0 \notin DOMAIN spec.ops
    BY <1>2, OpsDomain DEF SizedSpec
  <2>2. ShapesFrom(spec, 1, c)
    BY <1>2, ToAccumShapes
  <2> QED
    BY <1>3, <2>1, <2>2 DEF ShapesFrom
<1>5. ASSUME NEW v, NEW shape, Within(v, shape), NEW filled
      PROVE  Within([v EXCEPT !.filled = filled], shape)
  <2>1. PICK w : w = [v EXCEPT !.filled = filled]
    OBVIOUS
  <2>2. DOMAIN w = ViewFields /\ w.org = v.org /\ w.dims = v.dims /\ w.shape = v.shape
    BY <1>5, <2>1 DEF Within, ViewFields
  <2>3. Within(w, shape)
    BY <1>5, <2>2 DEF Within
  <2> QED
    BY <2>1, <2>3
<1>6. ASSUME NEW i \in DOMAIN c.from
      PROVE  Within(views'[i], c.spec.ops[i].shape)
  <2>1. Within(views[c.from[i]], spec.ops[c.from[i]].shape)
    BY <1>3 DEF Contained
  <2>2. PICK filled : views'[i] = [views[c.from[i]] EXCEPT !.filled = filled]
    BY <1>1
  <2> QED
    BY <1>4, <1>5, <2>1, <2>2
<1> QED
  BY <1>1, <1>3, <1>6 DEF Contained

\* and every other step.
LEMMA NextKeepsContained ==
    ASSUME Safe, Placed, Binary(spec), Contained, [Next]_vars
    PROVE  Contained'
<1>1. ASSUME Place
      PROVE  Contained'
  BY <1>1 DEF Place, Contained
<1>2. ASSUME UNCHANGED vars
      PROVE  Contained'
  BY <1>2 DEF vars, Contained
<1> QED
  BY <1>1, <1>2, TileOutKeepsContained, SplitKeepsContained, SpatialKeepsContained, MoveKeepsContained,
     AccumKeepsContained DEF Next

\* A path starts with whole buffers.
LEMMA InitContained == Init => Contained
<1> SUFFICES ASSUME Init
             PROVE  Contained
  OBVIOUS
<1>1. PICK r \in Roots : /\ spec = r
                         /\ views = [i \in DOMAIN r.ops |->
                                        Buffer(r.ops[i], Zeros(r.ops[i].shape), <<>>,
                                               i # OutputIdx(r) \/ OutputIsRead(r), TRUE)]
  BY DEF Init
<1>2. SizedSpec(r)
  BY RootSized
<1>3. ASSUME NEW i \in DOMAIN r.ops
      PROVE  Within(views[i], r.ops[i].shape)
  <2>1. r.ops[i].shape \in Seq(Nat \ {0})
    BY <1>2 DEF SizedSpec, SizedOps, Sized
  <2>2. PICK filled : views[i] = Buffer(r.ops[i], Zeros(r.ops[i].shape), <<>>, filled, TRUE)
    BY <1>1
  <2> QED
    BY <2>1, <2>2, BufferInside
<1> QED
  BY <1>1, <1>3 DEF Contained

-----------------------------------------------------------------------------
(* Every Spec has the types of its parts.                                  *)

\* A vector size that the target has, or that a buffer is given, is a number.
LEMMA VectorsNat ==
    ASSUME NEW dtype \in Dtypes, NEW level \in CpuLevels
    PROVE  VectorSizes(dtype, level) \cup {16, 32} \subseteq Nat
<1>1. PICK z \in Nat : z > 0 /\ z = SizeOf[dtype]
  BY DEF Dtypes, SizeOf
<1>2. 16 \div z \in Nat /\ 32 \div z \in Nat
  BY <1>1
<1>3. CASE level = "VRF"
  <2>1. VectorSizes(dtype, level) = {b \div z : b \in {16, 32}}
    BY <1>1, <1>3 DEF VectorSizes, VectorBytes
  <2> QED
    BY <1>2, <2>1
<1>4. CASE level # "VRF"
  <2>1. VectorSizes(dtype, level) = {0}
    BY <1>4 DEF VectorSizes, VectorBytes
  <2> QED
    BY <2>1
<1> QED
  BY <1>3, <1>4

\* An operand with the parts that the invariants give it is a TensorSpec,
\* well laid out.
LEMMA OpIsTensor ==
    ASSUME NEW t, Sized(t), LaidOut(t), Described(t)
    PROVE  t \in Tensors /\ WellLaid(t)
<1>1. PICK rank \in Nat : rank = Len(t.shape)
  BY ShapeOf DEF Sized
<1>2. IsLayout(t.layout, rank) /\ t.contig \in 0..Len(t.layout) /\ AppliesTo(t.layout, t.shape)
  BY <1>1 DEF LaidOut, CanonicalLayout
<1>3. Len(t.layout) \in Nat
  BY <1>2, LayoutDivides
<1>4. t.layout \in Seq(PhysDims) /\ t.contig \in Nat
  BY <1>2, <1>3 DEF IsLayout
<1>5. t.aligned \in BOOLEAN /\ t.vector \in VectorSizes(t.dtype, t.level) \cup {16, 32}
  BY DEF Described
<1>6. t.dtype \in Dtypes /\ t.level \in CpuLevels /\ t.shape \in Seq(Nat \ {0})
  BY DEF Sized
<1>7. t.vector \in Nat
  BY <1>5, <1>6, VectorsNat
<1>8. t = [f \in OpFields |-> t[f]]
  BY DEF Sized, LaidOut, IsRecord
<1>9. t \in Tensors
  BY <1>4, <1>5, <1>6, <1>7, <1>8 DEF Tensors, OpFields
<1> QED
  BY <1>1, <1>2, <1>5, <1>9 DEF WellLaid

\* And a Spec of such operands is a Spec.
LEMMA SpecIsRecord ==
    ASSUME NEW s, SizedSpec(s), LaidSpec(s), Keyable(s)
    PROVE  s \in SpecRecords /\ \A i \in DOMAIN s.ops : WellLaid(s.ops[i])
<1>1. SizedOps(s.typ, s.ops) /\ s.accum \in BOOLEAN /\ s.limits \in [1..4 -> Nat] /\ s.typ \in DOMAIN InputCount
  BY DEF SizedSpec, SizedOps
<1>2. ASSUME NEW i \in DOMAIN s.ops
      PROVE  s.ops[i] \in Tensors /\ WellLaid(s.ops[i])
  <2>1. Sized(s.ops[i]) /\ LaidOut(s.ops[i]) /\ Described(s.ops[i])
    BY <1>1 DEF SizedOps, LaidSpec, Keyable
  <2> QED
    BY <2>1, OpIsTensor
<1>3. PICK n \in 1..3 : DOMAIN s.ops = 1..n
  BY <1>1, OpsDomain
<1>4. s.ops = [i \in 1..n |-> s.ops[i]]
  BY <1>3 DEF LaidSpec
<1>5. s.ops \in [1..n -> Tensors]
  BY <1>2, <1>3, <1>4
<1>6. s.ops \in Seq(Tensors)
  BY <1>5, SeqDef
<1>7. s.serial \in BOOLEAN
  BY DEF Keyable
<1>8. s = [f \in SpecFields |-> s[f]]
  BY DEF LaidSpec
<1>9. s \in SpecRecords
  BY <1>1, <1>6, <1>7, <1>8 DEF SpecRecords, SpecFields
<1> QED
  BY <1>2, <1>9

\* What is placed at the end of a path is a kernel of the target.
Kernels == kernel \in MatmulAccumKernels \cup MoveKernels \cup ZeroKernels \cup {NoKernel}

\* A kernel on offer is one of the target's.
LEMMA KernelsOffered ==
    ASSUME NEW s, SizedSpec(s), NEW a \in KernelActions(s)
    PROVE  a.kernel \in MatmulAccumKernels \cup MoveKernels \cup ZeroKernels
<1>1. s.typ \in {"Matmul", "Conv", "Move", "Zero"}
  BY DEF SizedSpec, SizedOps, InputCount
<1>2. CASE s.typ = "Matmul"
  BY <1>2 DEF KernelActions
<1>3. CASE s.typ = "Move"
  BY <1>3 DEF KernelActions
<1>4. CASE s.typ = "Zero"
  BY <1>4 DEF KernelActions
<1>5. CASE s.typ = "Conv"
  BY <1>5 DEF KernelActions
<1> QED
  BY <1>1, <1>2, <1>3, <1>4, <1>5

\* So only such are placed, and no other step places any.
LEMMA NextKeepsKernels ==
    ASSUME Safe, Kernels, [Next]_vars
    PROVE  Kernels'
<1>1. ASSUME Place
      PROVE  Kernels'
  <2>1. PICK a \in KernelActions(spec) : kernel' = a.kernel
    BY <1>1 DEF Place
  <2>2. SizedSpec(spec)
    BY DEF Safe
  <2>3. a.kernel \in MatmulAccumKernels \cup MoveKernels \cup ZeroKernels
    BY <2>2, KernelsOffered
  <2> QED
    BY <2>1, <2>3 DEF Kernels
<1>2. ASSUME UNCHANGED kernel
      PROVE  Kernels'
  BY <1>2 DEF Kernels
<1>3. ASSUME TileOut \/ Split
      PROVE  UNCHANGED kernel
  BY <1>3 DEF TileOut, Split, EnterLoop
<1>4. ASSUME EnterSpatialSplit \/ ZeroThenAccum
      PROVE  UNCHANGED kernel
  BY <1>4 DEF EnterSpatialSplit, ZeroThenAccum
<1>5. ASSUME Move
      PROVE  UNCHANGED kernel
  BY <1>5 DEF Move
<1>6. ASSUME UNCHANGED vars
      PROVE  UNCHANGED kernel
  BY <1>6 DEF vars
<1> QED
  BY <1>1, <1>2, <1>3, <1>4, <1>5, <1>6 DEF Next

\* TypeOK: of every Spec that a path comes to the operands are TensorSpecs with a layout
\* that applies and a vector size that the target has, and the part of its buffer that a
\* view is of, after any tiling, squeezing and transposition (views.rs) and wherever the
\* loops around it are, is within the buffer.
THEOREM AlwaysTyped ==
    ASSUME OneValueConvs, BinaryRoots
    PROVE  Spec => []TypeOK
<1>1. Init => Placed /\ Keyed
  BY InitPlaced, RootKeyable DEF Init, Keyed
<1>2. Init => OfPowers
  BY DEF Init, BinaryRoots, OfPowers
<1>3. Init => Contained /\ Kernels
  BY InitContained DEF Init, Kernels
<1>4. Safe /\ Placed /\ [Next]_vars => Placed'
  BY NextKeepsPlaced
<1>5. Safe /\ Placed /\ OfPowers /\ [Next]_vars => OfPowers'
  BY NextKeepsBinary DEF OfPowers
<1>6. Safe /\ Keyed /\ [Next]_vars => Keyed'
  BY NextKeepsKeyable DEF Keyed
<1>7. Safe /\ Placed /\ OfPowers /\ Contained /\ [Next]_vars => Contained'
  BY NextKeepsContained DEF OfPowers
<1>8. Safe /\ Kernels /\ [Next]_vars => Kernels'
  BY NextKeepsKernels
<1>9. Safe /\ Laid /\ Keyed /\ Contained /\ Kernels => TypeOK
  <2> SUFFICES ASSUME Safe, Laid, Keyed, Contained, Kernels
               PROVE  TypeOK
    OBVIOUS
  <2>1. SizedSpec(spec) /\ LaidSpec(spec) /\ Keyable(spec)
    BY DEF Safe, Laid, Keyed
  <2>2. spec \in SpecRecords /\ \A i \in DOMAIN spec.ops : WellLaid(spec.ops[i])
    BY <2>1, SpecIsRecord
  <2>3. root \in Roots /\ used \in [1..4 -> Nat] /\ DOMAIN views = DOMAIN spec.ops
    BY DEF Safe, Flows
  <2>4. ASSUME NEW i \in DOMAIN spec.ops, NEW d \in DOMAIN spec.ops[i].shape
        PROVE  views[i].org[views[i].dims[d]] + spec.ops[i].shape[d] <= views[i].shape[views[i].dims[d]]
    BY DEF Contained, Within
  <2> QED
    BY <2>2, <2>3, <2>4 DEF TypeOK, Kernels
<1> QED
  BY LaidAlways, <1>1, <1>2, <1>3, <1>4, <1>5, <1>6, <1>7, <1>8, <1>9, PTL DEF Spec
=============================================================================
