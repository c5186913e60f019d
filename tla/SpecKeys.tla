------------------------------ MODULE SpecKeys ------------------------------
(***************************************************************************)
(* How the database finds a Spec (the maps of morello/src/spec.rs,         *)
(* tensorspec.rs, memorylimits.rs and target/cpu.rs, as db.rs composes     *)
(* them): a table is named by a key, and in it a Spec is a point of        *)
(* natural numbers.  Shapes are scaled in binary (binary_scale_shapes), as *)
(* the programs open their databases.                                      *)
(***************************************************************************)
EXTENDS Specs

\* bit_length and bit_length_inverse, up to the bits of the largest of the powers.
BitLength(n) ==
    CHOOSE b \in 0..31 : (b \in Exponents => n < PowerOfTwo[b]) /\ (b > 0 => PowerOfTwo[b - 1] <= n)
BitLengthInverse(b) == IF b = 0 THEN 0 ELSE PowerOfTwo[b - 1]
NextPowerOfTwo(n) == PowerOfTwo[CHOOSE e \in Exponents : n <= PowerOfTwo[e] /\ (e > 0 => PowerOfTwo[e - 1] < n)]

IsPowerOfTwo(n) == \E e \in Exponents : n = PowerOfTwo[e]

\* The point of a shape: it panics unless the sizes are powers of two.
ShapePoint(shape) == [d \in DOMAIN shape |-> BitLength(shape[d] - 1)]
ShapeOfPoint(pt) == [d \in DOMAIN pt |-> NextPowerOfTwo(BitLengthInverse(pt[d]) + 1)]

\* Faulty: whether the Spec accumulates is lost.
BasicsPointOfAny(typ, accum, shape) ==
    LET pt == ShapePoint(shape)
    IN  (IF Accumulates(typ) THEN <<0>> ELSE <<>>) \o pt

\* PrimitiveBasicsBimap: not accum, for what accumulates, then the shape, of a
\* Conv's image what is beyond the filters.
BasicsPoint(typ, accum, shape) ==
    LET pt == ShapePoint(shape)
    IN  (IF Accumulates(typ) THEN <<IF accum THEN 0 ELSE 1>> ELSE <<>>)
        \o [d \in DOMAIN pt |-> IF typ = "Conv" /\ d \in {4, 5} THEN pt[d] - pt[d + 2] ELSE pt[d]]

ShapeOfBasics(typ, pt) ==
    LET own == IF Accumulates(typ) THEN Tail(pt) ELSE pt
    IN  ShapeOfPoint([d \in DOMAIN own |->
                         IF typ = "Conv" /\ d \in {4, 5} THEN own[d] + own[d + 2] ELSE own[d]])

\* TensorSpecAuxNonDepBimap: layout, level and vector size name the table.
AuxKey(t) == <<t.layout, LevelIndex(t.level) - 1, t.vector>>
AuxPoint(t) == <<t.contig, IF t.aligned THEN 1 ELSE 0>>

\* SpecSurMap and LogicalSpecSurMap: the basics, two numbers per operand, then
\* whether not serial, then the limits.
KeyOf(spec) ==
    [typ |-> spec.typ, dtypes |-> [i \in DOMAIN spec.ops |-> spec.ops[i].dtype],
     auxes |-> [i \in DOMAIN spec.ops |-> AuxKey(spec.ops[i])]]

PointOf(spec) ==
    BasicsPoint(spec.typ, spec.accum, SpecShape(spec))
    \o FlattenSeq([i \in DOMAIN spec.ops |-> AuxPoint(spec.ops[i])])
    \o <<IF spec.serial THEN 0 ELSE 1>>
    \o [l \in DOMAIN spec.limits |-> BitLength(spec.limits[l])]

\* parameters: the operands, of the shapes the problem gives them.
Parameters(typ, shape, dtypes, auxes) ==
    LET shapes == ParameterShapes(typ, shape)
    IN  [i \in DOMAIN auxes |->
            TensorSpec(shapes[i], dtypes[i], auxes[i].level, auxes[i].layout,
                       auxes[i].contig, auxes[i].aligned, auxes[i].vector)]

\* apply_inverse.
SpecAt(key, pt) ==
    LET count == Len(key.auxes)
        basics == SubSeq(pt, 1, Len(pt) - 4 - 1 - 2 * count)
        rest == SubSeq(pt, Len(basics) + 1, Len(pt))
        auxes == [i \in 1..count |->
                     [layout |-> key.auxes[i][1], level |-> LevelOrder[key.auxes[i][2] + 1],
                      vector |-> key.auxes[i][3], contig |-> rest[2 * i - 1], aligned |-> rest[2 * i] # 0]]
    IN  [typ    |-> key.typ,
         accum  |-> Accumulates(key.typ) /\ basics[1] = 0,
         ops    |-> Parameters(key.typ, ShapeOfBasics(key.typ, basics), key.dtypes, auxes),
         serial |-> rest[2 * count + 1] = 0,
         limits |-> [l \in 1..4 |-> BitLengthInverse(rest[2 * count + 1 + l])]]
=============================================================================
