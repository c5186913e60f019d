------------------------------- MODULE Specs -------------------------------
(***************************************************************************)
(* Specs (morello/src/spec.rs, memorylimits.rs, datadeps.rs): the problem  *)
(* to be solved, one of Zero, Move, Matmul and Conv, over its operands and *)
(* under limits on the memory of each level.  A Spec is a record of typ,   *)
(* accum (whether the output is added to), ops (its TensorSpecs, the       *)
(* output last), serial (serial_only) and limits, in bytes, one per level. *)
(*                                                                         *)
(* The code keeps the spec_shape and derives the operands' shapes from it;  *)
(* here the operands have them and SpecShape derives the other.            *)
(***************************************************************************)
EXTENDS TensorSpecs

CONSTANT TilingDepth    \* depth, of which powers of two tile a dimension; 0 is None

ASSUME SpecsAssumption == TilingDepth \in Nat

\* The powers of two that sizes and limits are made of.
Exponents == 0..30
PowerOfTwo[e \in Exponents] == IF e = 0 THEN 1 ELSE 2 * PowerOfTwo[e - 1]

OutputIdx(spec) == Len(spec.ops)
Output(spec) == spec.ops[OutputIdx(spec)]
InputCount == [Zero |-> 0, Move |-> 1, Matmul |-> 2, Conv |-> 2]
SpecRecords ==
    [typ : DOMAIN InputCount, accum : BOOLEAN, ops : Seq(Tensors), serial : BOOLEAN,
     limits : [1..4 -> Nat]]
Accumulates(typ) == typ \in {"Matmul", "Conv"}

\* output_is_read.
OutputIsRead(spec) == Accumulates(spec.typ) /\ spec.accum

\* PrimitiveBasics's replace_io: the spec_shape, of b f c h w fh fw for a Conv.
SpecShape(spec) ==
    CASE spec.typ = "Matmul" -> <<spec.ops[1].shape[1], spec.ops[1].shape[2], spec.ops[2].shape[2]>>
      [] spec.typ = "Conv" ->
            LET image == spec.ops[1].shape  filters == spec.ops[2].shape
            IN  <<image[1], filters[1], image[2], image[3], image[4], filters[3], filters[4]>>
      [] OTHER -> spec.ops[1].shape

\* parameter_shapes; conv_infer_output_shape.
ParameterShapes(typ, shape) ==
    CASE typ = "Matmul" -> <<<<shape[1], shape[2]>>, <<shape[2], shape[3]>>, <<shape[1], shape[3]>>>>
      [] typ = "Conv" -> <<<<shape[1], shape[3], shape[4], shape[5]>>,
                           <<shape[2], shape[3], shape[6], shape[7]>>,
                           <<shape[1], shape[2], 1 + shape[4] - shape[6], 1 + shape[5] - shape[7]>>>>
      [] typ = "Move" -> <<shape, shape>>
      [] typ = "Zero" -> <<shape>>

\* parameter_dim_axes: the axis of the problem that each dimension of an operand
\* runs over.
DimAxes(typ, rank) ==
    CASE typ = "Matmul" -> <<<<1, 3>>, <<3, 2>>, <<1, 2>>>>
      [] typ = "Conv" -> <<<<1, 3, 4, 5>>, <<2, 3, 6, 7>>, <<1, 2, 4, 5>>>>
      [] OTHER -> [i \in 1..InputCount[typ] + 1 |-> [d \in 1..rank |-> d]]

\* replace_io's assertions, and the one that the operands are its parameters.
ShapesAgree(spec) ==
    /\ Len(spec.ops) = InputCount[spec.typ] + 1
    /\ \A i \in DOMAIN spec.ops : spec.ops[i].shape = ParameterShapes(spec.typ, SpecShape(spec))[i]

-----------------------------------------------------------------------------
(* Canonical Specs.                                                        *)

\* zero_levels_slower_than_all, and any_nonzero_levels_slower_than of the levels.
SlowerThanAll(ops, l) == \A i \in DOMAIN ops : FasterLevel(ops[i].level, LevelOrder[l])
ZeroSlower(ops, limits) == [l \in 1..4 |-> IF SlowerThanAll(ops, l) THEN 0 ELSE limits[l]]

\* Whether a Move is a bitwise copy, which is relabelled as one of row-majors.
IsBitwise(typ, ops) ==
    /\ typ = "Move"
    /\ ops[1].dtype = ops[2].dtype /\ ops[1].layout = ops[2].layout
    /\ IsContiguous(ops[1]) /\ IsContiguous(ops[2])

Relabelled(t) == [t EXCEPT !.layout = RowMajor(Len(t.shape)), !.contig = Len(t.shape)]

\* Faulty: bitwise Moves are left as they are.
CanonicalOpsAlone(typ, ops) == [i \in DOMAIN ops |-> Canonicalized(ops[i])]

RelabelledIfBitwise(typ, ops) ==
    IF IsBitwise(typ, ops) THEN [i \in DOMAIN ops |-> Relabelled(ops[i])] ELSE ops

CanonicalOps(typ, ops) == RelabelledIfBitwise(typ, [i \in DOMAIN ops |-> Canonicalized(ops[i])])

\* canonicalize.
CanonicalSpec(spec) ==
    [spec EXCEPT !.ops = CanonicalOps(spec.typ, @), !.limits = ZeroSlower(spec.ops, @)]

\* is_canonical.
SpecIsCanonical(spec) ==
    /\ \A l \in 1..4 : spec.limits[l] # 0 => ~SlowerThanAll(spec.ops, l)
    /\ \A i \in DOMAIN spec.ops : IsCanonical(spec.ops[i])
    /\ IsBitwise(spec.typ, spec.ops) => \A i \in 1..2 : IsRowMajor(spec.ops[i].layout)

-----------------------------------------------------------------------------
(* The tilings of the inputs that an output tiling asks for.               *)

\* Faulty: the operands of a Matmul are bound the wrong way around.
InputTilingsSwapped(spec, out) ==
    LET shape == SpecShape(spec)
        Bound(tile, axes) == [tiling |-> SimpleTiling(tile), axes |-> axes]
    IN  CASE spec.typ = "Matmul" -> <<Bound(<<out.shape[1], shape[2]>>, <<2, 0>>),
                                      Bound(<<shape[2], out.shape[2]>>, <<0, 1>>)>>
          [] spec.typ = "Move" -> <<Bound(out.shape, [d \in DOMAIN out.shape |-> d])>>
          [] OTHER -> <<>>

\* Each has the tiling and, per dimension, the output's dimension it is bound
\* to; 0 is None.
InputTilings(spec, out) ==
    LET shape == SpecShape(spec)
        Bound(tile, steps, axes) == [tiling |-> SlidingTiling(tile, steps), axes |-> axes]
    IN  CASE spec.typ = "Matmul" ->
                <<Bound(<<out.shape[1], shape[2]>>, <<out.steps[1], shape[2]>>, <<1, 0>>),
                  Bound(<<shape[2], out.shape[2]>>, <<shape[2], out.steps[2]>>, <<0, 2>>)>>
          [] spec.typ = "Conv" ->
                <<Bound(<<out.shape[1], shape[3], out.shape[3] + shape[6] - 1, out.shape[4] + shape[7] - 1>>,
                        <<out.steps[1], shape[3], out.steps[3], out.steps[4]>>, <<1, 0, 0, 0>>),
                  Bound(<<out.shape[2], shape[3], shape[6], shape[7]>>,
                        <<out.steps[2], shape[3], shape[6], shape[7]>>, <<0, 2, 0, 0>>)>>
          [] spec.typ = "Move" -> <<Bound(out.shape, out.steps, [d \in DOMAIN out.shape |-> d])>>
          [] spec.typ = "Zero" -> <<>>

-----------------------------------------------------------------------------
(* The actions a Spec offers.                                              *)

\* dim_range: the powers of two below the size, from the depth on, and it.
DimRange(size, includeEnd) ==
    {PowerOfTwo[e] : e \in {e \in Exponents :
        PowerOfTwo[e] < size /\ (TilingDepth # 0 /\ e + TilingDepth \in Exponents => size <= PowerOfTwo[e + TilingDepth])}}
    \cup (IF includeEnd THEN {size} ELSE {})

\* gen_tile_sizes, of multiple dimensions, the given shape dropped.
TileSizes(shape) ==
    {s \in [DOMAIN shape -> UNION {DimRange(shape[d], TRUE) : d \in DOMAIN shape}] :
        (\A d \in DOMAIN shape : s[d] \in DimRange(shape[d], TRUE)) /\ s # shape}

\* tile_out_actions: MULTI_DIM_TILING is off, so a serial Spec is tiled in one
\* dimension, by any size up to its largest.
TileOutActions(spec) ==
    LET shape == Output(spec).shape
        largest == Max({shape[d] : d \in DOMAIN shape})
    IN  IF spec.serial
        THEN [kind : {"TileOut"}, parallel : {FALSE},
              shape : UNION {{[shape EXCEPT ![d] = n] : n \in DimRange(largest, TRUE)} : d \in DOMAIN shape}]
        ELSE [kind : {"TileOut"}, parallel : BOOLEAN, shape : TileSizes(shape)]

\* split_actions.
SplitActions(spec) ==
    {[kind |-> "Split", k |-> k] :
        k \in {k \in DimRange(spec.ops[1].shape[2], FALSE) :
                  /\ IsValidTileShape(spec.ops[1], <<spec.ops[1].shape[1], k>>, FALSE)
                  /\ IsValidTileShape(spec.ops[2], <<k, spec.ops[2].shape[2]>>, FALSE)}}

\* move_actions: the vector sizes are those of the operand's dtype.
MoveActions(spec) ==
    LET MovesTo(i, t, level) ==
            [kind : {"Move"}, source : {i}, dtype : {t.dtype} \cup HigherPrecision(t.dtype), level : {level},
             layout : {layout \in MoveDestinationLayouts(t.shape, t.dtype) : CanMoveTo(t, layout, level)},
             vector : VectorSizes(t.dtype, level)]
    IN  UNION {UNION {MovesTo(i, spec.ops[i], level) : level \in DestinationLevels(spec.ops[i].level)} :
                  i \in DOMAIN spec.ops}

\* can_spatial_split.
CanSpatialSplit(spec) ==
    /\ SubSeq(spec.ops[1].shape, 3, 4) = SubSeq(spec.ops[2].shape, 3, 4)
    /\ \A i \in 1..3 : spec.ops[i].vector \in {0, 1}

\* Target::actions.
KernelActions(spec) ==
    LET applying == CASE spec.typ = "Matmul" ->
                            {k \in MatmulAccumKernels : spec.accum /\ MatmulKernelApplies(k, spec.ops)}
                      [] spec.typ = "Move" -> {k \in MoveKernels : MoveKernelApplies(k, spec.ops)}
                      [] spec.typ = "Zero" -> {k \in ZeroKernels : ZeroKernelApplies(k, spec.ops)}
                      [] spec.typ = "Conv" -> {}
    IN  {[kind |-> "Place", kernel |-> k] : k \in applying}
=============================================================================
