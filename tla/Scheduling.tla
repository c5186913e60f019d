----------------------------- MODULE Scheduling -----------------------------
(***************************************************************************)
(* Applying an action to a Spec (morello/src/scheduling.rs), with the      *)
(* loops it introduces (imp/loops.rs, codegen/cpu.rs) and what a move      *)
(* costs and allocates (imp/moves.rs).  The result is an Impl: a record of *)
(* kind (Loop, MoveLet or Block), tiles, the loop tiles, parallel,         *)
(* introduced, a sequence of at most one TensorSpec, and children, each    *)
(* with its part, its Spec, and the places its operands come from: the     *)
(* number of one of the Spec's own operands, or 0 for what is introduced.  *)
(* Where the code gives an error in place of an Impl, an operator named    *)
(* for it does not hold (TileOutApplies, SpatialApplies, MoveApplies).     *)
(***************************************************************************)
EXTENDS Specs

Child(part, spec, from) == [part |-> part, spec |-> spec, from |-> from]
Own(spec) == [i \in DOMAIN spec.ops |-> i]

Impl(kind, tiles, parallel, introduced, children) ==
    [kind |-> kind, tiles |-> tiles, parallel |-> parallel, introduced |-> introduced,
     children |-> children]

-----------------------------------------------------------------------------
(* Loops.                                                                  *)

\* A LoopTile: one axis per dimension of the operand.
LoopTile(operand, tiling, axes) == [operand |-> operand, tiling |-> tiling, axes |-> axes]

\* The axes of input i: those of the output it is bound to, numbered like its
\* dimensions, and fresh ones, which no other input has.
InputAxes(tilings, rank, i) ==
    LET unbound == {x \in UNION {{j} \X DOMAIN tilings[j].axes : j \in DOMAIN tilings} :
                       tilings[x[1]].axes[x[2]] = 0}
        Before(d) == Cardinality({x \in unbound : x[1] < i \/ (x[1] = i /\ x[2] <= d)})
    IN  [d \in DOMAIN tilings[i].axes |->
            IF tilings[i].axes[d] = 0 THEN rank + Before(d) ELSE tilings[i].axes[d]]

\* The tiles of a TileOut: of the inputs, at most two, that it changes, and of
\* the output.
TileOutTiles(spec, shape) ==
    LET rank == Len(shape)
        tilings == InputTilings(spec, SimpleTiling(shape))
        Changed(i) ==
            IF i \in DOMAIN tilings /\ tilings[i].tiling.shape # spec.ops[i].shape
            THEN <<LoopTile(i, tilings[i].tiling, InputAxes(tilings, rank, i))>> ELSE <<>>
    IN  Changed(1) \o Changed(2)
        \o <<LoopTile(OutputIdx(spec), SimpleTiling(shape), [d \in 1..rank |-> d])>>

\* Faulty: the whole output may be its own tile.
TileOutAppliesToWhole(spec, shape, parallel) ==
    LET tilings == InputTilings(spec, SimpleTiling(shape))
    IN  /\ \A d \in DOMAIN shape : shape[d] <= Output(spec).shape[d]
        /\ IsValidTileShape(Output(spec), shape, parallel)
        /\ \A i \in DOMAIN tilings : IsValidTileShape(spec.ops[i], tilings[i].tiling.shape, parallel)

\* Whether apply gives no error: TileShapeMatchesOriginal, TileShapeIsLarger and
\* TileShapeInvalid.
TileOutApplies(spec, shape, parallel) ==
    LET tilings == InputTilings(spec, SimpleTiling(shape))
    IN  /\ shape # Output(spec).shape
        /\ \A d \in DOMAIN shape : shape[d] <= Output(spec).shape[d]
        /\ IsValidTileShape(Output(spec), shape, parallel)
        /\ \A i \in DOMAIN tilings : IsValidTileShape(spec.ops[i], tilings[i].tiling.shape, parallel)

SplitTiles(spec, k) ==
    <<LoopTile(1, SimpleTiling(<<spec.ops[1].shape[1], k>>), <<1, 2>>),
      LoopTile(2, SimpleTiling(<<k, spec.ops[2].shape[2]>>), <<2, 3>>)>>

\* The operands of the body: those with a tile become it.
IsTiled(tiles, i) == \E n \in DOMAIN tiles : tiles[n].operand = i
TileFor(tiles, i) == tiles[CHOOSE n \in DOMAIN tiles : tiles[n].operand = i]
TiledOps(spec, tiles) ==
    [i \in DOMAIN spec.ops |->
        IF IsTiled(tiles, i) THEN TileSpec(TileFor(tiles, i).tiling, spec.ops[i]) ELSE spec.ops[i]]

LoopOver(spec, tiles, parallel) ==
    Impl("Loop", tiles, parallel, <<>>,
         <<Child("body", [spec EXCEPT !.ops = CanonicalOps(spec.typ, TiledOps(spec, tiles)),
                                      !.serial = @ \/ parallel],
                 Own(spec))>>)

\* SpatialSplit: a loop over the pixels, whose body is a Matmul of channels.
SpatialTiles(spec) ==
    [i \in 1..2 |-> LoopTile(i, SimpleTiling([d \in 1..4 |-> IF d <= 2 THEN spec.ops[i].shape[d] ELSE 1]),
                             <<IF i = 1 THEN 8 ELSE 10, 9, 1, 2>>)]
SpatialApplies(spec) ==
    \A t \in Range(SpatialTiles(spec)) :
        AllOnes(t.tiling.shape) \/ AppliesTo(spec.ops[t.operand].layout, t.tiling.shape)

SpatialBody(spec, tiled) ==
    [spec EXCEPT !.typ = "Matmul",
                 !.ops = <<Squeezed(tiled[1]), Transposed(Squeezed(tiled[2])), Squeezed(tiled[3])>>]

SpatialSplit(spec) ==
    Impl("Loop", SpatialTiles(spec), FALSE, <<>>,
         <<Child("body", SpatialBody(spec, TiledOps(spec, SpatialTiles(spec))), Own(spec))>>)

\* Faulty: every dimension counts, though two tiles share its axis.
DimPerTile(tiles) == UNION {{n} \X DOMAIN tiles[n].axes : n \in DOMAIN tiles}

\* first_dim_per_axis: the loop tile and the dimension first met for each axis.
FirstDimPerAxis(tiles) ==
    {x \in UNION {{n} \X DOMAIN tiles[n].axes : n \in DOMAIN tiles} :
        \A y \in UNION {{n} \X DOMAIN tiles[n].axes : n \in DOMAIN tiles} :
            tiles[y[1]].axes[y[2]] = tiles[x[1]].axes[x[2]]
               => x[1] < y[1] \/ (x[1] = y[1] /\ x[2] <= y[2])}

\* The steps of a loop tile in a dimension, and steps: how many times the cost
\* of the body is counted.
TileSteps(spec, t, d) == StepsDim(t.tiling, spec.ops[t.operand].shape, d)
LoopSteps(spec, tiles) ==
    Product([x \in FirstDimPerAxis(tiles) |-> TileSteps(spec, tiles[x[1]], x[2])])

\* full_steps: those whose tile does not hang over the operand's edge.
TileFullSteps(spec, t, d) == spec.ops[t.operand].shape[d] \div t.tiling.steps[d]
LoopFullSteps(spec, tiles) ==
    Product([x \in FirstDimPerAxis(tiles) |-> TileFullSteps(spec, tiles[x[1]], x[2])])

\* axis_order_and_steps: the axes and steps of the for-loops emitted.
EmittedLoops(spec, tiles) ==
    {<<tiles[x[1]].axes[x[2]], TileSteps(spec, tiles[x[1]], x[2])>> :
        x \in {x \in UNION {{n} \X DOMAIN tiles[n].axes : n \in DOMAIN tiles} :
                  TileSteps(spec, tiles[x[1]], x[2]) # 1}}

-----------------------------------------------------------------------------
(* Moves.                                                                  *)

PrevPowerOfTwo(n) == IF n = 0 THEN 0 ELSE PowerOfTwo[Max({e \in Exponents : PowerOfTwo[e] <= n})]

MovedOperand(spec, a) == MoveletInner(spec.ops[a.source], a.dtype, a.level, a.layout, a.vector)
MovedBytes(spec, a) == SizeOf[a.dtype] * TVolume(spec.ops[a.source])

\* Whether apply gives no error: SelfMove and OutOfMemory.
MoveApplies(spec, a) ==
    /\ spec.ops[a.source] # MovedOperand(spec, a)
    /\ spec.limits[LevelIndex(a.level)] >= MovedBytes(spec, a)

\* Faulty: what is left is rounded up.
LowerLimitsUp(spec, a) ==
    LET l == LevelIndex(a.level)
        left == spec.limits[l] - MovedBytes(spec, a)
    IN  [spec.limits EXCEPT ![l] = IF left = 0 THEN 0 ELSE CHOOSE n \in Range(PowerOfTwo) : left <= n /\ n < 2 * left]

LowerLimits(spec, a) ==
    [spec.limits EXCEPT ![LevelIndex(a.level)] = PrevPowerOfTwo(@ - MovedBytes(spec, a))]

IsCacheView(spec, a) == MoveIsCacheMiss(spec.ops[a.source], a.dtype, a.level, a.layout)

\* Faulty: an output is not read.
GensInputPrologue(spec, a) == a.source # OutputIdx(spec) /\ ~IsCacheView(spec, a)

\* move_gens_prologue and move_gens_epilogue.
GensPrologue(spec, a) ==
    (a.source # OutputIdx(spec) \/ OutputIsRead(spec)) /\ ~IsCacheView(spec, a)
GensEpilogue(spec, a) == a.source = OutputIdx(spec) /\ ~IsCacheView(spec, a)

MoveLetOf(spec, a, inner) ==
    LET Sub(part, typ, accum, ops, from) ==
            <<Child(part, CanonicalSpec([spec EXCEPT !.typ = typ, !.accum = accum, !.ops = ops,
                                                     !.limits = LowerLimits(spec, a)]), from)>>
    IN  Impl("MoveLet", <<>>, FALSE, <<inner>>,
             (IF GensPrologue(spec, a)
              THEN Sub("prologue", "Move", FALSE, <<spec.ops[a.source], inner>>, <<a.source, 0>>) ELSE <<>>)
             \o Sub("body", spec.typ, spec.accum, [spec.ops EXCEPT ![a.source] = inner],
                    [Own(spec) EXCEPT ![a.source] = 0])
             \o (IF GensEpilogue(spec, a)
                 THEN Sub("epilogue", "Move", FALSE, <<inner, spec.ops[a.source]>>, <<0, a.source>>) ELSE <<>>))

MoveLet(spec, a) == MoveLetOf(spec, a, MovedOperand(spec, a))

\* MoveLet's memory_allocated: the bytes of what is introduced, at its level.
Allocated(impl) ==
    [l \in 1..4 |-> IF impl.introduced # <<>> /\ impl.introduced[1].level = LevelOrder[l]
                    THEN BytesUsed(impl.introduced[1]) ELSE 0]

-----------------------------------------------------------------------------
(* ToAccum.                                                                *)

\* clone_as_accum.
AsAccum(spec) == [spec EXCEPT !.accum = TRUE]

ZeroOutput(spec) == [spec EXCEPT !.typ = "Zero", !.accum = FALSE, !.ops = <<Output(spec)>>]

ToAccum(spec) ==
    Impl("Block", <<>>, FALSE, <<>>,
         <<Child("zero", CanonicalSpec(ZeroOutput(spec)), <<OutputIdx(spec)>>),
           Child("accum", CanonicalSpec(AsAccum(spec)), Own(spec))>>)
=============================================================================
