---------------------------- MODULE TensorSpecs ----------------------------
(***************************************************************************)
(* TensorSpecs and tilings of them (morello/src/tensorspec.rs, tiling.rs,  *)
(* alignment.rs, views.rs): what is known of an operand, and what of it    *)
(* survives tiling, moving, squeezing and transposing.                     *)
(***************************************************************************)
EXTENDS CpuTarget

TensorSpec(shape, dtype, level, layout, contig, aligned, vector) ==
    [shape |-> shape, dtype |-> dtype, level |-> level, layout |-> layout,
     contig |-> contig, aligned |-> aligned, vector |-> vector]

Tensors ==
    [shape : Seq(Nat \ {0}), dtype : Dtypes, level : CpuLevels, layout : Seq(PhysDims),
     contig : Nat, aligned : BOOLEAN, vector : Nat]

BytesUsed(t) == SizeOf[t.dtype] * TVolume(t)

WithLayout(t, laid) == [t EXCEPT !.layout = laid.layout, !.contig = laid.contig]

\* TensorSpecAux's canonicalize.  Its error, a layout that does not apply, is
\* left to the callers, which unwrap it: see LayoutsApply in ScheduleWalk.
Canonicalized(t) == WithLayout(t, UpdateForTiling(t.layout, t.shape, t.shape, t.contig))

\* is_canonical, which does not canonicalize to find out.
IsCanonical(t) ==
    /\ AllOnes(t.shape) => IsRowMajor(t.layout)
    /\ \A i \in DOMAIN t.layout :
          t.layout[i] = Packed(t.layout[i].dim, t.shape[t.layout[i].dim])
             => \E j \in DOMAIN t.layout \ {i} :
                   t.layout[j].dim = t.layout[i].dim /\ t.layout[j].kind = "Packed"
    /\ ~HasNoncanonSizeOne(t.layout, t.shape)
    /\ t.contig < Len(t.layout) => PhysicalSize(t.layout, Len(t.layout) - t.contig, t.shape) # 1

NewCanon(shape, dtype, level, layout, contig, aligned, vector) ==
    Canonicalized(TensorSpec(shape, dtype, level, layout, contig, aligned, vector))

\* Faulty: whether the layout applies is not asked.
IsAnyTileShape(t, shape, parallel) ==
    parallel /\ ~CanParallelTile(t.level) => shape = t.shape

IsValidTileShape(t, shape, parallel) ==
    /\ parallel /\ ~CanParallelTile(t.level) => shape = t.shape
    /\ AllOnes(shape) \/ AppliesTo(t.layout, shape)

\* shrink.
Shrunk(t, shape, aligned) ==
    [WithLayout(t, UpdateForTiling(t.layout, t.shape, shape, t.contig)) EXCEPT
        !.shape = shape, !.aligned = aligned]

\* squeeze_dims, of the dimensions from 3 on, which have size 1.
Squeezed(t) ==
    LET shape == SubSeq(t.shape, 1, 2)
        dropped == IF AllOnes(shape) THEN [layout |-> RowMajor(2), contig |-> 2]
                   ELSE DimDrop(t.layout, 3..Len(t.shape), t.contig)
    IN  NewCanon(shape, t.dtype, t.level, dropped.layout, dropped.contig, t.aligned, t.vector)

\* ViewExt's transpose.
Transposed(t) ==
    NewCanon(<<t.shape[2], t.shape[1]>>, t.dtype, t.level, SwapDims(t.layout), t.contig,
             t.aligned, t.vector)

CanMoveTo(t, layout, level) ==
    /\ IsAddressed(level) \/ layout = t.layout
    /\ VectorBytes(level) # {} => \E b \in VectorBytes(level) : BytesUsed(t) % b = 0

\* move_is_cache_miss.
MoveIsCacheMiss(t, dtype, level, layout) ==
    ~IsAddressed(level) /\ t.layout = layout /\ t.dtype = dtype

\* movelet_inner_tensorspec: a buffer of its own is contiguous and aligned, a
\* cache keeps what is known of the operand.
MoveletInner(t, dtype, level, layout, vector) ==
    LET miss == MoveIsCacheMiss(t, dtype, level, layout)
    IN  NewCanon(t.shape, dtype, level, layout,
                 IF miss THEN t.contig ELSE ContiguousFull(layout), miss => t.aligned, vector)

-----------------------------------------------------------------------------
(* Tilings.  A tiling is [shape, steps]; the tiles of a Tile start at the  *)
(* multiples of the steps that lie in the tiled shape.                     *)

SimpleTiling(shape) == [shape |-> shape, steps |-> shape]
SlidingTiling(shape, steps) == [shape |-> shape, steps |-> steps]
IsSimple(tiling) == tiling.shape = tiling.steps

\* Faulty: an edge tile is always counted.
StepsDimAndEdge(tiling, origin, d) == origin[d] \div tiling.steps[d] + 1

\* steps_dim, of Tiling and of Tile: with the tiles the edge cuts.
StepsDim(tiling, origin, d) == CeilDiv(origin[d], tiling.steps[d])

\* aligned_approx: whether every tile of an aligned, contiguous parent starts
\* at a multiple of a cache line.
AlignedApprox(tiling, parent) ==
    LET sizes == PhysicalShape(parent.layout, parent.shape)
    IN  /\ IsContiguous(parent) /\ parent.aligned
        /\ IsSimple(tiling)
        /\ \A i \in DOMAIN sizes : (SizeOf[parent.dtype] * sizes[i] * Stride(sizes, i)) % LineSize = 0

\* Tile::new: the tile's TensorSpec.
TileSpec(tiling, parent) == Shrunk(parent, tiling.shape, AlignedApprox(tiling, parent))
=============================================================================
