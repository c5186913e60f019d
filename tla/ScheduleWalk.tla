---------------------------- MODULE ScheduleWalk ----------------------------
(***************************************************************************)
(* A path through an Impl, from its root to a kernel.  Each step applies   *)
(* one of the Spec's actions (Target::actions, Action::apply), goes to one *)
(* of the sub-Specs and, of a loop, into one of its iterations, the way    *)
(* the generated code runs (codegen/cpu.rs).  So the states are the Specs  *)
(* a search meets, each with where in memory its operands really are       *)
(* (views.rs): what the Spec claims of them can be held against that.      *)
(***************************************************************************)
EXTENDS Scheduling, SpecKeys

CONSTANTS
    Roots,      \* Specs to start from
    NoKernel    \* no kernel is placed

\* A layout that Layout::new makes and that applies to the shape, and a vector size
\* that the target has.
WellLaid(t) ==
    /\ IsLayout(t.layout, Len(t.shape)) /\ AppliesTo(t.layout, t.shape)
    /\ t.contig \in 0..Len(t.layout)
    /\ t.vector \in VectorSizes(t.dtype, t.level) \cup {16, 32}

ASSUME WalkAssumption ==
    \A r \in Roots : /\ r \in SpecRecords /\ \A i \in DOMAIN r.ops : WellLaid(r.ops[i])
                     /\ SpecIsCanonical(r) /\ ShapesAgree(r) /\ (r.accum => Accumulates(r.typ))
                     /\ \A l \in 1..4 : r.limits[l] = 0 \/ IsPowerOfTwo(r.limits[l])

VARIABLES
    root,       \* the Spec this path started from
    spec,       \* the Spec it has come to
    views,      \* per operand of it, its view
    used,       \* the bytes allocated on the way, per level
    kernel      \* the kernel placed, or NoKernel

vars == <<root, spec, views, used, kernel>>

-----------------------------------------------------------------------------
(* A view: the buffer's address, layout and shape, the origin in it, which *)
(* of the buffer's dimensions each of the operand's runs over; the origin  *)
(* in the coordinates of the root's problem, and of dimensions squeezed    *)
(* away; whether its values are there, and whether what is written to it   *)
(* gets to the root's output.                                              *)

Zeros(shape) == [d \in DOMAIN shape |-> 0]
Identity(shape) == [d \in DOMAIN shape |-> d]

Buffer(t, at, rest, filled, kept) ==
    [base |-> 0, layout |-> t.layout, shape |-> t.shape, org |-> Zeros(t.shape),
     dims |-> Identity(t.shape), at |-> at, rest |-> rest, filled |-> filled, kept |-> kept]

\* What f has for the operand's dimension that runs over the buffer's dimension b.
Along(view, b, f) ==
    IF b \in Range(view.dims) THEN f[CHOOSE d \in DOMAIN view.dims : view.dims[d] = b] ELSE 0

\* make_buffer_indexing_expr_with_layout, through the views from the operand to
\* its Tensor, with the Tensor's layout.
Address(view, pt) ==
    view.base + BufferIndex(view.layout, view.shape,
                            [b \in DOMAIN view.org |-> view.org[b] + Along(view, b, pt)])

\* The operands of a bitwise Move are blocks of memory without any structure.
Flat(view, t) ==
    [view EXCEPT !.base = Address(view, Zeros(t.shape)), !.layout = RowMajor(Len(t.shape)),
                 !.shape = t.shape, !.org = Zeros(t.shape), !.dims = Identity(t.shape)]

Views == IF IsBitwise(spec.typ, spec.ops)
         THEN [i \in DOMAIN views |-> Flat(views[i], spec.ops[i])] ELSE views

\* compose_buffer_indexing_expr: the tile's index, times the step, is added.
TileOf(view, tile, index) ==
    LET step == [d \in DOMAIN view.dims |-> tile.tiling.steps[d] * index[tile.axes[d]]]
    IN  [view EXCEPT !.org = [b \in DOMAIN view.org |-> view.org[b] + Along(view, b, step)],
                     !.at = [d \in DOMAIN view.at |-> view.at[d] + step[d]]]

\* SqueezeDimsView and TransposeView.
SqueezeView(view) ==
    [view EXCEPT !.dims = SubSeq(@, 1, 2), !.at = SubSeq(@, 1, 2), !.rest = SubSeq(view.at, 3, Len(view.at))]
TransposeView(view) == [view EXCEPT !.dims = Reverse(@), !.at = Reverse(@)]

-----------------------------------------------------------------------------
(* Steps.                                                                  *)

\* The iterations of a loop (emit_rolled_loop): an index per axis.
AxesOf(tiles) == UNION {Range(tiles[n].axes) : n \in DOMAIN tiles}
Indices(tiles) ==
    LET loops == EmittedLoops(spec, tiles)
        StepsOf(axis) == Max({1} \cup {x[2] : x \in {x \in loops : x[1] = axis}})
        most == Max({StepsOf(axis) : axis \in AxesOf(tiles)})
    IN  {f \in [AxesOf(tiles) -> 0..most - 1] : \A axis \in AxesOf(tiles) : f[axis] < StepsOf(axis)}

\* The views of a loop's body in an iteration.
BodyViews(tiles, index) ==
    [i \in DOMAIN spec.ops |->
        IF IsTiled(tiles, i) THEN TileOf(Views[i], TileFor(tiles, i), index) ELSE Views[i]]

Init ==
    \E r \in Roots :
        /\ root = r /\ spec = r
        /\ views = [i \in DOMAIN r.ops |->
                       Buffer(r.ops[i], Zeros(r.ops[i].shape), <<>>,
                              i # OutputIdx(r) \/ OutputIsRead(r), TRUE)]
        /\ used = [l \in 1..4 |-> 0]
        /\ kernel = NoKernel

\* Go into an iteration of the loop.
EnterLoop(loop) ==
    /\ \E impl \in {loop} : \E index \in Indices(impl.tiles) :
          /\ spec' = impl.children[1].spec
          /\ views' = BodyViews(impl.tiles, index)
    /\ UNCHANGED <<root, used, kernel>>

TileOut ==
    /\ kernel = NoKernel
    /\ \E a \in {a \in TileOutActions(spec) : TileOutApplies(spec, a.shape, a.parallel)} :
          EnterLoop(LoopOver(spec, TileOutTiles(spec, a.shape), a.parallel))

Split ==
    /\ kernel = NoKernel /\ spec.typ = "Matmul" /\ spec.accum
    /\ \E a \in SplitActions(spec) : EnterLoop(LoopOver(spec, SplitTiles(spec, a.k), FALSE))

EnterSpatialSplit ==
    /\ kernel = NoKernel /\ spec.typ = "Conv" /\ spec.accum /\ CanSpatialSplit(spec)
    /\ SpatialApplies(spec)
    /\ spec' = SpatialSplit(spec).children[1].spec
    /\ \E index \in Indices(SpatialTiles(spec)) :
          LET body == BodyViews(SpatialTiles(spec), index)
          IN  views' = <<SqueezeView(body[1]), TransposeView(SqueezeView(body[2])), SqueezeView(body[3])>>
    /\ UNCHANGED <<root, used, kernel>>

\* Go into a move's prologue, body or epilogue: the new buffer is empty in the
\* prologue, has what the prologue put there in the body, and what the body did
\* in the epilogue.
Move ==
    /\ kernel = NoKernel
    /\ \E a \in {a \in MoveActions(spec) : MoveApplies(spec, a)} : \E impl \in {MoveLet(spec, a)} :
          \E child \in Range(impl.children) :
             LET source == Views[a.source]
                 isOutput == a.source = OutputIdx(spec)
                 new == Buffer(impl.introduced[1], source.at, source.rest,
                               CASE child.part = "prologue" -> FALSE
                                 [] child.part = "body" -> source.filled /\ GensPrologue(spec, a)
                                 [] child.part = "epilogue" -> TRUE,
                               isOutput /\ child.part = "body" => source.kept /\ GensEpilogue(spec, a))
                 inner == IF IsCacheView(spec, a) THEN source ELSE new
             IN  /\ spec' = child.spec
                 /\ views' = [i \in DOMAIN child.from |->
                                 IF child.from[i] = 0 THEN inner ELSE Views[child.from[i]]]
                 /\ used' = [l \in 1..4 |-> used[l] + Allocated(impl)[l]]
                 /\ UNCHANGED <<root, kernel>>

ZeroThenAccum ==
    /\ kernel = NoKernel /\ Accumulates(spec.typ) /\ ~spec.accum
    /\ \E child \in Range(ToAccum(spec).children) :
          /\ spec' = child.spec
          /\ views' = [i \in DOMAIN child.from |->
                          [views[child.from[i]] EXCEPT
                              !.filled = @ \/ (child.part = "accum" /\ child.from[i] = OutputIdx(spec))]]
          /\ UNCHANGED <<root, used, kernel>>

Place ==
    /\ kernel = NoKernel
    /\ \E a \in KernelActions(spec) : kernel' = a.kernel
    /\ UNCHANGED <<root, spec, views, used>>

Next == TileOut \/ Split \/ EnterSpatialSplit \/ Move \/ ZeroThenAccum \/ Place

Spec == Init /\ [][Next]_vars
-----------------------------------------------------------------------------
(* Properties.                                                             *)

\* The Spec's operands and the views have the types the code gives them, and the
\* views stay within their buffers.
TypeOK ==
    /\ root \in Roots /\ spec \in SpecRecords
    /\ used \in [1..4 -> Nat] /\ kernel \in MatmulAccumKernels \cup MoveKernels \cup ZeroKernels \cup {NoKernel}
    /\ DOMAIN views = DOMAIN spec.ops
    /\ \A i \in DOMAIN spec.ops : LET t == spec.ops[i] IN
          /\ WellLaid(t)
          /\ \A d \in DOMAIN t.shape : views[i].org[views[i].dims[d]] + t.shape[d] <= views[i].shape[views[i].dims[d]]

\* Every Spec a search meets is canonical (apply refuses others, scheduling.rs:103),
\* is_canonical agrees with canonicalize, though written apart from it, and the
\* operands' shapes are those of one problem (replace_io's assertions).
Canonical ==
    /\ SpecIsCanonical(spec) /\ CanonicalSpec(spec) = spec
    /\ ShapesAgree(spec)

\* Layouts apply to the shapes they come with, after any tiling, squeezing or
\* transposition, and so does every layout a move may choose: what apply unwraps
\* and asserts (scheduling.rs:287-295, 597).  And those are among the layouts that
\* precompute enumerates (the test at cpu.rs:1169).
LayoutsApply ==
    \A i \in DOMAIN spec.ops : LET t == spec.ops[i] IN
        /\ AppliesTo(t.layout, t.shape)
        /\ \A layout \in MoveDestinationLayouts(t.shape, t.dtype) :
              AppliesTo(layout, t.shape) /\ layout \in AllLayoutsForShape(t.shape, t.dtype)

\* What an operand claims to be contiguous is, whatever was tiled away of it since
\* it had a buffer: the elements of its innermost contig physical dimensions
\* follow each other in memory.  Of a bitwise Move, each side is one block.
ContigSound ==
    \A i \in DOMAIN spec.ops :
        LET t == spec.ops[i]
            places == {<<BufferIndex(t.layout, t.shape, pt), Address(views[i], pt)>> : pt \in Points(t.shape)}
            sizes == PhysicalShape(t.layout, t.shape)
            run == Product([p \in Len(sizes) - t.contig + 1..Len(sizes) |-> sizes[p]])
        IN  IF IsBitwise(spec.typ, spec.ops)
            THEN Max({x[2] : x \in places}) = Address(views[i], Zeros(t.shape)) + Volume(t.shape) - 1
            ELSE \A x, y \in places : x[1] \div run = y[1] \div run => x[2] - y[2] = x[1] - y[1]

\* In an iteration of nested loops, operands that share a dimension of the problem
\* are at the same place of it: the tiles were zipped along the axes that
\* the data dependencies ask for (input_tilings_for_tile_out).  Dimensions that
\* were squeezed away agree too.
OperandsAgree ==
    LET axes == DimAxes(spec.typ, Len(Output(spec).shape))
    IN  /\ \A i, j \in DOMAIN spec.ops : \A d \in DOMAIN axes[i] : \A e \in DOMAIN axes[j] :
              axes[i][d] = axes[j][e] => views[i].at[d] = views[j].at[e]
        /\ spec.typ = "Matmul" => views[1].rest = views[2].rest

\* What a Spec reads was written, on this path, before it, and what it writes
\* gets to the root's output: prologues, epilogues and the Zero of a
\* ToAccum are there when they are needed.
DataFlows ==
    /\ \A i \in DOMAIN spec.ops : i # OutputIdx(spec) \/ OutputIsRead(spec) => views[i].filled
    /\ views[OutputIdx(spec)].kept

\* The buffers allocated on the way, with what the Spec may still allocate, fit
\* into the limits that the root was given: rounding never makes limits grow.
BuffersFit == \A l \in 1..4 : used[l] + spec.limits[l] <= root.limits[l]

\* The loops this Spec may be split into.
LoopTilings ==
    {TileOutTiles(spec, a.shape) : a \in {a \in TileOutActions(spec) : TileOutApplies(spec, a.shape, a.parallel)}}
    \cup (IF spec.typ = "Matmul" /\ spec.accum THEN {SplitTiles(spec, a.k) : a \in SplitActions(spec)} ELSE {})
    \cup (IF spec.typ = "Conv" /\ spec.accum /\ CanSpatialSplit(spec) THEN {SpatialTiles(spec)} ELSE {})

\* How often a body runs: once per tile, of the output or of what is summed over.
\* The for-loops emitted (codegen/cpu.rs:1790) do that, with one loop per axis,
\* and it is what the cost of the body is multiplied by (imp/loops.rs:161).  No
\* tile hangs over an edge (imp/loops.rs:93), which the emitted loops ignore.
LoopsOncePerTile ==
    \A tiles \in LoopTilings :
        LET loops == EmittedLoops(spec, tiles)
            TilesOf(t) == Product([d \in DOMAIN t.axes |-> TileSteps(spec, t, d)])
        IN  /\ \A x, y \in loops : x[1] = y[1] => x = y
            /\ Product([x \in loops |-> x[2]]) = TilesOf(tiles[Len(tiles)])
            /\ LoopSteps(spec, tiles) = TilesOf(tiles[Len(tiles)])
            /\ LoopFullSteps(spec, tiles) = LoopSteps(spec, tiles)

\* The database gives a Spec's place back to that Spec alone (the test at
\* spec.rs:2182 has this for shapes that are not scaled).
KeysInvertible ==
    /\ \A d \in DOMAIN SpecShape(spec) : IsPowerOfTwo(SpecShape(spec)[d])
    /\ SpecAt(KeyOf(spec), PointOf(spec)) = spec

\* A sub-Spec is below its Spec: less memory, or a simpler operation, or
\* a smaller problem.  So a search never comes back to a Spec it is in the middle
\* of (the blocks of search.rs, and SynthTask's assumption on dependencies).
TypRank(s) == CASE s.typ \in {"Zero", "Move"} -> 0
                [] s.typ = "Matmul" -> IF s.accum THEN 1 ELSE 2
                [] s.typ = "Conv" -> IF s.accum THEN 3 ELSE 4
Below(s, t) ==
    /\ \A l \in 1..4 : s.limits[l] <= t.limits[l]
    /\ \/ s.limits # t.limits
       \/ TypRank(s) < TypRank(t)
       \/ TypRank(s) = TypRank(t) /\ Volume(SpecShape(s)) < Volume(SpecShape(t))
Descends == [][kernel' = NoKernel => Below(spec', spec)]_vars
=============================================================================
