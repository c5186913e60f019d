------------------------------ MODULE Layouts ------------------------------
(***************************************************************************)
(* Layouts (morello/src/layout.rs): how the elements of a tensor lie in    *)
(* its buffer.  A layout is the sequence of its physical dimensions, the   *)
(* innermost last: the logical dimension each one runs over and how much   *)
(* of it.  A Dynamic dimension takes what the inner ones leave; a Packed   *)
(* or OddEven one has a fixed size, and an OddEven one puts the elements   *)
(* of even index before those of odd index.                                *)
(*                                                                         *)
(* Logical dimensions and elements are numbered from 1 and from 0.  "contig" *)
(* is the number of innermost physical dimensions known to be contiguous.  *)
(***************************************************************************)
EXTENDS Integers, FiniteSets, SequencesExt

Dynamic(d) == [dim |-> d, kind |-> "Dynamic", size |-> 0]
Packed(d, n) == [dim |-> d, kind |-> "Packed", size |-> n]
OddEven(d, n) == [dim |-> d, kind |-> "OddEven", size |-> n]

\* The product of a function's values, of a sequence's elements, and their sum.
Product(f) == FoldFunction(LAMBDA x, y : x * y, 1, f)
Sum(f) == FoldFunction(+, 0, f)
Volume(shape) == Product(shape)

\* The n-th smallest of a set of numbers; a sequence without some positions (the
\* empty sequence at its end has TLC evaluate it where it is built).
Nth(S, n) == CHOOSE x \in S : Quantify(S, LAMBDA y : y <= x) = n
Without(s, gone) ==
    LET kept == DOMAIN s \ gone
    IN  [n \in 1..Cardinality(kept) |-> s[Nth(kept, n)]] \o <<>>

AllOnes(shape) == \A d \in DOMAIN shape : shape[d] = 1
CeilDiv(a, b) == (a + b - 1) \div b

RowMajor(rank) == [d \in 1..rank |-> Dynamic(d)]
ColMajor(rank) == [d \in 1..rank |-> Dynamic(rank + 1 - d)]
NHWC == <<Dynamic(1), Dynamic(3), Dynamic(4), Dynamic(2)>>

IsRowMajor(layout) == \A i \in DOMAIN layout : layout[i] = Dynamic(i)
ContiguousFull(layout) == Len(layout)

Fixed(phys) == phys.kind # "Dynamic"

\* What Layout::new asserts: every logical dimension is there, only the first
\* mention of it may be Dynamic, no packing has size 1, no OddEven an odd one.
PhysDims == [dim : Nat \ {0}, kind : {"Dynamic", "Packed", "OddEven"}, size : Nat]
IsLayout(layout, rank) ==
    /\ layout \in Seq(PhysDims)
    /\ {layout[i].dim : i \in DOMAIN layout} = 1..rank
    /\ \A i \in DOMAIN layout :
          CASE layout[i].kind = "Dynamic" -> layout[i].size = 0 /\ \A j \in 1..i - 1 : layout[j].dim # layout[i].dim
            [] layout[i].kind = "Packed" -> layout[i].size > 1
            [] layout[i].kind = "OddEven" -> layout[i].size > 1 /\ layout[i].size % 2 = 0

-----------------------------------------------------------------------------
(* Physical shapes.                                                        *)

\* What the inner physical dimensions take of i's logical dimension.
TakenInside(layout, i) ==
    LET inside == {j \in i + 1..Len(layout) : layout[j].dim = layout[i].dim /\ Fixed(layout[j])}
    IN  Product([j \in inside |-> layout[j].size])

\* expand_logical_dim_physical_shape, which physical_size calls.
PhysicalSize(layout, i, shape) ==
    IF Fixed(layout[i]) THEN layout[i].size
    ELSE shape[layout[i].dim] \div TakenInside(layout, i)

\* expand_physical_shape, of a shape the layout applies to.
PhysicalShape(layout, shape) == [i \in DOMAIN layout |-> PhysicalSize(layout, i, shape)]

\* applies_to_shape: each fixed size divides what is left of its dimension, and
\* a dimension with no Dynamic part is used up.
AppliesTo(layout, shape) ==
    /\ \A i \in DOMAIN layout :
          Fixed(layout[i]) => (shape[layout[i].dim] \div TakenInside(layout, i)) % layout[i].size = 0
    /\ \A i \in DOMAIN layout :
          (\A j \in 1..i : layout[j].dim = layout[i].dim => j = i /\ Fixed(layout[j]))
             => shape[layout[i].dim] \div TakenInside(layout, i) <= layout[i].size

\* The product of the physical sizes after i: the distance of neighbours in i.
Stride(sizes, i) == Product([j \in i + 1..Len(sizes) |-> sizes[j]])

\* The index a point has in physical dimension i: buffer_indexing_expr's term.
\* `before` is what the outer physical dimensions leave of the logical one.
PhysicalIndex(layout, shape, sizes, pt, i) ==
    LET d == layout[i].dim
        outer == {j \in 1..i - 1 : layout[j].dim = d}
        before == shape[d] \div Product([j \in outer |-> sizes[j]])
        after == before \div sizes[i]
        p == IF before = shape[d] THEN pt[d] ELSE pt[d] % before
        s == layout[i].size
    IN  IF layout[i].kind = "OddEven"
        THEN ((p % s) \div 2 + ((p % s) % 2) * (s \div 2)) \div after
        ELSE IF sizes[i] = shape[d] THEN p ELSE p \div after

\* buffer_indexing_expr: the offset of a point in the buffer.
BufferIndex(layout, shape, pt) ==
    LET sizes == PhysicalShape(layout, shape)
    IN  Sum([i \in DOMAIN layout |-> PhysicalIndex(layout, shape, sizes, pt, i) * Stride(sizes, i)])

Points(shape) == {pt \in [DOMAIN shape -> 0..Max(Range(shape)) - 1] :
                     \A d \in DOMAIN shape : pt[d] < shape[d]}

-----------------------------------------------------------------------------
(* New layouts from old.                                                   *)

\* Layout::new: neighbouring packings of one dimension become one.
Joined(done, phys) ==
    IF /\ done # <<>> /\ phys.kind = "Packed"
       /\ done[Len(done)].kind = "Packed" /\ done[Len(done)].dim = phys.dim
    THEN [done EXCEPT ![Len(done)] = Packed(phys.dim, @.size * phys.size)]
    ELSE Append(done, phys)
NewLayout(dims) ==
    LET joined[n \in 0..Len(dims)] == IF n = 0 THEN <<>> ELSE Joined(joined[n - 1], dims[n])
    IN  joined[Len(dims)]

\* dim_drop.
DimDrop(layout, dropped, contig) ==
    [layout |-> NewLayout(Without(layout, {i \in DOMAIN layout : layout[i].dim \in dropped})),
     contig |-> contig - Quantify(Len(layout) - contig + 1..Len(layout),
                                  LAMBDA i : layout[i].dim \in dropped)]

\* swap_dims, of the dimensions 1 and 2.
SwapDims(layout) ==
    NewLayout([i \in DOMAIN layout |->
                  [layout[i] EXCEPT !.dim = CASE @ = 1 -> 2 [] @ = 2 -> 1 [] OTHER -> @]])

-----------------------------------------------------------------------------
(* Tiling.  The layout of a tile is its parent's, with what the smaller    *)
(* shape makes redundant canonicalized away.                               *)

\* Faulty: what the innermost changed dimension leaves is taken to be contiguous
\* with the one outside of it.
LowerContigByOneLess(layout, parentShape, tileShape, contig) ==
    LET from == PhysicalShape(layout, parentShape)
        to == PhysicalShape(layout, tileShape)
        broken == {i \in DOMAIN layout : from[i] # to[i]}
    IN  IF broken = {} THEN contig
        ELSE Min({contig, Len(layout) - Max(broken) + 2})

\* lower_contig_to_first_broken_dimension: down to, and with, the innermost
\* physical dimension whose size the tile changes.
LowerContig(layout, parentShape, tileShape, contig) ==
    LET from == PhysicalShape(layout, parentShape)
        to == PhysicalShape(layout, tileShape)
        broken == {i \in DOMAIN layout : from[i] # to[i]}
    IN  IF broken = {} THEN contig
        ELSE Min({contig, Len(layout) - Max(broken) + 1})

\* drop_unneeded_packings: a dimension's only packing, when it spans the tile,
\* is made Dynamic, and what of the dimension was outside of it goes.
DropUnneededPackings(layout, tileShape, contig) ==
    LET PackingsOf(d) == {i \in DOMAIN layout : layout[i].dim = d /\ layout[i].kind = "Packed"}
        cleared == {i \in DOMAIN layout :
                       /\ PackingsOf(layout[i].dim) = {i}
                       /\ tileShape[layout[i].dim] = layout[i].size}
        gone == {j \in DOMAIN layout : \E i \in cleared : j < i /\ layout[j].dim = layout[i].dim}
        marked == [i \in DOMAIN layout |-> IF i \in cleared THEN Dynamic(layout[i].dim) ELSE layout[i]]
    IN  [layout |-> Without(marked, gone),
         contig |-> contig - Quantify(gone, LAMBDA j : /\ j > Len(layout) - contig
                                                       /\ ~Fixed(layout[j]))]

\* The other physical dimensions of size 1 in i's run of them.
OnesAround(sizes, i) ==
    {j \in DOMAIN sizes : \A x \in Min({i, j})..Max({i, j}) : sizes[x] = 1}

\* reorder_size_one_dynamic_dimensions: each run of ones is sorted.
ReorderSizeOne(layout, shape) ==
    LET sizes == PhysicalShape(layout, shape)
        Sorted(i) ==
            LET run == OnesAround(sizes, i)
            IN  Nth({layout[j].dim : j \in run}, Quantify(run, LAMBDA j : j <= i))
    IN  [i \in DOMAIN layout |-> IF sizes[i] = 1 THEN Dynamic(Sorted(i)) ELSE layout[i]]

\* has_noncanon_size_one_dynamic_dimensions.
HasNoncanonSizeOne(layout, shape) ==
    LET sizes == PhysicalShape(layout, shape)
    IN  \E i \in 1..Len(layout) - 1 :
           sizes[i] = 1 /\ sizes[i + 1] = 1 /\ layout[i].dim > layout[i + 1].dim

\* The layout, and increase_contig_through_ones: past the ones just outside of
\* what is contiguous.
IncreaseContig(layout, shape, contig) ==
    LET sizes == PhysicalShape(layout, shape)
        others == {i \in 1..Len(layout) - contig : sizes[i] # 1}
    IN  [layout |-> layout,
         contig |-> IF others = {} THEN Len(layout) ELSE Len(layout) - Max(others)]

CanonicalizeOnes(dropped, shape) ==
    IncreaseContig(ReorderSizeOne(dropped.layout, shape), shape, dropped.contig)

\* update_for_tiling, of shapes the layout applies to (see AppliesTo).
UpdateForTiling(layout, parentShape, tileShape, contig) ==
    IF AllOnes(tileShape)
    THEN [layout |-> RowMajor(Len(tileShape)), contig |-> Len(tileShape)]
    ELSE CanonicalizeOnes(DropUnneededPackings(layout, tileShape,
                                               LowerContig(layout, parentShape, tileShape, contig)),
                          tileShape)
=============================================================================
