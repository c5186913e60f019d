------------------------------ MODULE DbTable ------------------------------
(***************************************************************************)
(* One table of the database (morello/src/db.rs): the results of the Specs *)
(* that differ in their coordinates only.  A point's coordinates are those *)
(* of the Spec followed by the binary-scaled memory limits, one per level. *)
(*                                                                         *)
(* A table is cut into blocks, allocated when a put first touches them.  A *)
(* put fills a box: from the peaks of the results to the Spec's limits.  It *)
(* writes block after block, each under the lock of the block's shard, so  *)
(* that two threads' puts interleave by blocks.                            *)
(***************************************************************************)
EXTENDS NDArray, FiniteSets

CONSTANTS
    Threads,
    SpecPts,               \* the coordinates of the Specs in this table
    LevelMax,               \* sequence: max_mem of the target, binary-scaled
    BlockSizeOf(_, _),      \* block_size_dim(dim, rank), dim zero-based
    Payloads,               \* an (action, cost) pair
    PeaksOf,                \* [Payloads -> peaks, binary-scaled, one per level]
    Results,                \* the sequences of payloads that are put
    Ks,                     \* the values k may have, the number of results of a Spec
    None,                   \* get's answer for what has not been put
    MaxPuts                 \* bound on the number of puts

Levels == 1..Len(LevelMax)
Limits == {m \in [Levels -> UNION {0..LevelMax[l] : l \in Levels}] :
             \A l \in Levels : m[l] <= LevelMax[l]}
PrefixLen == Len(CHOOSE p \in SpecPts : TRUE)
Rank == PrefixLen + Len(LevelMax)
Points == {p \o m : p \in SpecPts, m \in Limits}

\* block_size_dim, which the code fixes: 1 for the first two dimensions and the
\* fifth from the end, 31 for the last, 3 or 4 elsewhere.
BlockSize(d) == BlockSizeOf(d - 1, Rank)

ASSUME DbTableAssumption ==
    /\ Ks \subseteq Nat \ {0} /\ MaxPuts \in Nat
    /\ LevelMax \in Seq(Nat)
    /\ SpecPts # {} /\ \A p \in SpecPts : p \in Seq(Nat) /\ Len(p) = PrefixLen
    /\ \A d \in 1..Rank : BlockSize(d) \in Nat \ {0}
    /\ \A r \in Results : r \in Seq(Payloads)
    /\ None \notin Results
    /\ \A v \in Payloads : PeaksOf[v] \in Limits

VARIABLES
    k,          \* how many results the database has room for per Spec
    blocks,     \* block point -> [filled, data]: the blocks that exist
    put,        \* [Threads -> the put in progress: ranges left, and the result]
    puts        \* the number of puts begun

vars == <<k, blocks, put, puts>>

-----------------------------------------------------------------------------
(* Coordinates.                                                            *)

\* blockify_point.
BlockPt(pt) == [d \in 1..Rank |-> pt[d] \div BlockSize(d)]
InnerPt(pt) == [d \in 1..Rank |-> pt[d] % BlockSize(d)]

\* deblockify_points.
GlobalPt(block, inner) == [d \in 1..Rank |-> BlockSize(d) * block[d] + inner[d]]

\* db_shape: unbounded (None, here -1) but for the memory dimensions.
DbShape(d) == IF d <= PrefixLen THEN -1 ELSE LevelMax[d - PrefixLen] + 1

\* block_shape: a block at the edge of the table is truncated.
BlockShape(block) ==
    [d \in 1..Rank |->
        IF DbShape(d) = -1 THEN BlockSize(d)
        ELSE Min({BlockSize(d), DbShape(d) - block[d] * BlockSize(d)})]

\* Faulty: every block but the first is filled to its end.
BlocksInRangeWhole(bottom, top, size) ==
    LET first == bottom \div size
        last  == top \div size
    IN  {[block |-> b,
          lo    |-> IF b = first THEN bottom % size ELSE 0,
          hi    |-> IF first = last THEN (top % size) + 1 ELSE size] : b \in first..last}

\* iter_blocks_in_single_dim_range; bottom and top are inclusive.
BlocksInRange(bottom, top, size) ==
    LET end    == top + 1
        first  == bottom \div size
        last   == (end + size - 1) \div size
        s      == bottom % size
        e      == end % size
        full   == IF e = 0 THEN last ELSE last - 1
        prefix == [block |-> first, lo |-> s, hi |-> size]
        suffix == [block |-> last - 1, lo |-> 0, hi |-> e]
    IN  IF first = last - 1
        THEN {[block |-> first, lo |-> s, hi |-> Min({s + (end - bottom), size})]}
        ELSE {prefix} \cup {[block |-> b, lo |-> 0, hi |-> size] : b \in first + 1..full - 1}
                \cup (IF e = 0 THEN {} ELSE {suffix})

\* put_range_to_fill: the per-level maximum of the results' peaks.
Bottom(pt, result) ==
    [d \in 1..Rank |->
        IF d <= PrefixLen THEN pt[d]
        ELSE Max({0} \cup {PeaksOf[result[i]][d - PrefixLen] : i \in DOMAIN result})]

\* multi_cartesian_product of the ranges per dimension, as in put.
Pieces(pt, result) ==
    LET bottom == Bottom(pt, result)
        per    == [d \in 1..Rank |-> BlocksInRange(bottom[d], pt[d], BlockSize(d))]
    IN  {f \in [1..Rank -> UNION {per[d] : d \in 1..Rank}] : \A d \in 1..Rank : f[d] \in per[d]}

BlockOf(piece) == [d \in 1..Rank |-> piece[d].block]

\* Faulty: the last block comes first.
PrecedesInReverse(b, c) == \E d \in 1..Rank : b[d] > c[d] /\ \A e \in 1..d - 1 : b[e] = c[e]

\* The lexicographic order of the product.
Precedes(b, c) == \E d \in 1..Rank : b[d] < c[d] /\ \A e \in 1..d - 1 : b[e] = c[e]

-----------------------------------------------------------------------------
(* Blocks.                                                                 *)

\* WholeBlock::empty.  `data` stands for main_costs, peaks and depths_actions,
\* which are filled alike; a fresh array holds defaults, here None.
EmptyBlock(shape) ==
    [filled |-> NewArray(shape, 0), data |-> NewArray(Append(shape, k), None)]

\* Faulty: an entry is said to be full, however many results there are.
FillBlockFull(block, region, result) ==
    LET filled == FillRegion(block.filled, region, k + 1)
    IN  [filled |-> filled,
         data   |-> FillBroadcast(block.data, region, result, filled)]

\* fill_region_without_updating_match.
FillBlock(block, region, result) ==
    LET filled == FillRegion(block.filled, region, Len(result) + 1)
    IN  [filled |-> filled,
         data   |-> FillBroadcast(block.data, region, result, filled)]

\* WholeBlock::get; 0 is empty, otherwise n - 1 is the number of actions.
GetInBlock(block, inner) ==
    LET n == At(block.filled, inner)
    IN  IF n = 0 THEN None
        ELSE [i \in 1..n - 1 |-> At(block.data, Append(inner, i - 1))]

\* FilesDatabase::get.
Get(pt) ==
    IF BlockPt(pt) \in DOMAIN blocks
    THEN GetInBlock(blocks[BlockPt(pt)], InnerPt(pt)) ELSE None

-----------------------------------------------------------------------------
NoPut == [left |-> {}, result |-> None]

Init ==
    /\ k \in Ks
    /\ blocks = [b \in {} |-> EmptyBlock(<<>>)]
    /\ put = [t \in Threads |-> NoPut]
    /\ puts = 0

\* put, up to its loop.  Every result fits the Spec's limits.
BeginPut(t) ==
    /\ put[t] = NoPut /\ puts < MaxPuts
    /\ puts' = puts + 1
    /\ \E pt \in Points, r \in Results :
          /\ Len(r) <= k /\ \A d \in 1..Rank : Bottom(pt, r)[d] <= pt[d]
          /\ put' = [put EXCEPT ![t] = [left |-> Pieces(pt, r), result |-> r]]
    /\ UNCHANGED <<k, blocks>>

\* One round of put's loop, for the next block of the product.
WriteBlock(t) ==
    \E piece \in put[t].left :
        LET b      == BlockOf(piece)
            region == [d \in 1..Rank |-> [lo |-> piece[d].lo, hi |-> piece[d].hi]]
            before == IF b \in DOMAIN blocks THEN blocks[b] ELSE EmptyBlock(BlockShape(b))
            left   == put[t].left \ {piece}
        IN  /\ \A other \in left : Precedes(b, BlockOf(other))
            /\ blocks' = [c \in DOMAIN blocks \cup {b} |->
                            IF c = b THEN FillBlock(before, region, put[t].result)
                                     ELSE blocks[c]]
            /\ put' = [put EXCEPT ![t] = IF left = {} THEN NoPut ELSE [@ EXCEPT !.left = left]]
            /\ UNCHANGED <<k, puts>>

Next == \E t \in Threads : BeginPut(t) \/ WriteBlock(t)

Spec == Init /\ [][Next]_vars
-----------------------------------------------------------------------------
(* Properties.                                                             *)

\* Arrays are indexed without a check of each coordinate (data_offset), so that
\* a coordinate beyond its dimension would silently reach another Spec's entry:
\* what a put is about to write lies within its block, also at the table's edge.
PiecesFit ==
    \A t \in Threads : \A piece \in put[t].left : \A d \in 1..Rank :
        /\ 0 <= piece[d].lo /\ piece[d].lo < piece[d].hi
        /\ piece[d].hi <= BlockShape(BlockOf(piece))[d]

\* The cells that a put of a result at a point fills.
Box(pt, result) ==
    LET bottom == Bottom(pt, result)
    IN  {q \in Points : \A d \in 1..Rank : bottom[d] <= q[d] /\ q[d] <= pt[d]}

\* A Spec that has an entry has one under all lower limits down to its results'
\* peaks, also while a put is under way: a search that is answered by the
\* database puts nothing, and precompute goes on below the peaks (main.rs:250).
HitsCoverBelow ==
    \A pt \in Points : Get(pt) \in Results => \A q \in Box(pt, Get(pt)) : Get(q) # None

\* A result has as many payloads as its entry says, none of them a default that
\* was never put: what fill_region_ext lets run over the entries that hold no
\* action yet is never taken for theirs.
NoGarbage ==
    \A pt \in Points : Get(pt) # None => Get(pt) \in Results

\* The table is a CellStore: see there.
CellsOf(piece) ==
    {GlobalPt(BlockOf(piece), inner) :
        inner \in PointsOf([d \in 1..Rank |-> [lo |-> piece[d].lo, hi |-> piece[d].hi]])}

Cells == INSTANCE CellStore WITH
    Unknown <- None,
    cells <- [pt \in Points |-> Get(pt)],
    owed <- [t \in Threads |-> [left |-> UNION {CellsOf(piece) : piece \in put[t].left},
                                result |-> put[t].result]]

\* Puts that interleave fill exactly the cells of their boxes with their results:
\* no cell of a box is left out, and no cell outside of it changes, whatever the
\* blocks share (the doc of put_range_to_fill, db.rs:1153).
ImplementsCells == Cells!Spec
=============================================================================
