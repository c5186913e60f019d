------------------------------ MODULE NDArray ------------------------------
(***************************************************************************)
(* The n-dimensional arrays of morello/src/ndarray.rs, row-major in one    *)
(* flat buffer.  (The buffer is run-length encoded in the code; here it is *)
(* the function that the runs encode.)                                     *)
(*                                                                         *)
(* A shape is a sequence of sizes, a point a sequence of zero-based        *)
(* coordinates, a region a sequence of half-open ranges [lo, hi].          *)
(***************************************************************************)
EXTENDS Integers, Sequences, FiniteSetsExt

\* calculate_strides: the distance in the buffer of neighbours along dimension d;
\* at 0, of all there is.
Stride(shape, d) ==
    LET stride[e \in 0..Len(shape)] ==
            IF e = Len(shape) THEN 1 ELSE shape[e + 1] * stride[e + 1]
    IN  stride[d]

Volume(shape) == Stride(shape, 0)

\* data_offset, of a point of the leading Len(pt) dimensions.
Offset(shape, pt) ==
    LET at[d \in 0..Len(pt)] == IF d = 0 THEN 0 ELSE at[d - 1] + pt[d] * Stride(shape, d)
    IN  at[Len(pt)]

NewArray(shape, value) == [shape |-> shape, data |-> [i \in 0..Volume(shape) - 1 |-> value]]
At(array, pt) == array.data[Offset(array.shape, pt)]

PointsOf(region) ==
    {pt \in [1..Len(region) -> UNION {region[d].lo..region[d].hi - 1 : d \in DOMAIN region}] :
        \A d \in 1..Len(region) : region[d].lo <= pt[d] /\ pt[d] < region[d].hi}

-----------------------------------------------------------------------------
(* fill_region_ext.                                                        *)

\* The number of leading dimensions outside the contiguous tiles: behind them,
\* the region has the full extent of the array.
PrefixSize(shape, region) ==
    Min({p \in 0..Len(shape) :
           \A d \in p + 1..Len(shape) : shape[d] = region[d].hi - region[d].lo})

\* The contiguous tiles that make up the region: [index, len] in the buffer.
Tiles(shape, region) ==
    LET p    == PrefixSize(shape, region)
        step == Stride(shape, p)
    IN  IF p = 0 THEN {[index |-> 0, len |-> Volume(shape)]}
        ELSE {[index |-> Offset(shape, pt) + region[p].lo * step,
               len   |-> (region[p].hi - region[p].lo) * step] :
              pt \in PointsOf(SubSeq(region, 1, p - 1))}

\* Faulty: fills through entries that hold one action.
FillEndThroughOne(filled, end) ==
    LET size == Volume(filled.shape)
    IN  Max({e \in end..size : \A i \in end..e - 1 : filled.data[i] <= 2})

\* Where a fill that ends before `end` may go on to: past the entries of
\* `filled` that are at most 1 (fill_region_ext_inner, unfilled_max = 1).
FillEnd(filled, end) ==
    LET size == Volume(filled.shape)
    IN  Max({e \in end..size : \A i \in end..e - 1 : filled.data[i] <= 1})

\* fill_region.
FillRegion(array, region, value) ==
    LET covered == UNION {t.index..(t.index + t.len - 1) : t \in Tiles(array.shape, region)}
    IN  [array EXCEPT !.data = [i \in DOMAIN @ |-> IF i \in covered THEN value ELSE @[i]]]

\* fill_region_ext with through_unfilled.
FillThrough(array, region, value, filled) ==
    LET covered == UNION {t.index..(FillEnd(filled, t.index + t.len) - 1) :
                          t \in Tiles(array.shape, region)}
    IN  [array EXCEPT !.data = [i \in DOMAIN @ |-> IF i \in covered THEN value ELSE @[i]]]

\* fill_broadcast_1d: the last dimension of `array` is that of the k results of
\* a point; the i-th value goes to the i-th place, the other places are kept.
FillBroadcast(array, region, values, filled) ==
    LET k    == array.shape[Len(array.shape)]
        ext  == Append(region, [lo |-> 0, hi |-> k])
        Hit(i) == \E pt \in PointsOf(ext) : Offset(array.shape, pt) = i
    IN  CASE values = <<>> -> array
          [] k = 1 /\ values # <<>> -> FillThrough(array, ext, Head(values), filled)
          [] OTHER -> [array EXCEPT !.data =
                         [i \in DOMAIN @ |-> IF i % k < Len(values) /\ Hit(i)
                                             THEN values[(i % k) + 1] ELSE @[i]]]
=============================================================================
