----------------------------- MODULE MCSchedule -----------------------------
(***************************************************************************)
(* Roots of paths for TLC: small problems of each kind.                    *)
(***************************************************************************)
EXTENDS ScheduleWalk

\* A whole, aligned operand.
Whole(shape, dtype, level, layout) ==
    NewCanon(shape, dtype, level, layout, ContiguousFull(layout), TRUE, 0)

Root(typ, accum, ops, serial, limits) ==
    CanonicalSpec([typ |-> typ, accum |-> accum, ops |-> ops, serial |-> serial, limits |-> limits])

Op(shape, layout) == Whole(shape, "f32", "GL", layout)

\* A matrix product that may use the cache and registers.
MCMatmul ==
    Root("Matmul", FALSE, <<Op(<<2, 2>>, RowMajor(2)), Op(<<2, 2>>, ColMajor(2)), Op(<<2, 2>>, RowMajor(2))>>,
         TRUE, <<8, 16, 32, 0>>)
\* Copies of a matrix that is packed, into a packed buffer or out of it.
MCMove ==
    Root("Move", FALSE, <<Op(<<4, 4>>, NewLayout(<<Dynamic(1), Dynamic(2), Packed(1, 2)>>)),
                          Op(<<4, 4>>, RowMajor(2))>>, TRUE, <<4, 16, 64, 0>>)
\* A vector of 16, which a kernel casts and interleaves.
InRegisters(dtype, layout, vector) ==
    NewCanon(<<1, 16>>, dtype, "VRF", layout, ContiguousFull(layout), TRUE, vector)
MCCast ==
    Root("Move", FALSE, <<InRegisters("bf16", RowMajor(2), 16),
                          InRegisters("f32", Append(ColMajor(2), OddEven(2, 16)), 8)>>, TRUE, <<0, 0, 0, 0>>)
\* A product of two numbers of less precision.
MCDot ==
    Root("Matmul", TRUE, <<Whole(<<1, 2>>, "bf16", "L1", RowMajor(2)), Whole(<<2, 1>>, "bf16", "L1", ColMajor(2)),
                           Whole(<<1, 1>>, "f32", "RF", RowMajor(2))>>, TRUE, <<16, 0, 0, 0>>)
\* A convolution of one pixel, without a loop over pixels of the output.
MCConv ==
    Root("Conv", TRUE, <<Op(<<1, 2, 2, 2>>, RowMajor(4)), Op(<<1, 2, 2, 2>>, NHWC), Op(<<1, 1, 1, 1>>, RowMajor(4))>>,
         FALSE, <<0, 0, 32, 0>>)
\* Zeroing in parallel.
MCZero == Root("Zero", FALSE, <<Op(<<2, 1, 4, 2>>, NHWC)>>, FALSE, <<0, 0, 64, 0>>)

MCRoots == {MCMatmul, MCMove, MCCast, MCDot, MCConv, MCZero}

\* A convolution of two output channels: each has its own filters.
MCConvRoots ==
    {Root("Conv", TRUE, <<Op(<<1, 1, 2, 1>>, RowMajor(4)), Op(<<2, 1, 1, 1>>, RowMajor(4)), Op(<<1, 2, 2, 1>>, RowMajor(4))>>,
          TRUE, <<0, 0, 0, 0>>)}
=============================================================================
