----------------------------- MODULE CpuTarget -----------------------------
(***************************************************************************)
(* The CPU targets (morello/src/target/cpu.rs, common.rs): element types,  *)
(* the levels of memory, the layouts a move may give a tensor, and the     *)
(* kernels, with what each one asks of its operands.                       *)
(*                                                                         *)
(* A TensorSpec is a record of its shape, dtype, level, layout, contig,    *)
(* aligned, and vector, the vector size, 0 outside of vector registers.    *)
(***************************************************************************)
EXTENDS Layouts

SizeOf == [u8 |-> 1, i8 |-> 1, u16 |-> 2, i16 |-> 2, bf16 |-> 2, u32 |-> 4, i32 |-> 4, f32 |-> 4]
Dtypes == DOMAIN SizeOf

HigherPrecision(dtype) == IF dtype = "bf16" THEN {"f32"} ELSE {}

LevelOrder == <<"RF", "VRF", "L1", "GL">>
CpuLevels == {"RF", "VRF", "L1", "GL"}
LevelIndex(level) == CHOOSE i \in 1..4 : LevelOrder[i] = level

\* partial_cmp: RF and VRF are incomparable.
FasterLevel(a, b) == <<a, b>> \in {<<"RF", "L1">>, <<"RF", "GL">>, <<"VRF", "L1">>, <<"VRF", "GL">>, <<"L1", "GL">>}

LineSize == 32
VectorBytes(level) == IF level = "VRF" THEN {16, 32} ELSE {}
AllVectorBytes == UNION {VectorBytes(l) : l \in CpuLevels}
IsAddressed(level) == level # "L1"
CanParallelTile(level) == level \in {"L1", "GL"}

DestinationLevels(slower) ==
    CASE slower \in {"RF", "VRF"} -> {slower}
      [] slower = "L1" -> {"L1", "RF", "VRF"}
      [] slower = "GL" -> {"GL", "L1"}

\* gen_vector_sizes_opt: 0 is None.
VectorSizes(dtype, level) ==
    IF VectorBytes(level) = {} THEN {0} ELSE {b \div SizeOf[dtype] : b \in VectorBytes(level)}

-----------------------------------------------------------------------------
(* Layouts.                                                                *)

\* pack_sizes_all, of which pack_sizes_for_dim keeps those below the dimension;
\* oddeven_sizes_all, of which oddeven_sizes_for_dim keeps those within it.
PackSizes(dtype) == {2} \cup {b \div SizeOf[dtype] : b \in {b \in AllVectorBytes : b % SizeOf[dtype] = 0}}
OddEvenSizes(dtype) == {(2 * b) \div SizeOf[dtype] : b \in {b \in AllVectorBytes : (2 * b) % SizeOf[dtype] = 0}}

Unpacked(rank) ==
    CASE rank = 2 -> {RowMajor(2), ColMajor(2)}
      [] rank = 4 -> {RowMajor(4), NHWC}
      [] OTHER -> {RowMajor(rank)}

\* packed_layouts_ and oddeven_layouts_for_standard_layout: one inner physical
\* dimension more, for the dimensions that lie outside of the position of the
\* last that is not 1.
StandardPackings(layout, shape, dtype) ==
    LET last == Max({1} \cup {d \in DOMAIN shape : shape[d] # 1})
        outer == {d \in {layout[i].dim : i \in 1..last - 1} : shape[d] # 1}
    IN  {Append(layout, Packed(x[1], x[2])) :
            x \in {y \in outer \X PackSizes(dtype) : y[2] < shape[y[1]] /\ shape[y[1]] % y[2] = 0}}
        \cup
        {Append(layout, OddEven(x[1], x[2])) :
            x \in {y \in outer \X OddEvenSizes(dtype) : y[2] <= shape[y[1]] /\ shape[y[1]] % y[2] = 0}}

\* move_destination_layouts.
MoveDestinationLayouts(shape, dtype) ==
    LET base == IF AllOnes(shape) THEN {RowMajor(Len(shape))} ELSE Unpacked(Len(shape))
    IN  base \cup UNION {StandardPackings(l, shape, dtype) : l \in base}

\* all_layouts_for_shape.
AllLayoutsForShape(shape, dtype) ==
    LET Dividing(sizes) == {x \in (DOMAIN shape) \X sizes : shape[x[1]] % x[2] = 0}
        base == Unpacked(Len(shape))
    IN  base
        \cup {Append(l, Packed(x[1], x[2])) : l \in base, x \in Dividing(PackSizes(dtype))}
        \cup {Append(l, OddEven(x[1], x[2])) : l \in base, x \in Dividing(OddEvenSizes(dtype))}

-----------------------------------------------------------------------------
(* Kernels.                                                                *)

MatmulAccumKernels == {"MultAdd", "BroadcastVecMultAdd", "BroadcastVecMultAddBf16F32",
    "TwoVecBroadcastVecMultAddU8S8S16", "DotProductLoop", "DotProductLoopBf16Bf16F32",
    "DotProductLoopF32Bf16F32", "DotProductLoopF32InterleavedBf16F32"}
MoveKernels == {"ValueAssign", "VectorAssign", "PhysicalTransposeByte128", "PhysicalTransposeByte256",
    "VectorInterleaveBf16F32", "VectorDeinterleaveF32Bf16", "CastBf16F32", "VectorCastBf16F32"}
ZeroKernels == {"MemsetZero", "VectorZero"}

IsContiguous(t) == t.contig = ContiguousFull(t.layout)
TVolume(t) == Volume(t.shape)

\* shared_broadcastvecmult_applies_to_operands.
BroadcastVecMultApplies(ops) ==
    /\ ops[1].level \in {"RF", "L1"} /\ AllOnes(ops[1].shape)
    /\ \A i \in 2..3 : /\ ops[i].level = "VRF" /\ ops[i].aligned /\ IsContiguous(ops[i])
                       /\ TVolume(ops[i]) % ops[i].vector = 0
    /\ Len(ops[2].shape) = 2 /\ ops[2].shape[1] = 1
    /\ ops[2].shape = ops[3].shape /\ ops[2].vector = ops[3].vector

\* DotProductLoop's condition and dotproductloop_applies'.
DotProductApplies(ops, lhsDtype, rhsDtype, strip, lhsLayouts) ==
    /\ <<ops[1].dtype, ops[2].dtype, ops[3].dtype>> = <<lhsDtype, rhsDtype, "f32">>
    /\ <<ops[1].level, ops[2].level, ops[3].level>> = <<"L1", "L1", "RF">>
    /\ ops[1].shape[2] % strip = 0 /\ ops[3].shape = <<1, 1>>
    /\ ops[1].layout \in lhsLayouts /\ ops[2].layout = ColMajor(2)
    /\ IsContiguous(ops[1]) /\ IsContiguous(ops[2])

\* physicaltransposebyte_applies_to_operands.
PhysicalTransposeApplies(ops, values) ==
    /\ \A i \in 1..2 : /\ ops[i].dtype \in {"u8", "i8"} /\ ops[i].level = "VRF"
                       /\ ops[i].shape = <<2, values>> /\ IsContiguous(ops[i])
                       /\ ops[i].vector = values
    /\ IsRowMajor(ops[1].layout) /\ ops[2].layout = ColMajor(2)

\* What the two bf16-to-f32 vector moves ask: one dimension of 16, the others 1.
SixteenBf16ToF32(ops) ==
    /\ ops[1].dtype = "bf16" /\ ops[2].dtype = "f32"
    /\ \A i \in 1..2 : ops[i].level = "VRF"
    /\ ops[1].shape = ops[2].shape
    /\ \A d \in DOMAIN ops[1].shape : ops[1].shape[d] \in {1, 16}
    /\ Volume(ops[1].shape) = 16
    /\ ops[1].vector = 16 /\ ops[2].vector = 8

\* applies_to_parameters, of the kernels of each kind of Spec.
MatmulKernelApplies(kernel, ops) ==
    CASE kernel = "MultAdd" ->
            \A i \in 1..3 : ops[i].level = "RF" /\ AllOnes(ops[i].shape) /\ ops[i].dtype = ops[1].dtype
      [] kernel = "BroadcastVecMultAdd" ->
            /\ ops[1].dtype # "bf16" /\ \A i \in 2..3 : ops[i].dtype = ops[1].dtype
            /\ BroadcastVecMultApplies(ops)
      [] kernel = "BroadcastVecMultAddBf16F32" ->
            /\ <<ops[1].dtype, ops[2].dtype, ops[3].dtype>> = <<"bf16", "bf16", "f32">>
            /\ BroadcastVecMultApplies(ops)
      [] kernel = "TwoVecBroadcastVecMultAddU8S8S16" ->
            /\ <<ops[1].dtype, ops[2].dtype, ops[3].dtype>> = <<"u8", "i8", "i16">>
            /\ <<ops[1].level, ops[2].level, ops[3].level>> = <<"L1", "VRF", "VRF">>
            /\ ops[1].shape = <<1, 2>> /\ ops[2].shape[1] = 2 /\ ops[3].shape[1] = 1
            /\ 2 * ops[2].shape[2] = ops[2].vector /\ 2 * ops[3].shape[2] = ops[2].vector
            /\ ops[2].layout = ColMajor(2) /\ IsRowMajor(ops[3].layout)
            /\ \A i \in 1..3 : IsContiguous(ops[i])
      [] kernel = "DotProductLoop" -> DotProductApplies(ops, "f32", "f32", 32, {RowMajor(2)})
      [] kernel = "DotProductLoopF32Bf16F32" -> DotProductApplies(ops, "f32", "bf16", 64, {RowMajor(2)})
      [] kernel = "DotProductLoopBf16Bf16F32" -> DotProductApplies(ops, "bf16", "bf16", 64, {RowMajor(2)})
      [] kernel = "DotProductLoopF32InterleavedBf16F32" ->
            DotProductApplies(ops, "f32", "bf16", 64, {Append(RowMajor(2), OddEven(2, 16)),
                                                       Append(ColMajor(2), OddEven(1, 16))})

MoveKernelApplies(kernel, ops) ==
    CASE kernel = "PhysicalTransposeByte128" -> PhysicalTransposeApplies(ops, 16)
      [] kernel = "PhysicalTransposeByte256" -> PhysicalTransposeApplies(ops, 32)
      [] kernel = "VectorInterleaveBf16F32" ->
            /\ SixteenBf16ToF32(ops) /\ IsContiguous(ops[1]) /\ IsContiguous(ops[2])
            /\ IsRowMajor(ops[1].layout)
            /\ \A i \in DOMAIN ops[2].layout :
                  Fixed(ops[2].layout[i]) => ops[2].layout[i].kind = "OddEven" /\ ops[2].layout[i].size = 16
            /\ Quantify(DOMAIN ops[2].layout, LAMBDA i : Fixed(ops[2].layout[i])) = 1
      [] kernel = "VectorDeinterleaveF32Bf16" -> FALSE
      [] kernel = "ValueAssign" ->
            /\ AllOnes(ops[1].shape) /\ AllOnes(ops[2].shape)
            /\ ops[1].dtype = ops[2].dtype /\ ops[1].layout = ops[2].layout
            /\ {ops[1].level, ops[2].level} \subseteq {"RF", "L1"} /\ "RF" \in {ops[1].level, ops[2].level}
      [] kernel = "VectorAssign" ->
            /\ IsContiguous(ops[1]) /\ IsContiguous(ops[2])
            /\ ops[1].dtype = ops[2].dtype /\ ops[1].shape = ops[2].shape /\ ops[1].layout = ops[2].layout
            /\ "VRF" \in {ops[1].level, ops[2].level}
            /\ \A i \in 1..2 : ops[i].level = "VRF" => ops[i].vector = TVolume(ops[i])
      [] kernel = "CastBf16F32" ->
            /\ ops[1].dtype = "bf16" /\ ops[2].dtype = "f32"
            /\ \A i \in 1..2 : ops[i].level = "RF" /\ AllOnes(ops[i].shape)
      [] kernel = "VectorCastBf16F32" -> SixteenBf16ToF32(ops) /\ ops[1].layout = ops[2].layout

ZeroKernelApplies(kernel, ops) ==
    CASE kernel = "MemsetZero" -> ops[1].level = "RF" /\ IsContiguous(ops[1])
      [] kernel = "VectorZero" ->
            IsContiguous(ops[1]) /\ ops[1].level = "VRF" /\ ops[1].vector = TVolume(ops[1])

=============================================================================
