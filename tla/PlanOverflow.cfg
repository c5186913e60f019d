\* A parallel loop's overhead over a saturated cost.
SPECIFICATION Spec
CONSTANTS
    SizeBits = 4
    LevelMax <- TwoLevels
    Kernels = {8}
    Loops <- WithOverhead
    Moves <- PlainMoves
    Blocks = FALSE
    MaxSpecs = 3
    MaxImpls = 2
    MainMax = 15
    None = None
INVARIANT MoreMemoryNeverWorsens
CHECK_DEADLOCK FALSE
