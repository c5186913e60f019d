\* Two memory levels, of four bytes and of one, and rests that are rounded.
SPECIFICATION Spec
CONSTANTS
    SizeBits = 4
    LevelMax <- TwoLevels
    Kernels = {2}
    Loops <- SerialLoops
    Moves <- TwoMoves
    Blocks = TRUE
    MaxSpecs = 3
    MaxImpls = 2
    MainMax = 7
    None = None
INVARIANTS BoxHasOneMainCost BoxOfSubSpecs MoreMemoryNeverWorsens
CHECK_DEADLOCK FALSE
