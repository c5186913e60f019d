CONSTANTS
    TilingDepth = 0
    Roots <- MCRoots
    NoKernel = NoKernel
SPECIFICATION Spec
INVARIANTS TypeOK Canonical LayoutsApply ContigSound OperandsAgree DataFlows BuffersFit LoopsOncePerTile KeysInvertible
PROPERTIES Descends
CHECK_DEADLOCK FALSE
