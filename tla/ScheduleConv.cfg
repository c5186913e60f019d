CONSTANTS
    TilingDepth = 0
    Roots <- MCConvRoots
    NoKernel = NoKernel
SPECIFICATION Spec
INVARIANT OperandsAgree
CHECK_DEADLOCK FALSE
