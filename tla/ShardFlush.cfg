CONSTANTS
    Keys = {k1, k2}
    NoKey = NoKey
    Cap = 2
    CacheSize = 1
    CanCrash = FALSE
    MaxPuts = 1
    MaxUncollected = 1
SPECIFICATION Spec
SYMMETRY KeySymmetry
INVARIANTS
    FlushedWhenIdle
