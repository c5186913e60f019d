CONSTANTS
    Keys = {k1, k2, k3}
    NoKey = NoKey
    Cap = 2
    CacheSize = 1
    CanCrash = TRUE
    MaxPuts = 1
    MaxUncollected = 1
SPECIFICATION FairSpec
INVARIANTS
    TypeOK
    LoadsTracked
    NoPanic
    LoadsAreCurrent
PROPERTIES
    CallsReturn
    DropEnds
    ImplementsAtomicStore
