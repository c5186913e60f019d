\* Databases of one result per Spec and of up to two: two threads' puts over boxes of two levels.
SPECIFICATION Spec
CONSTANTS
    Threads = {t1, t2}
    SpecPts <- TwoSpecs
    LevelMax <- TwoLevels
    BlockSizeOf <- Size
    p1 = p1
    p2 = p2
    p3 = p3
    Payloads = {p1, p2, p3}
    PeaksOf <- Peaks
    Results <- UpToTwo
    Ks = {1, 2}
    None = None
    MaxPuts = 2
INVARIANTS PiecesFit HitsCoverBelow NoGarbage
PROPERTY ImplementsCells
CHECK_DEADLOCK FALSE
