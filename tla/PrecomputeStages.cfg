CONSTANTS
    LevelMax <- MCLevels
    BoundPt <- MCBounds
    Specs <- MCSpecs
    Subs <- MCSubs
    Answers <- MCAnswers
    PageOf <- MCPage
    Jobs <- MCJobs
    StageArgs = {1, 2}
    CanCrash = FALSE
    MaxRuns = 1
    None = None
    move = move
    a21 = a21
    a02 = a02
SPECIFICATION Spec
INVARIANT NoMoreThanAsked
CHECK_DEADLOCK FALSE
