CONSTANTS
    LevelMax <- MCLevels
    BoundPt <- MCBounds
    Specs <- MCSpecs
    Subs <- MCSubs
    Answers <- MCAnswers
    PageOf <- MCPage
    Jobs <- MCJobs
    StageArgs = {2, None}
    CanCrash = TRUE
    MaxRuns = 2
    None = None
    move = move
    a21 = a21
    a02 = a02
SPECIFICATION FairSpec
INVARIANTS TypeOK StageCovered ProgressHonest AskedIsStored
PROPERTIES Terminates
CHECK_DEADLOCK FALSE
