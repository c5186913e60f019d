CONSTANTS
    Specs <- MCSpecs
    ActionsOf <- MCActionsOf
    ImplCost <- MCImplCost
    Main <- MCMain
    Opt <- MCOpt
    Pages <- MCPages
    PageOf <- MCPageOf
    BlockOf <- MCBlockOf
    Fill <- MCFill
    Goals <- SeveralGoals
    ThreadCount = 1
SPECIFICATION FairSpec
INVARIANTS
    TypeOK
    NoPanic
    RunningCount
    NoLostRequest
    DrainedAtEnd
PROPERTIES
    ImplementsContract
