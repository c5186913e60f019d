CONSTANTS
    Specs <- MCSpecs
    ActionsOf <- MCActionsOf
    ImplCost <- MCImplCost
    Main <- MCMain
    Opt <- MCOpt
    Pages <- MCPages
    PageOf <- MCPageOf
    BlockOf <- MCBlockOf
    Fill <- MCFill
    Goals <- OneGoal
    ThreadCount = 2
SPECIFICATION FairSpec
INVARIANTS
    DbSound
    DependenciesRecorded
    ResultsOptimal
PROPERTIES
    MainCostsAreFinal
    Terminates
