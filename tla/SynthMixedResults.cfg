CONSTANTS
    Specs <- MCSpecs
    ActionsOf <- MCActionsOf
    ImplCost <- MCImplCost
    Main <- MCMain
    Opt <- MCOpt
    Pages <- MCPages
    PageOf <- MCPageOf
    BlockOf <- MCBlockOf
    Fill <- MCFill
    Goals <- GoalsOnTwoPages
    ThreadCount = 2
SPECIFICATION Spec
INVARIANTS
    ResultsOptimal
