SPECIFICATION Spec
CONSTANTS
    e1 = e1
    e2 = e2
    Executors <- TwoExecutors
    MaxRuns = 4
    MaxOverlapped = 2
    MaxKills = 1
    MaxContracts = 2
    ToolBudget = 3
    LeaseBudget = 2
    TimeBudget = 4
    Usages <- QuickAndSlow
INVARIANTS
    ProjectionsAgree
    RowsAreRecorded
    WithinBudget
    StopsHold
SYMMETRY Swapped
CHECK_DEADLOCK FALSE
