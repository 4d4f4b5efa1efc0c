CONSTANTS
    Budgets <- MCBudgets
    Found = {TRUE, FALSE}
SPECIFICATION FairSpec
INVARIANTS Lifetimes
PROPERTIES LoopObeys
CHECK_DEADLOCK FALSE
