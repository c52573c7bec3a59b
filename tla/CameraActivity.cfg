SPECIFICATION ActivitySpec
CONSTANTS
    Commands = {c1, c2}
    TopicsUsed = {"ptz", "wakeup", "query_preview"}
    Budgets <- MCBudgets
    MaxUnsupported = 3
INVARIANT
    ActivitySafety
PROPERTY
    HoldsEnd
CHECK_DEADLOCK FALSE
