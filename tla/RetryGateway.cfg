CONSTANTS
    c1 = c1
    p1 = p1
    p2 = p2
    p3 = p3
    Calls <- OneCall
    Providers <- ThreeProviders
    Modes <- AllModes
    MaxRetries = 2
    BudgetMax <- OwnBudgets
    Window = 1
SPECIFICATION FairSpec
INVARIANT BudgetNotExceeded
INVARIANT AnswerNotLost
INVARIANT NoCallLeftBehind
PROPERTY CallsEnd
CHECK_DEADLOCK FALSE
