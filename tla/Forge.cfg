SPECIFICATION Spec
SYMMETRY Interchangeable
CONSTANTS
    r1 = r1
    r2 = r2
    t1 = t1
    t2 = t2
    cano = cano
    None = None
    Requests <- TwoRequests
    Threads <- TwoThreads
    Humans <- OneHuman
    Forms <- TaskForms
    MaxResolves = 2
    Kinds <- BothKinds
    Definitions <- AllDefinitions
    Prices <- OnePrice
    Proposers <- HumanOrSystem
INVARIANT TypeOK
INVARIANT ExpenseHasGrant
INVARIANT PromotionEarned
CHECK_DEADLOCK FALSE
