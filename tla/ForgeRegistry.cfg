SPECIFICATION Spec
SYMMETRY Interchangeable
CONSTANTS
    r1 = r1
    r2 = r2
    t1 = t1
    t2 = t2
    cano = cano
    None = None
    Requests <- TwoRequests
    Threads <- TwoThreads
    Humans <- OneHuman
    Forms <- NoForms
    MaxResolves = 2
    Kinds <- BothKinds
    Definitions <- GoodOnly
    Prices <- OnePrice
    Proposers <- HumanOrSystem
INVARIANT RegistryLoads
CHECK_DEADLOCK FALSE
