SPECIFICATION Spec
CONSTANTS
    o1 = o1
    d1 = d1
    d2 = d2
    s1 = s1
    s2 = s2
    k1 = k1
    None = None
    Orders <- OneOrder
    Threads <- TwoThreads
    Synths <- TwoSynths
    Kids <- OneKid
    MaxLost = 1
    MaxRestarts = 1
INVARIANT AggregatingHasRun
CHECK_DEADLOCK FALSE
