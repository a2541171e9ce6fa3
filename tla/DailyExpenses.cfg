SPECIFICATION Spec
CONSTANTS
    r1 = r1
    t1 = t1
    o1 = o1
    p1 = p1
    Nothing = Nothing
    Runs <- OneRun
    Tasks <- OneTask
    Offices <- OneOffice
    Syntheses <- NoOne
    Slots = 1
    Readers <- OneReader
    Limit = 1
    MaxCost = 1
    MaxDay = 2
    MaxCycles = 1
INVARIANTS DailyExpenses
CHECK_DEADLOCK FALSE
