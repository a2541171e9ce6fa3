SPECIFICATION FairSpec
CONSTANTS
    e1 = e1
    e2 = e2
    plain = plain
    render = render
    risky = risky
    None = None
    Tasks <- OneTask
    Execs <- TwoExecs
    Executors <- ClaudeUnknown
    MaxWorkers = 1
    Low <- OneTask
    NeedsHuman <- NoOne
    Renders <- NoOne
    Bridged <- NoOne
    LongRuns <- NoOne
    MaxRestarts = 2
INVARIANTS SlotsAccounted
PROPERTIES RowsSpec RowAnswered RunningEnds
CHECK_DEADLOCK FALSE
