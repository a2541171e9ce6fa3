SPECIFICATION Spec
CONSTANTS
    e1 = e1
    e2 = e2
    plain = plain
    render = render
    risky = risky
    None = None
    Tasks <- OneTask
    Execs <- TwoExecs
    Executors <- ClaudeOnly
    MaxWorkers = 1
    Low <- OneTask
    NeedsHuman <- NoOne
    Renders <- NoOne
    Bridged <- NoOne
    LongRuns <- NoOne
    MaxRestarts = 0
PROPERTIES ReapsOnlyOrphans
