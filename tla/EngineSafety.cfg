SPECIFICATION Spec
CONSTANTS
    e1 = e1
    e2 = e2
    plain = plain
    render = render
    risky = risky
    None = None
    Tasks <- AllThree
    Execs <- TwoExecs
    Executors <- ClaudeHermes
    MaxWorkers = 2
    Low <- WithRender
    NeedsHuman <- RiskyOnly
    Renders <- RenderOnly
    Bridged <- RiskyOnly
    LongRuns <- NoOne
    MaxRestarts = 1
SYMMETRY ExecSymmetry
INVARIANTS TypeOK WorkspaceExclusion RenderExclusion NoLockLeak EvidenceBehindReview
PROPERTIES HumanClosesRisky
CHECK_DEADLOCK FALSE
