SPECIFICATION FairSpec
CONSTANTS
    r1 = r1
    r2 = r2
    r3 = r3
    render = render
    workspace = workspace
    None = None
    Keys <- MCKeys
    Runs <- MCRuns
    LongRuns <- Prompt
INVARIANTS TypeOK MutualExclusion
PROPERTIES MutexSpec WantedKeyGetsUsed
