SPECIFICATION Spec
CONSTANTS
    r1 = r1
    r2 = r2
    r3 = r3
    render = render
    workspace = workspace
    None = None
    Keys <- MCKeys
    Runs <- MCRuns
    LongRuns <- OneLong
INVARIANTS MutualExclusion
