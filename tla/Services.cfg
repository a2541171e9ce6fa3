SPECIFICATION Spec
CONSTANTS
    a1 = a1
    a2 = a2
    a3 = a3
    b1 = b1
    b2 = b2
    b3 = b3
    Nothing = Nothing
    Off = Off
    Absent = Absent
    NoEntry = NoEntry
    Idle = Idle
    Unreachable = Unreachable
    SpendRuns = {a1, a2, a3}
    SpendTasks = {b1}
    UsageOffices = {b2}
    Syntheses = {a3}
    Slots = 1
    LedgerReaders = {b3}
    Limit = 0
    MaxCost = 1
    SpendDays = 2
    MaxCycles = 1
    Gets = {a1, a2}
    ProbedOffices = {b1}
    TTL = 2
    MaxTime = 3
    PageOrders = {b1}
    PageTasks = {b2}
    PageExecs = {a1, a2}
    ParentOf <- OneSubtask
    VaultKeys = {a1, a2}
    Repos = {b1}
    Secrets = {b2}
    MaxKeyEdits = 3
    MaxScripts = 3
    Audited = {"telegram", "upstash"}
    AuditDays = 3
    MaxChanges = 1
    MaxAudits = 3
    CHANNEL_MAP <- OneChannel
    FetchRuns = {a1, a2}
    Capacity = 6
    MinDays = 2
    MaxValue = 2
    MetricDays = 2
    MaxOther = 1
    Months = {8, 9}
    Categories = {"servicios"}
    MaxAmount = 1
    PageSize = 1
    MaxPages = 2
    MaxInserts = 3
    MaxBookEdits = 1
    Producers = {a1, a2}
    DedupKeys = {b1}
    Estados = {"producido", "draft", "publicado"}
    MaxIdeas = 2
    Resolvers = {a1, a2, a3}
    People = {b1, b2}
    Callers = {a1, a2}
    KnownOffices = {b1, b2, b3}
    MaxActive = 1
    MaxCalls = 5
    ChildRuns = {a1, a2, a3}
    MaxRestarts = 2
    Domains = {"engineering", "governance", "content", "finance"}
    Numbers = {1, 3, 5}
    ApifyKeys = {a1, a2, a3}
    Canales <- TwoCanales
    Platforms <- TwoPlatforms
    MaxRuns = 2
SYMMETRY Actors
INVARIANT TypeOK
INVARIANT ChargesKept
INVARIANT OverspendBounded
INVARIANT ServedFresh
INVARIANT PagesAddUp
INVARIANT HumanValuesKept
INVARIANT ConsumersServed
INVARIANT TrendsAreMeasured
INVARIANT BooksAddUp
INVARIANT DuplicatesOverlap
INVARIANT MemoryNeedsApproval
INVARIANT CapBrokenOnlyByRush
INVARIANT WritersAlone
INVARIANT RoutingPrefersSubscription
INVARIANT KeysTakeTurns
PROPERTY CurationKept
PROPERTY FailuresAreRefusals
PROPERTY RegressionsAlerted
CHECK_DEADLOCK FALSE
