------------------------------- MODULE Services -------------------------------
(***************************************************************************)
(* The components that share no state with one another, side by side.  A      *)
(* behaviour is of one of them, `part`; the variables of the others are Off.  *)
(***************************************************************************)
EXTENDS Integers, FiniteSets, Sequences

CONSTANTS
    Nothing,     \* no file, no name, no call, no row
    Off,         \* the variables of a part that does not run
    \* Spend
    SpendRuns, SpendTasks, UsageOffices, Syntheses, Slots, LedgerReaders, Limit, MaxCost,
    SpendDays, MaxCycles,
    \* Probes
    Gets, ProbedOffices, TTL, MaxTime,
    \* Dashboards
    PageOrders, PageTasks, PageExecs, ParentOf,
    \* KeyRegistry
    VaultKeys, Repos, Secrets, MaxKeyEdits, MaxScripts, Absent, NoEntry, Idle,
    \* ConnectionAudit
    Audited, AuditDays, MaxChanges, MaxAudits,
    \* Trends
    CHANNEL_MAP, FetchRuns, Capacity, MinDays, MaxValue, MetricDays, MaxOther, Unreachable,
    \* Books
    Months, Categories, MaxAmount, PageSize, MaxPages, MaxInserts, MaxBookEdits,
    \* ContentMatrix
    Producers, DedupKeys, Estados, MaxIdeas,
    \* MemoryCandidates
    Resolvers, People,
    \* Offices
    Callers, KnownOffices, MaxActive, MaxCalls,
    \* Runner
    ChildRuns, MaxRestarts,
    \* Routing
    Domains, Numbers,
    \* Virality
    ApifyKeys, Canales, Platforms, MaxRuns

VARIABLES part,
          day, ledger, stage, looking, place, file, output, spending, cycle, gastos, cycles,
          cost, due, born, charged, kept, lost,
          clock, answering, was, cache, healthGet,
          orders, finished, again, tasks, rows, pageGet,
          vault, code, env, registry, builder, plan, source, mine, hurried, served,
          keyEdits, scripts,
          auditDay, vaultThere, usable, accepted, auditReport, auditCycle, alerts, last,
          changes, audits,
          metricDay, metricTable, fetchRun, others, measured,
          bookTable, read, before, touched, inserts, bookEdits,
          matrixTable, ideas, piece, blind,
          row, req, note, granted, crossed,
          officesUp, late, call, calls, rushed,
          kind, tree, branch, holder, unlocked, childRun, answer, child, restarts,
          task, route, runtime,
          keys, cursor, excluded, asked, calling, tries, canal, platform, found, brief,
          entries, report, runs

Money == INSTANCE Spend WITH
    Runs <- SpendRuns, Tasks <- SpendTasks, Offices <- UsageOffices, Readers <- LedgerReaders,
    MaxDay <- SpendDays
Health == INSTANCE Probes WITH
    Offices <- ProbedOffices, up <- answering, get <- healthGet
Pages == INSTANCE Dashboards WITH
    Orders <- PageOrders, Tasks <- PageTasks, Execs <- PageExecs, Nobody <- Nothing,
    get <- pageGet
Registry == INSTANCE KeyRegistry WITH
    Keys <- VaultKeys, MaxEdits <- MaxKeyEdits, edits <- keyEdits
Audits == INSTANCE ConnectionAudit WITH
    MaxDay <- AuditDays, Missing <- Nothing, day <- auditDay, found <- vaultThere,
    report <- auditReport, cycle <- auditCycle
Metrics == INSTANCE Trends WITH
    RunIds <- FetchRuns, MaxDay <- MetricDays, day <- metricDay, table <- metricTable,
    run <- fetchRun
Ledger == INSTANCE Books WITH
    MaxEdits <- MaxBookEdits, Blank <- Nothing, table <- bookTable, edits <- bookEdits
Matrix == INSTANCE ContentMatrix WITH
    Keys <- DedupKeys, table <- matrixTable
Memory == INSTANCE MemoryCandidates WITH
    Requests <- Resolvers, Actors <- People, Nobody <- Nothing
Launcher == INSTANCE Offices WITH
    up <- officesUp
Children == INSTANCE Runner WITH
    Runs <- ChildRuns, Nobody <- Nothing, run <- childRun
Router == INSTANCE Routing WITH
    NoTeam <- Nothing
Scouts == INSTANCE Virality WITH
    Names <- ApifyKeys

\* What the parts take for granted of their parameters: a name that stands for nothing is
\* none of the things it is the absence of, and what is configured is of its type.
ASSUME ServicesAssumption ==
    /\ Nothing \notin Nat
    /\ Limit \in Nat /\ MaxCost \in Nat /\ Slots \in Nat /\ SpendDays \in Nat \ {0}
    /\ IsFiniteSet(Syntheses)
    /\ TTL \in Nat \ {0} /\ MaxTime \in Nat
    /\ Producers \cap Nat = {} /\ MaxIdeas \in Nat /\ Estados \subseteq Matrix!ESTADO
    /\ MaxActive \in Nat /\ MaxCalls \in Nat /\ MaxRestarts \in Nat
    /\ IsFiniteSet(KnownOffices) /\ KnownOffices # {}
    /\ Nothing \notin ChildRuns
    /\ Numbers \subseteq Int /\ Nothing \notin Router!DEFAULT_PROFILES
    /\ IsFiniteSet(PageTasks) /\ IsFiniteSet(PageExecs) /\ Nothing \notin PageOrders
    /\ ParentOf \in [PageTasks -> PageOrders \cup {Nothing}]
    /\ Nothing \notin Pages!Rows \cup Pages!OrderStatuses
    /\ IsFiniteSet(Months) /\ IsFiniteSet(Categories) /\ Nothing \notin Ledger!TIPOS
    /\ PageSize \in Nat \ {0} /\ MaxPages \in Nat \ {0}
    /\ CHANNEL_MAP \in Seq(Metrics!Range(CHANNEL_MAP)) /\ Capacity \in Nat
    /\ MinDays \in Nat \ {0} /\ MaxValue \in Nat /\ MetricDays \in Nat \ {0}
    /\ MaxOther \in Nat /\ Unreachable \notin Nat \cup {Nothing}
    /\ MaxAmount \in Nat /\ MaxInserts \in Nat /\ MaxBookEdits \in Nat
    /\ MaxKeyEdits \in Nat /\ MaxScripts \in Nat
    /\ NoEntry \notin Repos \cup Registry!Entries /\ Idle \notin Registry!Plans
    /\ Secrets \cap {Absent, "blank", "quoted", "placeholder"} = {}
    /\ AuditDays \in Nat \ {0} /\ MaxChanges \in Nat /\ MaxAudits \in Nat
    /\ Nothing \notin Audits!Statuses
    /\ IsFiniteSet(ApifyKeys) /\ ApifyKeys # {} /\ MaxRuns \in Nat
    /\ Canales \in Seq(Scouts!Channels) /\ Platforms \in Seq(STRING)
-----------------------------------------------------------------------------
MoneyOff == /\ day = Off /\ ledger = Off /\ stage = Off /\ looking = Off /\ kept = Off
            /\ place = Off /\ file = Off
            /\ output = Off /\ spending = Off /\ cycle = Off /\ gastos = Off
            /\ cycles = Off /\ cost = Off /\ due = Off /\ born = Off /\ charged = Off
            /\ lost = Off
HealthOff == /\ clock = Off /\ answering = Off /\ was = Off /\ cache = Off
             /\ healthGet = Off
PagesOff == /\ orders = Off /\ finished = Off /\ again = Off /\ tasks = Off /\ rows = Off
            /\ pageGet = Off
RegistryOff == /\ vault = Off /\ code = Off /\ env = Off /\ registry = Off /\ builder = Off
               /\ plan = Off /\ source = Off /\ mine = Off /\ hurried = Off /\ served = Off
               /\ keyEdits = Off /\ scripts = Off
AuditsOff == /\ auditDay = Off /\ vaultThere = Off /\ usable = Off /\ accepted = Off
             /\ auditReport = Off /\ auditCycle = Off /\ alerts = Off /\ last = Off
             /\ changes = Off /\ audits = Off
MetricsOff == /\ metricDay = Off /\ metricTable = Off /\ fetchRun = Off /\ others = Off
              /\ measured = Off
LedgerOff == /\ bookTable = Off /\ read = Off /\ before = Off /\ touched = Off
             /\ inserts = Off /\ bookEdits = Off
MatrixOff == /\ matrixTable = Off /\ ideas = Off /\ piece = Off /\ blind = Off
MemoryOff == /\ row = Off /\ req = Off /\ note = Off /\ granted = Off /\ crossed = Off
LauncherOff == /\ officesUp = Off /\ late = Off /\ call = Off /\ calls = Off /\ rushed = Off
ChildrenOff == /\ kind = Off /\ tree = Off /\ branch = Off /\ holder = Off
               /\ unlocked = Off /\ childRun = Off /\ answer = Off /\ child = Off
               /\ restarts = Off
RouterOff == /\ task = Off /\ route = Off /\ runtime = Off
ScoutsOff == /\ keys = Off /\ cursor = Off /\ excluded = Off /\ asked = Off
             /\ calling = Off /\ tries = Off /\ canal = Off /\ platform = Off
             /\ found = Off /\ brief = Off /\ entries = Off /\ report = Off /\ runs = Off

moneyVars == <<day, ledger, stage, looking, place, file, output, spending, cycle, gastos,
               cycles, cost, due, born, charged, kept, lost>>
probesVars == <<clock, answering, was, cache, healthGet>>
pagesVars == <<orders, finished, again, tasks, rows, pageGet>>
keysVars == <<vault, code, env, registry, builder, plan, source, mine, hurried, served,
              keyEdits, scripts>>
auditVars == <<auditDay, vaultThere, usable, accepted, auditReport, auditCycle, alerts,
               last, changes, audits>>
trendsVars == <<metricDay, metricTable, fetchRun, others, measured>>
booksVars == <<bookTable, read, before, touched, inserts, bookEdits>>
contentVars == <<matrixTable, ideas, piece, blind>>
memoryVars == <<row, req, note, granted, crossed>>
officesVars == <<officesUp, late, call, calls, rushed>>
runnerVars == <<kind, tree, branch, holder, unlocked, childRun, answer, child, restarts>>
routingVars == <<task, route, runtime>>
viralityVars == <<keys, cursor, excluded, asked, calling, tries, canal, platform, found,
                  brief, entries, report, runs>>

Parts == {"money", "probes", "pages", "keys", "audit", "trends", "books", "content",
          "memory", "offices", "runner", "routing", "virality"}

Init == /\ part \in Parts
        /\ IF part = "money" THEN Money!Init ELSE MoneyOff
        /\ IF part = "probes" THEN Health!Init ELSE HealthOff
        /\ IF part = "pages" THEN Pages!Init ELSE PagesOff
        /\ IF part = "keys" THEN Registry!Init ELSE RegistryOff
        /\ IF part = "audit" THEN Audits!Init ELSE AuditsOff
        /\ IF part = "trends" THEN Metrics!Init ELSE MetricsOff
        /\ IF part = "books" THEN Ledger!Init ELSE LedgerOff
        /\ IF part = "content" THEN Matrix!Init ELSE MatrixOff
        /\ IF part = "memory" THEN Memory!Init ELSE MemoryOff
        /\ IF part = "offices" THEN Launcher!Init ELSE LauncherOff
        /\ IF part = "runner" THEN Children!Init ELSE ChildrenOff
        /\ IF part = "routing" THEN Router!Init ELSE RouterOff
        /\ IF part = "virality" THEN Scouts!Init ELSE ScoutsOff

\* The part that runs takes a step of its own.
Next == /\ UNCHANGED part
        /\ IF part = "money" THEN Money!Next ELSE UNCHANGED moneyVars
        /\ IF part = "probes" THEN Health!Next ELSE UNCHANGED probesVars
        /\ IF part = "pages" THEN Pages!Next ELSE UNCHANGED pagesVars
        /\ IF part = "keys" THEN Registry!Next ELSE UNCHANGED keysVars
        /\ IF part = "audit" THEN Audits!Next ELSE UNCHANGED auditVars
        /\ IF part = "trends" THEN Metrics!Next ELSE UNCHANGED trendsVars
        /\ IF part = "books" THEN Ledger!Next ELSE UNCHANGED booksVars
        /\ IF part = "content" THEN Matrix!Next ELSE UNCHANGED contentVars
        /\ IF part = "memory" THEN Memory!Next ELSE UNCHANGED memoryVars
        /\ IF part = "offices" THEN Launcher!Next ELSE UNCHANGED officesVars
        /\ IF part = "runner" THEN Children!Next ELSE UNCHANGED runnerVars
        /\ IF part = "routing" THEN Router!Next ELSE UNCHANGED routingVars
        /\ IF part = "virality" THEN Scouts!Next ELSE UNCHANGED viralityVars

vars == <<part, moneyVars, probesVars, pagesVars, keysVars, auditVars, trendsVars,
          booksVars, contentVars, memoryVars, officesVars, runnerVars, routingVars,
          viralityVars>>

Spec == Init /\ [][Next]_vars

-----------------------------------------------------------------------------
\* The type invariant of the part that runs.
TypeOK == /\ part \in Parts
          /\ part = "money" => Money!TypeOK
          /\ part = "probes" => Health!TypeOK
          /\ part = "pages" => Pages!TypeOK
          /\ part = "keys" => Registry!TypeOK
          /\ part = "audit" => Audits!TypeOK
          /\ part = "trends" => Metrics!TypeOK
          /\ part = "books" => Ledger!TypeOK
          /\ part = "content" => Matrix!TypeOK
          /\ part = "memory" => Memory!TypeOK
          /\ part = "offices" => Launcher!TypeOK
          /\ part = "runner" => Children!TypeOK
          /\ part = "routing" => Router!TypeOK
          /\ part = "virality" => Scouts!TypeOK

\* The ledger of a day holds what runs charged to it, but for what a daily cycle that had
\* read it before overwrote, or somebody who had found no row yet and saved an empty one:
\* no charge is lost to another.
ChargesKept == part = "money" => Money!ChargesKept

\* The gate is looked at when a run begins and the charge made when it ends, maybe on
\* the next day.  However they interleave, a day is charged at most one execution per
\* slot and one per synthesis beyond its limit, and again what was overwritten.
OverspendBounded == part = "money" => Money!OverspendBounded

\* "`office just started' shows up within one refresh cycle": what a request is
\* answered was the case less than TTL before it looked, or later, however slow the
\* calls to docker are and in whatever order they end.
ServedFresh == part = "probes" => Health!ServedFresh

\* A finance page adds up: the same total by executor, by provider and by task, and
\* what a subtask has cost is all under its order, which is shown with its status,
\* although the tables changed while they were read.  An order that an orders page has both
\* among the failures and in the average time to a result was written over by a second
\* dispatch.
PagesAddUp == part = "pages" => Pages!PagesAddUp

\* "sin tocar jamas un valor ya escrito por un humano" (propagate_env_keys.py): a
\* usable value the owner wrote stays, unless it was written between a plan and its
\* application, which appends to the file as it then is.
HumanValuesKept == part = "keys" => Registry!HumanValuesKept

\* A build and a propagation that nothing disturbs leave every repository with a
\* usable or blank value of each key its code reads and the vault can give, and
\* nothing to do for another plan.
ConsumersServed == part = "keys" => Registry!ConsumersServed

\* What is said of a channel compares two answers of the API, under dates as far apart as
\* it takes and the later the last that the channel has a row for, while the table fits what
\* is read: neither a failed request nor a lost write makes a trend or hides one.  The days
\* of the answers are as far apart too, unless the earlier is of a run that had taken its
\* date before midnight and asked after it.
TrendsAreMeasured == part = "trends" => Metrics!TrendsAreMeasured

\* The three reports tell one story, whatever cells the owner has cleared: the balance
\* of a business is its flows of all months and of undated rows, the flow of a month is
\* what its categories add up to unless a row has no type, and all of it is about the
\* rows that were in the table, if none was changed while the pages were read.
BooksAddUp == part = "books" => Ledger!BooksAddUp

\* Two committed pieces under one key have been checked before either was there: the
\* one that came later had read the table to its end when the other was not yet in it.  If
\* not, a check got no answer, stopped at the last page it may read or missed a row because
\* one that it had read was removed, or a person had moved a row along.
DuplicatesOverlap == part = "content" => Matrix!DuplicatesOverlap

\* "The ONE path that promotes a candidate to real memory": a note is in the vault only
\* if somebody other than the proposer approved; and unless two resolutions passed the
\* check together, the note names that person and its candidate is not rejected.
MemoryNeedsApproval == part = "memory" => Memory!MemoryNeedsApproval

\* "At most offices_max_active simultaneously": more offices than that run only if a
\* caller counted them while one that had been let start was not up yet, because two
\* calls overlapped or docker was slower than the caller's patience.
CapBrokenOnlyByRush == part = "offices" => Launcher!CapBrokenOnlyByRush

\* The lock is held by runs and the worktree is written by children: two children write
\* in it at once only if one of them was abandoned, or its run had its lock file removed
\* under it, by the sweep or by a run that came to its end after the sweep had taken its
\* own; and no run says it is completed while its own child still writes or after it
\* ended badly.
WritersAlone == part = "runner" => Children!WritersAlone

\* No score ever lets a profile that is paid per use, of tier 5, win over the
\* subscription that does the same, and the work of the engineers and of the master
\* goes to a subscription rather than to any free worker, whatever the task's
\* complexity, context and risk, as long as tier 1 is allowed.
RoutingPrefersSubscription == part = "routing" => Router!RoutingPrefersSubscription

\* The rotation shares the work: keys nobody refused have been asked equally often,
\* give or take one, whatever was refused, failed or skipped between, and a platform is
\* given up for want of keys only when every key has been refused.
KeysTakeTurns == part = "virality" => Scouts!KeysTakeTurns

\* What the owner wrote into an entry of the registry is lost in a build only if its
\* key had left the vault, or if the owner wrote it while the build was under way.
CurationKept == [][part = "keys" => Registry!KeepsCuration]_vars

\* Nobody is called because a network error or a half-filled vault says nothing
\* about a key: an audit marks a failure only if the service refuses the values it
\* was given, or there is no vault.
FailuresAreRefusals == [][part = "audit" => Audits!FailsOnRefusal]_vars

\* "proveedor que ayer estaba ok y hoy falla": a provider that the audit before a
\* cycle's, on an earlier day, saw working and the cycle's own sees refused raises an
\* alert, whichever days had no report and whenever midnight comes.
RegressionsAlerted == [][part = "audit" => Audits!AlertsRegression]_vars

===============================================================================
