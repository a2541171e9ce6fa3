# A formal model of the cano-hermes execution platform

This directory is a TLA+ model of `cano_hermes`, the Python service that plans
tasks, runs them through coding and agent executors, asks for approvals, talks to
a kanban board and a set of containerised "offices", and keeps the scripts that
look after keys, metrics, content and books. It holds the modules, the TLC
configurations that check them on small instances, and proofs checked by TLAPS for
instances of every size.

Run from this directory:

    tlc -workers 2 -config WriteLocks.cfg    MCWriteLocks
    tlc -workers 2 -config EngineSafety.cfg  MCExecutionEngine
    tlc -workers 2 -config EngineLive.cfg    MCExecutionEngine
    tlc -workers 2 -config Orders.cfg        MCOrders
    tlc -workers 2 -config Forge.cfg         MCForge
    tlc -workers 2 -config Services.cfg      MCServices
    tlapm WriteLocksProofs.tla      (ExecutionEngineProofs, OrdersProofs, ForgeProofs,
                                     ServerProofs, SpendProofs, ScriptsProofs, ReportsProofs)

`PROJECT.json` lists the runs, the source lines each definition stands for, the
mutations each property is known to catch, the hazards, and the findings.

## The system

Paths are below `src/cano_hermes/` unless they begin with `scripts/`. The last column
names the modules; what is left out of a component is said under "Not modelled".

| Component | State it keeps | Operations | What makes it correct | Modules |
|---|---|---|---|---|
| **Write locks** `runtimes/locks.py` | one file per key under `storage/locks`, with its owner and `created_at` | `acquire` (create exclusively, unlink on exit); `_run_locked` polls it every 0.05 s; `evict_stale_locks` unlinks files older than a TTL | one run per key; a file left by a dead process does not block its key for ever; leaving never removes another run's file | WriteLocks |
| **Queue service** `orchestration/queue_service.py` | an `asyncio.Queue`, a semaphore of `max_concurrent_workers`, in-flight tasks, `executions` rows | `enqueue`, `_worker_loop`, `_process`, `_reaper_loop`, `start`, `stop` | every accepted request is answered; slots are conserved; a row never loses its answer | ExecutionEngine |
| **Execution service** `orchestration/execution_service.py` | none of its own; writes tasks, approvals, executions, the ledger | `run`: gate, approval, workspace, lock, executor, fallback, writes | runs never share a workspace; renders are sequential; a task's status follows its run | ExecutionEngine, Spend, Runner |
| **Completion** `orchestration/completion.py` | `storage/artifacts` | `complete_execution` copies outputs, closes LOW-risk tasks | only evidence of a success puts a task in review or closes it | ExecutionEngine |
| **Task engine** `orchestration/task_engine.py` | `tasks` rows, the event trail | `create`, `plan`, `transition`, `reap_orphaned` | no task stays RUNNING without a run; a reaper fails orphans only | ExecutionEngine, Orders, Routing |
| **HTTP API** `api/app.py` | none; a thread pool for `def` endpoints, the event loop for `async def` ones | about 50 endpoints | checks hold until the write they guard | with what each endpoint calls |
| **Approvals** `governance/approvals.py`, `auto_approval.py`, `policy.py` | `approvals` rows | `request`, `resolve`, `evaluate_auto_approval`, the resolution callback | nobody approves his own request; automatic approval only of what is harmless; every expense has a grant | Approvals |
| **Budget** `governance/budget.py` | one ledger row per day | `can_spend`, `record_spend`, `ingest_*` | no spend lost; the limit is exceeded by the runs under way at most | Spend |
| **Orders** `orchestration/aggregator.py`, `api/app.py` | `orders`, `tasks`, `bridge_links` | dispatch, aggregate | an order moves forward only, is done on a good synthesis, and is told once | OrderLife, Orders |
| **Kanban bridge** `bridge/inbound.py`, `kanban_bridge.py` | `bridge_links` | signed webhook, at least once; outbound cards | duplicate, late or early events change nothing they should not | Orders, ExecutionEngine |
| **Offices** `bridge/office_launcher.py`, `office_usage.py` | containers, usage files | `start`, `stop`, `active`, `sync_*` | at most `offices_max_active` at once | Offices, Spend |
| **Executors, worktrees** `executors/`, `runtimes/worktrees.py` | child processes, git worktrees and branches | `execute`, `create`, `remove` | one child per worktree; an answer says what the child did | Runner |
| **Forge** `forge/` | candidate JSON files, `agents/`, `skills/` | propose, sandbox, evaluate, approve, promote | nothing becomes active without sandbox, evaluation and approval | Forge over Approvals |
| **Memory candidates** `governance/memory_candidates.py` | a table and notes in a vault | propose, resolve | a note only with somebody else's approval | MemoryCandidates |
| **Router** `intelligence/`, `orchestration/conductor.py` | none | choose an agent and a profile | subscriptions before paid profiles | Routing |
| **Accounting** `finance/accounting.py` | an external table | capture on approval, cash position, monthly close | the reports agree with the table and with one another | Approvals, Books |
| **Content matrix** `content/dedup.py` | an external table | key check, insert | no two committed rows under one key that saw each other | ContentMatrix |
| **Monitoring** `monitoring.py` | a cache with a TTL | cached probes | an answer is less than a TTL old | Probes |
| **Dashboards** `orchestration/dashboards.py` | none; reads table after table | finance and orders pages | a page adds up although tables change | Dashboards, Trends, Books |
| **Key registry** `scripts/build_key_registry.py`, `propagate_env_keys.py` | a registry file, the `.env` files of repositories | build, plan, apply | no value or entry of the owner's is overwritten | KeyRegistry |
| **Connection audit** `scripts/validators/`, `connection_matrix.py`, `daily_cycle.py` | a report a day | audit, compare with the last day | a failure is a refusal; a regression raises an alert | ConnectionAudit |
| **Metrics** `scripts/content_analytics.py`, `daily_cycle.py` | an external table of daily rows | fetch, write, classify | what is said of a channel was measured | Trends |
| **Virality research** `scripts/virality_research.py` | key rotation, briefs, report | rotate keys, query, write | keys take turns | Virality |

### How they interact

`POST /execute` runs in the event loop and calls `enqueue`, which writes a
`pending` row and queues the request. `_worker_loop` hands each request to a
`_process` coroutine that waits for the semaphore, saves the row as `running`
and calls `run`. `run` consults the policy and the ledger, files an approval,
lets the auto-approval engine answer it, marks the task `running`, takes the
write lock of its workspace, awaits the executor, perhaps repeats that with the
fallback executor, and writes the task, the row, the artifacts and the task
again; `_process` then saves the row once more. Meanwhile the reaper loop fails
`running` tasks and unlinks old locks, kanban events arrive in the event loop,
and the other endpoints run in pool threads over the same SQLite tables, with no
transaction spanning a check and a write. The process may be stopped or killed
at any moment; `lifespan` reaps and starts again.

Around that core: an order is dispatched by an endpoint to the kanban board, whose
events come back through a webhook and may start a synthesis run; an approval, when
resolved, calls back into accounting; a forge candidate waits on an approval; a run
charges the ledger that the next run's gate reads, and the daily cycle charges it
again from another process. The scripts run beside the service, over files and
remote tables that people edit too.

### What is hard here

Check-then-act between pool threads; coroutines that resume after a lock or an
executor with a record read long ago; four writers of one execution row; lock files
that outlive their process; sweeps that guess liveness from age or status; an
in-memory queue in front of a durable table; at-least-once events; a day that ends
between a check and a charge; pages put together from reads of changing tables;
scripts that plan on what they read and apply to what is there later.
`PROJECT.json` lists each of these hazards at its line with the properties that
would catch it.

## The modules

    KeyedMutex   <- WriteLocks         lock files, polling, TTL sweep      WriteLocksProofs
                      ^ instantiated by
    ExecutionRows <- ExecutionEngine   queue, run(), reapers, endpoints,   ExecutionEngineProofs
                                       restarts
    OrderLife    <- Orders             dispatch, events, synthesis         OrdersProofs
    Approvals    <- (extended by) Forge  requests, grants, bookings; the   ForgeProofs
                                       candidates that wait for them
    Services     instances of             proved in
                   Spend                    SpendProofs
                   MemoryCandidates, Offices, Runner, Routing, Probes      ServerProofs
                   ContentMatrix, Virality, KeyRegistry, ConnectionAudit   ScriptsProofs
                   Dashboards, Books, Trends, and the types of all         ReportsProofs

Each `MC` module gives one of these small values for its constants; `MCSpend` is the one
that takes Spend by itself, for the two runs below that find a charge missing.

In the first three lines the module on the left is an abstract promise that the one
on the right is shown to implement.

### Locks and the execution engine

**KeyedMutex** has one variable, the set of users of each key. A run uses a free
key, leaves it, or moves from one key to another; all users may vanish at once.

**WriteLocks** has the lock files (`owner`), the set of files older than the TTL
(`expired`), and for each run the key it polls for (`want`) or works under
(`held`). `Acquire` is `open("x")`: it takes the key or leaves the run polling.
`Exit` unlinks whatever file has the key's name, as the code does, and not the
run's own: that is what makes eviction dangerous. `Switch` is one `_run_locked`
followed by another with no `await` in between. `Expire` lets a file grow old;
the file of a live run does so only if the run is in `LongRuns`, the runs whose
executor timeout exceeds the TTL. `Unwind` is cancellation, `Crash` a kill.

**ExecutionRows** is the contract of the two execution endpoints: a row goes
from pending to running to an answer, at most `MaxWorkers` are served at once,
an answer is final once nobody serves the execution. It allows one thing a
caller might not expect, because the code does it: `completed` withdrawn to
`failed` while the outputs are handed over.

**ExecutionEngine** is the composition. For each execution, `stage` says how far
`_process` and `run` have got:

| stage | the code is | left by |
|---|---|---|
| `new` | not requested | `Enqueue` |
| `queued` | in the queue or waiting for the semaphore | `StartRun` |
| `started` | past the semaphore, its row saved as `running`, before the gate | `Block`, `SetupFails`, `Begin` |
| `primary`, `fallback` | polling for the lock or awaiting an executor | `Poll`, `Degrade`, `Finish`, `Raise` |
| `finished` | after the task's status write | `Record` |
| `recorded` | after `save_execution` in `run` | `Complete`, `CompleteRaises` |
| `handed` | `run` has returned | `Resave` |
| `ended` | out of `_process` | |
| `cancelled`, `lost` | gone with `stop` or with a kill | |

`Stop`, `Crash` and `Boot` end and start the process; `Sweep` is one turn of the
reaper loop; `Plan`, `CheckComplete`, `WriteComplete` and `ResolveApproval` are
the pool-thread endpoints, `KanbanEvent` the webhook. The lock variables are
those of an instance of `WriteLocks`, whose actions are conjoined.

**The granularity.** The event loop is one thread, so coroutines interleave only
at `await`. Pool threads and kills interleave everywhere. A run is therefore cut
at its awaits and, at its beginning and end, between its writes; `LoopFree` keeps other
coroutines out of these stretches while endpoints and kills may still enter them. What
`run` does before its first await (gate, approval, `ready`, `running`) is one
action, and so are the read and the write of `plan` and of one `transition`: at
the level of the status, the last write wins either way.

**What the engine abstracts.** Only the production mode `supervised`
(`config.py:30`) is modelled; in `dry_run` a run has no suspension point. The
queue and the FIFO of the semaphore are one sequence. Risk and cost are reduced
to two sets: `Low`, and `NeedsHuman`, the tasks that `evaluate_auto_approval`
leaves to a human (all that are not LOW, and those with a cost, a sensitive
action or an office's `never`); the remaining budget is a nondeterministic
`solvent`. Results are `completed` or `failed` (`unavailable` and timeouts
included); `usage` records only whether the row has usage. Tasks exist from the
start. An approver is somebody other than the requester.

### Orders

**OrderLife** is what an owner may expect: an order is dispatched or refused once,
moves only forward, and its owner is told of a result at most once, and only when there
is one. That he is told at all is not promised: the notice is best effort.

**Orders** has the rows (`status`, `link`), the dispatches under way (`at`, `about`:
`POST /dispatch` cut at its writes and at the kanban subprocess), the board and the
plugin in front of it (`card`, `outbox`), the one event handler in the event loop
(`loop`, with what it has read), the synthesis tasks (`synth`), child tasks
(`kid`), the order whose owner is to be told (`report`) and the messages he has got
(`told`), and bounded lost answers and restarts.

- `StartDispatch`, `Submit`, `SubmitFails`, `SaveLink`, `MarkDispatched`: a dispatch,
  which reads the order before the subprocess and saves that object after it.
- `BoardStep`, `Deliver`: the board moves a card; the plugin delivers what it has no
  answer for, so a lost answer is a repeated event, and events of different kinds
  come in any order.
- `Ignore`, `BlockOrder`, `Aggregate`: the branches of `handle_kanban_event`;
  `SynthesisEnds`, `SynthesisRaises`: what comes after the `await` of the run, up to the
  save of the order; `Tell`: the message after it, which Telegram may refuse; `Reap`,
  `Restart`. A restart between the two leaves an order done whose owner nobody tells
  again. The documents that are sent after the message change no state.

`racy` is the set of orders that two requests may dispatch at once. Nothing in the
code prevents it, so they are in the model and in every invariant; the refinement of
`OrderLife` is stated for the others, because two dispatches of one order may take it
back from `aggregating` to `dispatched`.

### Approvals and the forge

**Approvals** is the service as pool threads see it: `File` (a request is listed as
soon as it is saved), `AutoApprove` (the policy engine goes through the same
`resolve`), `Resolve` (any human, any number of times, also what is already
resolved), `Book` (the callback that writes an expense, or fails to). `job` is what a
thread is between; `granted` and `bookers` are history.

**Forge** adds the one candidate record of an id, its artifact among the candidates,
the `candidate.json` in the sandbox workspace of the id (`trial`), what is active, and for
each thread the stage it is in with the record it read (`work`). Every stage reads the
whole record, works, and writes the whole record back. A stage is cut where another
request may come in between:

| stage of the pipeline | actions |
|---|---|
| propose | `Propose` (the checks), `Look` (is the file there), `Materialize` (write it), `SaveProposal` |
| sandbox | `Enter`, `WriteTrial` (`candidate.json`, one for all requests about the id), `Try` (the container reads what it finds there), `SaveTrial` |
| review | `Enter`, `CrossReview` (no shared file: one action) |
| request | `Enter`, `FileForCandidate`, `SavePending` |
| promote | `StartPromote`, `LookActive` (is there an active file), `Place` (write it), `SavePromoted` |

`Look` and `Materialize`, and `LookActive` and `Place`, let two requests both find no file
and the later one overwrite the earlier; only a skill's directory cannot be made twice. The
verdict of `Try` is about the file it finds, which may be another request's: `earned`
records what was tried, and which candidates were `"disturbed"`, that is, had their file
replaced before it was read. `PromotionEarned` asks of what is active a sandbox verdict on
itself, or such a disturbance, and always the review and the grant. A definition is four
flags: what the smoke test and the three evaluations find; what counts as a task contract
has the objective the smoke test looks for.

### The services

Each of these shares no state with the others, so **Services** holds them side by side:
the initial state chooses `part`, and the variables of the other parts are `Off`. Its
behaviours are those of the thirteen modules; its constants are theirs, and
`ServicesAssumption` collects what they take for granted of them. `MCServices` gives
every part a small instance and TLC checks all of them in one run; the proofs are of
`Services` and hold for every value of the constants that the assumption allows.

- **Spend**: executions pass the gate (`Admit`), those of the queue with a slot of its
  semaphore and the syntheses of orders without; they may be degraded to the fallback,
  return and charge the ledger of the day (`Return` reads, `Save` writes, as
  `record_spend` does). The row of a day is made by whoever first reads it: `LookUp` finds
  none, `SaveEmpty` saves an empty one, and whatever was saved between them is gone; the
  readers are the dashboards' pool threads, the event loop and the cycle. Offices write
  usage files that the finance page mirrors (`Sync`); the daily cycle ingests files and
  posts a snapshot in another process; `NextDay` may come anywhere.
- **Probes**: `_cached`: a request looks, asks docker, stores; docker is slow and time
  passes in between.
- **Dashboards**: the writers of the store, and a page that reads one table after
  another (`Read`), with the sums it shows as operators. Orders move as `Orders` moves
  them (`MoveOrder`, a failed dispatch included), and a second dispatch that had found an
  order `received` may write over what became of it (`Overwrite`); `again` names those
  orders.
- **KeyRegistry**: the registry is built and written, a propagation planned and
  applied file by file, and the owner edits vault, code, `.env` files and entries at
  any moment.
- **ConnectionAudit**: the validators as the names each needs and how it reads an
  answer; audits by hand and by the daily cycle, which compares with an earlier day.
- **Trends**: a run takes its date, asks channel after channel (`Fetch`), then Upload-Post
  (`FetchPosts`), and writes its rows one by one; midnight may pass anywhere, so an answer
  has two days: the date of its run, which the row bears, and the day it was taken. Other
  writers of the same table, its limited page, and the classification of a channel as an
  operator over the places of the rows it is made from.
- **Books**: a paged read of a table that is edited meanwhile; balance, buckets and
  close as sums over the places of the rows that were read.
- **ContentMatrix**: the table as a sequence of rows, and the check of a key, which both
  the command line (`CheckKey`) and `insert_content_row` (`Validate`) make, page by page
  (`ReadPage`), until the table or `_MAX_PAGES` ends, or a request fails (`ReadFails`);
  `Conclude` is what the callers make of the answer; `Post`; people add rows, move them
  along and remove them, whereupon later rows move up past a reader. `blind` holds the keys
  let through by a check that did not read the whole table.
- **MemoryCandidates**: `resolve` cut at each access to the row and at the note.
- **Offices**: `active`, `start` and `stop` of several callers; a call may outlive its
  caller's patience.
- **Runner**: the worktree, the lock file and the command of each run of one task and
  executor; timeouts, which kill the command and may leave what it had started (the CLIs of
  `aah`, a container) writing; cancellation, stops and crashes of the server; the sweep,
  which takes the file of a live run as well, and the end of a run, which removes the file
  whosever it is by then. A process that lets go of its parent's output is not waited for
  by anybody and is not in the model.
- **Routing**: `Conductor.assign` and `ModelRouter.route` over the real profiles.
- **Virality**: the rotation of keys over channels and platforms, briefs and report.

What they leave out of the data: amounts are 0 or 1, names are model values, texts are
left out, an evaluation or a response is the verdict it leads to.

## The runs

| Run | Instance | Shows |
|---|---|---|
| `WriteLocks` | 3 prompt runs, 2 keys, fairness (1.7 k states) | exclusion, refinement of `KeyedMutex`; a key that is wanted gets used |
| `EngineSafety` | a plain, a render and a risky bridged task, 2 executions, `claude-code` and `hermes-agent`, 2 slots, 1 restart (4.3 M) | workspaces and renders are exclusive, no lock file leaks, a task in review has evidence, humans close risky tasks |
| `EngineLive` | 1 task, 2 executions, a known and an unknown executor, 1 slot, 2 restarts, fairness (66 k) | slots are conserved, refinement of `ExecutionRows`, every row is answered, no task runs for ever |
| `Orders` | 1 order, 2 dispatching requests, 2 syntheses, 1 child, 1 lost answer, 1 restart, fairness (94 k) | a synthesis per dispatch, done means done, refinement of `OrderLife`, every event is answered |
| `Forge` | 2 requests, 2 threads, 1 human; a good definition, one without objective and one that is malformed; agent and skill, 2 resolutions (3.8 M) | an expense has its grant; what is active has earned it |
| `Services` | see below (2.4 M, about 1.5 min) | the eighteen properties of the thirteen services |
| `WriteLocksLong` | one run may outlive the TTL | exclusion fails |
| `EngineReap` | reaper at any time | a live run's task is failed |
| `OrdersStuck` | a synthesis that raises | an order stays AGGREGATING with no run |
| `ForgeRegistry` | one good agent | a promoted candidate is loaded twice |
| `SpendExact` | one run that falls back | its cost is not charged |
| `DailyExpenses` | one office over two days | the cost of a day is posted again on the next |

The last six each check one sentence of the code's own comments that the code does
not keep; the findings in `PROJECT.json` quote the sentence.

The instances of `Services`: Spend with 2 executions of 1 task on 1 slot and 1 synthesis,
1 other reader of the ledger, 1 office, 2 days and 1 cycle, a limit of 0, so that a single charge closes the gate; Probes with
2 requests, a TTL of 2 and times to 3; Dashboards with 1 order, a task below it and 2
executions; KeyRegistry with 2 keys, 1 repository, 3 edits and 3 scripts;
ConnectionAudit with `telegram`, which needs its own name, and `upstash`, which has
alternatives, over 3 days, 1 change and 3 audits; Trends with 1 channel, 2 runs and a
page of 6 rows over 2 days; Books with 3 inserts, 1 edit and pages of 1 row;
ContentMatrix with 2 producers of 1 key, 2 ideas, 3 states, and pages of 1 row of which
2 may be read; MemoryCandidates with 3 requests of
2 people; Offices with 2 callers, 3 offices, a cap of 1 and 5 calls; Runner with 3 runs
and 2 restarts; Routing with the numbers 1, 3 and 5 and 4 domains; Virality with 3 keys,
2 channels, 2 platforms and 2 runs.

**The bounds.** Two runs suffice to break exclusion; the third is there for a waiter
while two others pass a key on. Two executions over two slots interleave in every
stage; over one slot one of them waits. Two executors cover a primary in its own
workspace, the fallback, and a direct run in the fallback's workspace. `MaxRestarts`
bounds how often the process ends: one end shows what it leaves behind, two let a task
be orphaned, rescued and orphaned again. Two dispatching requests race, two
syntheses show one too many, one lost answer repeats an event, and orders do not
interact. Two threads in the forge interleave two candidates of one id, and two
resolutions contradict each other. Among the services, two actors race and a third, where
there is one, comes after a race; the counts of calls, edits, days and pages are the
least at which both the case that is allowed and the one that is not arise, and each
property has a mutation of the code that breaks it within the same bounds.
Executions, requests and callers are interchangeable, hence the symmetry sets, used
only where no liveness is checked. Deadlock checking is off everywhere but in the
locks: with all bounded requests served and no restart left, these systems may stop.

**The fairness.** In the locks and the engine: weak fairness of `Serve`, `Poll` and
`WriteBack`: the event loop runs its ready coroutines, and the semaphore and the queue
are FIFO. Of `Settle` and of a run's `Exit`: every executor is awaited with a timeout
(`Budget.timeout_seconds`) and killed at it. Of `Sweep`/`Evict`: the reaper loop sleeps
and turns for ever. Of `Expire`: time passes. Of `Boot`: `docker-compose.yml:19`
restarts the service `unless-stopped`. In `Orders`: of `Deliver`, because the plugin
repeats what is not answered, of the handler, which is a coroutine, and of a run's end,
which its timeout brings about. Nothing is assumed of clients, humans or the board.

## The proofs

`WriteLocksProofs` proves for all sets of keys and runs:

- `TypeCorrect`: the types.
- `LocksOwned`: `LockInv`, if `LongRuns = {}`. Exclusion is not inductive, because
  a file can be unlinked under a run. What is inductive is that a working run is
  the one named in its key's file, that only files of gone runs are expired, and
  that a run is in one place. The first conjunct gives exclusion at once
  (`Exclusion`); the second keeps the sweep from breaking the first.
- `ImplementsMutex`: the refinement of `KeyedMutex`, under the same condition,
  with the set of runs holding each key as the refinement mapping.

`LongRuns = {}` reads: every executor timeout is below the TTL of 3600 s. The code
does not enforce it (timeouts up to 86400 s are accepted), which is what
`WriteLocksLong` shows.

`ExecutionEngineProofs` proves for all tasks, executors, worker limits, restart
bounds and finite sets of executions:

- `Inductive`: `TypeOK` and `EngineInv`. The conjuncts of `EngineInv` are the five
  facts the rest needs: a run's key is that of the executor it is on
  (`LocksFit`); the queue holds unserved requests once (`QueueFits`); an execution
  with a stage has a task and executor (`Requested`); nothing runs while the
  process is down (`DownIsIdle`); the row is as far as the stage (`RowFits`); and
  the slots add up (`SlotsAccounted`), which needs the others.
- `TypeCorrect`, `SlotsAlwaysAccounted`: corollaries.
- `UsesLocks`: every step of the engine is a step of `WriteLocks` or leaves the
  locks alone, so the invariant proved there holds here.
- `WorkspacesExclusive`, `RendersExclusive`: from `LocksFit` and the lock
  invariant, if `LongRuns = {}`.
- `KeepsRows`: the refinement of `ExecutionRows`; `SlotsAccounted` supplies the
  bound on the executions served, `RowFits` the order of the answers. A run that stops at
  the approval gate or raises before it has its row at `running`, and the answer goes over
  that.

The assumption on the constants (`EngineAssumption`) says that there is at least
one worker, executions are finitely many, only LOW-risk tasks can be approved
automatically, and `None` is no task, execution or key.

In the same module, on top of `Inductive` and for any `LongRuns`:

- `NoLockLeaks`: every lock file names a run that works under it or one that a
  kill ended. Exits, switches and `Unwind` remove the file of the key they leave,
  and nothing revives a lost execution; `LocksFit` gives the stage of a run at work.
- `EvidenceIsBehindReview`: the invariant is strengthened by what a pending
  `/complete` request has seen (a task in `closing` has its evidence too) and by
  results being written once, so evidence is never taken back.
- `HumansCloseRisky`: by cases on the step.

`OrdersProofs` proves for any number of orders, requests, children, lost answers and
restarts, and finitely many syntheses:

- `TypeCorrect`: the types, with what ties a thread's place to its order.
- `SynthesesCounted`: counting syntheses against dispatches is not inductive, because an
  event handler between its reads and its write owes a synthesis that is not yet there.
  `CountInv` keeps one dispatch in hand for every order that is, or was read as,
  `dispatched`.
- `DoneIsDone`: `DoneInv` carries the link and the completed card from the event through
  `aggregating` and the running synthesis to `done`.
- `LivesAsPromised`: the refinement of `OrderLife`. `SoloInv` says that an order outside
  `racy` has at most one request under way, which finds it `received` until its last
  write, that a handler's reading of such an order is still true when it writes, that
  only an `aggregating` order has a running synthesis, of which there is one, and that an
  order that waits for its message is done and nobody has been told of it.

`ForgeProofs` proves, for any definitions, prices, requests and humans and finitely many
threads, `TypeCorrect`, `ExpensesGranted` and `PromotionsEarned` from one invariant:

- `ApprovalsInv`: a booked row or a callback under way has a grant of its own
  (`GrantsFit`, `JobsFit`, `BooksFit`). The count is by request: grants are at least the
  rows booked and the callbacks that may still book (`Owed`), which is why
  `ExpenseHasGrant` survives a request resolved twice.
- `RecordFits`, `WorkFits`: a record, or the copy a stage has read, has passed what its
  stage says, and its approval was filed for its definition (`AboutFits`). Since a stage
  writes back what it read, this must hold of copies too. Between the write of
  `candidate.json` and its read, the file is the candidate's own or the candidate is
  disturbed.

The theorems about the services are of `Services`, so each states the very formula the
run checks. Each rests on an inductive invariant of its part.

`ServerProofs`:

- `MemoryApproved`: the approval that passed the check stays in `granted` with its
  request until the note is there; until two requests cross, the row is what the one
  request made of it.
- `CapHolds`: until a caller counts in a rush, what runs and what was let start fit the
  cap together.
- `OneSupervisedWriter`: a run that waits for its child has the lock or is among those
  whose file was removed under them, and a child that writes has such a run unless it was
  abandoned.
- `RoutingSubscription`: for all integers in a task's metadata, by comparing the score of
  `claude-subscription` with that of each profile it must beat.
- `AnswersFresh`: what is cached or about to be was the case at some time not before its
  stamp (`Seen`), because the stamp is taken before docker is asked; the TTL does the rest.

`SpendProofs`:

- `NoChargeLost`: `SpendInv` speaks of the read that is on its way to a save. The service's
  read plus the charge in hand covers what was charged (one thread, so no other save of a
  charge comes between); the daily cycle's covers it but for what it has missed since, which
  is what its save adds to `lost`, as does an empty row that is saved over charges.
- `OverspendFits`: the bound is not inductive, since a run is admitted long before it
  charges. `OverspendInv` sets one full charge aside for every execution under way, of
  which there are at most `Slots` and the syntheses, which take no slot, and for a day that
  is over the one charge that may still be saved.

`ScriptsProofs`:

- `DuplicatesOverlapped`: a producer writes its one row last; the rows a check has read so
  far, none of which was removed since, are not in conflict with its key unless it has found
  one (`ContentInv`), so of a check that came to the end of the table this holds of the
  whole table (`CheckEnds`); what was there then stays uncommitted unless a person moves it.
- `RotationShares`: between two advances of the cursor, the keys before it have been asked
  one round more than those after it (`Even`); refused keys are skipped and never asked
  again, so this holds of the rest, round the end of the vault's list too.
- `OwnersValuesStay`, `ReadersServed`, `CurationStays`: `RegistryInv`. What the owner wrote
  last at an entry that is planned is not fit for use, or was written after the plan; a
  build under way keeps the notes it has seen; and each step of an undisturbed build and
  propagation (`served`) hands the next what it needs to reach every reader.
- `FailuresRefused`, `RegressionsSeen`: the report a cycle has read before its own audit is
  the one it will find for the day before (`AuditInv`), because reports are of their day
  and days only pass.

`ReportsProofs`:

- `PagesAddUpAlways`: a page reads what refers to another table before that table, so that
  what is referred to is there (`PagesInv`: rows read have their task among the tasks read
  after them, those their order). The totals by executor, provider and order are then sums
  of one set taken apart in different ways. The groups of orders hold each order once unless
  a second dispatch has written it over (`again`).
- `BooksAddUpAlways`: the rows of an undisturbed reader are a whole number of pages of the
  table (`BooksInv`), which appends do not change; the reports are partitions of one sum,
  by month and by category.
- `TrendsMeasured`: every watch-time row, written or yet to write, is a measurement
  (`TrendsInv`), dated by its run and taken on that day or later. With `MinDays` different
  dates, the first and the last are that far apart, and so are the days they were taken
  unless the earlier one was taken after the date of its run.
- `PartsTyped`: `TypeOK`, from the thirteen invariants.

**Induction.** The library's induction theorems take an operator, which the provers cannot
instantiate. `ReportsProofs` states induction over sets instead: `NaturalsAreIn` and
`SubsetsAreIn`, proved from `LeastNatural`, which follows from the well-foundedness of
`<`. A property is then the set of those that have it. On this rests a small theory of
sums over finite sets: a function that adds up (`Sums`) exists, is unique, and is what
`MapThenSumSet` computes (`SumIs`); taking one element out, depending on values only, and
taking a set apart into disjoint parts (`SumOfParts`).

**Assumptions.** `ServicesAssumption`: bounds and limits are natural numbers (`TTL`,
`PageSize`, `MaxPages`, `MinDays` and the days positive, as in the code's constants);
offices, keys, the rows of a page, months and categories are finitely many; a name that stands for
nothing (`Nothing`, `NoEntry`, `Absent`, ...) is none of the things it is the absence of.
Of runs, requests, callers, producers and people nothing is assumed but, for `ChildRuns`,
that `Nothing` is not one of them. `Services` is extended by `MCServices`, so TLC
evaluates the assumption.

Only model-checked: the liveness properties (`WantedKeyGetsUsed`, `RowAnswered`,
`RunningEnds`, `EventsSettle`), which are out of the prover's reach. Every invariant and
every other action property or refinement that a passing run checks is proved.

## Known disagreements without a run

The modules also define these, which the code's comments say and the code does not keep.
Adding one to the configuration named shows the trace.

| Definition | Configuration | What happens |
|---|---|---|
| `RunningHasLiveRun` (invariant) | `EngineSafety` | an executor that raises leaves its task RUNNING with no run (`queue_service.py:198`) |
| `OneRenderAtATime` (invariant) | `EngineSafety` | a render that degrades leaves the render lock and runs on beside the next (`execution_service.py:344`) |
| `NoOpReupsert` (property) | `EngineSafety` | the last save of `_process` erases the usage `run` has recorded (`queue_service.py:215`) |
| `CompletesOnlyReview` (property) | `EngineSafety` | `/complete` checks and writes apart: a task planned in between is closed (`api/app.py:348`) |
| `HumanApprovalCounts` (property) | `EngineSafety` | a grant is not looked at by the next execution (`execution_service.py:271`) |
| `DispatchedOnce` (invariant) | `Orders` | two requests dispatch one order |

Seen while modelling, and not stated as properties: the trends docstring says every row
of the metrics table is read, the code reads one page of limited size; the command line
of `content/dedup.py` answers `unknown` with an exit code that `publish/task.sh:64-72`
takes for leave to publish, and it answers `clear` when it has read 20 pages of a longer
table (`content/dedup.py:128-143`); content analytics dates its rows before it asks
(`scripts/content_analytics.py:571`) and asks for the 28 days up to the moment it asks
(`:264`), so that a run across midnight and the one of the next day may be told as a trend
although both were answered on one day; the comment at `execution_service.py:110-127` says the
usage limit is never looked for in standard output, but the summary it reads begins with
it; `container_sandbox.py` says a container is destroyed when its task ends, but at a
timeout only the docker client is killed, as is only the direct child of any other
executor; the fallback comment at
`execution_service.py:329-349` speaks of a tier-0 model while the packet keeps the task's
own profile; the router says the master always gets the subscription, while agents of
the governance team whose runtime is `hermes` do not get its bonus.

## Not modelled

- The `dry_run` mode of a run, which has no suspension point; the event trail, which
  nobody decides on; the decomposition of a text into subtasks and the texts of prompts,
  reports and pages.
- Script writing (`scripts/write_guion.py`, `guion_to_videovox.py`), the native tool bridge (a command per call, behind
  an approval that Approvals models), notifications (best effort, no state), the rendering
  of the connection matrix, ads, the provider gateway, nexus, MCP, radar, business links
  and the CLI: single calls, formatting, or read-only views.
- SQLite, git, docker, the command lines of executors, Baserow and the kanban server are
  external and appear only through what they can do to this code; shell and compose files
  only through the restart policy.

Simplified: of an actor only the name that the caller sends is known (`api/app.py`), and
a human is somebody who sends such a name; a 403 is taken for a refusal of the key, as the
validators take it, although a web application firewall may be its author
(`scripts/validators/__init__.py:105-109`); the report before today's can always be read,
while the code takes one that cannot for none and raises no alert over it
(`scripts/daily_cycle.py:107-110`); "paid" are the profiles of tier 5, although others are
billed for as well.

## What is left

A composition of Orders with ExecutionEngine, in place of the synthesis run as one step
with an outcome; several orders over one ledger; the safety part of the liveness
properties (that a served row is always within reach of an answer) as an invariant that
can be proved; and the hazards of `PROJECT.json` that no property covers.
