--------------------------- MODULE ExecutionEngine ---------------------------
(***************************************************************************)
(* The execution core in its production mode ("supervised", config.py):    *)
(* QueueService, ExecutionService.run, complete_execution, the task status *)
(* writes of TaskEngine, the two reapers and the HTTP handlers that race   *)
(* with them.                                                              *)
(*                                                                         *)
(* The event loop is one thread: what it does between two awaits is not    *)
(* interleaved with its other coroutines.  The synchronous HTTP endpoints  *)
(* run in a thread pool and interleave with everything, one SQLite         *)
(* transaction at a time, and the process can die between any two of them. *)
(* A run is therefore cut at its awaits and, at its end, at its writes;    *)
(* LoopFree keeps other coroutines out of the stretch between those writes.*)
(***************************************************************************)
EXTENDS Naturals, Sequences, FiniteSets

CONSTANTS Tasks,        \* tasks, all created beforehand
          Execs,        \* execution ids, one per POST /execute
          Executors,    \* executor ids the callers pass or the task resolves to
          MaxWorkers,   \* Settings.max_concurrent_workers
          Low,          \* tasks with RiskLevel.LOW
          NeedsHuman,   \* tasks evaluate_auto_approval always leaves to a human
          Renders,      \* tasks with metadata.kind == "render"
          Bridged,      \* tasks that also live on the kanban board
          LongRuns,     \* executions that may outlive stale_lock_ttl_seconds
          MaxRestarts,  \* bound: how often the process ends
          None

\* ExecutionService.executors, and those whose usage window has a fallback.
Known == {"claude-code", "codex", "hermes-agent", "container-sandbox", "aah"}
Windowed == {"claude-code", "codex"}
Fallback == "hermes-agent"

\* The lock targets: one shared key for renders, else the workspace of the
\* task and executor.
RenderKey == <<None, Fallback>>
Workspaces == Tasks \X (Executors \cup {Fallback})
LockKeys == Workspaces \cup {RenderKey}

\* evaluate_auto_approval refuses whatever is not LOW risk.
ASSUME EngineAssumption == /\ MaxWorkers \in Nat \ {0}
                           /\ MaxRestarts \in Nat
                           /\ IsFiniteSet(Execs)
                           /\ Low \subseteq Tasks
                           /\ Tasks \ Low \subseteq NeedsHuman
                           /\ LongRuns \subseteq Execs
                           /\ None \notin Execs \cup Tasks \cup LockKeys

VARIABLES status,    \* status[t]: TaskRecord.status
          row,       \* row[e]: executions.status, "none" before the row exists
          usage,     \* executions whose row carries usage_json
          approval,  \* approval[e]: the ApprovalRequest e raised, if any
          task,      \* task[e]: the task e was requested for
          via,       \* via[e]: the executor e runs on
          queue,     \* requests in the asyncio.Queue or waiting for the semaphore
          permits,   \* free slots of the asyncio.Semaphore
          stage,     \* stage[e]: how far _process and run() have got
          result,    \* result[e]: the status of e's ExecutionResult
          closing,   \* tasks a /complete request has checked but not yet written
          up,        \* the API process runs
          restarts,  \* how often it has ended
          owner, expired, want, held   \* the write locks

lockVars == <<owner, expired, want, held>>
reqVars  == <<task, via>>
procVars == <<up, restarts>>
vars == <<status, row, usage, approval, task, via, queue, permits, stage,
          result, closing, up, restarts, owner, expired, want, held>>

Locks == INSTANCE WriteLocks WITH Keys <- LockKeys, Runs <- Execs

Statuses == {"inbox", "planned", "ready", "running", "review", "approval",
             "done", "blocked", "failed"}
Results == {"completed", "failed", "approval_required"}
RowStatuses == {"none", "pending", "running"} \cup Results
Running == {"primary", "fallback"}               \* locking or executing
Closing == {"finished", "recorded", "handed"}    \* between the last writes
Writing == {"started"} \cup Closing              \* between two writes, no await
Working == Running \cup Writing
Gone    == {"cancelled", "lost"}                 \* ended by stop(), by a kill
Stages  == {"new", "queued", "ended"} \cup Working \cup Gone

TypeOK == /\ status \in [Tasks -> Statuses]
          /\ row \in [Execs -> RowStatuses]
          /\ usage \subseteq Execs
          /\ approval \in [Execs -> {"none", "pending", "approved", "rejected"}]
          /\ task \in [Execs -> Tasks \cup {None}]
          /\ via \in [Execs -> Executors \cup {Fallback, None}]
          /\ queue \in Seq(Execs)
          /\ permits \in Nat
          /\ stage \in [Execs -> Stages]
          /\ result \in [Execs -> {"none"} \cup Results]
          /\ closing \subseteq Tasks
          /\ up \in BOOLEAN
          /\ restarts \in 0..MaxRestarts
          /\ Locks!TypeOK

Init == /\ status = [t \in Tasks |-> "inbox"]
        /\ row = [e \in Execs |-> "none"]
        /\ usage = {}
        /\ approval = [e \in Execs |-> "none"]
        /\ task = [e \in Execs |-> None]
        /\ via = [e \in Execs |-> None]
        /\ queue = <<>>
        /\ permits = MaxWorkers
        /\ stage = [e \in Execs |-> "new"]
        /\ result = [e \in Execs |-> "none"]
        /\ closing = {}
        /\ up = TRUE
        /\ restarts = 0
        /\ Locks!Init

\* No coroutine is between two writes of one synchronous stretch.
LoopFree == up /\ \A e \in Execs : stage[e] \notin Writing

\* The key run() locks for e (mutant: renders get no key of their own).
MutTargetKey(e) == <<task[e], via[e]>>
TargetKey(e) == IF task[e] \in Renders THEN RenderKey ELSE <<task[e], via[e]>>

\* The key of the retry (mutant: it goes on under the first one).
MutFallbackKey(e) == TargetKey(e)
FallbackKey(e) == <<task[e], Fallback>>
-----------------------------------------------------------------------------
\* POST /execute: QueueService.enqueue writes the placeholder and queues.
Enqueue(e, t, x) ==
    /\ LoopFree
    /\ stage[e] = "new"
    /\ task' = [task EXCEPT ![e] = t]
    /\ via' = [via EXCEPT ![e] = x]
    /\ row' = [row EXCEPT ![e] = "pending"]
    /\ stage' = [stage EXCEPT ![e] = "queued"]
    /\ queue' = Append(queue, e)
    /\ UNCHANGED <<status, usage, approval, permits, result, closing, procVars,
                   lockVars>>

\* The oldest request gets a slot of the semaphore (mutant: nothing bounds it).
MutTakesSlot(e) == /\ LoopFree
                   /\ queue # <<>>
                   /\ e = Head(queue)
                   /\ queue' = Tail(queue)
                   /\ permits' = permits - 1
TakesSlot(e) == /\ LoopFree
                /\ queue # <<>>
                /\ e = Head(queue)
                /\ permits > 0
                /\ queue' = Tail(queue)
                /\ permits' = permits - 1

\* _process with its slot: the row says running before run() is called.
StartRun(e) ==
    /\ TakesSlot(e)
    /\ row' = [row EXCEPT ![e] = "running"]
    /\ stage' = [stage EXCEPT ![e] = "started"]
    /\ UNCHANGED <<status, usage, approval, reqVars, result, closing, procVars,
                   lockVars>>

\* "production_write" always needs an approval; try_auto_approve grants it when
\* every condition holds, `solvent` being presupuesto_restante >= 0.
AutoApproved(e, solvent) == task[e] \notin NeedsHuman /\ solvent

\* What run() does from its first line to its first await, or to its end.
Gates(e) == /\ up
            /\ stage[e] = "started"
            /\ UNCHANGED <<row, usage, reqVars, queue, permits, closing, procVars>>

\* run() up to its early return: the request stays with a human.
Block(e, solvent) ==
    /\ Gates(e)
    /\ ~AutoApproved(e, solvent)
    /\ status' = [status EXCEPT ![task[e]] = "approval"]
    /\ approval' = [approval EXCEPT ![e] = "pending"]
    /\ result' = [result EXCEPT ![e] = "approval_required"]
    /\ stage' = [stage EXCEPT ![e] = "handed"]
    /\ UNCHANGED lockVars

\* run() raises after the gate: no such executor, or no worktree.  _process has a
\* failed row to save; the task stays where the gate put it.
SetupFails(e, solvent) ==
    /\ Gates(e)
    /\ AutoApproved(e, solvent)
    /\ status' = [status EXCEPT ![task[e]] = "ready"]
    /\ approval' = [approval EXCEPT ![e] = "approved"]
    /\ result' = [result EXCEPT ![e] = "failed"]
    /\ stage' = [stage EXCEPT ![e] = "handed"]
    /\ UNCHANGED lockVars

\* run() passes the gate, marks the task running and goes for its lock.
Begin(e, solvent) ==
    /\ Gates(e)
    /\ AutoApproved(e, solvent)
    /\ via[e] \in Known
    /\ status' = [status EXCEPT ![task[e]] = "running"]
    /\ approval' = [approval EXCEPT ![e] = "approved"]
    /\ stage' = [stage EXCEPT ![e] = "primary"]
    /\ Locks!Enter(e, TargetKey(e))
    /\ UNCHANGED result

Poll(e) == /\ LoopFree
           /\ Locks!Poll(e)
           /\ UNCHANGED <<status, row, usage, approval, reqVars, queue, permits,
                          stage, result, closing, procVars>>

\* The usage window of e's executor is exhausted: one retry on the fallback, in
\* its own workspace.
Degrade(e) == /\ LoopFree
              /\ stage[e] = "primary"
              /\ via[e] \in Windowed
              /\ stage' = [stage EXCEPT ![e] = "fallback"]
              /\ Locks!Switch(e, FallbackKey(e))
              /\ UNCHANGED <<status, row, usage, approval, reqVars, queue,
                             permits, result, closing, procVars>>

\* The task status an ExecutionResult leads to (mutants: the result's own status
\* is written; a failure is sent to review as well).
MutRawStatus(outcome) == outcome
MutAlwaysReview(outcome) == "review"
StatusFor(outcome) == IF outcome = "completed" THEN "review" ELSE "failed"

\* The executor returns (a timeout kills it and counts as failed): the lock is
\* released and the first write is the task's status.
Finish(e, outcome) ==
    /\ LoopFree
    /\ stage[e] \in Running
    /\ Locks!Exit(e)
    /\ result' = [result EXCEPT ![e] = outcome]
    /\ status' = [status EXCEPT ![task[e]] = StatusFor(outcome)]
    /\ stage' = [stage EXCEPT ![e] = "finished"]
    /\ UNCHANGED <<row, usage, approval, reqVars, queue, permits, closing,
                   procVars>>

\* run() saves the row, with whatever usage the executor reported.
Record(e, reported) ==
    /\ up
    /\ stage[e] = "finished"
    /\ row' = [row EXCEPT ![e] = result[e]]
    /\ usage' = IF reported THEN usage \cup {e} ELSE usage
    /\ stage' = [stage EXCEPT ![e] =
                   IF result[e] = "completed" THEN "recorded" ELSE "handed"]
    /\ UNCHANGED <<status, approval, reqVars, queue, permits, result, closing,
                   procVars, lockVars>>

\* complete_execution: artifacts are copied, a LOW-risk task is closed.
Complete(e) ==
    /\ up
    /\ stage[e] = "recorded"
    /\ status' = IF task[e] \in Low THEN [status EXCEPT ![task[e]] = "done"]
                                    ELSE status
    /\ stage' = [stage EXCEPT ![e] = "handed"]
    /\ UNCHANGED <<row, usage, approval, reqVars, queue, permits, result,
                   closing, procVars, lockVars>>

\* _process saves the row, for a run that did save it without its usage, and frees
\* its slot (mutants: the slot is not freed; the answer is not saved).
MutKeepsSlot(e, answer) ==
    /\ row' = [row EXCEPT ![e] = answer]
    /\ usage' = usage \ {e}
    /\ stage' = [stage EXCEPT ![e] = "ended"]
    /\ UNCHANGED <<permits, status, approval, reqVars, queue, result, closing,
                   procVars>>
MutKeepsRow(e, answer) ==
    /\ permits' = permits + 1
    /\ stage' = [stage EXCEPT ![e] = "ended"]
    /\ UNCHANGED <<row, usage, status, approval, reqVars, queue, result, closing,
                   procVars>>
LastSave(e, answer) ==
    /\ row' = [row EXCEPT ![e] = answer]
    /\ usage' = usage \ {e}
    /\ permits' = permits + 1
    /\ stage' = [stage EXCEPT ![e] = "ended"]
    /\ UNCHANGED <<status, approval, reqVars, queue, result, closing, procVars>>

Resave(e) == /\ up
             /\ stage[e] = "handed"
             /\ LastSave(e, result[e])
             /\ UNCHANGED lockVars

\* Copying the artifacts raises (a file that vanishes, a full disk): the row
\* that said completed is saved as failed; the task stays in review.
CompleteRaises(e) == /\ up
                     /\ stage[e] = "recorded"
                     /\ LastSave(e, "failed")
                     /\ UNCHANGED lockVars

\* The executor raises instead of returning: _process saves a failed row and
\* nothing touches the task (mutant: without the `finally` of _run_locked).
MutRaise(e) == /\ LoopFree
               /\ stage[e] \in Running
               /\ held[e] # None
               /\ LastSave(e, "failed")
               /\ UNCHANGED lockVars
Raise(e) == /\ LoopFree
            /\ stage[e] \in Running
            /\ Locks!Exit(e)
            /\ LastSave(e, "failed")
-----------------------------------------------------------------------------
\* reap_orphaned: every RUNNING task is failed (mutant: it finds none).
MutReaped == status
Reaped == [t \in Tasks |-> IF status[t] = "running" THEN "failed" ELSE status[t]]

\* One turn of _reaper_loop.
Sweep == /\ LoopFree
         /\ status' = Reaped
         /\ Locks!Evict
         /\ UNCHANGED <<row, usage, approval, reqVars, queue, permits, stage,
                        result, closing, procVars>>

\* Time passes for a lock file.
Expire(k) == /\ Locks!Expire(k)
             /\ UNCHANGED <<status, row, usage, approval, reqVars, queue,
                            permits, stage, result, closing, procVars>>

\* What every end of the process does: queue, semaphore, requests being served
\* and in-flight runs are gone; the database stays.
Ends(fate) ==
    /\ restarts < MaxRestarts
    /\ restarts' = restarts + 1
    /\ up' = FALSE
    /\ queue' = <<>>
    /\ closing' = {}
    /\ stage' = [e \in Execs |-> IF stage[e] \in Working \cup {"queued"}
                                 THEN fate ELSE stage[e]]
    /\ UNCHANGED <<status, row, usage, approval, reqVars, permits, result>>

\* QueueService.stop at shutdown: in-flight runs are cancelled at an await.
Stop == LoopFree /\ Ends("cancelled") /\ Locks!Unwind

\* The process is killed, between any two writes.
Crash == up /\ Ends("lost") /\ Locks!Crash

\* lifespan: reap once, then start the queue.
Boot == /\ ~up
        /\ up' = TRUE
        /\ status' = Reaped
        /\ permits' = MaxWorkers
        /\ UNCHANGED <<row, usage, approval, reqVars, queue, stage, result,
                       closing, restarts, lockVars>>
-----------------------------------------------------------------------------
\* POST /plan, in a pool thread: TaskEngine.plan has no guard on the status.
Plan(t) == /\ up
           /\ status' = [status EXCEPT ![t] = "planned"]
           /\ UNCHANGED <<row, usage, approval, reqVars, queue, permits, stage,
                          result, closing, procVars, lockVars>>

\* POST /complete, in a pool thread: the check...
CheckComplete(t) == /\ up
                    /\ status[t] = "review"
                    /\ closing' = closing \cup {t}
                    /\ UNCHANGED <<status, row, usage, approval, reqVars, queue,
                                   permits, stage, result, procVars, lockVars>>

\* ...and the transition, which does not check again.
WriteComplete(t) == /\ up
                    /\ t \in closing
                    /\ status' = [status EXCEPT ![t] = "done"]
                    /\ closing' = closing \ {t}
                    /\ UNCHANGED <<row, usage, approval, reqVars, queue,
                                   permits, stage, result, procVars, lockVars>>

\* POST /approvals/{id}/resolve: an answered request can be answered again.
ResolveApproval(e, verdict) ==
    /\ up
    /\ approval[e] # "none"
    /\ approval' = [approval EXCEPT ![e] = verdict]
    /\ UNCHANGED <<status, row, usage, reqVars, queue, permits, stage, result,
                   closing, procVars, lockVars>>

\* _handle_task_event: the three kanban events and the statuses they accept
\* (mutant: a completed card closes its task whatever the risk).
MutKanbanNext(t) ==
    (IF status[t] \in {"inbox", "planned", "ready"}
     THEN {"running", "blocked"} ELSE {})
    \cup (IF status[t] = "running" THEN {"blocked", "done"} ELSE {})
KanbanNext(t) ==
    (IF status[t] \in {"inbox", "planned", "ready"}
     THEN {"running", "blocked"} ELSE {})
    \cup (IF status[t] = "running"
          THEN {"blocked", IF t \in Low THEN "done" ELSE "review"} ELSE {})

KanbanEvent(t) == /\ LoopFree
                  /\ t \in Bridged
                  /\ \E s \in KanbanNext(t) : status' = [status EXCEPT ![t] = s]
                  /\ UNCHANGED <<row, usage, approval, reqVars, queue, permits,
                                 stage, result, closing, procVars, lockVars>>
-----------------------------------------------------------------------------
Serve(e) == \/ StartRun(e)
            \/ \E solvent \in BOOLEAN :
                  Block(e, solvent) \/ SetupFails(e, solvent) \/ Begin(e, solvent)

Settle(e) == \/ Degrade(e)
             \/ \E outcome \in {"completed", "failed"} : Finish(e, outcome)
             \/ Raise(e)

WriteBack(e) == \/ \E reported \in BOOLEAN : Record(e, reported)
                \/ Complete(e)
                \/ CompleteRaises(e)
                \/ Resave(e)

RunStep(e) == \/ \E t \in Tasks, x \in Executors : Enqueue(e, t, x)
              \/ Serve(e)
              \/ Poll(e)
              \/ Settle(e)
              \/ WriteBack(e)

HandlerStep == \/ \E t \in Tasks : \/ Plan(t)
                                   \/ CheckComplete(t)
                                   \/ WriteComplete(t)
                                   \/ KanbanEvent(t)
               \/ \E e \in Execs, verdict \in {"approved", "rejected"} :
                     ResolveApproval(e, verdict)

ProcessStep == \/ Sweep
               \/ \E k \in LockKeys : Expire(k)
               \/ Stop
               \/ Crash
               \/ Boot

Next == (\E e \in Execs : RunStep(e)) \/ HandlerStep \/ ProcessStep

Spec == Init /\ [][Next]_vars

\* The event loop runs its ready coroutines (Serve, Poll, WriteBack), executors
\* end by their timeout (Settle), the reaper loop turns for ever (Sweep), time
\* passes (Expire) and docker restarts the process (Boot).  No request, no human
\* and no kanban event is owed.
Fairness == /\ \A e \in Execs : /\ WF_vars(Serve(e))
                                /\ WF_vars(Poll(e))
                                /\ WF_vars(Settle(e))
                                /\ WF_vars(WriteBack(e))
            /\ \A k \in LockKeys : WF_vars(Expire(k))
            /\ WF_vars(Sweep)
            /\ WF_vars(Boot)

FairSpec == Spec /\ Fairness
-----------------------------------------------------------------------------
\* Executing: the executor of e is at work, under e's lock.
Executing(e) == held[e] # None

\* The workspace the executor of e writes into.
Workspace(e) == <<task[e], IF stage[e] = "fallback" THEN Fallback ELSE via[e]>>

\* The executions in a worker's hands.
Serving == {e \in Execs : stage[e] \in Working}

\* No slot of the semaphore is lost or counted twice, on any path out of
\* _process, so at most MaxWorkers executions are in flight.
SlotsAccounted == up => permits + Cardinality(Serving) = MaxWorkers

\* Two executions never write into the same workspace at once (the reason
\* given at execution_service.py:317 for locking every run).  Renders lock
\* another key and are left out.
WorkspaceExclusion ==
    \A e, f \in Execs :
        e # f /\ Executing(e) /\ Executing(f) /\ task[e] \notin Renders
        => Workspace(e) # Workspace(f)

\* On its own executor, one render excludes every other.
RenderExclusion ==
    \A e, f \in Execs :
        e # f /\ Executing(e) /\ Executing(f) /\ {task[e], task[f]} \subseteq Renders
        => ~(stage[e] = "primary" /\ stage[f] = "primary")

\* A lock file is in the way of others only while its run works under it or if
\* the process was killed under it: no path of run(), and not stop(), leaks one.
NoLockLeak ==
    \A k \in LockKeys : owner[k] # None =>
        \/ held[owner[k]] = k /\ stage[owner[k]] \in Running
        \/ stage[owner[k]] = "lost"

\* A task of this system alone is in review or done only if one of its
\* executions succeeded, whatever the reapers, restarts and handlers did since.
EvidenceBehindReview ==
    \A t \in Tasks \ Bridged :
        status[t] \in {"review", "done"}
        => \E e \in Execs : task[e] = t /\ result[e] = "completed"

\* No automatic path closes a task above LOW risk: neither the completion of its
\* run nor a kanban event, only a human's /complete.
HumanClosesRisky ==
    [][\A t \in Tasks \ Low :
         status[t] # "done" /\ status'[t] = "done" => t \in closing]_vars

\* What the caller of /execute was promised.
Rows == INSTANCE ExecutionRows WITH serving <- Serving
RowsSpec == Rows!Spec

\* Every accepted execution gets an answer unless the process ends under it,
\* even behind a lock file that a killed process left.
RowAnswered ==
    \A e \in Execs : row[e] = "pending" ~> row[e] \in Rows!Answers \/ stage[e] \in Gone

\* No task stays RUNNING for ever: whatever left it so, its own run or a reaper
\* moves it on.
RunningEnds == \A t \in Tasks : status[t] = "running" ~> status[t] # "running"
-----------------------------------------------------------------------------
(* The inductive invariant behind the safety properties. *)

\* A run holds or waits for no key but that of the executor it is on, and only
\* while it is locking or executing.
KeyOf(e) == IF stage[e] = "fallback" THEN FallbackKey(e) ELSE TargetKey(e)
LocksFit == \A e \in Execs :
    /\ held[e] # None => stage[e] \in Running /\ held[e] = KeyOf(e)
    /\ want[e] # None => stage[e] \in Running /\ want[e] = KeyOf(e)
    /\ held[e] = None \/ want[e] = None

\* The queue holds requests that were not served, each once.
QueueFits == /\ \A i \in 1..Len(queue) : stage[queue[i]] = "queued"
             /\ \A i, j \in 1..Len(queue) : queue[i] = queue[j] => i = j

\* An execution that has a stage has a task and an executor.
Requested == \A e \in Execs : stage[e] # "new" => /\ task[e] \in Tasks
                                                  /\ via[e] \in Executors

\* Nothing is queued or served while the process is down.
DownIsIdle == ~up => queue = <<>> /\ \A e \in Execs : stage[e] \notin Working

\* The row of an execution that is not over is as far as its stage.
RowFits == \A e \in Execs :
    /\ stage[e] = "new" => row[e] = "none"
    /\ stage[e] = "queued" => row[e] = "pending"
    /\ stage[e] \in Running \cup {"started", "finished"} => row[e] = "running"
    /\ stage[e] \in Closing => result[e] # "none"
    /\ stage[e] = "finished" => result[e] # "approval_required"
    /\ stage[e] = "recorded" => row[e] = "completed" /\ result[e] = "completed"
    /\ stage[e] = "handed" => row[e] \in {"running", result[e]}

\* All of them: what run(), _process, stop() and the reapers keep between them.
EngineInv == /\ LocksFit
             /\ QueueFits
             /\ Requested
             /\ DownIsIdle
             /\ RowFits
             /\ SlotsAccounted
-----------------------------------------------------------------------------
(* What the code says of itself and does not keep. *)

\* reap_orphaned is for tasks "left in RUNNING state by an unclean restart":
\* a task with a live run is failed by that run only.
ReapsOnlyOrphans ==
    [][\A t \in Tasks :
         status[t] = "running" /\ status'[t] = "failed"
         => \A e \in Execs : task[e] = t /\ stage[e] \in Running
                            => stage'[e] = "finished"]_vars

\* "A task can only be RUNNING while a live process is executing it."
RunningHasLiveRun ==
    \A t \in Tasks \ Bridged :
        up /\ status[t] = "running"
        => \E e \in Execs : task[e] = t /\ stage[e] \in Running

\* _process on the save that follows run(): of a row that run() has saved, "this is
\* an idempotent no-op re-upsert".
NoOpReupsert ==
    [][\A e \in Execs :
         stage[e] = "handed" /\ stage'[e] = "ended" /\ row[e] = result[e]
         => row'[e] = row[e] /\ (e \in usage' <=> e \in usage)]_vars

\* "renders must always run one at a time, never two in parallel".
OneRenderAtATime ==
    \A e, f \in Execs :
        e # f /\ {task[e], task[f]} \subseteq Renders => ~(Executing(e) /\ Executing(f))

\* /complete: "A task not currently in REVIEW is refused with 409 rather than
\* silently re-transitioned".
CompletesOnlyReview ==
    [][\A t \in closing : up' /\ t \notin closing' => status[t] = "review"]_vars

\* An auto-approved run proceeds "exactly as if Cano had already resolved this
\* from the dashboard/Telegram": an approval Cano gave lets the task run.
HumanApprovalCounts ==
    [][\A e, f \in Execs :
         task[e] = task[f] /\ approval[f] = "approved" /\ stage[e] = "started"
         => result'[e] # "approval_required"]_vars
=============================================================================
