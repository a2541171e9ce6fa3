------------------------ MODULE ExecutionEngineProofs ------------------------
(***************************************************************************)
(* What the execution core guarantees for any tasks, executions, executors *)
(* and number of workers, proved from EngineInv, the invariant that ties   *)
(* an execution's stage to its queue entry, its row, its slot and its lock;*)
(* and, on top of it, which lock files it leaves behind and which tasks it *)
(* sends to review or closes.                                              *)
(***************************************************************************)
EXTENDS ExecutionEngine, FiniteSetTheorems, TLAPS

USE EngineAssumption

\* The steps that move no execution: polling, the reaper's turn, time, and the
\* HTTP and kanban handlers.
Quiet == /\ UNCHANGED <<row, reqVars, queue, permits, stage, result, procVars>>
         /\ \/ UNCHANGED <<want, held>>
            \/ \E e \in Execs : Poll(e)

\* The steps of one execution.
Moves(e) == \/ \E t \in Tasks, x \in Executors : Enqueue(e, t, x)
            \/ StartRun(e)
            \/ \E b \in BOOLEAN : Block(e, b) \/ SetupFails(e, b) \/ Begin(e, b)
            \/ Degrade(e)
            \/ \E o \in {"completed", "failed"} : Finish(e, o)
            \/ \E b \in BOOLEAN : Record(e, b)
            \/ Complete(e) \/ Resave(e) \/ CompleteRaises(e) \/ Raise(e)

\* Every step moves one execution, ends or starts the process, or is quiet.
LEMMA StepCases ==
  ASSUME [Next]_vars
  PROVE  (\E e \in Execs : Moves(e)) \/ Stop \/ Crash \/ Boot \/ Quiet
<1>1. CASE \E e \in Execs : RunStep(e)
  <2>1. PICK e \in Execs : RunStep(e)
    BY <1>1
  <2>2. CASE Poll(e)
    BY <2>2 DEF Poll, Quiet, reqVars, procVars
  <2>3. CASE \E t \in Tasks, x \in Executors : Enqueue(e, t, x)
    BY <2>3 DEF Moves
  <2>4. CASE Serve(e)
    BY <2>4 DEF Serve, Moves
  <2>5. CASE Settle(e)
    BY <2>5 DEF Settle, Moves
  <2>6. CASE WriteBack(e)
    BY <2>6 DEF WriteBack, Moves
  <2> QED
    BY <2>1, <2>2, <2>3, <2>4, <2>5, <2>6 DEF RunStep
<1>2. CASE HandlerStep
  BY <1>2 DEF HandlerStep, Plan, CheckComplete, WriteComplete, KanbanEvent,
              ResolveApproval, Quiet, reqVars, procVars, lockVars
<1>3. CASE Sweep
  BY <1>3 DEF Sweep, Locks!Evict, Quiet, reqVars, procVars
<1>4. ASSUME NEW k \in LockKeys, Expire(k) PROVE Quiet
  BY <1>4 DEF Expire, Locks!Expire, Quiet, reqVars, procVars
<1>5. CASE UNCHANGED vars
  BY <1>5 DEF vars, Quiet, reqVars, procVars
<1> QED
  BY <1>1, <1>2, <1>3, <1>4, <1>5 DEF Next, ProcessStep

\* Who gets a slot was queued, and leaves a queue behind.
LEMMA Served ==
  ASSUME TypeOK, QueueFits, NEW e \in Execs, TakesSlot(e)
  PROVE  /\ stage[e] = "queued"
         /\ queue' \in Seq(Execs)
         /\ permits' \in Nat /\ permits' = permits - 1
         /\ up /\ permits > 0
BY DEF TypeOK, QueueFits, TakesSlot, LoopFree

\* The queue holds each unserved request once: only Enqueue appends, and only a
\* request that had no stage yet.
LEMMA QueueStep ==
  ASSUME TypeOK, QueueFits, [Next]_vars
  PROVE  QueueFits'
<1> USE DEF TypeOK, QueueFits, Stages, Gone, Working, Running, Writing, Closing
<1>1. ASSUME NEW e \in Execs, NEW t \in Tasks, NEW x \in Executors, Enqueue(e, t, x)
      PROVE  QueueFits'
  BY <1>1 DEF Enqueue
<1>2. ASSUME NEW e \in Execs, TakesSlot(e), NEW g \in Stages,
             stage' = [stage EXCEPT ![e] = g]
      PROVE  QueueFits'
  BY <1>2 DEF TakesSlot
<1>3. ASSUME NEW e \in Execs, NEW g \in Stages, stage[e] # "queued",
             stage' = [stage EXCEPT ![e] = g], UNCHANGED queue
      PROVE  QueueFits'
  BY <1>3
<1>4. ASSUME NEW e \in Execs, Moves(e)
      PROVE  QueueFits'
  <2>1. ASSUME NEW b \in BOOLEAN, Block(e, b) \/ SetupFails(e, b) \/ Begin(e, b)
        PROVE  QueueFits'
    BY <2>1, <1>3 DEF Block, SetupFails, Begin, Gates
  <2>5. CASE StartRun(e)
    BY <2>5, <1>2 DEF StartRun
  <2>2. CASE Degrade(e) \/ (\E o \in {"completed", "failed"} : Finish(e, o))
    BY <2>2, <1>3 DEF Degrade, Finish
  <2>3. CASE (\E b \in BOOLEAN : Record(e, b)) \/ Complete(e)
    BY <2>3, <1>3 DEF Record, Complete
  <2>4. CASE Resave(e) \/ CompleteRaises(e) \/ Raise(e)
    BY <2>4, <1>3 DEF Resave, CompleteRaises, Raise, LastSave
  <2> QED
    BY <1>1, <1>4, <2>1, <2>2, <2>3, <2>4, <2>5 DEF Moves
<1>5. CASE Stop \/ Crash
  BY <1>5 DEF Stop, Crash, Ends
<1>6. CASE Boot \/ Quiet
  BY <1>6 DEF Boot, Quiet
<1> QED
  BY <1>4, <1>5, <1>6, StepCases

\* An execution gets its task and executor with its first stage, for good.
LEMMA RequestedStep ==
  ASSUME TypeOK, Requested, QueueFits, [Next]_vars
  PROVE  Requested'
<1> USE DEF TypeOK, Requested, Stages, Gone, Working, Running, Writing, Closing
<1>1. ASSUME NEW e \in Execs, NEW t \in Tasks, NEW x \in Executors, Enqueue(e, t, x)
      PROVE  Requested'
  BY <1>1 DEF Enqueue
<1>2. ASSUME NEW e \in Execs, NEW g, stage[e] # "new",
             stage' = [stage EXCEPT ![e] = g], UNCHANGED reqVars
      PROVE  Requested'
  BY <1>2 DEF reqVars
<1>3. ASSUME NEW e \in Execs, Moves(e)
      PROVE  Requested'
  <2>1. ASSUME NEW b \in BOOLEAN, Block(e, b) \/ SetupFails(e, b) \/ Begin(e, b)
        PROVE  Requested'
    BY <2>1, <1>2 DEF Block, SetupFails, Begin, Gates, reqVars
  <2>5. CASE StartRun(e)
    BY <2>5, <1>2, Served DEF StartRun, reqVars
  <2>2. CASE Degrade(e) \/ (\E o \in {"completed", "failed"} : Finish(e, o))
    BY <2>2, <1>2 DEF Degrade, Finish
  <2>3. CASE (\E b \in BOOLEAN : Record(e, b)) \/ Complete(e)
    BY <2>3, <1>2 DEF Record, Complete
  <2>4. CASE Resave(e) \/ CompleteRaises(e) \/ Raise(e)
    BY <2>4, <1>2 DEF Resave, CompleteRaises, Raise, LastSave
  <2> QED
    BY <1>1, <1>3, <2>1, <2>2, <2>3, <2>4, <2>5 DEF Moves
<1>4. CASE Stop \/ Crash
  BY <1>4 DEF Stop, Crash, Ends, reqVars
<1>5. CASE Boot \/ Quiet
  BY <1>5 DEF Boot, Quiet, reqVars
<1> QED
  BY <1>3, <1>4, <1>5, StepCases

\* While the process is down only Boot happens; its end clears the queue and
\* every stage.
LEMMA DownStep ==
  ASSUME TypeOK, DownIsIdle, [Next]_vars
  PROVE  DownIsIdle'
<1> USE DEF TypeOK, DownIsIdle
<1>1. ASSUME NEW e \in Execs, Moves(e)
      PROVE  DownIsIdle'
  <2>1. up /\ UNCHANGED up
    BY <1>1 DEF Moves, Enqueue, StartRun, TakesSlot, Block, SetupFails, Begin, Gates, Degrade,
                Finish, Record, Complete, Resave, CompleteRaises, Raise,
                LastSave, LoopFree, procVars
  <2> QED
    BY <2>1
<1>2. CASE Stop \/ Crash
  BY <1>2 DEF Stop, Crash, Ends, Working, Running, Writing, Closing
<1>3. CASE Boot
  BY <1>3 DEF Boot
<1>4. CASE Quiet
  BY <1>4 DEF Quiet, procVars
<1> QED
  BY <1>1, <1>2, <1>3, <1>4, StepCases

\* The row is written together with, or right after, the stage it belongs to.
LEMMA RowStep ==
  ASSUME TypeOK, RowFits, QueueFits, [Next]_vars
  PROVE  RowFits'
<1> USE DEF TypeOK, RowFits, Stages, Gone, Working, Running, Writing, Closing
<1>1. ASSUME NEW e \in Execs, Moves(e)
      PROVE  RowFits'
  <2>1. ASSUME NEW t \in Tasks, NEW x \in Executors, Enqueue(e, t, x)
        PROVE  RowFits'
    BY <2>1 DEF Enqueue
  <2>2. ASSUME NEW b \in BOOLEAN, Block(e, b) \/ SetupFails(e, b)
        PROVE  RowFits'
    BY <2>2 DEF Block, SetupFails, Gates
  <2>3. ASSUME NEW b \in BOOLEAN, Begin(e, b)
        PROVE  RowFits'
    BY <2>3 DEF Begin, Gates
  <2>9. CASE StartRun(e)
    BY <2>9, Served DEF StartRun
  <2>4. CASE Degrade(e)
    BY <2>4 DEF Degrade
  <2>5. ASSUME NEW o \in {"completed", "failed"}, Finish(e, o)
        PROVE  RowFits'
    BY <2>5 DEF Finish
  <2>6. ASSUME NEW b \in BOOLEAN, Record(e, b)
        PROVE  RowFits'
    BY <2>6 DEF Record
  <2>7. CASE Complete(e)
    BY <2>7 DEF Complete
  <2>8. CASE Resave(e) \/ CompleteRaises(e) \/ Raise(e)
    BY <2>8 DEF Resave, CompleteRaises, Raise, LastSave
  <2> QED
    BY <1>1, <2>1, <2>2, <2>3, <2>4, <2>5, <2>6, <2>7, <2>8, <2>9 DEF Moves
<1>2. CASE Stop \/ Crash
  BY <1>2 DEF Stop, Crash, Ends
<1>3. CASE Boot \/ Quiet
  BY <1>3 DEF Boot, Quiet
<1> QED
  BY <1>1, <1>2, <1>3, StepCases

\* Every step that takes, waits for or leaves a key also moves the stage to match,
\* and a task or executor never changes under a key.
LEMMA LocksFitStep ==
  ASSUME TypeOK, LocksFit, QueueFits, [Next]_vars
  PROVE  LocksFit'
<1> USE DEF TypeOK, Locks!TypeOK, LocksFit, Stages, Gone, Working, Running,
            Writing, Closing
<1> DEFINE Fits(f) ==
       /\ held[f] # None => stage[f] \in Running /\ held[f] = KeyOf(f)
       /\ want[f] # None => stage[f] \in Running /\ want[f] = KeyOf(f)
       /\ held[f] = None \/ want[f] = None
<1>1. ASSUME NEW f \in Execs, UNCHANGED <<held[f], want[f], stage[f], task[f], via[f]>>
      PROVE  Fits(f)'
  BY <1>1 DEF KeyOf, TargetKey, FallbackKey
<1>2. ASSUME NEW f \in Execs, held'[f] = None, want'[f] = None
      PROVE  Fits(f)'
  BY <1>2
<1>3. ASSUME NEW e \in Execs, Moves(e)
      PROVE  LocksFit'
  <2>1. ASSUME NEW t \in Tasks, NEW x \in Executors, Enqueue(e, t, x)
        PROVE  LocksFit'
    BY <2>1 DEF Enqueue, lockVars, KeyOf, TargetKey, FallbackKey
  <2>2. ASSUME NEW b \in BOOLEAN, Block(e, b) \/ SetupFails(e, b)
        PROVE  LocksFit'
    <3>1. /\ stage[e] = "started" /\ stage' = [stage EXCEPT ![e] = "handed"]
          /\ UNCHANGED <<task, via, held, want>>
      BY <2>2 DEF Block, SetupFails, Gates, lockVars, reqVars
    <3>2. ASSUME NEW f \in Execs \ {e} PROVE Fits(f)'
      BY <3>1, <1>1
    <3> QED
      BY <3>1, <3>2, <1>2
  <2>7. CASE StartRun(e)
    <3>1. /\ stage[e] = "queued" /\ stage' = [stage EXCEPT ![e] = "started"]
          /\ UNCHANGED <<task, via, held, want>>
      BY <2>7, Served DEF StartRun, lockVars, reqVars
    <3>2. ASSUME NEW f \in Execs \ {e} PROVE Fits(f)'
      BY <3>1, <1>1
    <3> QED
      BY <3>1, <3>2, <1>2
  <2>3. ASSUME NEW b \in BOOLEAN, Begin(e, b)
        PROVE  LocksFit'
    <3>1. /\ held' = [held EXCEPT ![e] = held'[e]]
          /\ want' = [want EXCEPT ![e] = want'[e]]
          /\ \/ held'[e] = TargetKey(e) /\ want'[e] = None
             \/ held'[e] = None /\ want'[e] = TargetKey(e)
      BY <2>3 DEF Begin, Locks!Enter, Locks!Acquire
    <3>2. /\ stage' = [stage EXCEPT ![e] = "primary"]
          /\ UNCHANGED <<task, via>>
      BY <2>3 DEF Begin, Gates, reqVars
    <3>3. Fits(e)'
      BY <3>1, <3>2 DEF KeyOf, TargetKey
    <3>4. ASSUME NEW f \in Execs \ {e} PROVE Fits(f)'
      BY <3>1, <3>2, <1>1
    <3> QED
      BY <3>3, <3>4
  <2>4. CASE Degrade(e)
    <3>1. /\ held' = [held EXCEPT ![e] = held'[e]]
          /\ want' = [want EXCEPT ![e] = want'[e]]
          /\ \/ held'[e] = FallbackKey(e) /\ want'[e] = None
             \/ held'[e] = None /\ want'[e] = FallbackKey(e)
      BY <2>4 DEF Degrade, Locks!Switch, Locks!Acquire
    <3>2. /\ stage' = [stage EXCEPT ![e] = "fallback"]
          /\ UNCHANGED <<task, via>>
      BY <2>4 DEF Degrade, reqVars
    <3>3. Fits(e)'
      <4>1. stage'[e] = "fallback" /\ KeyOf(e)' = FallbackKey(e)
        BY <3>2 DEF KeyOf, FallbackKey
      <4> QED
        BY <3>1, <4>1
    <3>4. ASSUME NEW f \in Execs \ {e} PROVE Fits(f)'
      BY <3>1, <3>2, <1>1
    <3> QED
      BY <3>3, <3>4
  <2>5. CASE (\E o \in {"completed", "failed"} : Finish(e, o)) \/ Raise(e)
    <3>1. /\ held' = [held EXCEPT ![e] = None]
          /\ want[e] = None /\ UNCHANGED want
          /\ UNCHANGED <<task, via>>
          /\ \E g \in Stages : stage' = [stage EXCEPT ![e] = g]
      BY <2>5 DEF Finish, Raise, LastSave, Locks!Exit, reqVars
    <3>2. ASSUME NEW f \in Execs \ {e} PROVE Fits(f)'
      BY <3>1, <1>1
    <3> QED
      BY <3>1, <3>2, <1>2
  <2>6. CASE \/ \E b \in BOOLEAN : Record(e, b)
             \/ Complete(e) \/ Resave(e) \/ CompleteRaises(e)
    BY <2>6 DEF Record, Complete, Resave, CompleteRaises, LastSave, lockVars,
                reqVars, KeyOf, TargetKey, FallbackKey
  <2> QED
    BY <1>3, <2>1, <2>2, <2>3, <2>4, <2>5, <2>6, <2>7 DEF Moves
<1>4. CASE Stop \/ Crash
  BY <1>4, <1>2 DEF Stop, Crash, Ends, Locks!Unwind, Locks!Crash
<1>5. CASE Boot
  BY <1>5, <1>1 DEF Boot, lockVars, reqVars
<1>6. CASE Quiet
  BY <1>6, <1>1 DEF Quiet, Poll, Locks!Poll, Locks!Acquire, reqVars, KeyOf,
                    TargetKey, FallbackKey
<1> QED
  BY <1>3, <1>4, <1>5, <1>6, StepCases

\* The key of a requested execution is a lock key.
LEMMA KeysAreKeys ==
  ASSUME NEW e \in Execs, task[e] \in Tasks, via[e] \in Executors
  PROVE  TargetKey(e) \in LockKeys /\ FallbackKey(e) \in LockKeys
BY DEF TargetKey, FallbackKey, LockKeys, Workspaces

\* Every variable keeps its type.
LEMMA TypeStep ==
  ASSUME TypeOK, Requested, QueueFits, [Next]_vars
  PROVE  TypeOK'
<1> USE DEF TypeOK, Locks!TypeOK, RowStatuses, Results, Statuses, Stages, Gone, Working,
            Running, Writing, Closing
<1>1. ASSUME NEW e \in Execs, NEW t \in Tasks, NEW x \in Executors, Enqueue(e, t, x)
      PROVE  TypeOK'
  BY <1>1 DEF Enqueue, procVars, lockVars
<1>2. ASSUME NEW e \in Execs, NEW b \in BOOLEAN, Block(e, b)
      PROVE  TypeOK'
  BY <1>2 DEF Block, Gates, reqVars, procVars, lockVars
<1>3. ASSUME NEW e \in Execs, NEW b \in BOOLEAN, SetupFails(e, b)
      PROVE  TypeOK'
  BY <1>3 DEF SetupFails, Gates, reqVars, procVars, lockVars
<1>4. ASSUME NEW e \in Execs, NEW b \in BOOLEAN, Begin(e, b)
      PROVE  TypeOK'
  <2>1. TargetKey(e) \in LockKeys
    BY <1>4, KeysAreKeys DEF Begin, Gates, Requested
  <2>2. Locks!TypeOK'
    BY <1>4, <2>1 DEF Begin, Locks!Enter, Locks!Acquire
  <2> QED
    BY <1>4, <2>2 DEF Begin, Gates, reqVars, procVars
<1>5. ASSUME NEW e \in Execs, Poll(e)
      PROVE  TypeOK'
  <2>1. PICK k \in LockKeys : want[e] = k
    BY <1>5 DEF Poll, Locks!Poll
  <2>2. Locks!TypeOK'
    <3>1. Locks!Acquire(owner, e, k) /\ UNCHANGED expired
      BY <1>5, <2>1 DEF Poll, Locks!Poll
    <3> QED
      BY <3>1 DEF Locks!Acquire
  <2> QED
    BY <1>5, <2>2 DEF Poll, reqVars, procVars
<1>6. ASSUME NEW e \in Execs, Degrade(e)
      PROVE  TypeOK'
  <2>1. FallbackKey(e) \in LockKeys
    BY <1>6, KeysAreKeys DEF Degrade, Requested
  <2>2. Locks!TypeOK'
    BY <1>6, <2>1 DEF Degrade, Locks!Switch, Locks!Acquire, Locks!Unlinked
  <2> QED
    BY <1>6, <2>2 DEF Degrade, reqVars, procVars
<1>7. ASSUME NEW e \in Execs, NEW o \in {"completed", "failed"}, Finish(e, o)
      PROVE  TypeOK'
  BY <1>7 DEF Finish, StatusFor, Locks!Exit, Locks!Unlinked, reqVars, procVars
<1>8. ASSUME NEW e \in Execs, NEW b \in BOOLEAN, Record(e, b)
      PROVE  TypeOK'
  BY <1>8 DEF Record, reqVars, procVars, lockVars
<1>9. ASSUME NEW e \in Execs, Complete(e)
      PROVE  TypeOK'
  BY <1>9 DEF Complete, reqVars, procVars, lockVars
<1>10. ASSUME NEW e \in Execs, Resave(e)
       PROVE  TypeOK'
  BY <1>10 DEF Resave, LastSave, reqVars, procVars, lockVars
<1>11. ASSUME NEW e \in Execs, CompleteRaises(e)
       PROVE  TypeOK'
  BY <1>11 DEF CompleteRaises, LastSave, reqVars, procVars, lockVars
<1>12. ASSUME NEW e \in Execs, Raise(e)
       PROVE  TypeOK'
  BY <1>12 DEF Raise, LastSave, Locks!Exit, Locks!Unlinked, reqVars, procVars
<1>13. CASE HandlerStep
  <2>1. ASSUME NEW t \in Tasks, Plan(t) \/ CheckComplete(t) \/ WriteComplete(t)
        PROVE  TypeOK'
    BY <2>1 DEF Plan, CheckComplete, WriteComplete, reqVars, procVars, lockVars
  <2>2. ASSUME NEW t \in Tasks, KanbanEvent(t)
        PROVE  TypeOK'
    BY <2>2 DEF KanbanEvent, KanbanNext, reqVars, procVars, lockVars
  <2>3. ASSUME NEW e \in Execs, NEW v \in {"approved", "rejected"}, ResolveApproval(e, v)
        PROVE  TypeOK'
    BY <2>3 DEF ResolveApproval, reqVars, procVars, lockVars
  <2> QED
    BY <1>13, <2>1, <2>2, <2>3 DEF HandlerStep
<1>14. CASE Sweep
  BY <1>14 DEF Sweep, Reaped, Locks!Evict, reqVars, procVars
<1>15. ASSUME NEW k \in LockKeys, Expire(k)
       PROVE  TypeOK'
  BY <1>15 DEF Expire, Locks!Expire, reqVars, procVars
<1>16. CASE Stop \/ Crash
  <2>1. PICK fate \in Gone : Ends(fate)
    BY <1>16 DEF Stop, Crash
  <2>2. stage' \in [Execs -> Stages]
    BY <2>1 DEF Ends
  <2>3. Locks!TypeOK'
    BY <1>16 DEF Stop, Crash, Locks!Unwind, Locks!Crash
  <2>4. queue' \in Seq(Execs) /\ restarts' \in 0..MaxRestarts
    BY <2>1 DEF Ends
  <2> QED
    BY <2>1, <2>2, <2>3, <2>4 DEF Ends, reqVars
<1>17. CASE Boot
  BY <1>17 DEF Boot, Reaped, reqVars, lockVars
<1>18. CASE UNCHANGED vars
  BY <1>18 DEF vars
<1>19. ASSUME NEW e \in Execs, StartRun(e)
       PROVE  TypeOK'
  BY <1>19, Served DEF StartRun, reqVars, procVars, lockVars
<1> QED
  BY <1>1, <1>2, <1>3, <1>4, <1>5, <1>6, <1>7, <1>8, <1>9, <1>10, <1>11, <1>12,
     <1>13, <1>14, <1>15, <1>16, <1>17, <1>18, <1>19
  DEF Next, RunStep, Serve, Settle, WriteBack, ProcessStep

\* A slot is taken with the first stage of Working and freed with the last; a
\* restart makes new ones while nothing is served.
LEMMA SlotsStep ==
  ASSUME TypeOK, SlotsAccounted, QueueFits, DownIsIdle, [Next]_vars
  PROVE  SlotsAccounted'
<1> USE DEF TypeOK, SlotsAccounted, Serving, Stages, Gone, Working, Running,
            Writing, Closing
<1>0. /\ IsFiniteSet(Serving)
      /\ Cardinality(Serving) \in Nat
  <2>1. IsFiniteSet(Serving)
    BY FS_Subset
  <2> QED
    BY <2>1, FS_CardinalityType
<1>1. ASSUME NEW e \in Execs, NEW g \in Stages,
             stage' = [stage EXCEPT ![e] = g], g \in Working <=> stage[e] \in Working,
             UNCHANGED <<permits, up>>
      PROVE  SlotsAccounted'
  <2>1. Serving' = Serving
    BY <1>1
  <2> QED
    BY <1>1, <2>1
<1>2. ASSUME NEW e \in Execs, NEW g \in Working,
             stage' = [stage EXCEPT ![e] = g], stage[e] \notin Working,
             permits' = permits - 1, UNCHANGED up
      PROVE  SlotsAccounted'
  <2>1. Serving' = Serving \cup {e} /\ e \notin Serving
    BY <1>2
  <2>2. Cardinality(Serving') = Cardinality(Serving) + 1
    BY <1>0, <2>1, FS_AddElement
  <2> QED
    BY <1>0, <1>2, <2>2
<1>3. ASSUME NEW e \in Execs, stage[e] \in Working,
             stage' = [stage EXCEPT ![e] = "ended"],
             permits' = permits + 1, UNCHANGED up
      PROVE  SlotsAccounted'
  <2>1. Serving' = Serving \ {e} /\ e \in Serving
    BY <1>3
  <2>2. Cardinality(Serving') = Cardinality(Serving) - 1
    <3> HIDE DEF Serving
    <3> QED
      BY <1>0, <2>1, FS_RemoveElement
  <2> QED
    BY <1>0, <1>3, <2>2
<1>4. ASSUME NEW e \in Execs, Moves(e)
      PROVE  SlotsAccounted'
  <2>1. ASSUME NEW t \in Tasks, NEW x \in Executors, Enqueue(e, t, x)
        PROVE  SlotsAccounted'
    BY <2>1, <1>1 DEF Enqueue, procVars
  <2>2. ASSUME NEW b \in BOOLEAN, Block(e, b) \/ SetupFails(e, b)
        PROVE  SlotsAccounted'
    BY <2>2, <1>1 DEF Block, SetupFails, Gates, procVars
  <2>3. ASSUME NEW b \in BOOLEAN, Begin(e, b)
        PROVE  SlotsAccounted'
    BY <2>3, <1>1 DEF Begin, Gates, procVars
  <2>7. CASE StartRun(e)
    BY <2>7, <1>2, Served DEF StartRun, procVars
  <2>4. CASE Degrade(e) \/ (\E o \in {"completed", "failed"} : Finish(e, o))
    BY <2>4, <1>1 DEF Degrade, Finish, procVars
  <2>5. CASE (\E b \in BOOLEAN : Record(e, b)) \/ Complete(e)
    BY <2>5, <1>1 DEF Record, Complete, procVars
  <2>6. CASE Resave(e) \/ CompleteRaises(e) \/ Raise(e)
    BY <2>6, <1>3 DEF Resave, CompleteRaises, Raise, LastSave, procVars
  <2> QED
    BY <1>4, <2>1, <2>2, <2>3, <2>4, <2>5, <2>6, <2>7 DEF Moves
<1>5. CASE Stop \/ Crash
  BY <1>5 DEF Stop, Crash, Ends
<1>6. CASE Boot
  <2>1. Serving' = {}
    BY <1>6 DEF Boot, DownIsIdle
  <2>2. Cardinality(Serving') = 0
    BY <2>1, FS_EmptySet
  <2> QED
    BY <1>6, <2>2 DEF Boot
<1>7. CASE Quiet
  BY <1>7 DEF Quiet, procVars
<1> QED
  BY <1>4, <1>5, <1>6, <1>7, StepCases

\* EngineInv, with the types, is inductive.
THEOREM Inductive == Spec => [](TypeOK /\ EngineInv)
<1>1. Init => TypeOK /\ EngineInv
  <2> SUFFICES ASSUME Init PROVE TypeOK /\ EngineInv
    OBVIOUS
  <2>1. TypeOK
    BY DEF Init, TypeOK, Locks!Init, Locks!TypeOK, Statuses, RowStatuses, Results, Stages
  <2>2. LocksFit /\ QueueFits /\ Requested /\ DownIsIdle /\ RowFits
    BY DEF Init, Locks!Init, LocksFit, QueueFits, Requested, DownIsIdle, RowFits,
           Working, Running, Writing, Closing
  <2>3. SlotsAccounted
    <3>1. Serving = {}
      BY DEF Init, Serving, Working, Running, Writing, Closing
    <3>2. Cardinality(Serving) = 0
      BY <3>1, FS_EmptySet
    <3> QED
      BY <3>2 DEF Init, SlotsAccounted
  <2> QED
    BY <2>1, <2>2, <2>3 DEF EngineInv
<1>2. (TypeOK /\ EngineInv) /\ [Next]_vars => (TypeOK /\ EngineInv)'
  BY TypeStep, LocksFitStep, QueueStep, RequestedStep, DownStep, RowStep,
     SlotsStep DEF EngineInv
<1> QED
  BY <1>1, <1>2, PTL DEF Spec

\* Types are kept through every step of the queue, the service, the reapers and
\* the handlers.
THEOREM TypeCorrect == Spec => []TypeOK
BY Inductive, PTL

\* With any number of executions and workers, no path out of _process loses a
\* slot of the semaphore or frees one twice.
THEOREM SlotsAlwaysAccounted == Spec => []SlotsAccounted
<1>1. EngineInv => SlotsAccounted
  BY DEF EngineInv
<1> QED
  BY <1>1, Inductive, PTL

\* What is proved of the write locks, for the keys and runs of the engine.
LockFacts == INSTANCE WriteLocksProofs WITH Keys <- LockKeys, Runs <- Execs

\* Whatever the engine does, the lock files see a step of WriteLocks or none.
LEMMA LocksStep ==
  ASSUME TypeOK, Requested, QueueFits, [Next]_vars
  PROVE  [Locks!Next]_lockVars
<1>1. ASSUME NEW e \in Execs, NEW b \in BOOLEAN, Begin(e, b)
      PROVE  Locks!Next
  <2>1. TargetKey(e) \in LockKeys
    BY <1>1, KeysAreKeys DEF Requested, Begin, Gates
  <2>2. Locks!Enter(e, TargetKey(e))
    BY <1>1 DEF Begin
  <2> QED
    BY <2>1, <2>2, Zenon DEF Locks!Next
<1>2. ASSUME NEW e \in Execs, Degrade(e)
      PROVE  Locks!Next
  <2>1. FallbackKey(e) \in LockKeys
    BY <1>2, KeysAreKeys DEF Requested, Degrade
  <2>2. Locks!Switch(e, FallbackKey(e))
    BY <1>2 DEF Degrade
  <2> QED
    BY <2>1, <2>2, Zenon DEF Locks!Next
<1>3. ASSUME NEW e \in Execs, Locks!Poll(e) \/ Locks!Exit(e)
      PROVE  Locks!Next
  BY <1>3, Zenon DEF Locks!Next
<1>4. ASSUME NEW e \in Execs, RunStep(e)
      PROVE  [Locks!Next]_lockVars
  <2>1. CASE \E b \in BOOLEAN : Begin(e, b)
    BY <2>1, <1>1
  <2>2. CASE \E b \in BOOLEAN : Block(e, b) \/ SetupFails(e, b)
    BY <2>2 DEF Block, SetupFails
  <2>8. CASE StartRun(e)
    BY <2>8 DEF StartRun
  <2>3. CASE Poll(e)
    BY <2>3, <1>3 DEF Poll
  <2>4. CASE Degrade(e)
    BY <2>4, <1>2
  <2>5. CASE (\E o \in {"completed", "failed"} : Finish(e, o)) \/ Raise(e)
    BY <2>5, <1>3 DEF Finish, Raise
  <2>6. CASE WriteBack(e)
    BY <2>6 DEF WriteBack, Record, Complete, CompleteRaises, Resave
  <2>7. CASE \E t \in Tasks, x \in Executors : Enqueue(e, t, x)
    BY <2>7 DEF Enqueue
  <2> QED
    BY <1>4, <2>1, <2>2, <2>3, <2>4, <2>5, <2>6, <2>7, <2>8 DEF RunStep, Serve, Settle
<1>5. CASE HandlerStep
  BY <1>5 DEF HandlerStep, Plan, CheckComplete, WriteComplete, KanbanEvent,
              ResolveApproval
<1>6. CASE Sweep
  BY <1>6 DEF Sweep, Locks!Next
<1>7. ASSUME NEW k \in LockKeys, Expire(k) PROVE Locks!Next
  BY <1>7, Zenon DEF Expire, Locks!Next
<1>8. CASE Stop \/ Crash
  BY <1>8 DEF Stop, Crash, Locks!Next
<1>9. CASE Boot
  BY <1>9 DEF Boot
<1>10. CASE UNCHANGED vars
  BY <1>10 DEF vars, lockVars
<1> QED
  BY <1>4, <1>5, <1>6, <1>7, <1>8, <1>9, <1>10 DEF Next, ProcessStep

\* So the lock files under the engine behave as WriteLocks says.
THEOREM UsesLocks == Spec => Locks!Spec
<1>1. Init => Locks!Init
  BY DEF Init
<1>2. (TypeOK /\ EngineInv) /\ [Next]_vars => [Locks!Next]_(Locks!vars)
  BY LocksStep DEF EngineInv, lockVars, Locks!vars
<1> QED
  BY <1>1, <1>2, Inductive, PTL DEF Spec, Locks!Spec

\* If every executor timeout is below the TTL, a working run owns its lock file.
LEMMA LockInvHolds ==
  ASSUME LongRuns = {}
  PROVE  Spec => []Locks!LockInv
<1>1. Init => Locks!LockInv
  BY DEF Init, Locks!Init, Locks!LockInv, Locks!HolderOwnsFile,
         Locks!OnlyDeadExpire, Locks!OnePlace
<1>2. Locks!TypeOK /\ Locks!LockInv /\ [Locks!Next]_lockVars => Locks!LockInv'
  <2> SUFFICES ASSUME Locks!TypeOK, Locks!LockInv, [Locks!Next]_lockVars
               PROVE  Locks!LockInv'
    OBVIOUS
  <2>1. LockFacts!TypeOK /\ LockFacts!LockInv
    BY DEF Locks!TypeOK, LockFacts!TypeOK, Locks!LockInv, LockFacts!LockInv,
           Locks!HolderOwnsFile, LockFacts!HolderOwnsFile, Locks!OnlyDeadExpire,
           LockFacts!OnlyDeadExpire, Locks!OnePlace, LockFacts!OnePlace
  <2>2. [LockFacts!Next]_(LockFacts!vars)
    BY DEF lockVars, LockFacts!vars, Locks!Next, LockFacts!Next,
           Locks!Enter, LockFacts!Enter, Locks!Switch, LockFacts!Switch,
           Locks!Poll, LockFacts!Poll, Locks!Exit, LockFacts!Exit,
           Locks!Expire, LockFacts!Expire, Locks!Evict, LockFacts!Evict,
           Locks!Unwind, LockFacts!Unwind, Locks!Crash, LockFacts!Crash,
           Locks!Acquire, LockFacts!Acquire, Locks!Unlinked, LockFacts!Unlinked
  <2>3. LockFacts!LockInv'
    BY <2>1, <2>2, LockFacts!LockInvStep
  <2> QED
    BY <2>3
    DEF Locks!LockInv, LockFacts!LockInv,
        Locks!HolderOwnsFile, LockFacts!HolderOwnsFile, Locks!OnlyDeadExpire,
        LockFacts!OnlyDeadExpire, Locks!OnePlace, LockFacts!OnePlace
<1>3. (TypeOK /\ EngineInv) /\ [Next]_vars => Locks!TypeOK /\ [Locks!Next]_lockVars
  BY LocksStep DEF EngineInv, TypeOK
<1> QED
  BY <1>1, <1>2, <1>3, Inductive, PTL DEF Spec

\* No two executions write into one workspace at once, on their first executor
\* or on the fallback one, whatever the sweeps, restarts and handlers do.
THEOREM WorkspacesExclusive ==
  ASSUME LongRuns = {}
  PROVE  Spec => []WorkspaceExclusion
<1>1. EngineInv /\ Locks!LockInv => WorkspaceExclusion
  <2> SUFFICES ASSUME LocksFit, Locks!HolderOwnsFile,
                      NEW e \in Execs, NEW f \in Execs, e # f,
                      Executing(e), Executing(f), task[e] \notin Renders,
                      Workspace(e) = Workspace(f)
               PROVE  FALSE
    BY DEF EngineInv, Locks!LockInv, WorkspaceExclusion
  <2>1. held[e] = Workspace(e)
    BY DEF LocksFit, Executing, KeyOf, TargetKey, FallbackKey, Workspace
  <2>2. task[f] = task[e]
    BY DEF Workspace
  <2>3. held[f] = Workspace(f)
    BY <2>2 DEF LocksFit, Executing, KeyOf, TargetKey, FallbackKey, Workspace
  <2> QED
    BY <2>1, <2>3 DEF Locks!HolderOwnsFile, Executing
<1> QED
  BY <1>1, LockInvHolds, Inductive, PTL

\* On their own executors no two renders run at once.
THEOREM RendersExclusive ==
  ASSUME LongRuns = {}
  PROVE  Spec => []RenderExclusion
<1>1. EngineInv /\ Locks!LockInv => RenderExclusion
  BY DEF EngineInv, LocksFit, Locks!LockInv, Locks!HolderOwnsFile, RenderExclusion,
         Executing, KeyOf, TargetKey
<1> QED
  BY <1>1, LockInvHolds, Inductive, PTL

\* The promise to the callers of /execute is kept: every step of the engine is a
\* step of ExecutionRows or shows the caller nothing.
THEOREM KeepsRows == Spec => RowsSpec
<1>1. Init => Rows!Init
  BY DEF Init, Rows!Init, Serving, Working, Running, Writing, Closing
<1>2. (TypeOK /\ EngineInv) /\ [Next]_vars => [Rows!Next]_(Rows!vars)
  <2> SUFFICES ASSUME TypeOK, EngineInv, [Next]_vars
               PROVE  [Rows!Next]_(Rows!vars)
    OBVIOUS
  <2> USE DEF TypeOK, Stages, Gone, Working, Running, Writing, Closing
  <2>0. /\ Serving = {e \in Execs : stage[e] \in Working}
        /\ Serving' = {e \in Execs : stage'[e] \in Working}
    BY DEF Serving
  <2>1. ASSUME up, permits > 0
        PROVE  Rows!Cardinality(Serving) < MaxWorkers
    <3>1. IsFiniteSet(Serving)
      BY FS_Subset DEF Serving
    <3>2. Cardinality(Serving) \in Nat
      BY <3>1, FS_CardinalityType
    <3>3. Rows!Cardinality(Serving) = Cardinality(Serving)
      BY Zenon DEF Cardinality, Rows!Cardinality
    <3> QED
      BY <2>1, <3>2, <3>3 DEF EngineInv, SlotsAccounted
  <2>2. ASSUME NEW e \in Execs, Rows!Accept(e) \/ Rows!Begin(e)
                  \/ Rows!Answer(e) \/ Rows!Withdraw(e) \/ Rows!Retire(e)
        PROVE  Rows!Next
    BY <2>2, Zenon DEF Rows!Next
  <2>3. ASSUME UNCHANGED <<row, Serving>>
        PROVE  [Rows!Next]_(Rows!vars)
    BY <2>3 DEF Rows!vars
  <2>4. ASSUME NEW e \in Execs, NEW g \in Stages,
               stage' = [stage EXCEPT ![e] = g], g \in Working <=> stage[e] \in Working
        PROVE  UNCHANGED Serving
    BY <2>0, <2>4
  <2>5. ASSUME NEW e \in Execs, stage[e] \in Working,
               stage' = [stage EXCEPT ![e] = "ended"]
        PROVE  e \in Serving /\ Serving' = Serving \ {e}
    BY <2>0, <2>5
  <2>6. ASSUME NEW e \in Execs, NEW t \in Tasks, NEW x \in Executors, Enqueue(e, t, x)
        PROVE  Rows!Accept(e)
    BY <2>4, <2>6 DEF Enqueue, EngineInv, RowFits, Rows!Accept
  <2>7. ASSUME NEW e \in Execs, NEW b \in BOOLEAN,
               Block(e, b) \/ SetupFails(e, b) \/ Begin(e, b)
        PROVE  UNCHANGED <<row, Serving>>
    BY <2>4, <2>7 DEF Block, SetupFails, Begin, Gates
  <2>8. ASSUME NEW e \in Execs, StartRun(e)
        PROVE  Rows!Begin(e)
    <3>1. stage[e] = "queued" /\ row[e] = "pending"
      BY <2>8, Served DEF StartRun, EngineInv, RowFits
    <3>2. Rows!Cardinality(Serving) < MaxWorkers
      BY <2>1, <2>8, Served DEF StartRun, EngineInv
    <3>3. Serving' = Serving \cup {e}
      BY <2>0, <2>8 DEF StartRun
    <3> QED
      BY <2>8, <3>1, <3>2, <3>3 DEF StartRun, Rows!Begin
  <2>9. ASSUME NEW e \in Execs, Degrade(e) \/ Complete(e)
                  \/ (\E o \in {"completed", "failed"} : Finish(e, o))
        PROVE  UNCHANGED <<row, Serving>>
    BY <2>4, <2>9 DEF Degrade, Complete, Finish
  <2>10. ASSUME NEW e \in Execs, NEW b \in BOOLEAN, Record(e, b)
         PROVE  Rows!Answer(e)
    <3>1. stage[e] = "finished" /\ row[e] = "running" /\ result[e] \in Rows!Answers
      BY <2>10 DEF Record, EngineInv, RowFits, Results, Rows!Answers
    <3>2. e \in Serving /\ UNCHANGED Serving
      BY <2>0, <2>4, <2>10, <3>1 DEF Record
    <3> QED
      BY <2>10, <3>1, <3>2 DEF Record, Rows!Answer
  <2>11. ASSUME NEW e \in Execs, Resave(e)
         PROVE  Rows!Retire(e) \/ Rows!Answer(e)
    <3>1. /\ row[e] \in {"running", result[e]} /\ result[e] \in Rows!Answers
          /\ row' = [row EXCEPT ![e] = result[e]]
          /\ e \in Serving /\ Serving' = Serving \ {e}
      BY <2>5, <2>11
      DEF Resave, LastSave, EngineInv, RowFits, Results, Rows!Answers
    <3>2. CASE row[e] = "running"
      BY <3>1, <3>2 DEF Rows!Answer
    <3>3. CASE row[e] = result[e]
      BY <3>1, <3>3 DEF Rows!Retire
    <3> QED
      BY <3>1, <3>2, <3>3
  <2>12. ASSUME NEW e \in Execs, CompleteRaises(e)
         PROVE  Rows!Withdraw(e)
    BY <2>5, <2>12 DEF CompleteRaises, LastSave, EngineInv, RowFits, Rows!Withdraw
  <2>13. ASSUME NEW e \in Execs, Raise(e)
         PROVE  Rows!Answer(e)
    BY <2>5, <2>13 DEF Raise, LastSave, EngineInv, RowFits, Rows!Answer, Rows!Answers
  <2>14. ASSUME NEW e \in Execs, Moves(e)
         PROVE  [Rows!Next]_(Rows!vars)
    BY <2>2, <2>3, <2>6, <2>7, <2>8, <2>9, <2>10, <2>11, <2>12, <2>13, <2>14, Zenon
    DEF Moves
  <2>15. CASE Stop \/ Crash
    <3>1. Serving' = {} /\ UNCHANGED row
      BY <2>0, <2>15 DEF Stop, Crash, Ends
    <3> QED
      BY <3>1 DEF Rows!Next, Rows!Lose
  <2>16. CASE Boot \/ Quiet
    BY <2>3, <2>16 DEF Boot, Quiet, Serving
  <2> QED
    BY <2>14, <2>15, <2>16, StepCases
<1> QED
  BY <1>1, <1>2, Inductive, PTL DEF Spec, RowsSpec, Rows!Spec
-----------------------------------------------------------------------------
(* What the engine leaves behind, and what it sends to review or closes, on top of
   EngineInv. *)

\* A lock file names a run that works under it or one that was killed.
FilesFit == \A k \in LockKeys : owner[k] # None =>
                \/ held[owner[k]] = k
                \/ stage[owner[k]] = "lost"

\* Nothing revives an execution that a kill ended.
LEMMA LostStaysLost ==
  ASSUME TypeOK, QueueFits, [Next]_vars, NEW f \in Execs, stage[f] = "lost"
  PROVE  stage'[f] = "lost"
<1> USE DEF TypeOK, Stages, Gone, Working, Running, Writing, Closing
<1>1. ASSUME NEW e \in Execs, Moves(e)
      PROVE  stage'[f] = "lost"
  <2>1. CASE \E b \in BOOLEAN : Block(e, b) \/ SetupFails(e, b) \/ Begin(e, b)
    BY <2>1 DEF Block, SetupFails, Begin, Gates
  <2>2. CASE StartRun(e)
    BY <2>2, Served DEF StartRun
  <2> QED
    BY <1>1, <2>1, <2>2 DEF Moves, Enqueue, Degrade, Finish, Record, Complete, Resave,
                      CompleteRaises, Raise, LastSave
<1>2. CASE Stop \/ Crash
  BY <1>2 DEF Stop, Crash, Ends
<1>3. CASE Boot \/ Quiet
  BY <1>3 DEF Boot, Quiet
<1> QED
  BY <1>1, <1>2, <1>3, StepCases

\* Every way out of _run_locked removes the file of the key that is left, and a
\* kill marks the run it names.
LEMMA FilesStep ==
  ASSUME TypeOK, EngineInv, FilesFit, [Next]_vars
  PROVE  FilesFit'
<1> USE DEF TypeOK, Locks!TypeOK, FilesFit
<1>0. \A f \in Execs : stage[f] = "lost" => stage'[f] = "lost"
  BY LostStaysLost DEF EngineInv
<1>1. ASSUME UNCHANGED <<owner, held>>
      PROVE  FilesFit'
  BY <1>0, <1>1
<1>2. ASSUME NEW e \in Execs, NEW k \in LockKeys, NEW files \in [LockKeys -> Execs \cup {None}],
             Locks!Acquire(files, e, k),
             \A j \in LockKeys : files[j] # None => files[j] = owner[j],
             \A j \in LockKeys : files[j] = e => stage[e] = "lost"
      PROVE  FilesFit'
  <2>1. ASSUME NEW j \in LockKeys, owner'[j] # None
        PROVE  held'[owner'[j]] = j \/ stage'[owner'[j]] = "lost"
    <3>1. CASE j = k /\ files[k] = None
      BY <1>2, <3>1 DEF Locks!Acquire
    <3>2. CASE ~(j = k /\ files[k] = None)
      <4>1. owner'[j] = files[j] /\ files[j] = owner[j] /\ owner[j] \in Execs
        BY <1>2, <2>1, <3>2 DEF Locks!Acquire
      <4>2. CASE owner[j] = e
        BY <1>0, <1>2, <4>1, <4>2
      <4>3. CASE owner[j] # e
        <5>1. held'[owner[j]] = held[owner[j]]
          BY <1>2, <4>1, <4>3 DEF Locks!Acquire
        <5> QED
          BY <1>0, <4>1, <5>1
      <4> QED
        BY <4>2, <4>3
    <3> QED
      BY <3>1, <3>2
  <2> QED
    BY <2>1
<1>3. ASSUME NEW e \in Execs, Locks!Exit(e)
      PROVE  FilesFit'
  <2>1. PICK k \in LockKeys : held[e] = k
    BY <1>3 DEF Locks!Exit
  <2>2. /\ owner' = [owner EXCEPT ![k] = None]
        /\ held' = [held EXCEPT ![e] = None]
    BY <1>3, <2>1 DEF Locks!Exit, Locks!Unlinked
  <2> QED
    BY <1>0, <2>1, <2>2
<1>4. ASSUME NEW e \in Execs, NEW b \in BOOLEAN, Begin(e, b)
      PROVE  FilesFit'
  <2>1. TargetKey(e) \in LockKeys /\ Locks!Enter(e, TargetKey(e))
    BY <1>4, KeysAreKeys DEF EngineInv, Requested, Begin, Gates
  <2>2. Locks!Acquire(owner, e, TargetKey(e)) /\ held[e] = None
    BY <2>1 DEF Locks!Enter
  <2>3. \A j \in LockKeys : owner[j] = e => stage[e] = "lost"
    BY <2>2
  <2> QED
    BY <1>2, <2>1, <2>2, <2>3
<1>5. ASSUME NEW e \in Execs, Degrade(e)
      PROVE  FilesFit'
  <2>1. FallbackKey(e) \in LockKeys /\ Locks!Switch(e, FallbackKey(e))
    BY <1>5, KeysAreKeys DEF EngineInv, Requested, Degrade
  <2>2. PICK k \in LockKeys : held[e] = k
    BY <2>1 DEF Locks!Switch
  <2> DEFINE files == [owner EXCEPT ![k] = None]
  <2>3. Locks!Acquire(files, e, FallbackKey(e))
    BY <2>1, <2>2 DEF Locks!Switch, Locks!Unlinked
  <2>4. /\ files \in [LockKeys -> Execs \cup {None}]
        /\ \A j \in LockKeys : files[j] # None => files[j] = owner[j]
    OBVIOUS
  <2>5. \A j \in LockKeys : files[j] = e => stage[e] = "lost"
    BY <2>2
  <2> HIDE DEF files
  <2> QED
    BY <1>2, <2>1, <2>3, <2>4, <2>5
<1>6. ASSUME NEW e \in Execs, Poll(e)
      PROVE  FilesFit'
  <2>1. PICK k \in LockKeys : want[e] = k
    BY <1>6 DEF Poll, Locks!Poll
  <2>2. Locks!Acquire(owner, e, k) /\ held[e] = None
    BY <1>6, <2>1 DEF Poll, Locks!Poll, EngineInv, LocksFit
  <2>3. \A j \in LockKeys : owner[j] = e => stage[e] = "lost"
    BY <2>2
  <2> QED
    BY <1>2, <2>2, <2>3
<1>7. ASSUME NEW e \in Execs, RunStep(e)
      PROVE  FilesFit'
  <2>1. CASE StartRun(e) \/ (\E b \in BOOLEAN : Block(e, b) \/ SetupFails(e, b))
    BY <2>1, <1>1 DEF StartRun, Block, SetupFails, lockVars
  <2>2. CASE (\E o \in {"completed", "failed"} : Finish(e, o)) \/ Raise(e)
    BY <2>2, <1>3 DEF Finish, Raise
  <2>3. CASE WriteBack(e) \/ (\E t \in Tasks, x \in Executors : Enqueue(e, t, x))
    BY <2>3, <1>1 DEF WriteBack, Record, Complete, CompleteRaises, Resave, Enqueue,
                      lockVars
  <2> QED
    BY <1>4, <1>5, <1>6, <1>7, <2>1, <2>2, <2>3 DEF RunStep, Serve, Settle
<1>8. CASE HandlerStep
  BY <1>8, <1>1 DEF HandlerStep, Plan, CheckComplete, WriteComplete, KanbanEvent,
                    ResolveApproval, lockVars
<1>9. CASE Sweep
  BY <1>9, <1>0 DEF Sweep, Locks!Evict
<1>10. ASSUME NEW k \in LockKeys, Expire(k) PROVE FilesFit'
  BY <1>10, <1>1 DEF Expire, Locks!Expire
<1>11. CASE Stop
  <2>1. ASSUME NEW k \in LockKeys, owner'[k] # None
        PROVE  stage'[owner'[k]] = "lost"
    <3>1. owner'[k] = owner[k] /\ ~\E r \in Execs : held[r] = k
      BY <1>11, <2>1 DEF Stop, Locks!Unwind
    <3> QED
      BY <1>0, <2>1, <3>1
  <2> QED
    BY <2>1
<1>12. CASE Crash
  <2>1. ASSUME NEW k \in LockKeys, owner'[k] # None
        PROVE  stage'[owner'[k]] = "lost"
    <3>1. owner'[k] = owner[k] /\ owner[k] \in Execs
      BY <1>12, <2>1 DEF Crash, Locks!Crash
    <3>2. CASE held[owner[k]] = k
      BY <1>12, <3>1, <3>2 DEF Crash, Ends, EngineInv, LocksFit, Working
    <3> QED
      BY <1>0, <2>1, <3>1, <3>2
  <2> QED
    BY <2>1
<1>13. CASE Boot \/ UNCHANGED vars
  BY <1>13, <1>1 DEF Boot, lockVars, vars
<1> QED
  BY <1>7, <1>8, <1>9, <1>10, <1>11, <1>12, <1>13 DEF Next, ProcessStep

\* No path of run() and no orderly stop leaves a lock file in the way: what is
\* there belongs to a run at work or to a killed process.
THEOREM NoLockLeaks == Spec => []NoLockLeak
<1>1. Init => FilesFit
  BY DEF Init, Locks!Init, FilesFit
<1>2. (TypeOK /\ EngineInv) /\ FilesFit /\ [Next]_vars => FilesFit'
  BY FilesStep
<1>3. (TypeOK /\ EngineInv) /\ FilesFit => NoLockLeak
  <2> SUFFICES ASSUME TypeOK, EngineInv, FilesFit, NEW k \in LockKeys, owner[k] # None
               PROVE  \/ held[owner[k]] = k /\ stage[owner[k]] \in Running
                      \/ stage[owner[k]] = "lost"
    BY DEF NoLockLeak
  <2>1. owner[k] \in Execs
    BY DEF TypeOK, Locks!TypeOK
  <2> QED
    BY <2>1 DEF FilesFit, EngineInv, LocksFit
<1> QED
  BY <1>1, <1>2, <1>3, Inductive, PTL DEF Spec
-----------------------------------------------------------------------------
\* One of t's executions succeeded.
Evidence(t) == \E e \in Execs : task[e] = t /\ result[e] = "completed"

\* A result is written once, and both what sends a task to review and what has
\* seen it there rest on one.
EvidenceInv ==
    /\ \A e \in Execs :
         stage[e] \in {"new", "queued", "started"} \cup Running => result[e] = "none"
    /\ \A t \in Tasks \ Bridged :
         status[t] \in {"review", "done"} \/ t \in closing => Evidence(t)

\* No step takes a result back or moves an execution to another task.
LEMMA EvidenceStays ==
  ASSUME TypeOK, EngineInv, EvidenceInv, [Next]_vars,
         NEW f \in Execs, result[f] = "completed"
  PROVE  task'[f] = task[f] /\ result'[f] = "completed"
<1> USE DEF TypeOK, Stages, Gone, Working, Running, Writing, Closing
<1>1. ASSUME NEW e \in Execs, Moves(e)
      PROVE  task'[f] = task[f] /\ result'[f] = "completed"
  <2>1. CASE \E b \in BOOLEAN : Block(e, b) \/ SetupFails(e, b) \/ Begin(e, b)
    BY <2>1 DEF Block, SetupFails, Begin, Gates, EvidenceInv, reqVars
  <2>3. CASE StartRun(e)
    BY <2>3 DEF StartRun, reqVars
  <2>2. CASE \/ \E t \in Tasks, x \in Executors : Enqueue(e, t, x)
             \/ \E o \in {"completed", "failed"} : Finish(e, o)
    BY <2>2 DEF Enqueue, Finish, EvidenceInv, reqVars
  <2> QED
    BY <1>1, <2>1, <2>2, <2>3 DEF Moves, Degrade, Record, Complete, Resave,
                            CompleteRaises, Raise, LastSave, reqVars
<1>2. CASE Stop \/ Crash
  BY <1>2 DEF Stop, Crash, Ends, reqVars
<1>3. CASE Boot \/ Quiet
  BY <1>3 DEF Boot, Quiet, reqVars
<1> QED
  BY <1>1, <1>2, <1>3, StepCases

\* An execution that has not ended its run has no result yet.
LEMMA ResultsFitStep ==
  ASSUME TypeOK, EngineInv, EvidenceInv, [Next]_vars
  PROVE  \A e \in Execs :
           stage'[e] \in {"new", "queued", "started"} \cup Running => result'[e] = "none"
<1> USE DEF TypeOK, EvidenceInv, Stages, Gone, Working, Running, Writing, Closing
<1>1. ASSUME NEW e \in Execs, Moves(e), NEW f \in Execs,
             stage'[f] \in {"new", "queued", "started"} \cup Running
      PROVE  result'[f] = "none"
  <2>1. CASE \E b \in BOOLEAN : Block(e, b) \/ SetupFails(e, b) \/ Begin(e, b)
    BY <1>1, <2>1 DEF Block, SetupFails, Begin, Gates
  <2>4. CASE StartRun(e)
    BY <1>1, <2>4, Served DEF StartRun, EngineInv
  <2>2. CASE \E o \in {"completed", "failed"} : Finish(e, o)
    BY <1>1, <2>2 DEF Finish
  <2>3. CASE Degrade(e) \/ (\E t \in Tasks, x \in Executors : Enqueue(e, t, x))
    BY <1>1, <2>3 DEF Degrade, Enqueue
  <2> QED
    BY <1>1, <2>1, <2>2, <2>3, <2>4 DEF Moves, Record, Complete, Resave,
                                  CompleteRaises, Raise, LastSave
<1>2. CASE Stop \/ Crash
  BY <1>2 DEF Stop, Crash, Ends
<1>3. CASE Boot \/ Quiet
  BY <1>3 DEF Boot, Quiet
<1> QED
  BY <1>1, <1>2, <1>3, StepCases

\* A step that sends a task of this system alone to review or done, or sees it
\* in review, finds the evidence or brings it.
LEMMA EvidenceStep ==
  ASSUME TypeOK, EngineInv, EvidenceInv, [Next]_vars,
         NEW t \in Tasks \ Bridged,
         status'[t] \in {"review", "done"} \/ t \in closing'
  PROVE  Evidence(t)'
<1> USE DEF TypeOK, EvidenceInv
<1>1. ASSUME Evidence(t)
      PROVE  Evidence(t)'
  BY <1>1, EvidenceStays DEF Evidence
<1>2. ASSUME status'[t] \in {"review", "done"} => status'[t] = status[t],
             t \in closing' => t \in closing
      PROVE  Evidence(t)'
  BY <1>1, <1>2
<1>3. ASSUME NEW e \in Execs, NEW o \in {"completed", "failed"}, Finish(e, o)
      PROVE  Evidence(t)'
  <2>1. CASE task[e] = t /\ o = "completed"
    BY <1>3, <2>1 DEF Finish, Evidence, reqVars
  <2>2. CASE ~(task[e] = t /\ o = "completed")
    BY <1>2, <1>3, <2>2 DEF Finish, StatusFor
  <2> QED
    BY <2>1, <2>2
<1>4. ASSUME NEW e \in Execs, Complete(e)
      PROVE  Evidence(t)'
  <2>1. CASE task[e] = t
    <3>1. result[e] = "completed"
      BY <1>4 DEF Complete, EngineInv, RowFits
    <3> QED
      BY <1>1, <2>1, <3>1 DEF Evidence
  <2>2. CASE task[e] # t
    BY <1>2, <1>4, <2>2 DEF Complete
  <2> QED
    BY <2>1, <2>2
<1>5. ASSUME NEW e \in Execs, RunStep(e)
      PROVE  Evidence(t)'
  <2>1. CASE Serve(e)
    BY <1>2, <2>1 DEF Serve, StartRun, Block, SetupFails, Begin, Gates
  <2>2. CASE Degrade(e) \/ Raise(e) \/ Poll(e)
    BY <1>2, <2>2 DEF Degrade, Raise, Poll, LastSave
  <2>3. CASE (\E b \in BOOLEAN : Record(e, b)) \/ CompleteRaises(e) \/ Resave(e)
    BY <1>2, <2>3 DEF Record, CompleteRaises, Resave, LastSave
  <2>4. CASE \E s \in Tasks, x \in Executors : Enqueue(e, s, x)
    BY <1>2, <2>4 DEF Enqueue
  <2> QED
    BY <1>3, <1>4, <1>5, <2>1, <2>2, <2>3, <2>4 DEF RunStep, Settle, WriteBack
<1>6. CASE HandlerStep
  <2>1. ASSUME NEW s \in Tasks, Plan(s)
        PROVE  Evidence(t)'
    BY <1>2, <2>1 DEF Plan
  <2>2. ASSUME NEW s \in Tasks, CheckComplete(s) \/ WriteComplete(s)
        PROVE  Evidence(t)'
    BY <1>1, <2>2 DEF CheckComplete, WriteComplete
  <2>3. ASSUME NEW s \in Tasks, KanbanEvent(s)
        PROVE  Evidence(t)'
    BY <1>2, <2>3 DEF KanbanEvent
  <2>4. ASSUME NEW e \in Execs, NEW v \in {"approved", "rejected"}, ResolveApproval(e, v)
        PROVE  Evidence(t)'
    BY <1>2, <2>4 DEF ResolveApproval
  <2> QED
    BY <1>6, <2>1, <2>2, <2>3, <2>4 DEF HandlerStep
<1>7. CASE Sweep \/ Boot
  BY <1>2, <1>7 DEF Sweep, Boot, Reaped
<1>8. ASSUME NEW k \in LockKeys, Expire(k) PROVE Evidence(t)'
  BY <1>2, <1>8 DEF Expire
<1>9. CASE Stop \/ Crash
  BY <1>2, <1>9 DEF Stop, Crash, Ends
<1>10. CASE UNCHANGED vars
  BY <1>2, <1>10 DEF vars
<1> QED
  BY <1>5, <1>6, <1>7, <1>8, <1>9, <1>10 DEF Next, ProcessStep

\* Whatever the reapers, restarts, retries and handlers do, a task that is in
\* review or done has a successful execution behind it.
THEOREM EvidenceIsBehindReview == Spec => []EvidenceBehindReview
<1>1. Init => EvidenceInv
  BY DEF Init, EvidenceInv
<1>2. (TypeOK /\ EngineInv) /\ EvidenceInv /\ [Next]_vars => EvidenceInv'
  BY ResultsFitStep, EvidenceStep DEF EvidenceInv
<1>3. EvidenceInv => EvidenceBehindReview
  BY DEF EvidenceInv, EvidenceBehindReview, Evidence
<1> QED
  BY <1>1, <1>2, <1>3, Inductive, PTL DEF Spec

\* Only a /complete request closes a task above LOW risk.
THEOREM HumansCloseRisky == Spec => HumanClosesRisky
<1>1. ASSUME TypeOK, [Next]_vars, NEW t \in Tasks \ Low, status[t] # "done",
             status'[t] = "done"
      PROVE  t \in closing
  <2> USE DEF TypeOK
  <2>1. ASSUME NEW e \in Execs, RunStep(e)
        PROVE  FALSE
    <3>1. CASE Serve(e)
      BY <1>1, <3>1 DEF Serve, StartRun, Block, SetupFails, Begin
    <3>2. CASE Settle(e)
      BY <1>1, <3>2 DEF Settle, Degrade, Finish, StatusFor, Raise, LastSave
    <3>3. CASE WriteBack(e)
      BY <1>1, <3>3 DEF WriteBack, Record, Complete, CompleteRaises, Resave, LastSave
    <3>4. CASE Poll(e) \/ (\E s \in Tasks, x \in Executors : Enqueue(e, s, x))
      BY <1>1, <3>4 DEF Poll, Enqueue
    <3> QED
      BY <2>1, <3>1, <3>2, <3>3, <3>4 DEF RunStep
  <2>2. CASE HandlerStep
    BY <1>1, <2>2 DEF HandlerStep, Plan, CheckComplete, WriteComplete, KanbanEvent,
                      KanbanNext, ResolveApproval
  <2>3. CASE ProcessStep
    BY <1>1, <2>3 DEF ProcessStep, Sweep, Reaped, Expire, Stop, Crash, Ends, Boot
  <2>4. CASE UNCHANGED vars
    BY <1>1, <2>4 DEF vars
  <2> QED
    BY <1>1, <2>1, <2>2, <2>3, <2>4 DEF Next
<1>2. TypeOK /\ [Next]_vars =>
        [\A t \in Tasks \ Low :
           status[t] # "done" /\ status'[t] = "done" => t \in closing]_vars
  BY <1>1
<1> QED
  BY <1>2, TypeCorrect, PTL DEF Spec, HumanClosesRisky
=============================================================================
