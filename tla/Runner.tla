-------------------------------- MODULE Runner --------------------------------
(***************************************************************************)
(* What an execution leaves running.  Runs of one task and executor share a   *)
(* git worktree and take its write lock in turn; each starts a command,       *)
(* waits for it no longer than the task's budget, and reads its answer.  The  *)
(* server may stop or crash under them, the commands may not.                *)
(***************************************************************************)
EXTENDS Naturals

CONSTANTS Runs,         \* executions of the task by this executor
          MaxRestarts,  \* bound: stops and crashes of the server
          Nobody        \* the lock is free

Kinds == {"cli", "aah"}   \* docker run is a cli like others

VARIABLES kind,      \* which executor this is
          tree,      \* its worktree exists
          branch,    \* the branch of that worktree exists
          holder,    \* the run that made the lock file, Nobody without one
          unlocked,  \* history: runs whose lock file was removed under them
          run,       \* run[r]: how far it is
          answer,    \* answer[r]: the status of its ExecutionResult
          child,     \* child[r]: the command and what it started that shares its output,
                     \* which communicate() waits for, and which write in the worktree
          restarts

runnerVars == <<kind, tree, branch, holder, unlocked, run, answer, child, restarts>>

Statuses == {"completed", "failed", "timeout", "unavailable"}

TypeOK == /\ kind \in Kinds
          /\ tree \in BOOLEAN /\ branch \in BOOLEAN
          /\ holder \in Runs \cup {Nobody} /\ unlocked \subseteq Runs
          /\ run \in [Runs -> {"new", "waiting", "running", "answered", "raised", "cut"}]
          /\ answer \in [Runs -> Statuses \cup {"none"}]
          /\ child \in [Runs -> {"none", "writing", "ended well", "ended badly", "killed"}]
          /\ restarts \in 0..MaxRestarts

Init == /\ kind \in Kinds
        /\ tree = FALSE /\ branch = FALSE
        /\ holder = Nobody /\ unlocked = {}
        /\ run = [r \in Runs |-> "new"]
        /\ answer = [r \in Runs |-> "none"]
        /\ child = [r \in Runs |-> "none"]
        /\ restarts = 0
-----------------------------------------------------------------------------
\* _worktree_for: the worktree of an earlier run, or a new one with a branch of the same
\* name; git refuses if that is there already, and may fail after it made the branch.
Prepare(r) ==
    /\ run[r] = "new"
    /\ \/ /\ tree \/ ~branch
          /\ tree' = TRUE
          /\ branch' = TRUE
          /\ run' = [run EXCEPT ![r] = "waiting"]
       \/ /\ ~tree
          /\ branch' \in {branch, TRUE}
          /\ run' = [run EXCEPT ![r] = "raised"]
          /\ UNCHANGED tree
    /\ UNCHANGED <<kind, holder, unlocked, answer, child, restarts>>

\* The owner removes the worktree, as WorktreeManager.remove does: the branch stays.
RemoveTree == /\ tree
              /\ \A r \in Runs : run[r] \notin {"waiting", "running"}
              /\ tree' = FALSE
              /\ UNCHANGED <<kind, branch, holder, unlocked, run, answer, child, restarts>>

\* A run enters when there is no lock file, and starts its child; where the command is
\* not installed it is answered at once (mutant: it does not ask for the lock).
Launch(r) == /\ \/ /\ holder' = r
                   /\ run' = [run EXCEPT ![r] = "running"]
                   /\ child' = [child EXCEPT ![r] = "writing"]
                   /\ UNCHANGED answer
                \/ /\ run' = [run EXCEPT ![r] = "answered"]
                   /\ answer' = [answer EXCEPT ![r] = "unavailable"]
                   /\ UNCHANGED <<holder, child>>
             /\ UNCHANGED <<kind, tree, branch, unlocked, restarts>>
MutStart(r) == run[r] = "waiting" /\ Launch(r)
Start(r) == run[r] = "waiting" /\ holder = Nobody /\ Launch(r)

\* A child ends, whether anybody waits for it or not.
End(r) == /\ child[r] = "writing"
          /\ \E how \in {"ended well", "ended badly"} : child' = [child EXCEPT ![r] = how]
          /\ UNCHANGED <<kind, tree, branch, holder, unlocked, run, answer, restarts>>

\* The lock is given back with the answer: the file of that name goes, whosever it is.
Return(r, status) == /\ holder' = Nobody
                     /\ unlocked' = unlocked \cup ({holder} \cap (Runs \ {r}))
                     /\ run' = [run EXCEPT ![r] = "answered"]
                     /\ answer' = [answer EXCEPT ![r] = status]

\* aah's own gate may not be done although the command exits with 0.
Incomplete == IF kind = "aah" THEN {"ended well"} ELSE {}

\* parse_result: the exit code decides, and for aah the report of its gate as well.
Parse(r) == /\ run[r] = "running"
            /\ \/ /\ child[r] = "ended well"
                  /\ Return(r, "completed")
               \/ /\ child[r] \in {"ended badly"} \cup Incomplete
                  /\ Return(r, "failed")
            /\ UNCHANGED <<kind, tree, branch, child, restarts>>

\* The command of a run that ran out of time is killed and waited for; what it started,
\* the CLIs of aah or the container behind the docker client, may go on.
TimeOut(r) == /\ run[r] = "running"
              /\ child[r] = "writing"
              /\ \E left \in {"writing", "killed"} : child' = [child EXCEPT ![r] = left]
              /\ Return(r, "timeout")
              /\ UNCHANGED <<kind, tree, branch, restarts>>

\* The runs are cut off; nobody kills their children, the end of the server may.
Cut == /\ restarts < MaxRestarts
       /\ restarts' = restarts + 1
       /\ run' = [r \in Runs |-> IF run[r] \in {"waiting", "running"} THEN "cut" ELSE run[r]]
       /\ \E survivors \in SUBSET {r \in Runs : child[r] = "writing"} :
              child' = [r \in Runs |-> IF child[r] = "writing" /\ r \notin survivors
                                       THEN "killed" ELSE child[r]]
       /\ UNCHANGED <<kind, tree, branch, unlocked, answer>>

\* QueueService.stop cancels the runs, which give their lock back; a crash does not.
Stop == /\ Cut
        /\ holder' = IF \E r \in Runs : run[r] = "running" THEN Nobody ELSE holder
Crash == Cut /\ UNCHANGED holder

\* evict_stale_locks goes by the age of the file: it is of a run that was cut, or of one
\* that has been waiting for its child longer than the limit.
Evict == /\ holder # Nobody
         /\ unlocked' = IF run[holder] = "running" THEN unlocked \cup {holder} ELSE unlocked
         /\ holder' = Nobody
         /\ UNCHANGED <<kind, tree, branch, run, answer, child, restarts>>

Next == \/ \E r \in Runs : Prepare(r) \/ Start(r) \/ End(r) \/ Parse(r) \/ TimeOut(r)
        \/ RemoveTree \/ Stop \/ Crash \/ Evict

Spec == Init /\ [][Next]_runnerVars
-----------------------------------------------------------------------------
\* Nobody waits for the child of r: the server ended under it, or its command was killed
\* for taking too long and what that had started was not.
Abandoned(r) == run[r] = "cut" \/ answer[r] = "timeout"

\* The lock is held by runs and the worktree is written by children: two children write
\* in it at once only if one of them was abandoned, or its run had its lock file removed
\* under it, by the sweep or by a run that came to its end after the sweep had taken its
\* own; and no run says it is completed while its own child still writes or after it
\* ended badly.
WritersAlone ==
    /\ \A r, s \in Runs :
           r # s /\ child[r] = "writing" /\ child[s] = "writing" =>
               Abandoned(r) \/ Abandoned(s) \/ {r, s} \cap unlocked # {}
    /\ \A r \in Runs : answer[r] = "completed" => child[r] = "ended well"
=============================================================================
