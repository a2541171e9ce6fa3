----------------------------- MODULE WriteLocks -----------------------------
(***************************************************************************)
(* The write locks of runtimes/locks.py, the polling loop that waits for   *)
(* them (ExecutionService._run_locked) and the sweep that evicts old lock  *)
(* files (queue_service.evict_stale_locks).                                *)
(*                                                                         *)
(* A lock is a file created with open("x").  It outlives the process that  *)
(* made it, it carries no PID, and leaving the `with` block unlinks        *)
(* whatever file has that name by then, whoever created it.                *)
(***************************************************************************)
EXTENDS Naturals

CONSTANTS Keys,      \* lock targets: workspaces and the render slot
          Runs,      \* executions that take locks
          LongRuns,  \* runs allowed to hold a key for longer than the TTL
          None       \* "no run" / "no key"

ASSUME LockAssumption == /\ LongRuns \subseteq Runs
                         /\ None \notin Runs
                         /\ None \notin Keys

VARIABLES owner,    \* owner[k]: the run that wrote k's lock file, None if no file
          expired,  \* keys whose lock file is older than stale_lock_ttl_seconds
          want,     \* want[r]: the key r is polling for
          held      \* held[r]: the key r acquired and has not left

vars == <<owner, expired, want, held>>

TypeOK == /\ owner \in [Keys -> Runs \cup {None}]
          /\ expired \subseteq Keys
          /\ want \in [Runs -> Keys \cup {None}]
          /\ held \in [Runs -> Keys \cup {None}]

Init == /\ owner = [k \in Keys |-> None]
        /\ expired = {}
        /\ want = [r \in Runs |-> None]
        /\ held = [r \in Runs |-> None]
-----------------------------------------------------------------------------
\* WriteLockManager.acquire against the lock files `files`: r gets k's file if
\* there is none, and goes to (or stays in) the polling loop otherwise (mutants:
\* open("w") instead of open("x"); the file names the key, not the run).
MutOverwrite(files, r, k) ==
    /\ owner' = [files EXCEPT ![k] = r]
    /\ held' = [held EXCEPT ![r] = k]
    /\ want' = [want EXCEPT ![r] = None]
MutNoOwner(files, r, k) ==
    /\ owner' = [files EXCEPT ![k] = k]
    /\ held' = [held EXCEPT ![r] = k]
    /\ want' = [want EXCEPT ![r] = None]
Acquire(files, r, k) ==
    IF files[k] = None
    THEN /\ owner' = [files EXCEPT ![k] = r]
         /\ held' = [held EXCEPT ![r] = k]
         /\ want' = [want EXCEPT ![r] = None]
    ELSE /\ owner' = files
         /\ held' = [held EXCEPT ![r] = None]
         /\ want' = [want EXCEPT ![r] = k]

\* The lock files once r has left its `with` block: unlink(missing_ok=True).
Unlinked(r) == [owner EXCEPT ![held[r]] = None]

\* _run_locked is entered: the first attempt is made at once.
Enter(r, k) == /\ want[r] = None
               /\ held[r] = None
               /\ Acquire(owner, r, k)
               /\ UNCHANGED expired

\* One of the attempts repeated every 0.05 s finds the key free.
Poll(r) == /\ want[r] # None
           /\ owner[want[r]] = None
           /\ Acquire(owner, r, want[r])
           /\ UNCHANGED expired

\* action() returned or raised.
Exit(r) == /\ held[r] # None
           /\ owner' = Unlinked(r)
           /\ expired' = expired \ {held[r]}
           /\ held' = [held EXCEPT ![r] = None]
           /\ UNCHANGED want

\* A run leaves one _run_locked and enters the next without yielding.
Switch(r, k) == /\ held[r] # None
                /\ Acquire(Unlinked(r), r, k)
                /\ expired' = expired \ {held[r]}

\* Time passes and a lock file becomes older than the TTL.  A file whose run is
\* alive gets that old only if the run may last longer than the TTL.
Expire(k) == /\ owner[k] # None
             /\ k \notin expired
             /\ held[owner[k]] = k => owner[k] \in LongRuns
             /\ expired' = expired \cup {k}
             /\ UNCHANGED <<owner, want, held>>

\* evict_stale_locks: one sweep removes every lock file older than the TTL
\* (mutants: of any age; none).
MutEvictAll == /\ owner' = [k \in Keys |-> None]
               /\ expired' = {}
               /\ UNCHANGED <<want, held>>
MutEvictNone == UNCHANGED vars
Evict == /\ owner' = [k \in Keys |-> IF k \in expired THEN None ELSE owner[k]]
         /\ expired' = {}
         /\ UNCHANGED <<want, held>>

\* The process stops: cancelled runs leave their `with` blocks, so every key
\* held in this process is unlinked.
Unwind == LET left == {k \in Keys : \E r \in Runs : held[r] = k}
          IN  /\ owner' = [k \in Keys |-> IF k \in left THEN None ELSE owner[k]]
              /\ expired' = expired \ left
              /\ want' = [r \in Runs |-> None]
              /\ held' = [r \in Runs |-> None]

\* The process is killed: the lock files stay behind.
Crash == /\ want' = [r \in Runs |-> None]
         /\ held' = [r \in Runs |-> None]
         /\ UNCHANGED <<owner, expired>>

Next == \/ \E r \in Runs, k \in Keys : Enter(r, k) \/ Switch(r, k)
        \/ \E r \in Runs : Poll(r) \/ Exit(r)
        \/ \E k \in Keys : Expire(k)
        \/ Evict
        \/ Unwind
        \/ Crash

Spec == Init /\ [][Next]_vars

\* Poll and Exit: the event loop runs ready tasks and every executor is bounded
\* by its timeout.  Expire: time passes.  Evict: the reaper loop runs for ever.
Fairness == /\ \A r \in Runs : WF_vars(Poll(r)) /\ WF_vars(Exit(r))
            /\ \A k \in Keys : WF_vars(Expire(k))
            /\ WF_vars(Evict)

FairSpec == Spec /\ Fairness
-----------------------------------------------------------------------------
\* Two runs never work under the same key ("two tasks never write into the same
\* resource concurrently", execution_service.py:317).
MutualExclusion ==
    \A r, s \in Runs : r # s /\ held[r] # None => held[r] # held[s]

\* A run that works under a key is the one named in the key's lock file.
HolderOwnsFile == \A r \in Runs : held[r] # None => owner[held[r]] = r

\* A lock file old enough to be evicted belongs to a run that is gone.
OnlyDeadExpire == \A k \in expired : owner[k] # None /\ held[owner[k]] # k

\* A run polls for a key or works under one, never both.
OnePlace == \A r \in Runs : want[r] = None \/ held[r] = None

LockInv == HolderOwnsFile /\ OnlyDeadExpire /\ OnePlace

\* A wanted key does not stay out of use, even if the file in its way was left
\* by a killed process: evict_stale_locks removes it and a poll succeeds.
WantedKeyGetsUsed ==
    \A k \in Keys : (\E r \in Runs : want[r] = k)
                    ~> \/ \E r \in Runs : held[r] = k
                       \/ \A r \in Runs : want[r] # k

\* The runs working under each key, for the comparison with KeyedMutex.
Users == [k \in Keys |-> {r \in Runs : held[r] = k}]
Mutex == INSTANCE KeyedMutex WITH users <- Users
MutexSpec == Mutex!Spec
=============================================================================
