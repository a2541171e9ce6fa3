-------------------------- MODULE WriteLocksProofs --------------------------
(***************************************************************************)
(* What the write locks guarantee for any keys and runs, proved: the state *)
(* is well typed; and as long as no run outlives the TTL, a run that works *)
(* under a key owns the key's file, so that a key never has two users.     *)
(***************************************************************************)
EXTENDS WriteLocks, TLAPS

USE LockAssumption

\* The lock table, the sweep's view of it and the runs' positions keep their
\* types through every step of locks.py, _run_locked and evict_stale_locks.
THEOREM TypeCorrect == Spec => []TypeOK
<1>1. Init => TypeOK
  BY DEF Init, TypeOK
<1>2. TypeOK /\ [Next]_vars => TypeOK'
  <2> SUFFICES ASSUME TypeOK, [Next]_vars PROVE TypeOK'
    OBVIOUS
  <2> USE DEF TypeOK
  <2>1. ASSUME NEW r \in Runs, NEW k \in Keys, Enter(r, k) PROVE TypeOK'
    BY <2>1 DEF Enter, Acquire
  <2>2. ASSUME NEW r \in Runs, NEW k \in Keys, Switch(r, k) PROVE TypeOK'
    BY <2>2 DEF Switch, Acquire, Unlinked
  <2>3. ASSUME NEW r \in Runs, Poll(r) PROVE TypeOK'
    BY <2>3 DEF Poll, Acquire
  <2>4. ASSUME NEW r \in Runs, Exit(r) PROVE TypeOK'
    BY <2>4 DEF Exit, Unlinked
  <2>5. ASSUME NEW k \in Keys, Expire(k) PROVE TypeOK'
    BY <2>5 DEF Expire
  <2>6. CASE Evict
    BY <2>6 DEF Evict
  <2>7. CASE Unwind
    BY <2>7 DEF Unwind
  <2>8. CASE Crash
    BY <2>8 DEF Crash
  <2>9. CASE UNCHANGED vars
    BY <2>9 DEF vars
  <2> QED
    BY <2>1, <2>2, <2>3, <2>4, <2>5, <2>6, <2>7, <2>8, <2>9 DEF Next
<1> QED
  BY <1>1, <1>2, PTL DEF Spec

\* A file that is there is the only evidence of who works under a key.
\* HolderOwnsFile ties the two together; OnlyDeadExpire is what keeps the sweep
\* from breaking the tie.
LEMMA LockInvStep ==
  ASSUME LongRuns = {}, TypeOK, LockInv, [Next]_vars
  PROVE  LockInv'
<1> USE DEF TypeOK, LockInv, HolderOwnsFile, OnlyDeadExpire, OnePlace
<1>1. ASSUME NEW r \in Runs, NEW k \in Keys, Enter(r, k) PROVE LockInv'
  BY <1>1 DEF Enter, Acquire
<1>2. ASSUME NEW r \in Runs, NEW k \in Keys, Switch(r, k) PROVE LockInv'
  BY <1>2 DEF Switch, Acquire, Unlinked
<1>3. ASSUME NEW r \in Runs, Poll(r) PROVE LockInv'
  BY <1>3 DEF Poll, Acquire
<1>4. ASSUME NEW r \in Runs, Exit(r) PROVE LockInv'
  BY <1>4 DEF Exit, Unlinked
<1>5. ASSUME NEW k \in Keys, Expire(k) PROVE LockInv'
  BY <1>5 DEF Expire
<1>6. CASE Evict
  BY <1>6 DEF Evict
<1>7. CASE Unwind
  BY <1>7 DEF Unwind
<1>8. CASE Crash
  BY <1>8 DEF Crash
<1>9. CASE UNCHANGED vars
  BY <1>9 DEF vars
<1> QED
  BY <1>1, <1>2, <1>3, <1>4, <1>5, <1>6, <1>7, <1>8, <1>9 DEF Next

\* If every executor timeout is below the TTL, a working run owns its lock file
\* and the sweep finds only files of runs that are gone.
THEOREM LocksOwned ==
  ASSUME LongRuns = {}
  PROVE  Spec => []LockInv
<1>1. Init => LockInv
  BY DEF Init, LockInv, HolderOwnsFile, OnlyDeadExpire, OnePlace
<1>2. TypeOK /\ LockInv /\ [Next]_vars => LockInv'
  BY LockInvStep
<1> QED
  BY <1>1, <1>2, TypeCorrect, PTL DEF Spec

\* If every executor timeout is below the TTL, no two runs work under one key.
THEOREM Exclusion ==
  ASSUME LongRuns = {}
  PROVE  Spec => []MutualExclusion
<1>1. LockInv => MutualExclusion
  BY DEF LockInv, HolderOwnsFile, MutualExclusion
<1> QED
  BY <1>1, LocksOwned, PTL

\* Under the same condition the lock files implement the abstract lock: every
\* step of theirs is a step of KeyedMutex or changes no user.
THEOREM ImplementsMutex ==
  ASSUME LongRuns = {}
  PROVE  Spec => MutexSpec
<1>1. Init => Mutex!Init
  BY DEF Init, Mutex!Init, Users
<1>2. TypeOK /\ LockInv /\ LockInv' /\ [Next]_vars => [Mutex!Next]_Users
  <2> SUFFICES ASSUME TypeOK, LockInv, LockInv', [Next]_vars
               PROVE  [Mutex!Next]_Users
    OBVIOUS
  <2> USE DEF TypeOK, LockInv, HolderOwnsFile, Users
  <2>0. Users \in [Keys -> SUBSET Runs] /\ Users' \in [Keys -> SUBSET Runs]
    OBVIOUS
  <2>1. ASSUME NEW r \in Runs, NEW k \in Keys, held[r] = None,
               owner[k] = None, held' = [held EXCEPT ![r] = k]
        PROVE  Mutex!Use(r, k)
    <3>1. Users[k] = {}
      BY <2>1
    <3>2. ASSUME NEW j \in Keys
          PROVE  Users'[j] = IF j = k THEN {r} ELSE Users[j]
      <4>1. ASSUME NEW s \in Runs
            PROVE  held'[s] = j <=> IF j = k THEN s = r ELSE held[s] = j
        BY <2>1
      <4>2. ASSUME NEW s \in Runs
            PROVE  s \in Users'[j] <=> IF j = k THEN s = r ELSE s \in Users[j]
        BY <4>1, Zenon
      <4> QED
        BY <4>2, <2>0
    <3>3. Users' = [Users EXCEPT ![k] = {r}]
      BY <3>2, <2>0
    <3> QED
      BY <3>1, <3>3 DEF Mutex!Use
  <2>2. ASSUME NEW r \in Runs, NEW k \in Keys, held[r] = k,
               held' = [held EXCEPT ![r] = None]
        PROVE  Mutex!Leave(r, k)
    <3>1. r \in Users[k]
      BY <2>2
    <3>2. ASSUME NEW j \in Keys
          PROVE  Users'[j] = IF j = k THEN Users[j] \ {r} ELSE Users[j]
      <4>1. ASSUME NEW s \in Runs
            PROVE  held'[s] = j <=> held[s] = j /\ s # r
        BY <2>2
      <4>2. ASSUME NEW s \in Runs
            PROVE  s \in Users'[j] <=> s \in Users[j] /\ s # r
        BY <4>1, Zenon
      <4>3. j # k => r \notin Users[j]
        BY <2>2
      <4> QED
        BY <4>2, <4>3, <2>0
    <3>3. Users' = [Users EXCEPT ![k] = @ \ {r}]
      BY <3>2, <2>0
    <3> QED
      BY <3>1, <3>3 DEF Mutex!Leave
  <2>3. ASSUME NEW r \in Runs, NEW k \in Keys, Enter(r, k)
        PROVE  [Mutex!Next]_Users
    BY <2>1, <2>3 DEF Enter, Acquire, Mutex!Next
  <2>4. ASSUME NEW r \in Runs, Poll(r)
        PROVE  [Mutex!Next]_Users
    <3>1. want[r] \in Keys /\ owner[want[r]] = None
          /\ held' = [held EXCEPT ![r] = want[r]]
      BY <2>4 DEF Poll, Acquire
    <3>2. held[r] = None
      BY <2>4 DEF Poll, OnePlace
    <3> QED
      BY <2>1, <3>1, <3>2 DEF Mutex!Next
  <2>5. ASSUME NEW r \in Runs, Exit(r)
        PROVE  [Mutex!Next]_Users
    <3>1. PICK j \in Keys : held[r] = j
      BY <2>5 DEF Exit
    <3>2. Mutex!Leave(r, j)
      BY <2>2, <2>5, <3>1 DEF Exit
    <3> QED
      BY <3>2, Zenon DEF Mutex!Next
  <2>6. ASSUME NEW r \in Runs, NEW k \in Keys, Switch(r, k)
        PROVE  [Mutex!Next]_Users
    <3>1. PICK j \in Keys : held[r] = j
      BY <2>6 DEF Switch
    <3>2. CASE Unlinked(r)[k] # None
      <4>1. held' = [held EXCEPT ![r] = None]
        BY <2>6, <3>2 DEF Switch, Acquire
      <4>2. Mutex!Leave(r, j)
        BY <2>2, <3>1, <4>1
      <4> QED
        BY <4>2, Zenon DEF Mutex!Next
    <3>3. CASE Unlinked(r)[k] = None
      <4>1. held' = [held EXCEPT ![r] = k]
        BY <2>6, <3>3 DEF Switch, Acquire
      <4>2. CASE k = j
        BY <3>1, <4>1, <4>2
      <4>3. CASE k # j
        <5>1. Users[k] = {}
          BY <3>1, <3>3, <4>3 DEF Unlinked
        <5>2. r \in Users[j]
          BY <3>1
        <5>3. ASSUME NEW i \in Keys
              PROVE  Users'[i] = IF i = k THEN {r}
                                 ELSE IF i = j THEN Users[i] \ {r}
                                 ELSE Users[i]
          <6>1. ASSUME NEW s \in Runs
                PROVE  held'[s] = i <=> IF s = r THEN i = k ELSE held[s] = i
            BY <4>1
          <6>2. ASSUME NEW s \in Runs
                PROVE  s \in Users'[i] <=> IF s = r THEN i = k ELSE s \in Users[i]
            BY <6>1, Zenon
          <6>3. i # j => r \notin Users[i]
            BY <3>1
          <6> QED
            BY <6>2, <6>3, <5>1, <2>0
        <5>4. Users' = [Users EXCEPT ![j] = @ \ {r}, ![k] = {r}]
          BY <5>3, <4>3, <2>0
        <5>5. Mutex!Move(r, j, k)
          BY <5>1, <5>2, <5>4, <4>3 DEF Mutex!Move
        <5> QED
          BY <5>5, Zenon DEF Mutex!Next
      <4> QED
        BY <4>2, <4>3
    <3> QED
      BY <3>2, <3>3
  <2>7. ASSUME Unwind \/ Crash PROVE [Mutex!Next]_Users
    BY <2>7 DEF Unwind, Crash, Mutex!Next, Mutex!Vanish
  <2>8. ASSUME Evict \/ UNCHANGED vars \/ (\E k \in Keys : Expire(k))
        PROVE  [Mutex!Next]_Users
    BY <2>8 DEF Evict, Expire, vars
  <2> QED
    BY <2>3, <2>4, <2>5, <2>6, <2>7, <2>8 DEF Next
<1> QED
  BY <1>1, <1>2, LocksOwned, TypeCorrect, PTL DEF Spec, MutexSpec, Mutex!Spec
=============================================================================
