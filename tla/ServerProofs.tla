------------------------------ MODULE ServerProofs ------------------------------
(***************************************************************************)
(* What holds of the services that the server's own threads run, for every    *)
(* size of each: memory candidates, offices, runner, routing, probes.          *)
(***************************************************************************)
EXTENDS Services, FiniteSetTheorems, TLAPS

-----------------------------------------------------------------------------
\* Memory candidates.
\* What a request has done so far, step by step: whose approval passed the check, and,
\* while no two requests were checked together, what the row holds because of it.
MemoryInv ==
    /\ Memory!TypeOK
    /\ \A r \in Resolvers : req[r].pc \in {"checked", "updated", "reread"}
                           /\ req[r].decision = "approved" =>
                               req[r].actor \in granted \ {row.proposed_by}
    /\ \A r \in Resolvers : req[r].pc = "updated" => row.resolved_by \in People
    /\ \A r \in Resolvers : req[r].pc = "reread" => /\ req[r].decision = "approved"
                                                   /\ req[r].read \in People
    /\ note # {} => granted \ {row.proposed_by} # {}
    /\ row.status = "approved" => row.resolved_by \in granted
    /\ ~crossed =>
        /\ \A r, s \in Resolvers : req[r].pc = "checked" /\ req[s].pc = "checked" => r = s
        /\ \A r \in Resolvers : req[r].pc = "checked" => row.status = "candidate"
        /\ row.status = "candidate" =>
               note = {} /\ \A r \in Resolvers : req[r].pc \notin {"updated", "reread"}
        /\ \A r \in Resolvers : req[r].pc = "updated" => row.status = req[r].decision
        /\ \A r \in Resolvers : req[r].pc = "reread" =>
               row.status = "approved" /\ req[r].read = row.resolved_by
        /\ note # {} => row.status = "approved" /\ note = {row.resolved_by}

LEMMA MemoryInitially == Memory!Init => MemoryInv
BY DEF Memory!Init, MemoryInv, Memory!TypeOK, Memory!Decisions

LEMMA MemoryStep == MemoryInv /\ [Memory!Next]_memoryVars => MemoryInv'
<1> SUFFICES ASSUME MemoryInv, [Memory!Next]_memoryVars PROVE MemoryInv'
  OBVIOUS
<1>1. ASSUME NEW r \in Resolvers, Memory!Check(r) PROVE MemoryInv'
  <2>1. CASE Memory!MayResolve(r)
    BY <1>1, <2>1 DEF Memory!Check, Memory!Goto, Memory!MayResolve, MemoryInv, Memory!TypeOK,
                      Memory!Decisions
  <2>2. CASE ~Memory!MayResolve(r)
    BY <1>1, <2>2 DEF Memory!Check, Memory!Goto, MemoryInv, Memory!TypeOK, Memory!Decisions
  <2> QED
    BY <2>1, <2>2
<1>2. ASSUME NEW r \in Resolvers, Memory!Update(r) PROVE MemoryInv'
  BY <1>2 DEF Memory!Update, Memory!Goto, MemoryInv, Memory!TypeOK, Memory!Decisions
<1>3. ASSUME NEW r \in Resolvers, Memory!Reread(r) PROVE MemoryInv'
  <2>0. Memory!TypeOK
    BY DEF MemoryInv
  <2>1. req[r].pc = "updated" /\ row.resolved_by \in People
        /\ UNCHANGED <<row, note, granted, crossed>>
    BY <1>3 DEF Memory!Reread, MemoryInv, Memory!TypeOK
  <2>2. CASE req[r].decision = "approved"
    <3>1. req' = [req EXCEPT ![r].pc = "reread", ![r].read = row.resolved_by]
      BY <1>3, <2>2 DEF Memory!Reread
    <3>2. Memory!TypeOK'
      BY <2>0, <2>1, <3>1 DEF Memory!TypeOK
    <3>3. /\ req'[r].pc = "reread" /\ req'[r].read = row.resolved_by
          /\ req'[r].decision = "approved" /\ req'[r].actor = req[r].actor
          /\ \A s \in Resolvers \ {r} : req'[s] = req[s]
      BY <2>2, <3>1 DEF MemoryInv, Memory!TypeOK
    <3>4. \A s \in Resolvers : req'[s].pc = "reread" =>
              req'[s].decision = "approved" /\ req'[s].read \in People
      BY <2>1, <3>3 DEF MemoryInv
    <3>5. ~crossed => row.status = "approved" /\ row.status # "candidate"
      BY <2>1, <2>2 DEF MemoryInv
    <3> QED
      BY <2>1, <2>2, <3>2, <3>3, <3>4, <3>5 DEF MemoryInv
  <2>3. CASE req[r].decision # "approved"
    <3>1. req' = [req EXCEPT ![r].pc = "done", ![r].read = row.resolved_by]
      BY <1>3, <2>3 DEF Memory!Reread
    <3>2. Memory!TypeOK'
      BY <2>0, <2>1, <3>1 DEF Memory!TypeOK
    <3>3. /\ req'[r].pc = "done"
          /\ \A s \in Resolvers \ {r} : req'[s] = req[s]
      BY <3>1 DEF MemoryInv, Memory!TypeOK
    <3> QED
      BY <2>1, <2>3, <3>2, <3>3 DEF MemoryInv
  <2> QED
    BY <2>2, <2>3
<1>4. ASSUME NEW r \in Resolvers, Memory!Promote(r) PROVE MemoryInv'
  <2>1. /\ req[r].pc = "reread" /\ UNCHANGED <<row, granted, crossed>>
        /\ req' = [req EXCEPT ![r].pc = "done"]
    BY <1>4 DEF Memory!Promote, Memory!Goto
  <2>2. granted \ {row.proposed_by} # {}
    BY <2>1 DEF MemoryInv
  <2>3. CASE note' = note
    BY <2>1, <2>3 DEF MemoryInv, Memory!TypeOK
  <2>4. CASE note' = {req[r].read}
    <3>1. ~crossed => /\ row.status = "approved" /\ req[r].read = row.resolved_by
                      /\ row.resolved_by \in granted
      BY <2>1 DEF MemoryInv
    <3>2. req[r].read \in People
      BY <2>1 DEF MemoryInv
    <3> QED
      BY <2>1, <2>2, <2>4, <3>1, <3>2 DEF MemoryInv, Memory!TypeOK
  <2> QED
    BY <1>4, <2>3, <2>4 DEF Memory!Promote
<1>5. ASSUME UNCHANGED memoryVars PROVE MemoryInv'
  BY <1>5 DEF memoryVars, MemoryInv, Memory!TypeOK
<1> QED
  BY <1>1, <1>2, <1>3, <1>4, <1>5 DEF Memory!Next

LEMMA MemoryAlways == Spec => [](part = "memory" => MemoryInv)
<1>1. Init => (part = "memory" => MemoryInv)
  BY MemoryInitially DEF Init
<1>2. (part = "memory" => MemoryInv) /\ [Next]_vars => (part = "memory" => MemoryInv)'
  BY MemoryStep DEF Next, vars
<1> QED
  BY <1>1, <1>2, PTL DEF Spec

\* No note without an approval of somebody else, and the note of the right person unless
\* two resolutions overlapped, for every number of requests and people.
THEOREM MemoryApproved == Spec => []MemoryNeedsApproval
<1>1. MemoryInv => Memory!MemoryNeedsApproval
  BY DEF MemoryInv, Memory!MemoryNeedsApproval
<1> QED
  BY <1>1, MemoryAlways, PTL DEF MemoryNeedsApproval
-----------------------------------------------------------------------------
\* Offices.
\* While nobody counted in a rush, what runs and what was let start fit the cap together.
OfficesInv ==
    /\ Launcher!TypeOK
    /\ ~rushed => Cardinality(officesUp \cup Launcher!Admitted) <= MaxActive

\* Cardinality is the same operator in every instance.
LEMMA LauncherCardinality == ASSUME NEW S PROVE Launcher!Cardinality(S) = Cardinality(S)
BY DEF Cardinality, Launcher!Cardinality

\* Fewer offices fit when more do.
LEMMA FewerFit ==
    ASSUME NEW S \in SUBSET KnownOffices, NEW T \in SUBSET S,
           Cardinality(S) <= MaxActive
    PROVE  Cardinality(T) <= MaxActive
<1>a. MaxActive \in Nat /\ MaxCalls \in Nat /\ IsFiniteSet(KnownOffices) /\ KnownOffices # {}
  BY ServicesAssumption
<1> USE <1>a
<1>1. IsFiniteSet(S)
  BY FS_Subset
<1>2. Cardinality(T) <= Cardinality(S) /\ Cardinality(T) \in Nat /\ Cardinality(S) \in Nat
  BY <1>1, FS_Subset, FS_CardinalityType
<1> QED
  BY <1>2

\* A step that lets no new office start, and starts none that was not let, keeps the cap.
LEMMA NoneAdmitted ==
    ASSUME OfficesInv,
           officesUp' \cup Launcher!Admitted' \subseteq officesUp \cup Launcher!Admitted,
           rushed' = rushed
    PROVE  ~rushed' => Cardinality(officesUp' \cup Launcher!Admitted') <= MaxActive
<1>a. MaxActive \in Nat /\ MaxCalls \in Nat /\ IsFiniteSet(KnownOffices) /\ KnownOffices # {}
  BY ServicesAssumption
<1> USE <1>a
<1>1. officesUp \cup Launcher!Admitted \subseteq KnownOffices
  BY DEF OfficesInv, Launcher!TypeOK, Launcher!Admitted
<1> QED
  BY <1>1, FewerFit DEF OfficesInv

LEMMA OfficesInitially == Launcher!Init => OfficesInv
<1>a. MaxActive \in Nat /\ MaxCalls \in Nat /\ IsFiniteSet(KnownOffices) /\ KnownOffices # {}
  BY ServicesAssumption
<1> USE <1>a
<1> SUFFICES ASSUME Launcher!Init PROVE OfficesInv
  OBVIOUS
<1> DEFINE any == CHOOSE o \in KnownOffices : TRUE
<1>0. any \in KnownOffices /\ call \in [Callers -> [pc : {"idle"}, office : {any}]]
  BY DEF Launcher!Init
<1> HIDE DEF any
<1>1. officesUp \cup Launcher!Admitted = {}
  BY <1>0 DEF Launcher!Init, Launcher!Admitted
<1>2. Cardinality(officesUp \cup Launcher!Admitted) = 0
  BY <1>1, FS_EmptySet, Zenon
<1>3. call \in [Callers -> [pc : {"idle", "starting", "stopping"}, office : KnownOffices]]
  BY <1>0
<1>4. officesUp = {} /\ late = {} /\ calls \in 0..MaxCalls /\ rushed = FALSE
  BY DEF Launcher!Init
<1>5. Cardinality(officesUp \cup Launcher!Admitted) <= MaxActive
  BY <1>2
<1> QED
  BY <1>3, <1>4, <1>5 DEF OfficesInv, Launcher!TypeOK

LEMMA OfficesStep == OfficesInv /\ [Launcher!Next]_officesVars => OfficesInv'
<1>a. MaxActive \in Nat /\ MaxCalls \in Nat /\ IsFiniteSet(KnownOffices) /\ KnownOffices # {}
  BY ServicesAssumption
<1> USE <1>a
<1> SUFFICES ASSUME OfficesInv, [Launcher!Next]_officesVars PROVE OfficesInv'
  OBVIOUS
<1>1. ASSUME NEW c \in Callers, NEW o \in KnownOffices, Launcher!CountForStart(c, o)
      PROVE  OfficesInv'
  <2>1. CASE o \notin officesUp /\ Launcher!Room
    <3>1. call' = [call EXCEPT ![c] = [pc |-> "starting", office |-> o]]
      BY <1>1, <2>1 DEF Launcher!CountForStart
    <3>2. /\ rushed' = (rushed \/ Launcher!Admitted \ officesUp # {})
          /\ officesUp' = officesUp /\ late' = late
      BY <1>1, <2>1 DEF Launcher!CountForStart
    <3>3. Launcher!Admitted' \subseteq Launcher!Admitted \cup {o}
      BY <3>1, <3>2 DEF Launcher!Admitted, OfficesInv, Launcher!TypeOK
    <3>4. ASSUME ~rushed' PROVE Cardinality(officesUp' \cup Launcher!Admitted') <= MaxActive
      <4>1. officesUp' \cup Launcher!Admitted' \subseteq officesUp \cup {o}
        BY <3>2, <3>3, <3>4
      <4>2. IsFiniteSet(officesUp) /\ Cardinality(officesUp) \in Nat
        BY FS_Subset, FS_CardinalityType DEF OfficesInv, Launcher!TypeOK
      <4>3. Cardinality(officesUp \cup {o}) = Cardinality(officesUp) + 1
        BY <4>2, <2>1, FS_AddElement
      <4>4. Cardinality(officesUp \cup {o}) <= MaxActive
        BY <4>2, <4>3, <2>1, LauncherCardinality DEF Launcher!Room
      <4> QED
        BY <4>1, <4>4, FewerFit DEF OfficesInv, Launcher!TypeOK
    <3>5. calls' \in 0..MaxCalls
      BY <1>1 DEF Launcher!CountForStart, OfficesInv, Launcher!TypeOK
    <3> QED
      BY <3>1, <3>2, <3>4, <3>5 DEF OfficesInv, Launcher!TypeOK
  <2>2. CASE ~(o \notin officesUp /\ Launcher!Room)
    <3>1. calls' \in 0..MaxCalls
      BY <1>1 DEF Launcher!CountForStart, OfficesInv, Launcher!TypeOK
    <3>2. UNCHANGED <<officesUp, late, call, rushed>>
      BY <1>1, <2>2 DEF Launcher!CountForStart
    <3> QED
      BY <3>1, <3>2 DEF OfficesInv, Launcher!TypeOK, Launcher!Admitted
  <2> QED
    BY <2>1, <2>2
<1>2. ASSUME NEW c \in Callers, NEW o \in KnownOffices, Launcher!CountForStop(c, o)
      PROVE  OfficesInv'
  <2>1. Launcher!Admitted' \subseteq Launcher!Admitted
    BY <1>2 DEF Launcher!CountForStop, OfficesInv, Launcher!TypeOK, Launcher!Admitted
  <2> QED
    BY <1>2, <2>1, NoneAdmitted DEF Launcher!CountForStop, OfficesInv, Launcher!TypeOK
<1>3. ASSUME NEW c \in Callers, Launcher!Up(c) PROVE OfficesInv'
  <2>1. Launcher!Admitted' \cup officesUp' \subseteq Launcher!Admitted \cup officesUp
    BY <1>3 DEF Launcher!Up, OfficesInv, Launcher!TypeOK, Launcher!Admitted
  <2>2. call[c].office \in Launcher!Admitted /\ call[c].office \in KnownOffices
    BY <1>3 DEF Launcher!Up, OfficesInv, Launcher!TypeOK, Launcher!Admitted
  <2> QED
    BY <1>3, <2>1, <2>2, NoneAdmitted DEF Launcher!Up, OfficesInv, Launcher!TypeOK
<1>4. ASSUME NEW c \in Callers, Launcher!Down(c) PROVE OfficesInv'
  <2>1. Launcher!Admitted' \cup officesUp' \subseteq Launcher!Admitted \cup officesUp
    BY <1>4 DEF Launcher!Down, OfficesInv, Launcher!TypeOK, Launcher!Admitted
  <2> QED
    BY <1>4, <2>1, NoneAdmitted DEF Launcher!Down, OfficesInv, Launcher!TypeOK
<1>5. ASSUME NEW o \in KnownOffices, Launcher!UpLate(o) PROVE OfficesInv'
  <2>1. Launcher!Admitted' \cup officesUp' \subseteq Launcher!Admitted \cup officesUp
    BY <1>5 DEF Launcher!UpLate, OfficesInv, Launcher!TypeOK, Launcher!Admitted
  <2> QED
    BY <1>5, <2>1, NoneAdmitted DEF Launcher!UpLate, OfficesInv, Launcher!TypeOK
<1>6. ASSUME NEW o \in KnownOffices, Launcher!Exit(o) PROVE OfficesInv'
  <2>1. Launcher!Admitted' \cup officesUp' \subseteq Launcher!Admitted \cup officesUp
    BY <1>6 DEF Launcher!Exit, OfficesInv, Launcher!TypeOK, Launcher!Admitted
  <2> QED
    BY <1>6, <2>1, NoneAdmitted DEF Launcher!Exit, OfficesInv, Launcher!TypeOK
<1>7. ASSUME UNCHANGED officesVars PROVE OfficesInv'
  BY <1>7 DEF officesVars, OfficesInv, Launcher!TypeOK, Launcher!Admitted
<1> QED
  BY <1>1, <1>2, <1>3, <1>4, <1>5, <1>6, <1>7 DEF Launcher!Next

LEMMA OfficesAlways == Spec => [](part = "offices" => OfficesInv)
<1>1. Init => (part = "offices" => OfficesInv)
  BY OfficesInitially DEF Init
<1>2. (part = "offices" => OfficesInv) /\ [Next]_vars => (part = "offices" => OfficesInv)'
  BY OfficesStep DEF Next, vars
<1> QED
  BY <1>1, <1>2, PTL DEF Spec

\* More offices than the cap run only after a caller counted in a rush, for every number
\* of callers and offices and every cap.
THEOREM CapHolds == Spec => []CapBrokenOnlyByRush
<1>1. OfficesInv => Launcher!CapBrokenOnlyByRush
  <2> SUFFICES ASSUME OfficesInv, ~rushed PROVE ~(Cardinality(officesUp) > MaxActive)
    BY LauncherCardinality DEF Launcher!CapBrokenOnlyByRush
  <2>1. /\ officesUp \cup Launcher!Admitted \subseteq KnownOffices
        /\ Cardinality(officesUp \cup Launcher!Admitted) <= MaxActive
    BY DEF OfficesInv, Launcher!TypeOK, Launcher!Admitted
  <2>2. Cardinality(officesUp) <= MaxActive /\ Cardinality(officesUp) \in Nat
    BY <2>1, FewerFit, FS_Subset, FS_CardinalityType, ServicesAssumption
  <2> QED
    BY <2>2, ServicesAssumption
<1> QED
  BY <1>1, OfficesAlways, PTL DEF CapBrokenOnlyByRush
-----------------------------------------------------------------------------
\* Runner.
\* A run that waits for its child has the lock unless the file was removed under it, and a
\* child that writes has such a run unless it was abandoned; whoever said "completed" saw
\* the child end well.
RunnerInv ==
    /\ Children!TypeOK
    /\ \A r \in ChildRuns : childRun[r] = "running" => holder = r \/ r \in unlocked
    /\ \A r \in ChildRuns : child[r] = "writing" =>
                                childRun[r] = "running" \/ Children!Abandoned(r)
    /\ \A r \in ChildRuns : childRun[r] # "answered" => answer[r] = "none"
    /\ \A r \in ChildRuns : childRun[r] \in {"new", "waiting"} => child[r] = "none"
    /\ \A r \in ChildRuns : answer[r] = "completed" => child[r] = "ended well"

LEMMA RunnerInitially == Children!Init => RunnerInv
<1> SUFFICES ASSUME Children!Init PROVE RunnerInv
  OBVIOUS
<1>1. restarts \in 0..MaxRestarts
  BY ServicesAssumption DEF Children!Init
<1> QED
  BY <1>1 DEF Children!Init, RunnerInv, Children!TypeOK

LEMMA RunnerStep == RunnerInv /\ [Children!Next]_runnerVars => RunnerInv'
<1> SUFFICES ASSUME RunnerInv, [Children!Next]_runnerVars PROVE RunnerInv'
  OBVIOUS
<1> USE ServicesAssumption DEF RunnerInv, Children!TypeOK, Children!Abandoned, Children!Statuses
<1>1. ASSUME NEW r \in ChildRuns, Children!Prepare(r) PROVE RunnerInv'
  <2>1. CASE childRun' = [childRun EXCEPT ![r] = "waiting"]
    BY <1>1, <2>1 DEF Children!Prepare
  <2>2. CASE childRun' = [childRun EXCEPT ![r] = "raised"]
    BY <1>1, <2>2 DEF Children!Prepare
  <2> QED
    BY <1>1, <2>1, <2>2 DEF Children!Prepare
<1>2. ASSUME NEW r \in ChildRuns, Children!Start(r) PROVE RunnerInv'
  <2>1. CASE childRun' = [childRun EXCEPT ![r] = "running"]
    BY <1>2, <2>1 DEF Children!Start, Children!Launch
  <2>2. CASE childRun' = [childRun EXCEPT ![r] = "answered"]
    BY <1>2, <2>2 DEF Children!Start, Children!Launch
  <2> QED
    BY <1>2, <2>1, <2>2 DEF Children!Start, Children!Launch
<1>3. ASSUME NEW r \in ChildRuns, Children!End(r) PROVE RunnerInv'
  <2>1. PICK how \in {"ended well", "ended badly"} : child' = [child EXCEPT ![r] = how]
    BY <1>3 DEF Children!End
  <2>2. answer[r] # "completed" /\ childRun[r] \notin {"new", "waiting"}
    BY <1>3 DEF Children!End
  <2> QED
    BY <1>3, <2>1, <2>2 DEF Children!End
<1>4. ASSUME NEW r \in ChildRuns, Children!Parse(r) PROVE RunnerInv'
  <2>1. CASE child[r] = "ended well" /\ Children!Return(r, "completed")
    BY <1>4, <2>1 DEF Children!Parse, Children!Return
  <2>2. CASE child[r] # "writing" /\ Children!Return(r, "failed")
    BY <1>4, <2>2 DEF Children!Parse, Children!Return
  <2> QED
    BY <1>4, <2>1, <2>2 DEF Children!Parse, Children!Incomplete
<1>5. ASSUME NEW r \in ChildRuns, Children!TimeOut(r) PROVE RunnerInv'
  <2>1. PICK left \in {"writing", "killed"} : child' = [child EXCEPT ![r] = left]
    BY <1>5 DEF Children!TimeOut
  <2> QED
    BY <1>5, <2>1 DEF Children!TimeOut, Children!Return
<1>6. ASSUME Children!RemoveTree PROVE RunnerInv'
  BY <1>6 DEF Children!RemoveTree
<1>7. ASSUME Children!Cut, holder' \in {holder, Nothing}
      PROVE  RunnerInv'
  <2>1. restarts' \in 0..MaxRestarts
    <3>1. restarts < MaxRestarts /\ restarts' = restarts + 1
      BY <1>7 DEF Children!Cut
    <3>2. restarts \in 0..MaxRestarts /\ MaxRestarts \in Nat
      OBVIOUS
    <3> HIDE DEF RunnerInv
    <3> QED
      BY <3>1, <3>2
  <2>2. PICK survivors \in SUBSET {r \in ChildRuns : child[r] = "writing"} :
            child' = [r \in ChildRuns |-> IF child[r] = "writing" /\ r \notin survivors
                                          THEN "killed" ELSE child[r]]
    BY <1>7 DEF Children!Cut
  <2>3. /\ childRun' = [r \in ChildRuns |-> IF childRun[r] \in {"waiting", "running"}
                                            THEN "cut" ELSE childRun[r]]
        /\ UNCHANGED <<kind, tree, branch, unlocked, answer>>
    BY <1>7 DEF Children!Cut
  <2>4. Children!TypeOK'
    BY <1>7, <2>1, <2>2, <2>3
  <2> QED
    BY <2>2, <2>3, <2>4
<1>8. ASSUME Children!Evict PROVE RunnerInv'
  BY <1>8 DEF Children!Evict
<1>9. ASSUME UNCHANGED runnerVars PROVE RunnerInv'
  BY <1>9 DEF runnerVars
<1> QED
  BY <1>1, <1>2, <1>3, <1>4, <1>5, <1>6, <1>7, <1>8, <1>9
     DEF Children!Next, Children!Stop, Children!Crash

LEMMA RunnerAlways == Spec => [](part = "runner" => RunnerInv)
<1>1. Init => (part = "runner" => RunnerInv)
  BY RunnerInitially DEF Init
<1>2. (part = "runner" => RunnerInv) /\ [Next]_vars => (part = "runner" => RunnerInv)'
  BY RunnerStep DEF Next, vars
<1> QED
  BY <1>1, <1>2, PTL DEF Spec

\* Two children write in the worktree at once only if one of them was abandoned or its run
\* had its lock file removed under it, and a run that says completed has seen its child end
\* well, for every number of runs and restarts.
THEOREM OneSupervisedWriter == Spec => []WritersAlone
<1>1. RunnerInv => Children!WritersAlone
  BY DEF RunnerInv, Children!WritersAlone
<1> QED
  BY <1>1, RunnerAlways, PTL DEF WritersAlone
-----------------------------------------------------------------------------
\* Routing.
Claude == Router!Profile("claude-subscription", 1, 5, 5, TRUE, TRUE, TRUE)

\* Scores are integers.
LEMMA ScoreType ==
    ASSUME NEW t \in Router!Tasks, NEW p \in Router!DEFAULT_PROFILES
    PROVE  Router!Score(t, p) \in Int /\ p.cost_tier \in Int
<1>1. p.cost_tier \in Int /\ p.quality \in Int /\ p.context \in Int
  BY DEF Router!DEFAULT_PROFILES, Router!Profile
<1>2. t.complexity \in Int /\ t.context_need \in Int
  BY ServicesAssumption DEF Router!Tasks
<1>3. Router!Bonus(t, p) \in Int
  BY DEF Router!Bonus
<1> QED
  BY <1>1, <1>2, <1>3 DEF Router!Score, Router!Larger, Router!Smaller, Router!Distance

\* A task that may use a profile of tier 1 or more may use claude-subscription.
LEMMA ClaudeUsable ==
    ASSUME NEW t \in Router!Tasks, t.max_cost_tier >= 1
    PROVE  Claude \in Router!DEFAULT_PROFILES /\ Router!Usable(t, Claude)
BY ServicesAssumption DEF Router!Tasks, Claude, Router!DEFAULT_PROFILES, Router!Usable,
                          Router!Profile

\* The score of claude-subscription, written out.
LEMMA ClaudeScore ==
    ASSUME NEW t \in Router!Tasks
    PROVE  Router!Score(t, Claude) =
               Router!Larger(0, 60 - 15 * Router!Distance(5, t.complexity))
               + 8 * Router!Smaller(5, t.context_need) + 44 + Router!Bonus(t, Claude)
BY ServicesAssumption DEF Router!Score, Claude, Router!Profile, Router!Larger

\* It beats both profiles of tier 5.
LEMMA PremiumLoses ==
    ASSUME NEW t \in Router!Tasks,
           NEW p \in Router!DEFAULT_PROFILES, p.cost_tier >= 5
    PROVE  Router!Score(t, p) < Router!Score(t, Claude)
<1>1. p.id \in {"anthropic-premium", "openai-premium"} /\ p.cost_tier = 5 /\ p.quality = 5
      /\ p.context = 5 /\ p.subscription = FALSE
  BY DEF Router!DEFAULT_PROFILES, Router!Profile
<1>2. t.complexity \in Int /\ t.context_need \in Int
  BY ServicesAssumption DEF Router!Tasks
<1>3. Router!Bonus(t, p) + 30 <= Router!Bonus(t, Claude)
  BY <1>1 DEF Router!Bonus, Claude, Router!Profile
<1>4. Router!Score(t, p) = Router!Larger(0, 60 - 15 * Router!Distance(5, t.complexity))
                    + 8 * Router!Smaller(5, t.context_need) + Router!Bonus(t, p)
  BY <1>1, <1>2 DEF Router!Score, Router!Larger, Router!Smaller, Router!Distance, Router!Bonus
<1>5. Router!Bonus(t, p) \in Int /\ Router!Bonus(t, Claude) \in Int
  BY DEF Router!Bonus
<1> QED
  BY <1>2, <1>3, <1>4, <1>5, ClaudeScore
     DEF Router!Larger, Router!Smaller, Router!Distance

\* For the engineers and the master it beats every profile that is no subscription.
LEMMA WorkersLose ==
    ASSUME NEW t \in Router!Tasks,
           t.domain \in {"engineering", "governance"},
           NEW p \in Router!DEFAULT_PROFILES, ~p.subscription
    PROVE  Router!Score(t, p) < Router!Score(t, Claude)
<1>1. t.complexity \in Int /\ t.context_need \in Int
  BY ServicesAssumption DEF Router!Tasks
<1>2. Router!Bonus(t, Claude) = 65 + (IF t.risk \in {"high", "critical"} THEN 25 ELSE 0)
  BY DEF Router!Bonus, Claude, Router!Profile
<1>3. Router!Bonus(t, p) = IF t.risk \in {"high", "critical"} /\ p.quality >= 5 THEN 25 ELSE 0
  BY DEF Router!Bonus, Router!DEFAULT_PROFILES, Router!Profile
<1>4. \/ p.quality = 2 /\ p.context = 2 /\ p.cost_tier = 0
      \/ p.quality = 3 /\ p.context = 4 /\ p.cost_tier \in {0, 1}
      \/ p.quality = 4 /\ p.context \in {4, 5, 6} /\ p.cost_tier \in {0, 2, 3}
      \/ p.quality = 5 /\ p.context = 5 /\ p.cost_tier = 5
  BY DEF Router!DEFAULT_PROFILES, Router!Profile
<1>5. Router!Score(t, p) = Router!Larger(0, 60 - 15 * Router!Distance(p.quality, t.complexity))
                    + 8 * Router!Smaller(p.context, t.context_need)
                    + 11 * Router!Larger(0, 5 - p.cost_tier) + Router!Bonus(t, p)
  BY DEF Router!Score
<1>6. CASE p.quality = 2 /\ p.context = 2 /\ p.cost_tier = 0
  BY <1>1, <1>2, <1>3, <1>5, <1>6, ClaudeScore
     DEF Router!Larger, Router!Smaller, Router!Distance
<1>7. CASE p.quality = 3 /\ p.context = 4 /\ p.cost_tier \in {0, 1}
  BY <1>1, <1>2, <1>3, <1>5, <1>7, ClaudeScore
     DEF Router!Larger, Router!Smaller, Router!Distance
<1>8. CASE p.quality = 4 /\ p.context \in {4, 5, 6} /\ p.cost_tier \in {0, 2, 3}
  <2> DEFINE fit(q) == Router!Larger(0, 60 - 15 * Router!Distance(q, t.complexity))
             room(c) == Router!Smaller(c, t.context_need)
  <2>1. fit(4) \in Int /\ fit(5) \in Int /\ fit(4) <= fit(5) + 15
    BY <1>1 DEF Router!Larger, Router!Distance
  <2>2. room(p.context) \in Int /\ room(5) \in Int /\ room(p.context) <= room(5) + 1
    BY <1>1, <1>8 DEF Router!Smaller
  <2>3. 11 * Router!Larger(0, 5 - p.cost_tier) \in 0..55
    BY <1>8 DEF Router!Larger
  <2>4. Router!Bonus(t, p) = 0
    BY <1>3, <1>8
  <2>5. Router!Score(t, p) =
            fit(4) + 8 * room(p.context) + 11 * Router!Larger(0, 5 - p.cost_tier)
    BY <1>5, <1>8, <2>1, <2>2, <2>3, <2>4
  <2>6. Router!Score(t, Claude) = fit(5) + 8 * room(5) + 44 + Router!Bonus(t, Claude)
    BY ClaudeScore
  <2>7. Router!Bonus(t, Claude) \in Int /\ Router!Bonus(t, Claude) >= 65
    BY <1>2
  <2> HIDE DEF fit, room
  <2> QED
    BY <2>1, <2>2, <2>3, <2>5, <2>6, <2>7
<1>9. CASE p.quality = 5 /\ p.context = 5 /\ p.cost_tier = 5
  BY <1>1, <1>2, <1>3, <1>5, <1>9, ClaudeScore
     DEF Router!Larger, Router!Smaller, Router!Distance
<1> QED
  BY <1>4, <1>6, <1>7, <1>8, <1>9

\* A task is planned with a profile that it may use and that nothing beats, and with
\* nothing else: what Plan leaves behind, for any task.
RouteIsBest == route # Nothing => Router!Routes(task, route)

LEMMA BestIsSubscription ==
    ASSUME Router!TypeOK, RouteIsBest
    PROVE  Router!RoutingPrefersSubscription
<1> USE ServicesAssumption
<1> SUFFICES ASSUME route # Nothing
             PROVE  /\ route.cost_tier < 5
                    /\ task.domain \in {"engineering", "governance"} =>
                           route.subscription \/ task.max_cost_tier < 1
  BY DEF Router!RoutingPrefersSubscription
<1>1. task \in Router!Tasks /\ task.max_cost_tier \in Int /\ route \in Router!DEFAULT_PROFILES
  BY DEF Router!TypeOK, Router!Tasks
<1>2. /\ route.cost_tier <= task.max_cost_tier
      /\ \A q \in Router!DEFAULT_PROFILES :
             Router!Usable(task, q) => Router!Score(task, q) <= Router!Score(task, route)
  BY DEF RouteIsBest, Router!Routes, Router!Usable
<1>3. \A p \in Router!DEFAULT_PROFILES : Router!Score(task, p) \in Int /\ p.cost_tier \in Int
  BY <1>1, ScoreType
<1>4. Claude \in Router!DEFAULT_PROFILES
  BY DEF Claude, Router!DEFAULT_PROFILES
<1>5. route.cost_tier < 5
  <2> SUFFICES ASSUME route.cost_tier >= 5 PROVE FALSE
    BY <1>1, <1>3
  <2>1. Router!Usable(task, Claude)
    BY <1>1, <1>2, <1>3, ClaudeUsable
  <2> QED
    BY <2>1, <1>1, <1>2, <1>3, <1>4, PremiumLoses
<1>6. ASSUME task.domain \in {"engineering", "governance"}, task.max_cost_tier >= 1
      PROVE  route.subscription
  <2> SUFFICES ASSUME ~route.subscription PROVE FALSE
    OBVIOUS
  <2>1. Router!Usable(task, Claude)
    BY <1>1, <1>6, ClaudeUsable
  <2> QED
    BY <2>1, <1>1, <1>2, <1>3, <1>4, <1>6, WorkersLose
<1> QED
  BY <1>1, <1>5, <1>6

RoutingInv == Router!TypeOK /\ RouteIsBest

LEMMA RoutingStep == RoutingInv /\ [Router!Next]_routingVars => RoutingInv'
<1> SUFFICES ASSUME RoutingInv, [Router!Next]_routingVars PROVE RoutingInv'
  OBVIOUS
<1>1. CASE Router!Plan
  <2>1. PICK p \in Router!DEFAULT_PROFILES :
            /\ Router!Routes(task, p)
            /\ route' = p
            /\ \E active \in SUBSET Router!Runtimes : runtime' \in Router!Selected(task, active)
            /\ UNCHANGED task
    BY <1>1 DEF Router!Plan
  <2>2. \A active \in SUBSET Router!Runtimes :
            Router!Selected(task, active) \subseteq Router!Runtimes
    BY DEF Router!Selected, Router!Runtimes
  <2>3. Router!TypeOK'
    BY <2>1, <2>2 DEF RoutingInv, Router!TypeOK
  <2>4. Router!Routes(task', route')
    BY <2>1
  <2>5. Router!Routes(task', route') = Router!Routes(task, route)'
    BY DEF Router!Routes, Router!Usable, Router!Score
  <2> QED
    BY <2>3, <2>4, <2>5 DEF RoutingInv, RouteIsBest
<1>2. CASE UNCHANGED routingVars
  BY <1>2 DEF routingVars, RoutingInv, Router!TypeOK, RouteIsBest, Router!Routes
<1> QED
  BY <1>1, <1>2 DEF Router!Next

LEMMA RoutingAlways == Spec => [](part = "routing" => RoutingInv)
<1>1. Init => (part = "routing" => RoutingInv)
  BY DEF Init, Router!Init, RoutingInv, Router!TypeOK, RouteIsBest
<1>2. (part = "routing" => RoutingInv) /\ [Next]_vars => (part = "routing" => RoutingInv)'
  BY RoutingStep DEF Next, vars
<1> QED
  BY <1>1, <1>2, PTL DEF Spec

\* Routing prefers the subscriptions, whatever integers the metadata of a task holds.
THEOREM RoutingSubscription == Spec => []RoutingPrefersSubscription
<1>1. RoutingInv => Router!RoutingPrefersSubscription
  BY BestIsSubscription DEF RoutingInv
<1> QED
  BY <1>1, RoutingAlways, PTL DEF RoutingPrefersSubscription
-----------------------------------------------------------------------------
\* Probes.

\* At some time from `from` on the offices that ran were those of the answer.
Seen(said, from) == \E t \in Health!Times : t >= from /\ said \in was[t]

\* What is cached, or about to be, was the case when its caller had looked, or later; what
\* is not the present has no past.
ProbesInv ==
    /\ Health!TypeOK
    /\ \A t \in Health!Times : t > clock => was[t] = {}
    /\ answering \in was[clock]
    /\ cache # Nothing /\ cache.answer # Nothing => Seen(cache.answer, cache.at)
    /\ \A i \in Gets : healthGet[i].now <= clock
    /\ \A i \in Gets : healthGet[i].pc = "asked" /\ healthGet[i].answer # Nothing =>
                           Seen(healthGet[i].answer, healthGet[i].now)
    /\ Health!ServedFresh

LEMMA ProbesInitially == Health!Init => ProbesInv
<1>a. TTL \in Nat \ {0} /\ MaxTime \in Nat /\ Nothing \notin Nat
  BY ServicesAssumption
<1> USE <1>a
<1> SUFFICES ASSUME Health!Init PROVE ProbesInv
  OBVIOUS
<1>1. 0 \in Health!Times /\ \A t \in Health!Times : t \in Nat
  BY DEF Health!Times
<1>2. Health!TypeOK
  BY <1>1 DEF Health!Init, Health!TypeOK, Health!Answers
<1> QED
  BY <1>1, <1>2 DEF Health!Init, ProbesInv, Health!ServedFresh

\* What was once seen stays seen, as long as nothing is taken out of the past.
LEMMA SeenStays ==
    ASSUME \A t \in Health!Times : was[t] \subseteq was'[t]
    PROVE  /\ \A said, from : Seen(said, from) => Seen(said, from)'
           /\ healthGet' = healthGet /\ Health!ServedFresh => Health!ServedFresh'
BY DEF Seen, Health!ServedFresh

LEMMA ProbesStep == ProbesInv /\ [Health!Next]_probesVars => ProbesInv'
<1>a. TTL \in Nat \ {0} /\ MaxTime \in Nat /\ Nothing \notin Nat
  BY ServicesAssumption
<1> USE <1>a
<1> SUFFICES ASSUME ProbesInv, [Health!Next]_probesVars PROVE ProbesInv'
  OBVIOUS
<1>0. clock \in Health!Times /\ \A t \in Health!Times : t \in Nat
  BY DEF ProbesInv, Health!TypeOK, Health!Times
<1>1. ASSUME Health!Tick PROVE ProbesInv'
  <2>1. clock < MaxTime /\ clock' = clock + 1 /\ was' = [was EXCEPT ![clock + 1] = {answering}]
        /\ UNCHANGED <<answering, cache, healthGet>>
    BY <1>1 DEF Health!Tick
  <2>2. clock + 1 \in Health!Times
    BY <1>0, <2>1 DEF Health!Times
  <2>3. was[clock + 1] = {}
    BY <1>0, <2>2 DEF ProbesInv
  <2>4. \A t \in Health!Times : was[t] \subseteq was'[t]
    BY <2>1, <2>3 DEF ProbesInv, Health!TypeOK
  <2>5. Health!TypeOK'
    BY <2>1, <2>2 DEF ProbesInv, Health!TypeOK
  <2>6. \A t \in Health!Times : t > clock' => was'[t] = {}
    BY <1>0, <2>1, <2>2 DEF ProbesInv, Health!TypeOK
  <2>7. answering' \in was'[clock']
    BY <2>1, <2>2 DEF ProbesInv, Health!TypeOK
  <2>8. \A i \in Gets : healthGet'[i].now <= clock'
    BY <1>0, <2>1 DEF ProbesInv, Health!TypeOK, Health!Times
  <2> QED
    BY <2>1, <2>4, <2>5, <2>6, <2>7, <2>8, SeenStays DEF ProbesInv
<1>2. ASSUME NEW o \in ProbedOffices, Health!Switch(o) PROVE ProbesInv'
  <2>1. was' = [was EXCEPT ![clock] = @ \cup {answering'}] /\ answering' \subseteq ProbedOffices
        /\ UNCHANGED <<clock, cache, healthGet>>
    BY <1>2 DEF Health!Switch, ProbesInv, Health!TypeOK
  <2>2. \A t \in Health!Times : was[t] \subseteq was'[t]
    BY <2>1 DEF ProbesInv, Health!TypeOK
  <2>3. Health!TypeOK'
    BY <1>0, <2>1 DEF ProbesInv, Health!TypeOK
  <2>4. \A t \in Health!Times : t > clock' => was'[t] = {}
    BY <1>0, <2>1 DEF ProbesInv, Health!TypeOK
  <2>5. answering' \in was'[clock']
    BY <1>0, <2>1 DEF ProbesInv, Health!TypeOK
  <2> QED
    BY <2>1, <2>2, <2>3, <2>4, <2>5, SeenStays DEF ProbesInv
<1>3. ASSUME NEW i \in Gets, Health!Look(i) PROVE ProbesInv'
  <2>0. UNCHANGED <<clock, answering, was, cache>> /\ healthGet[i].pc = "new"
    BY <1>3 DEF Health!Look
  <2>1. CASE Health!Fresh
    <3>1. healthGet' = [healthGet EXCEPT ![i] = [pc |-> "shown", now |-> clock,
                                                 answer |-> cache.answer]]
      BY <1>3, <2>1 DEF Health!Look
    <3>2. cache \in [at : Health!Times, answer : Health!Answers] /\ clock - cache.at < TTL
          /\ cache # Nothing
      BY <2>1 DEF Health!Fresh, ProbesInv, Health!TypeOK
    <3>3. Health!TypeOK'
      BY <1>0, <2>0, <3>1, <3>2 DEF ProbesInv, Health!TypeOK
    <3>4. cache.answer # Nothing =>
              \E t \in Health!Times : t + TTL > clock /\ cache.answer \in was[t]
      BY <1>0, <3>2 DEF ProbesInv, Seen
    <3>5. Health!ServedFresh'
      BY <2>0, <3>1, <3>4 DEF ProbesInv, Health!ServedFresh, Health!TypeOK
    <3>6. \A j \in Gets : healthGet'[j].now <= clock'
      BY <1>0, <2>0, <3>1 DEF ProbesInv, Health!TypeOK
    <3>7. \A j \in Gets : healthGet'[j].pc = "asked" => healthGet'[j] = healthGet[j]
      BY <3>1 DEF ProbesInv, Health!TypeOK
    <3> QED
      BY <2>0, <3>3, <3>5, <3>6, <3>7 DEF ProbesInv, Seen
  <2>2. CASE ~Health!Fresh
    <3>1. healthGet' = [healthGet EXCEPT ![i] = [pc |-> "missed", now |-> clock,
                                                 answer |-> Nothing]]
      BY <1>3, <2>2 DEF Health!Look
    <3>2. Health!TypeOK'
      BY <1>0, <2>0, <3>1 DEF ProbesInv, Health!TypeOK, Health!Answers
    <3>3. \A j \in Gets : healthGet'[j].pc \in {"asked", "shown"} =>
                              healthGet'[j] = healthGet[j]
      BY <3>1 DEF ProbesInv, Health!TypeOK
    <3>4. \A j \in Gets : healthGet'[j].now <= clock'
      BY <1>0, <2>0, <3>1 DEF ProbesInv, Health!TypeOK
    <3> QED
      BY <2>0, <3>2, <3>3, <3>4 DEF ProbesInv, Seen, Health!ServedFresh
  <2> QED
    BY <2>1, <2>2
<1>4. ASSUME NEW i \in Gets, Health!Ask(i) PROVE ProbesInv'
  <2>1. PICK said \in {answering, Nothing} :
            healthGet' = [healthGet EXCEPT ![i].pc = "asked", ![i].answer = said]
    BY <1>4 DEF Health!Ask
  <2>2. UNCHANGED <<clock, answering, was, cache>>
    BY <1>4 DEF Health!Ask
  <2>3. Health!TypeOK'
    <3>1. said \in Health!Answers /\ healthGet[i].now \in Health!Times
      BY <2>1 DEF ProbesInv, Health!TypeOK, Health!Answers
    <3>2. [healthGet[i] EXCEPT !.pc = "asked", !.answer = said] \in
              [pc : {"new", "missed", "asked", "shown"}, now : Health!Times,
               answer : Health!Answers]
      BY <3>1 DEF ProbesInv, Health!TypeOK
    <3>3. healthGet' = [healthGet EXCEPT ![i] = [healthGet[i] EXCEPT !.pc = "asked",
                                                                     !.answer = said]]
      BY <2>1 DEF ProbesInv, Health!TypeOK
    <3> QED
      BY <2>2, <3>2, <3>3 DEF ProbesInv, Health!TypeOK
  <2>4. \A j \in Gets : healthGet'[j].now = healthGet[j].now
    BY <2>1 DEF ProbesInv, Health!TypeOK
  <2>5. \A j \in Gets : j # i => healthGet'[j] = healthGet[j]
    BY <2>1 DEF ProbesInv, Health!TypeOK
  <2>6. healthGet'[i].pc = "asked" /\ healthGet'[i].answer = said
    BY <2>1 DEF ProbesInv, Health!TypeOK
  <2>7. said # Nothing => Seen(said, healthGet[i].now)
    BY <1>0, <2>1 DEF ProbesInv, Seen
  <2> QED
    BY <2>2, <2>3, <2>4, <2>5, <2>6, <2>7 DEF ProbesInv, Seen, Health!ServedFresh
<1>5. ASSUME NEW i \in Gets, Health!Store(i) PROVE ProbesInv'
  <2>1. /\ healthGet[i].pc = "asked"
        /\ cache' = [at |-> healthGet[i].now, answer |-> healthGet[i].answer]
        /\ healthGet' = [healthGet EXCEPT ![i].pc = "shown"]
        /\ UNCHANGED <<clock, answering, was>>
    BY <1>5 DEF Health!Store, Health!Stamp
  <2>2. Health!TypeOK'
    BY <2>1 DEF ProbesInv, Health!TypeOK
  <2>3. \A j \in Gets : healthGet'[j].now = healthGet[j].now
                        /\ healthGet'[j].answer = healthGet[j].answer
    BY <2>1 DEF ProbesInv, Health!TypeOK
  <2>4. \A j \in Gets : j # i => healthGet'[j] = healthGet[j]
    BY <2>1 DEF ProbesInv, Health!TypeOK
  <2>5. healthGet[i].answer # Nothing => Seen(healthGet[i].answer, healthGet[i].now)
    BY <2>1 DEF ProbesInv
  <2>6. healthGet[i].now \in Nat
    BY <1>0 DEF ProbesInv, Health!TypeOK
  <2>7. healthGet[i].answer # Nothing =>
            \E t \in Health!Times : t + TTL > healthGet[i].now /\ healthGet[i].answer \in was[t]
    BY <1>0, <2>5, <2>6 DEF Seen
  <2>8. Health!ServedFresh'
    BY <2>1, <2>3, <2>4, <2>7 DEF ProbesInv, Health!ServedFresh
  <2>9. healthGet'[i].pc = "shown"
    BY <2>1 DEF ProbesInv, Health!TypeOK
  <2> QED
    BY <2>1, <2>2, <2>3, <2>4, <2>5, <2>8, <2>9 DEF ProbesInv, Seen
<1>6. ASSUME UNCHANGED probesVars PROVE ProbesInv'
  BY <1>6 DEF probesVars, ProbesInv, Health!TypeOK, Seen, Health!ServedFresh
<1> QED
  BY <1>1, <1>2, <1>3, <1>4, <1>5, <1>6 DEF Health!Next

LEMMA ProbesAlways == Spec => [](part = "probes" => ProbesInv)
<1>1. Init => (part = "probes" => ProbesInv)
  BY ProbesInitially DEF Init
<1>2. (part = "probes" => ProbesInv) /\ [Next]_vars => (part = "probes" => ProbesInv)'
  BY ProbesStep DEF Next, vars
<1> QED
  BY <1>1, <1>2, PTL DEF Spec

\* A request is answered with what was the case less than the TTL before it looked, or
\* later, for every TTL and every number of requests.
THEOREM AnswersFresh == Spec => []ServedFresh
<1>1. ProbesInv => Health!ServedFresh
  BY DEF ProbesInv
<1> QED
  BY <1>1, ProbesAlways, PTL DEF ServedFresh
================================================================================
