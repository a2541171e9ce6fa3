----------------------------- MODULE ForgeProofs -----------------------------
(***************************************************************************)
(* For any definitions, requests, callers and humans: no expense is booked  *)
(* without a grant of its own by a human who did not ask for it, and        *)
(* nothing becomes active that has not passed every stage as what it is, but *)
(* for the sandbox, whose candidate.json another request may have replaced. *)
(***************************************************************************)
EXTENDS Forge, FiniteSetTheorems, TLAPS

\* The callbacks still to run that book a grant of a request.
Owed(r) == {t \in Threads : job[t].step = "book" /\ job[t].approved /\ job[t].request = r}

\* What is granted was filed, and not by the one who granted it; the policy engine
\* grants only what is harmless.
GrantsFit ==
    /\ \A g \in granted : /\ status[g[1]] # "none"
                          /\ g[2] # form[g[1]].by
                          /\ g[2] \in Humans \/ Harmless(form[g[1]])
    /\ \A r \in Requests : status[r] = "approved" => \E a \in Actors : <<r, a>> \in granted

\* Callers work on filed requests, and a callback books what was granted.
JobsFit ==
    /\ \A r \in Requests : status[r] # "none" =>
           form[r] \in [harm : Harms, cost : Nat, by : Actors]
    /\ \A t \in Threads : job[t].step \in {"auto", "book"} => status[job[t].request] # "none"
    /\ \A t \in Threads : job[t].step = "book" /\ job[t].approved =>
           <<job[t].request, job[t].by>> \in granted

\* A grant is booked, or may yet be, once.
BooksFit ==
    /\ \A b \in bookers : b \in granted /\ b[2] \in Humans
    /\ \A r \in Requests : booked[r] + Cardinality(Owed(r)) <= grants[r]

ApprovalsInv == ApprovalsTypeOK /\ GrantsFit /\ JobsFit /\ BooksFit

\* It was tried as what it is, or another request wrote its file meanwhile.
Tried(c) == \E m \in {"sandbox", "disturbed"} : <<c.kind, c.def, m>> \in earned

\* What a record says was passed has been passed, by that definition as that kind.
CandidateFits(c) ==
    /\ c.stage \in {"sandboxed", "reviewed", "pending_approval", "promoted"} => Tried(c)
    /\ c.stage \in {"reviewed", "pending_approval", "promoted"} =>
           <<c.kind, c.def, "review">> \in earned
    /\ c.stage = "pending_approval" => c.approval \in Requests /\ about[c.approval] = c.def

RecordFits == record \in Candidates /\ CandidateFits(record)

\* A human who did not ask for it has granted what the candidate was filed under.
HumanGranted(c) == \E a \in Humans : /\ <<c.approval, a>> \in granted
                                     /\ a # form[c.approval].by

\* A stage works on a record of the stage before it.
WorkFits(w) ==
    /\ w.at = "next" => RecordFits
    /\ w.at \in Holding \cup {"judged"} => CandidateFits(w.cand)
    /\ w.at = "judged" => (w.ok => Tried(w.cand))
    /\ w.at = "review" => w.cand.stage = "sandboxed"
    /\ w.at \in {"request", "filed"} => w.cand.stage = "reviewed"
    /\ w.at = "filed" => /\ w.cand.approval \in Requests
                         /\ about[w.cand.approval] = w.cand.def
    /\ w.at \in {"promote", "vacant", "placed"} => /\ w.cand.stage = "pending_approval"
                                                   /\ HumanGranted(w.cand)

\* The container finds the definition that was written for it, or another's.
TrialFits(w) ==
    w.at = "trial" => /\ trial \in Definitions
                      /\ \/ trial = w.cand.def
                         \/ <<w.cand.kind, w.cand.def, "disturbed">> \in earned

\* A request that is about a definition was filed, at high risk.
AboutFits == \A r \in Requests : about[r] # None => /\ status[r] # "none"
                                                    /\ form[r].harm = "risk"

ForgeInv == /\ TypeOK
            /\ ApprovalsInv
            /\ AboutFits
            /\ record # None => RecordFits
            /\ \A t \in Threads : WorkFits(work[t]) /\ TrialFits(work[t])
            /\ PromotionEarned
-----------------------------------------------------------------------------
\* The jobs a caller may have, field by field.
LEMMA JobShape ==
    ASSUME ApprovalsTypeOK, NEW t \in Threads
    PROVE  /\ job[t].step \in {"idle", "auto", "book"}
           /\ job[t].step \in {"auto", "book"} => job[t].request \in Requests
           /\ job[t].step = "book" => job[t].by \in Actors /\ job[t].approved \in BOOLEAN
           /\ job[t].step = "idle" => job[t] = Idle
BY DEF ApprovalsTypeOK, Jobs, Idle

LEMMA OwedFinite ==
    ASSUME IsFiniteSet(Threads)
    PROVE  \A r : IsFiniteSet(Owed(r)) /\ Cardinality(Owed(r)) \in Nat
BY FS_Subset, FS_CardinalityType DEF Owed

\* A filed request keeps its form, and a grant is not taken back.
Keeps == /\ granted \subseteq granted'
         /\ \A r \in Requests : status[r] # "none" =>
                /\ status'[r] # "none"
                /\ form'[r] = form[r]

LEMMA FileKeeps ==
    ASSUME ApprovalsInv, IsFiniteSet(Threads), NEW t \in Threads, NEW r \in Requests,
           NEW f \in [harm : Harms, cost : Nat, by : Actors], File(t, r, f)
    PROVE  ApprovalsInv' /\ Keeps
<1> USE DEF ApprovalsInv, ApprovalsTypeOK
<1>1. Keeps
  BY DEF File, Keeps
<1>2. ApprovalsTypeOK'
  BY DEF File, Statuses, Jobs
<1>3. GrantsFit'
  BY DEF File, GrantsFit, Harmless
<1>4. JobsFit'
  BY DEF File, JobsFit, Idle
<1>5. \A x \in Requests : Owed(x)' = Owed(x)
  BY DEF File, Owed, Idle
<1>6. BooksFit'
  BY <1>5 DEF File, BooksFit
<1> QED
  BY <1>1, <1>2, <1>3, <1>4, <1>6

\* A resolution by a human, or by the policy engine of what is harmless, made by a
\* caller that has no callback to run.
LEMMA ResolutionKeeps ==
    ASSUME ApprovalsInv, IsFiniteSet(Threads), NEW t \in Threads, NEW r \in Requests,
           NEW actor \in Actors, NEW approved \in BOOLEAN,
           Resolution(t, r, actor, approved), job[t].step # "book",
           actor \in Humans \/ Harmless(form[r]), resolves' \in 0..MaxResolves
    PROVE  ApprovalsInv' /\ Keeps
<1> USE DEF ApprovalsInv, ApprovalsTypeOK
<1>1. /\ status[r] # "none" /\ form[r].by # actor
      /\ status' = [status EXCEPT ![r] = IF approved THEN "approved" ELSE "rejected"]
      /\ grants' = [grants EXCEPT ![r] = IF approved THEN @ + 1 ELSE @]
      /\ granted' = IF approved THEN granted \cup {<<r, actor>>} ELSE granted
      /\ job' = [job EXCEPT ![t] = [step |-> "book", request |-> r, by |-> actor,
                                    approved |-> approved]]
      /\ UNCHANGED <<form, booked, bookers>>
  BY DEF Resolution, MayResolve
<1> HIDE DEF Resolution
<1>2. Keeps
  BY <1>1 DEF Keeps
<1>3. ApprovalsTypeOK'
  BY <1>1 DEF Statuses, Jobs
<1>4. GrantsFit'
  <2>1. \A g \in granted' : g \in granted \/ (g = <<r, actor>> /\ approved)
    BY <1>1
  <2>2. \A g \in granted : g[1] \in Requests
    OBVIOUS
  <2>3. \A g \in granted' : /\ status'[g[1]] # "none"
                            /\ g[2] # form'[g[1]].by
                            /\ g[2] \in Humans \/ Harmless(form'[g[1]])
    BY <1>1, <2>1, <2>2 DEF GrantsFit
  <2>4. \A x \in Requests : status'[x] = "approved" =>
                              \E a \in Actors : <<x, a>> \in granted'
    BY <1>1 DEF GrantsFit
  <2> QED
    BY <2>3, <2>4 DEF GrantsFit, Harmless
<1>5. JobsFit'
  BY <1>1 DEF JobsFit
<1>6. BooksFit'
  <2>1. \A x \in Requests \ {r} : Owed(x)' = Owed(x)
    BY <1>1 DEF Owed
  <2>2. /\ t \notin Owed(r)
        /\ Owed(r)' = IF approved THEN Owed(r) \cup {t} ELSE Owed(r)
    BY <1>1 DEF Owed
  <2>3. Cardinality(Owed(r)') = IF approved THEN Cardinality(Owed(r)) + 1
                                ELSE Cardinality(Owed(r))
    BY <2>2, OwedFinite, FS_AddElement
  <2>4. \A x \in Requests : booked[x] \in Nat /\ grants[x] \in Nat
    OBVIOUS
  <2>5. \A x \in Requests : booked'[x] + Cardinality(Owed(x)') <= grants'[x]
    BY <1>1, <2>1, <2>3, <2>4, OwedFinite DEF BooksFit
  <2> QED
    BY <1>1, <2>5 DEF BooksFit
<1> QED
  BY <1>2, <1>3, <1>4, <1>5, <1>6

LEMMA BookKeeps ==
    ASSUME ApprovalsInv, IsFiniteSet(Threads), NEW t \in Threads, Book(t)
    PROVE  ApprovalsInv' /\ Keeps
<1> USE DEF ApprovalsInv, ApprovalsTypeOK
<1> DEFINE j == job[t]
<1>1. PICK r \in Requests, by \in Actors, approved \in BOOLEAN :
          /\ j.step = "book" /\ j.request = r /\ j.by = by /\ j.approved = approved
  BY JobShape DEF Book
<1>2. /\ job' = [job EXCEPT ![t] = Idle]
      /\ \/ /\ approved /\ form[r].cost > 0
            /\ booked' = [booked EXCEPT ![r] = @ + 1]
            /\ bookers' = bookers \cup {<<r, by>>}
         \/ UNCHANGED <<booked, bookers>>
      /\ UNCHANGED <<status, form, grants, granted, resolves>>
  BY <1>1 DEF Book, Expense
<1> HIDE DEF Book, j
<1>3. Keeps
  BY <1>2 DEF Keeps
<1>4. ApprovalsTypeOK'
  BY <1>2
<1>5. GrantsFit'
  BY <1>2 DEF GrantsFit, Harmless
<1>6. JobsFit'
  BY <1>2 DEF JobsFit, Idle
<1>7. ASSUME approved, form[r].cost > 0 PROVE <<r, by>> \in granted /\ by \in Humans
  <2>1. <<r, by>> \in granted
    BY <1>1, <1>7 DEF JobsFit, j
  <2>2. ~Harmless(form[r])
    BY <1>7 DEF Harmless
  <2> QED
    BY <2>1, <2>2 DEF GrantsFit
<1>8. BooksFit'
  <2>1. \A x \in Requests \ {r} : Owed(x)' = Owed(x)
    BY <1>1, <1>2 DEF Owed, Idle, j
  <2>2. Owed(r)' = Owed(r) \ {t} /\ (approved => t \in Owed(r))
    BY <1>1, <1>2 DEF Owed, Idle, j
  <2>3. Cardinality(Owed(r)') = IF t \in Owed(r) THEN Cardinality(Owed(r)) - 1
                                ELSE Cardinality(Owed(r))
    BY <2>2, OwedFinite, FS_RemoveElement
  <2>4. \A x \in Requests : booked[x] \in Nat /\ grants[x] \in Nat
    OBVIOUS
  <2>5. booked'[r] = booked[r] \/ (booked'[r] = booked[r] + 1 /\ t \in Owed(r))
    BY <1>2, <2>2
  <2>6. booked'[r] + Cardinality(Owed(r)') <= grants[r]
    BY <2>3, <2>4, <2>5, OwedFinite DEF BooksFit
  <2>7. \A x \in Requests \ {r} : booked'[x] = booked[x]
    BY <1>2
  <2>8. \A x \in Requests : booked'[x] + Cardinality(Owed(x)') <= grants[x]
    BY <2>1, <2>6, <2>7 DEF BooksFit
  <2> QED
    BY <1>2, <1>7, <2>8 DEF BooksFit
<1> QED
  BY <1>3, <1>4, <1>5, <1>6, <1>8

\* A caller is done with its request, or all of them are lost in a restart.
LEMMA DroppingKeeps ==
    ASSUME ApprovalsInv, IsFiniteSet(Threads),
           UNCHANGED <<status, form, grants, granted, booked, bookers, resolves>>,
           job' \in [Threads -> Jobs \cup {Idle}],
           \A t \in Threads : job'[t] = job[t] \/ job'[t] = Idle
    PROVE  ApprovalsInv' /\ Keeps
<1> USE DEF ApprovalsInv, ApprovalsTypeOK
<1>1. ApprovalsTypeOK' /\ GrantsFit' /\ Keeps
  BY DEF GrantsFit, Harmless, Keeps
<1>7. JobsFit'
  BY DEF JobsFit, Idle
<1>2. \A r \in Requests : Owed(r)' \subseteq Owed(r)
  BY DEF Owed, Idle
<1>3. \A r \in Requests : Cardinality(Owed(r)') <= Cardinality(Owed(r))
  BY <1>2, OwedFinite, FS_Subset
<1>4. \A r \in Requests : Cardinality(Owed(r)') \in Nat /\ Cardinality(Owed(r)) \in Nat
  BY <1>2, OwedFinite, FS_Subset, FS_CardinalityType
<1>5. \A r \in Requests : booked[r] \in Nat /\ grants[r] \in Nat
  OBVIOUS
<1>6. BooksFit'
  BY <1>3, <1>4, <1>5 DEF BooksFit
<1> QED
  BY <1>1, <1>6, <1>7

LEMMA ApprovalStepKeeps ==
    ASSUME ApprovalsInv, IsFiniteSet(Threads), NEW t \in Threads, ApprovalStep(t)
    PROVE  ApprovalsInv' /\ Keeps
<1>1. CASE AutoApprove(t)
  <2>1. job[t].request \in Requests /\ PolicyEngine \in Actors
    BY <1>1, JobShape DEF AutoApprove, ApprovalsInv, Actors
  <2>2. CASE Harmless(form[job[t].request]) /\
             Resolution(t, job[t].request, PolicyEngine, TRUE)
    BY <1>1, <2>1, <2>2, ResolutionKeeps
       DEF AutoApprove, ApprovalsInv, ApprovalsTypeOK
  <2>3. CASE job' = [job EXCEPT ![t] = Idle] /\
             UNCHANGED <<status, form, grants, granted, booked, bookers>>
    BY <1>1, <2>3, DroppingKeeps DEF AutoApprove, ApprovalsInv, ApprovalsTypeOK
  <2> QED
    BY <1>1, <2>2, <2>3 DEF AutoApprove
<1>2. ASSUME NEW r \in Requests, NEW a \in Humans, NEW v \in BOOLEAN, Resolve(t, r, a, v)
      PROVE  ApprovalsInv' /\ Keeps
  <2>1. a \in Actors /\ job[t].step # "book" /\ Resolution(t, r, a, v)
    BY <1>2 DEF Resolve, Actors, Idle
  <2>2. resolves' \in 0..MaxResolves
    BY <1>2, ApprovalsAssumption DEF Resolve, ApprovalsInv, ApprovalsTypeOK
  <2> QED
    BY <2>1, <2>2, ResolutionKeeps
<1>3. CASE Book(t)
  BY <1>3, BookKeeps
<1> QED
  BY <1>1, <1>2, <1>3 DEF ApprovalStep
-----------------------------------------------------------------------------
\* What a request is about stays.
AboutStays == \A r \in Requests : about[r] # None => about'[r] = about[r]

\* What was true of a candidate, a stage and an active definition stays true while
\* history only grows.
LEMMA CandidateStays ==
    ASSUME ForgeInv, AboutStays, earned \subseteq earned', NEW c \in Candidates,
           CandidateFits(c)
    PROVE  CandidateFits(c)'
<1>1. c.def # None
  BY ForgeAssumption DEF Candidates
<1> QED
  BY <1>1 DEF CandidateFits, AboutStays, Tried

LEMMA GrantStays ==
    ASSUME ForgeInv, Keeps, NEW r \in Requests, NEW a \in Actors,
           <<r, a>> \in granted, a # form[r].by
    PROVE  <<r, a>> \in granted' /\ a # form'[r].by
<1>1. status[r] # "none"
  BY DEF ForgeInv, ApprovalsInv, GrantsFit
<1> QED
  BY <1>1 DEF Keeps

LEMMA HumanGrantStays ==
    ASSUME ForgeInv, Keeps, NEW c \in Candidates, c.approval \in Requests, HumanGranted(c)
    PROVE  HumanGranted(c)'
BY GrantStays DEF HumanGranted, Actors

LEMMA WorkStays ==
    ASSUME ForgeInv, Keeps, AboutStays, earned \subseteq earned', NEW t \in Threads,
           NEW w, w = work[t], RecordFits => RecordFits'
    PROVE  WorkFits(w)'
<1>1. WorkFits(w)
  BY DEF ForgeInv
<1>2. CASE w.at \in Holding \cup {"judged"}
  <2>1. w.cand \in Candidates /\ w.cand.def # None
    BY <1>2, ForgeAssumption DEF ForgeInv, TypeOK, Works, Free, Candidates, Holding
  <2>2. CandidateFits(w.cand)'
    BY <1>1, <1>2, <2>1, CandidateStays DEF WorkFits
  <2>3. w.at \in {"promote", "vacant", "placed"} => w.cand.approval \in Requests
    BY <1>1 DEF WorkFits, CandidateFits, Holding
  <2>4. w.at \in {"promote", "vacant", "placed"} => HumanGranted(w.cand)'
    BY <1>1, <2>1, <2>3, HumanGrantStays DEF WorkFits
  <2>5. w.at = "filed" => about'[w.cand.approval] = w.cand.def
    BY <1>1, <2>1 DEF WorkFits, AboutStays
  <2>6. w.at = "judged" => (w.ok => Tried(w.cand)')
    BY <1>1 DEF WorkFits, Tried
  <2> QED
    BY <1>1, <1>2, <2>2, <2>4, <2>5, <2>6 DEF WorkFits, Holding
<1>3. CASE w.at \notin Holding \cup {"judged"}
  BY <1>1, <1>3 DEF WorkFits, Holding
<1> QED
  BY <1>2, <1>3

LEMMA TrialStays ==
    ASSUME NEW w, TrialFits(w), trial' = trial, earned \subseteq earned'
    PROVE  TrialFits(w)'
BY DEF TrialFits

LEMMA ActiveStays ==
    ASSUME ForgeInv, Keeps, AboutStays, earned \subseteq earned', active' = active
    PROVE  PromotionEarned'
<1> SUFFICES ASSUME NEW k \in Kinds, active[k] # None
             PROVE  /\ <<k, active[k], "review">> \in earned'
                    /\ \E m \in {"sandbox", "disturbed"} : <<k, active[k], m>> \in earned'
                    /\ \E r \in Requests, a \in Humans : /\ about'[r] = active[k]
                                                         /\ <<r, a>> \in granted'
                                                         /\ a # form'[r].by
  BY DEF PromotionEarned
<1>1. PICK r \in Requests, a \in Humans : /\ about[r] = active[k]
                                          /\ <<r, a>> \in granted
                                          /\ a # form[r].by
  BY DEF ForgeInv, PromotionEarned
<1>2. about'[r] = active[k] /\ <<r, a>> \in granted' /\ a # form'[r].by
  BY <1>1, GrantStays DEF AboutStays, Actors
<1>3. /\ <<k, active[k], "review">> \in earned'
      /\ \E m \in {"sandbox", "disturbed"} : <<k, active[k], m>> \in earned'
  BY DEF ForgeInv, PromotionEarned
<1> QED
  BY <1>2, <1>3

\* One caller moves: what is left to show of a step.
LEMMA StepKeeps ==
    ASSUME ForgeInv, TypeOK', ApprovalsInv', AboutFits', Keeps, AboutStays,
           earned \subseteq earned',
           NEW t \in Threads, \A x \in Threads \ {t} : work'[x] = work[x],
           WorkFits(work[t])', \A x \in Threads : TrialFits(work[x])',
           record' = record \/ RecordFits',
           active' = active \/ PromotionEarned'
    PROVE  ForgeInv'
<1>1. RecordFits => RecordFits'
  <2> SUFFICES ASSUME record' = record, RecordFits PROVE RecordFits'
    OBVIOUS
  <2>1. PICK c \in Candidates : c = record
    BY DEF RecordFits
  <2>2. CandidateFits(c)'
    BY <2>1, CandidateStays DEF RecordFits
  <2> QED
    BY <2>1, <2>2 DEF RecordFits, CandidateFits
<1>2. \A x \in Threads : WorkFits(work[x])'
  <2> SUFFICES ASSUME NEW x \in Threads, x # t PROVE WorkFits(work[x])'
    OBVIOUS
  <2>1. PICK w : w = work[x]
    OBVIOUS
  <2>2. WorkFits(w)'
    BY <1>1, <2>1, WorkStays
  <2> QED
    BY <2>1, <2>2
<1>3. record' # None => RecordFits'
  BY <1>1 DEF ForgeInv
<1>4. PromotionEarned'
  BY ActiveStays
<1> QED
  BY <1>2, <1>3, <1>4 DEF ForgeInv

\* The work of a caller, field by field.
LEMMA WorkShape ==
    ASSUME TypeOK, NEW t \in Threads
    PROVE  /\ work[t].at \in {"free", "checked", "clear", "written", "next", "judged"}
                              \cup Holding
           /\ work[t].at \in {"checked", "clear", "written"} =>
                  work[t] \in [at : {"checked", "clear", "written"}, kind : Kinds,
                              def : Definitions]
           /\ work[t].at = "next" => work[t].stage \in {"sandbox", "review", "request"}
           /\ work[t].at \in Holding => /\ work[t] \in [at : Holding, cand : Candidates]
                                       /\ work[t].cand \in Candidates
           /\ work[t].at = "judged" => /\ work[t].cand \in Candidates
                                       /\ work[t].ok \in BOOLEAN
BY DEF TypeOK, Works, Free, Holding

\* A caller moves alone.
Only(t) == work' = [work EXCEPT ![t] = work'[t]]

LEMMA GoesTo ==
    ASSUME TypeOK, NEW t \in Threads, NEW w, Goto(t, w)
    PROVE  work'[t] = w /\ Only(t)
BY DEF Goto, TypeOK, Only

LEMMA TypeKept ==
    ASSUME TypeOK, ApprovalsTypeOK', NEW t \in Threads, Only(t),
           work'[t] \in Works \cup {Free}, record' \in {record} \cup Candidates,
           artifact' \in [Kinds -> Definitions \cup {None}], trial' \in Definitions \cup {None},
           active' \in [Kinds -> Definitions \cup {None}],
           about' \in [Requests -> Definitions \cup {None}],
           earned' \subseteq Kinds \X Definitions \X Marks
    PROVE  TypeOK'
BY DEF TypeOK, Only

\* A step that leaves the approvals alone.
LEMMA PlainStep ==
    ASSUME ForgeInv, UNCHANGED <<avars, about>>, earned \subseteq earned',
           NEW t \in Threads, Only(t), work'[t] \in Works \cup {Free}, WorkFits(work[t])',
           trial' = trial, work'[t].at # "trial",
           record' = record \/ RecordFits',
           artifact' \in [Kinds -> Definitions \cup {None}],
           active' \in [Kinds -> Definitions \cup {None}],
           active' = active \/ PromotionEarned',
           earned' \subseteq Kinds \X Definitions \X Marks
    PROVE  ForgeInv'
<1>1. ApprovalsInv' /\ Keeps /\ AboutStays
  BY DEF avars, ForgeInv, ApprovalsInv, ApprovalsTypeOK, GrantsFit, Harmless, JobsFit,
         BooksFit, Owed, Keeps, AboutStays
<1>2. AboutFits'
  BY DEF avars, ForgeInv, AboutFits
<1>3. TypeOK'
  <2>1. TypeOK /\ ApprovalsTypeOK' /\ record' \in {record} \cup Candidates
    BY <1>1 DEF ForgeInv, ApprovalsInv, RecordFits
  <2>2. about' \in [Requests -> Definitions \cup {None}] /\ trial' \in Definitions \cup {None}
    BY <2>1 DEF TypeOK
  <2> QED
    BY <2>1, <2>2, TypeKept
<1>4. \A x \in Threads \ {t} : work'[x] = work[x]
  BY DEF Only, ForgeInv, TypeOK
<1>5. \A x \in Threads : TrialFits(work[x])'
  <2> SUFFICES ASSUME NEW x \in Threads \ {t} PROVE TrialFits(work[x])'
    BY DEF TrialFits
  <2>1. PICK w : w = work[x] /\ TrialFits(w)
    BY DEF ForgeInv
  <2> QED
    BY <1>4, <2>1, TrialStays
<1> QED
  BY <1>1, <1>2, <1>3, <1>4, <1>5, StepKeeps

\* Stages of which WorkFits asks nothing more.
LEMMA NothingToFit ==
    ASSUME NEW t \in Threads,
           work'[t].at \in {"free", "checked", "clear", "written", "next"},
           work'[t].at = "next" => RecordFits'
    PROVE  WorkFits(work[t])'
BY DEF WorkFits, Holding

LEMMA FormsPlainly ==
    ASSUME TypeOK
    PROVE  /\ artifact \in [Kinds -> Definitions \cup {None}]
           /\ trial \in Definitions \cup {None}
           /\ active \in [Kinds -> Definitions \cup {None}]
           /\ about \in [Requests -> Definitions \cup {None}]
           /\ earned \subseteq Kinds \X Definitions \X Marks
BY DEF TypeOK

\* A request is filed for the candidate under review.
LEMMA FilingKeeps ==
    ASSUME ForgeInv, IsFiniteSet(Threads), NEW t \in Threads, NEW r \in Requests,
           NEW p \in Prices, NEW a \in Proposers, FileForCandidate(t, r, p, a)
    PROVE  ForgeInv'
<1>0. TypeOK /\ WorkFits(work[t])
  BY DEF ForgeInv
<1>1. PICK f \in [harm : Harms, cost : Nat, by : Actors] : File(t, r, f) /\ f.harm = "risk"
  <2>1. [harm |-> "risk", cost |-> p, by |-> a] \in [harm : Harms, cost : Nat, by : Actors]
    BY ForgeAssumption DEF Harms
  <2> QED
    BY <2>1 DEF FileForCandidate
<1>2. PICK c \in Candidates : /\ work[t].at = "request" /\ work[t].cand = c
                              /\ CandidateFits(c) /\ c.stage = "reviewed"
  BY <1>0, WorkShape DEF FileForCandidate, WorkFits, Holding
<1>3. ApprovalsInv' /\ Keeps
  BY <1>1, FileKeeps DEF ForgeInv
<1>4. /\ about' = [about EXCEPT ![r] = c.def]
      /\ UNCHANGED <<record, artifact, trial, active, earned>>
  BY <1>2 DEF FileForCandidate
<1>5. PICK n \in Candidates : /\ n = [c EXCEPT !.approval = r]
                              /\ Goto(t, [at |-> "filed", cand |-> n])
  BY <1>2 DEF FileForCandidate, Candidates
<1>6. Only(t) /\ work'[t] = [at |-> "filed", cand |-> n]
  BY <1>0, <1>5, GoesTo
<1>7. AboutStays
  <2>1. about[r] = None
    BY <1>1 DEF File, ForgeInv, AboutFits
  <2> QED
    BY <1>0, <1>4, <2>1, FormsPlainly DEF AboutStays
<1>8. AboutFits'
  <2>1. \A x \in Requests \ {r} : about'[x] = about[x]
    BY <1>0, <1>4, FormsPlainly
  <2>2. status'[r] # "none" /\ form'[r] = f
    BY <1>0, <1>1 DEF File, TypeOK, ApprovalsTypeOK
  <2> QED
    BY <1>1, <1>3, <2>1, <2>2 DEF ForgeInv, AboutFits, Keeps
<1>9. WorkFits(work[t])'
  <2>1. about'[r] = n.def /\ n.approval = r /\ n.stage = "reviewed"
    BY <1>0, <1>2, <1>4, <1>5, FormsPlainly DEF Candidates
  <2>2. CandidateFits(n)'
    BY <1>2, <1>4, <1>5, <2>1 DEF CandidateFits, Candidates, Tried
  <2> QED
    BY <1>6, <2>1, <2>2 DEF WorkFits, Holding
<1>10. TypeOK'
  <2>1. work'[t] \in Works
    BY <1>6 DEF Works, Holding
  <2>2. c.def \in Definitions
    BY DEF Candidates
  <2> QED
    BY <1>0, <1>3, <1>4, <1>6, <2>1, <2>2, FormsPlainly, TypeKept DEF ApprovalsInv
<1>11. \A x \in Threads \ {t} : work'[x] = work[x]
  BY <1>0, <1>6 DEF Only, TypeOK
<1>12. \A x \in Threads : TrialFits(work[x])'
  <2>1. \A x \in Threads \ {t} : TrialFits(work[x])'
    BY <1>4, <1>11 DEF TrialFits, ForgeInv
  <2>2. TrialFits(work[t])'
    BY <1>6 DEF TrialFits
  <2> QED
    BY <2>1, <2>2
<1> QED
  BY <1>3, <1>4, <1>7, <1>8, <1>9, <1>10, <1>11, <1>12, StepKeeps

\* The approval a promotion finds granted was granted by a human who did not ask for it.
LEMMA GrantIsHuman ==
    ASSUME ForgeInv, NEW c \in Candidates, CandidateFits(c), c.stage = "pending_approval",
           Granted(c.approval)
    PROVE  HumanGranted(c)
<1>1. c.approval \in Requests /\ about[c.approval] # None
  BY ForgeAssumption DEF CandidateFits, Candidates
<1>2. ~Harmless(form[c.approval])
  BY <1>1 DEF ForgeInv, AboutFits, Harmless
<1>3. PICK a \in Actors : <<c.approval, a>> \in granted
  BY <1>1 DEF Granted, ForgeInv, ApprovalsInv, GrantsFit
<1>4. a \in Humans /\ a # form[c.approval].by
  BY <1>2, <1>3 DEF ForgeInv, ApprovalsInv, GrantsFit
<1> QED
  BY <1>3, <1>4 DEF HumanGranted

LEMMA ForgeStepKeeps ==
    ASSUME ForgeInv, IsFiniteSet(Threads), NEW t \in Threads, ForgeStep(t)
    PROVE  ForgeInv'
<1>0. TypeOK /\ WorkFits(work[t])
  BY DEF ForgeInv
<1>1. ASSUME NEW k \in Kinds, NEW d \in Definitions, Propose(t, k, d) PROVE ForgeInv'
  <2>1. /\ work'[t] = [at |-> "checked", kind |-> k, def |-> d] /\ Only(t)
        /\ UNCHANGED <<avars, record, artifact, trial, active, about, earned>>
    BY <1>0, <1>1, GoesTo DEF Propose
  <2>2. work'[t] \in Works
    BY <2>1 DEF Works
  <2>3. WorkFits(work[t])'
    BY <2>1, NothingToFit
  <2> QED
    BY <1>0, <2>1, <2>2, <2>3, PlainStep, FormsPlainly
<1>11. CASE Look(t)
  <2>1. work[t] \in [at : {"checked"}, kind : Kinds, def : Definitions]
    BY <1>0, <1>11, WorkShape DEF Look
  <2>2. UNCHANGED <<avars, record, artifact, trial, active, about, earned>>
    BY <1>11 DEF Look
  <2>3. PICK w : Goto(t, w) /\ w \in {[work[t] EXCEPT !.at = "clear"], Free}
    BY <1>11 DEF Look
  <2>4. work'[t] = w /\ Only(t) /\ w \in Works \cup {Free} /\ w.at \in {"free", "clear"}
    BY <1>0, <2>1, <2>3, GoesTo DEF Works, Free
  <2>5. WorkFits(work[t])'
    BY <2>4, NothingToFit
  <2> QED
    BY <1>0, <2>2, <2>4, <2>5, PlainStep, FormsPlainly
<1>2. CASE Materialize(t)
  <2>1. work[t] \in [at : {"clear"}, kind : Kinds, def : Definitions]
    BY <1>0, <1>2, WorkShape DEF Materialize
  <2>2. /\ artifact' \in [Kinds -> Definitions \cup {None}]
        /\ UNCHANGED <<avars, record, trial, active, about, earned>>
    BY <1>0, <1>2, <2>1, FormsPlainly DEF Materialize
  <2>3. PICK w : Goto(t, w) /\ w \in {[work[t] EXCEPT !.at = "written"], Free}
    BY <1>2 DEF Materialize
  <2>4. work'[t] = w /\ Only(t) /\ w \in Works \cup {Free} /\ w.at \in {"free", "written"}
    BY <1>0, <2>1, <2>3, GoesTo DEF Works, Free
  <2>5. WorkFits(work[t])'
    BY <2>4, NothingToFit
  <2> QED
    BY <1>0, <2>2, <2>4, <2>5, PlainStep, FormsPlainly
<1>3. CASE SaveProposal(t)
  <2>1. /\ work'[t] = [at |-> "next", stage |-> "sandbox"] /\ Only(t)
        /\ UNCHANGED <<avars, artifact, trial, active, about, earned>>
    BY <1>0, <1>3, GoesTo DEF SaveProposal
  <2>2. record' \in Candidates
    BY <1>0, <1>3, WorkShape DEF SaveProposal, Candidates, Stages
  <2>3. RecordFits'
    BY <1>3, <2>2 DEF SaveProposal, CandidateFits, RecordFits
  <2>4. work'[t] \in Works /\ work'[t].at = "next"
    BY <2>1 DEF Works
  <2>5. WorkFits(work[t])'
    BY <2>3, <2>4, NothingToFit
  <2> QED
    BY <1>0, <2>1, <2>2, <2>3, <2>4, <2>5, PlainStep, FormsPlainly
<1>4. CASE Enter(t)
  <2>1. /\ work[t].stage \in {"sandbox", "review", "request"}
        /\ record \in Candidates /\ CandidateFits(record)
    BY <1>0, <1>4, WorkShape DEF Enter, WorkFits, RecordFits
  <2>2. PICK w : /\ Goto(t, w)
                 /\ \/ /\ record.stage = Needs[work[t].stage]
                       /\ w = [at |-> work[t].stage, cand |-> record]
                    \/ w = Free
    BY <1>4 DEF Enter
  <2>3. work'[t] = w /\ Only(t)
    BY <1>0, <2>2, GoesTo
  <2>4. w \in Works \cup {Free} /\ w.at # "trial"
    BY <2>1, <2>2 DEF Works, Holding, Free
  <2>5. UNCHANGED <<avars, record, artifact, trial, active, about, earned>>
    BY <1>4 DEF Enter
  <2>6. CandidateFits(record)'
    BY <2>1, <2>5 DEF CandidateFits, Tried
  <2>7. WorkFits(work[t])'
    <3>1. CASE w = Free
      BY <2>3, <3>1, NothingToFit DEF Free
    <3>2. CASE w = [at |-> work[t].stage, cand |-> record] /\
               record.stage = Needs[work[t].stage]
      <4>1. PICK s \in {"sandbox", "review", "request"} : s = work[t].stage
        BY <2>1
      <4>2. /\ work'[t].at = s /\ work'[t].cand = record'
            /\ record'.stage = Needs[s]
        BY <2>3, <2>5, <3>2, <4>1
      <4> QED
        BY <2>6, <4>2 DEF WorkFits, Needs, CandidateFits, Holding
    <3> QED
      BY <2>2, <3>1, <3>2
  <2> QED
    BY <1>0, <2>3, <2>4, <2>5, <2>7, PlainStep, FormsPlainly
<1>5. CASE WriteTrial(t)
  <2>1. PICK c \in Candidates : /\ work[t].at = "sandbox" /\ work[t].cand = c
                                /\ CandidateFits(c)
                                /\ work[t] = [at |-> "sandbox", cand |-> c]
    BY <1>0, <1>5, WorkShape DEF WriteTrial, WorkFits, Holding
  <2>2. /\ trial' = c.def /\ c.def \in Definitions
        /\ earned' = earned \cup {<<work[x].cand.kind, work[x].cand.def, "disturbed">> :
                                      x \in Disturbed(t, c.def)}
        /\ UNCHANGED <<avars, record, artifact, active, about>>
    BY <1>5, <2>1 DEF WriteTrial, Trial, Candidates
  <2>3. work'[t] = [at |-> "trial", cand |-> c] /\ Only(t)
    BY <1>0, <1>5, <2>1, GoesTo DEF WriteTrial
  <2>4. \A x \in Disturbed(t, c.def) : work[x].cand \in Candidates
    BY <1>0, WorkShape DEF Disturbed, Holding
  <2>5. /\ earned \subseteq earned'
        /\ earned' \subseteq Kinds \X Definitions \X Marks
    BY <1>0, <2>2, <2>4, FormsPlainly DEF Candidates, Marks
  <2>6. ApprovalsInv' /\ Keeps /\ AboutStays
    BY <2>2 DEF avars, ForgeInv, ApprovalsInv, ApprovalsTypeOK, GrantsFit, Harmless, JobsFit,
                BooksFit, Owed, Keeps, AboutStays
  <2>7. AboutFits'
    BY <2>2 DEF avars, ForgeInv, AboutFits
  <2>8. TypeOK'
    <3>1. work'[t] \in Works
      BY <2>3 DEF Works, Holding
    <3> QED
      BY <1>0, <2>2, <2>3, <2>5, <2>6, <3>1, FormsPlainly, TypeKept DEF ApprovalsInv
  <2>9. \A x \in Threads \ {t} : work'[x] = work[x]
    BY <1>0, <2>3 DEF Only, TypeOK
  <2>10. CandidateFits(c)'
    BY <2>1, <2>5, <2>6, CandidateStays
  <2>11. WorkFits(work[t])'
    BY <2>3, <2>10 DEF WorkFits, Holding
  <2>12. \A x \in Threads : TrialFits(work[x])'
    <3> SUFFICES ASSUME NEW x \in Threads, work'[x].at = "trial" PROVE TrialFits(work[x])'
      BY DEF TrialFits
    <3>1. CASE x = t
      BY <2>2, <2>3, <3>1 DEF TrialFits
    <3>2. CASE x # t
      <4>1. \/ work[x].cand.def = c.def
            \/ x \in Disturbed(t, c.def)
        BY <2>9, <3>2 DEF Disturbed
      <4>2. \/ work[x].cand.def = c.def
            \/ <<work[x].cand.kind, work[x].cand.def, "disturbed">> \in earned'
        BY <2>2, <4>1
      <4> QED
        BY <2>2, <2>9, <3>2, <4>2 DEF TrialFits
    <3> QED
      BY <3>1, <3>2
  <2> QED
    BY <2>2, <2>5, <2>6, <2>7, <2>8, <2>9, <2>11, <2>12, StepKeeps
<1>12. CASE Try(t)
  <2>1. PICK c \in Candidates : /\ work[t].at = "trial" /\ work[t].cand = c
                                /\ CandidateFits(c)
    BY <1>0, <1>12, WorkShape DEF Try, WorkFits, Holding
  <2>2. PICK ok \in BOOLEAN :
           /\ Goto(t, [at |-> "judged", cand |-> c, ok |-> ok])
           /\ earned' = IF ok THEN earned \cup {<<c.kind, trial, "sandbox">>} ELSE earned
    <3>1. trial \in Definitions
      BY <2>1 DEF ForgeInv, TrialFits
    <3>2. trial.smoke \in BOOLEAN
      BY <3>1, ForgeAssumption
    <3> QED
      BY <1>12, <2>1, <3>2 DEF Try
  <2>3. UNCHANGED <<avars, record, artifact, trial, active, about>>
    BY <1>12 DEF Try
  <2>4. work'[t] = [at |-> "judged", cand |-> c, ok |-> ok] /\ Only(t)
    BY <1>0, <2>2, GoesTo
  <2>5. trial \in Definitions /\ (trial = c.def \/ <<c.kind, c.def, "disturbed">> \in earned)
    BY <2>1 DEF ForgeInv, TrialFits
  <2>6. /\ earned \subseteq earned'
        /\ earned' \subseteq Kinds \X Definitions \X Marks
    BY <1>0, <2>2, <2>5, FormsPlainly DEF Candidates, Marks
  <2>7. ok => Tried(c)'
    BY <2>2, <2>5 DEF Tried
  <2>8. CandidateFits(c)'
    BY <2>1, <2>3, <2>6 DEF CandidateFits, Tried
  <2>9. WorkFits(work[t])' /\ work'[t] \in Works /\ work'[t].at # "trial"
    BY <2>4, <2>7, <2>8 DEF WorkFits, Works, Holding
  <2> QED
    BY <1>0, <2>3, <2>4, <2>6, <2>9, PlainStep, FormsPlainly
<1>13. CASE SaveTrial(t)
  <2>1. PICK c \in Candidates, ok \in BOOLEAN :
           /\ work[t].at = "judged" /\ work[t].cand = c /\ work[t].ok = ok
           /\ CandidateFits(c) /\ (ok => Tried(c))
    BY <1>0, <1>13, WorkShape DEF SaveTrial, WorkFits
  <2>2. /\ record' = [c EXCEPT !.stage = IF ok THEN "sandboxed" ELSE "sandbox_failed"]
        /\ Goto(t, IF ok THEN [at |-> "next", stage |-> "review"] ELSE Free)
        /\ artifact' \in {artifact, [artifact EXCEPT ![c.kind] = c.def]}
        /\ UNCHANGED <<avars, trial, active, about, earned>>
    BY <1>13, <2>1 DEF SaveTrial, Verdict, Passed, Failed, After
  <2>3. record' \in Candidates
    BY <2>2 DEF Candidates, Stages
  <2>4. /\ record'.kind = c.kind /\ record'.def = c.def
        /\ record'.stage = IF ok THEN "sandboxed" ELSE "sandbox_failed"
    BY <2>2 DEF Candidates
  <2>5. RecordFits'
    BY <2>1, <2>2, <2>3, <2>4 DEF CandidateFits, RecordFits, Tried
  <2>6. /\ work'[t] \in {[at |-> "next", stage |-> "review"], Free} /\ Only(t)
        /\ work'[t] \in Works \cup {Free} /\ work'[t].at # "trial"
    BY <1>0, <2>2, GoesTo DEF Works, Free
  <2>7. WorkFits(work[t])'
    BY <2>5, <2>6, NothingToFit DEF Free
  <2>8. c.kind \in Kinds /\ c.def \in Definitions
    BY DEF Candidates
  <2>9. artifact' \in [Kinds -> Definitions \cup {None}]
    BY <1>0, <2>2, <2>8, FormsPlainly
  <2> QED
    BY <1>0, <2>2, <2>5, <2>6, <2>7, <2>9, PlainStep, FormsPlainly
<1>14. CASE CrossReview(t)
  <2>1. PICK c \in Candidates : /\ work[t].at = "review" /\ work[t].cand = c
                                /\ CandidateFits(c) /\ c.stage = "sandboxed"
    BY <1>0, <1>14, WorkShape DEF CrossReview, WorkFits, Holding
  <2>2. PICK ok \in BOOLEAN :
           /\ record' = [c EXCEPT !.stage = IF ok THEN "reviewed" ELSE "review_failed"]
           /\ Goto(t, IF ok THEN [at |-> "next", stage |-> "request"] ELSE Free)
           /\ earned' = IF ok THEN earned \cup {<<c.kind, c.def, "review">>} ELSE earned
    <3>1. CrossReviewed(c) \in BOOLEAN
      BY DEF CrossReviewed
    <3> QED
      BY <1>14, <2>1, <3>1 DEF CrossReview, Verdict, Passed, Failed, After
  <2>3. UNCHANGED <<avars, artifact, trial, active, about>>
    BY <1>14 DEF CrossReview
  <2>4. record' \in Candidates
    BY <2>2 DEF Candidates, Stages
  <2>5. /\ record'.kind = c.kind /\ record'.def = c.def
        /\ record'.stage = IF ok THEN "reviewed" ELSE "review_failed"
    BY <2>2 DEF Candidates
  <2>6. RecordFits'
    BY <2>1, <2>2, <2>4, <2>5 DEF CandidateFits, RecordFits, Tried
  <2>7. /\ work'[t] \in {[at |-> "next", stage |-> "request"], Free} /\ Only(t)
        /\ work'[t] \in Works \cup {Free} /\ work'[t].at # "trial"
    BY <1>0, <2>2, GoesTo DEF Works, Free
  <2>8. WorkFits(work[t])'
    BY <2>6, <2>7, NothingToFit DEF Free
  <2>9. /\ earned \subseteq earned'
        /\ earned' \subseteq Kinds \X Definitions \X Marks
    BY <1>0, <2>2, FormsPlainly DEF Candidates, Marks
  <2> QED
    BY <1>0, <2>3, <2>6, <2>7, <2>8, <2>9, PlainStep, FormsPlainly
<1>6. ASSUME NEW r \in Requests, NEW p \in Prices, NEW a \in Proposers,
             FileForCandidate(t, r, p, a)
      PROVE  ForgeInv'
  BY <1>6, FilingKeeps
<1>7. CASE SavePending(t)
  <2>1. PICK c \in Candidates : /\ work[t].at = "filed" /\ work[t].cand = c
                                /\ CandidateFits(c) /\ c.stage = "reviewed"
                                /\ c.approval \in Requests /\ about[c.approval] = c.def
    BY <1>0, <1>7, WorkShape DEF SavePending, WorkFits, Holding
  <2>2. /\ work'[t] = Free /\ Only(t)
        /\ record' = [c EXCEPT !.stage = "pending_approval"]
        /\ UNCHANGED <<avars, artifact, trial, active, about, earned>>
    BY <1>0, <1>7, <2>1, GoesTo DEF SavePending
  <2>3. record' \in Candidates
    BY <2>2 DEF Candidates, Stages
  <2>4. RecordFits'
    BY <2>1, <2>2, <2>3 DEF CandidateFits, RecordFits, Candidates, Tried
  <2>5. WorkFits(work[t])'
    BY <2>2, NothingToFit DEF Free
  <2> QED
    BY <1>0, <2>2, <2>3, <2>4, <2>5, PlainStep, FormsPlainly DEF Free
<1>8. CASE StartPromote(t)
  <2>1. PICK c \in Candidates : /\ c = record /\ c.stage = "pending_approval"
                                /\ Granted(c.approval)
    BY <1>0, <1>8 DEF StartPromote, TypeOK, Needs
  <2>2. CandidateFits(c) /\ HumanGranted(c)
    BY <1>8, <2>1, GrantIsHuman DEF ForgeInv, RecordFits, StartPromote
  <2>3. /\ work'[t] = [at |-> "promote", cand |-> c] /\ Only(t)
        /\ UNCHANGED <<avars, record, artifact, trial, active, about, earned>>
    BY <1>0, <1>8, <2>1, GoesTo DEF StartPromote
  <2>4. CandidateFits(c)' /\ HumanGranted(c)'
    BY <2>2, <2>3 DEF CandidateFits, HumanGranted, avars, Tried
  <2>5. WorkFits(work[t])' /\ work'[t] \in Works
    BY <2>1, <2>3, <2>4 DEF WorkFits, Works, Holding
  <2> QED
    BY <1>0, <2>3, <2>5, PlainStep, FormsPlainly
<1>15. CASE LookActive(t)
  <2>1. PICK c \in Candidates : /\ work[t] = [at |-> "promote", cand |-> c]
                                /\ CandidateFits(c) /\ c.stage = "pending_approval"
                                /\ HumanGranted(c)
    BY <1>0, <1>15, WorkShape DEF LookActive, WorkFits, Holding
  <2>2. UNCHANGED <<avars, record, artifact, trial, active, about, earned>>
    BY <1>15 DEF LookActive
  <2>3. PICK w \in {[at |-> "vacant", cand |-> c], Free} : Goto(t, w)
    BY <1>15, <2>1 DEF LookActive
  <2>4. work'[t] = w /\ Only(t) /\ w \in Works \cup {Free} /\ w.at # "trial"
    BY <1>0, <2>3, GoesTo DEF Works, Free, Holding
  <2>5. CandidateFits(c)' /\ HumanGranted(c)'
    BY <2>1, <2>2 DEF CandidateFits, HumanGranted, avars, Tried
  <2>6. WorkFits(work[t])'
    BY <2>1, <2>3, <2>4, <2>5 DEF WorkFits, Free, Holding
  <2> QED
    BY <1>0, <2>2, <2>4, <2>6, PlainStep, FormsPlainly
<1>9. CASE Place(t)
  <2>1. PICK c \in Candidates : /\ work[t].at = "vacant" /\ work[t].cand = c
                                /\ CandidateFits(c) /\ c.stage = "pending_approval"
                                /\ HumanGranted(c)
    BY <1>0, <1>9, WorkShape DEF Place, WorkFits, Holding
  <2>2. UNCHANGED <<avars, record, artifact, trial, about, earned>>
    BY <1>9 DEF Place
  <2>3. CandidateFits(c)' /\ HumanGranted(c)'
    BY <2>1, <2>2 DEF CandidateFits, HumanGranted, avars, Tried
  <2>4. CASE ~MadeTwice(c.kind, active)
    <3>1. /\ active' = [active EXCEPT ![c.kind] = c.def]
          /\ work'[t] = [work[t] EXCEPT !.at = "placed"] /\ Only(t)
      BY <1>0, <1>9, <2>1, <2>4, GoesTo DEF Place
    <3>2. work'[t] = [at |-> "placed", cand |-> c]
      BY <1>0, <2>1, <3>1, WorkShape DEF Holding
    <3>3. WorkFits(work[t])' /\ work'[t] \in Works
      BY <2>1, <2>3, <3>2 DEF WorkFits, Works, Holding
    <3>4. c.kind \in Kinds /\ c.def \in Definitions
      BY DEF Candidates
    <3>5. active' \in [Kinds -> Definitions \cup {None}]
      BY <1>0, <3>1, <3>4, FormsPlainly
    <3>6. /\ active'[c.kind] = c.def
          /\ \A k \in Kinds \ {c.kind} : active'[k] = active[k]
      BY <1>0, <3>1, <3>4, FormsPlainly
    <3>7. PromotionEarned'
      <4>1. /\ <<c.kind, c.def, "review">> \in earned
            /\ \E m \in {"sandbox", "disturbed"} : <<c.kind, c.def, m>> \in earned
            /\ \E r \in Requests, a \in Humans : /\ about[r] = c.def
                                                 /\ <<r, a>> \in granted
                                                 /\ a # form[r].by
        BY <2>1 DEF CandidateFits, HumanGranted, Tried
      <4>2. UNCHANGED <<about, granted, form, earned>>
        BY <2>2 DEF avars
      <4>3. \A k \in Kinds \ {c.kind} : active[k] # None =>
               /\ <<k, active[k], "review">> \in earned
               /\ \E m \in {"sandbox", "disturbed"} : <<k, active[k], m>> \in earned
               /\ \E r \in Requests, a \in Humans : /\ about[r] = active[k]
                                                    /\ <<r, a>> \in granted
                                                    /\ a # form[r].by
        BY DEF ForgeInv, PromotionEarned
      <4>4. SUFFICES ASSUME NEW k \in Kinds, active'[k] # None
                     PROVE  /\ <<k, active'[k], "review">> \in earned
                            /\ \E m \in {"sandbox", "disturbed"} :
                                   <<k, active'[k], m>> \in earned
                            /\ \E r \in Requests, a \in Humans : /\ about[r] = active'[k]
                                                                 /\ <<r, a>> \in granted
                                                                 /\ a # form[r].by
        BY <4>2 DEF PromotionEarned
      <4>5. CASE k = c.kind
        BY <3>6, <4>1, <4>5
      <4>6. CASE k # c.kind
        BY <3>6, <4>3, <4>4, <4>6
      <4> QED
        BY <4>5, <4>6
    <3> QED
      BY <1>0, <2>2, <3>1, <3>2, <3>3, <3>5, <3>7, PlainStep, FormsPlainly
  <2>5. CASE MadeTwice(c.kind, active)
    <3>1. work'[t] = Free /\ Only(t) /\ active' = active
      BY <1>0, <1>9, <2>1, <2>5, GoesTo DEF Place
    <3>2. WorkFits(work[t])'
      BY <3>1, NothingToFit DEF Free
    <3> QED
      BY <1>0, <2>2, <3>1, <3>2, PlainStep, FormsPlainly DEF Free
  <2> QED
    BY <2>4, <2>5
<1>10. CASE SavePromoted(t)
  <2>1. PICK c \in Candidates : /\ work[t].at = "placed" /\ work[t].cand = c
                                /\ CandidateFits(c) /\ c.stage = "pending_approval"
    BY <1>0, <1>10, WorkShape DEF SavePromoted, WorkFits, Holding
  <2>2. /\ work'[t] = Free /\ Only(t)
        /\ record' = [c EXCEPT !.stage = "promoted"]
        /\ UNCHANGED <<avars, artifact, trial, active, about, earned>>
    BY <1>0, <1>10, <2>1, GoesTo DEF SavePromoted
  <2>3. record' \in Candidates
    BY <2>2 DEF Candidates, Stages
  <2>4. RecordFits'
    BY <2>1, <2>2, <2>3 DEF CandidateFits, RecordFits, Candidates, Tried
  <2>5. WorkFits(work[t])'
    BY <2>2, NothingToFit DEF Free
  <2> QED
    BY <1>0, <2>2, <2>3, <2>4, <2>5, PlainStep, FormsPlainly DEF Free
<1> QED
  BY <1>1, <1>2, <1>3, <1>4, <1>5, <1>6, <1>7, <1>8, <1>9, <1>10,
     <1>11, <1>12, <1>13, <1>14, <1>15 DEF ForgeStep

LEMMA ForgeStepsKeep ==
    ASSUME IsFiniteSet(Threads)
    PROVE  ForgeInv /\ [Next]_vars => ForgeInv'
<1> SUFFICES ASSUME ForgeInv, [Next]_vars PROVE ForgeInv'
  OBVIOUS
\* What only moves the approvals leaves the candidates as they are.
<1>1. ASSUME ApprovalsInv', Keeps, UNCHANGED fvars PROVE ForgeInv'
  <2>1. AboutStays /\ earned \subseteq earned' /\ TypeOK'
    BY <1>1 DEF fvars, AboutStays, ForgeInv, TypeOK, ApprovalsInv
  <2>2. AboutFits'
    BY <1>1 DEF fvars, ForgeInv, AboutFits, Keeps
  <2>5. /\ RecordFits => RecordFits'
        /\ record' # None => RecordFits'
    BY <1>1 DEF fvars, ForgeInv, RecordFits, CandidateFits, Tried
  <2>6. \A t \in Threads : TrialFits(work[t])'
    BY <1>1 DEF fvars, ForgeInv, TrialFits
  <2>3. \A t \in Threads : WorkFits(work[t])'
    <3> SUFFICES ASSUME NEW t \in Threads PROVE WorkFits(work[t])'
      OBVIOUS
    <3>1. PICK w : w = work[t]
      OBVIOUS
    <3>2. WorkFits(w)'
      BY <1>1, <2>1, <2>5, <3>1, WorkStays DEF fvars
    <3> QED
      BY <1>1, <3>1, <3>2 DEF fvars
  <2>4. PromotionEarned'
    BY <1>1, <2>1, ActiveStays DEF fvars
  <2> QED
    BY <1>1, <2>1, <2>2, <2>3, <2>4, <2>5, <2>6 DEF ForgeInv
<1>2. ASSUME NEW t \in Threads, ForgeStep(t) PROVE ForgeInv'
  BY <1>2, ForgeStepKeeps
<1>3. ASSUME NEW t \in Threads, FileForTask(t), UNCHANGED fvars PROVE ForgeInv'
  <2>1. PICK r \in Requests, f \in Forms : File(t, r, f)
    BY <1>3 DEF FileForTask
  <2>2. f \in [harm : Harms, cost : Nat, by : Actors]
    BY ApprovalsAssumption
  <2> QED
    BY <1>1, <1>3, <2>1, <2>2, FileKeeps DEF ForgeInv
<1>4. ASSUME NEW t \in Threads, ApprovalStep(t), UNCHANGED fvars PROVE ForgeInv'
  BY <1>1, <1>4, ApprovalStepKeeps DEF ForgeInv
<1>5. CASE Restart
  <2>1. ApprovalsInv' /\ Keeps
    BY <1>5, DroppingKeeps DEF Restart, ForgeInv, ApprovalsInv
  <2>2. /\ work' = [t \in Threads |-> Free]
        /\ UNCHANGED <<record, artifact, trial, active, about, earned>>
    BY <1>5 DEF Restart
  <2>3. AboutStays /\ earned \subseteq earned' /\ TypeOK'
    BY <2>1, <2>2 DEF AboutStays, ForgeInv, TypeOK, ApprovalsInv
  <2>4. AboutFits'
    BY <2>1, <2>2 DEF ForgeInv, AboutFits, Keeps
  <2>5. \A t \in Threads : WorkFits(work[t])' /\ TrialFits(work[t])'
    BY <2>2, NothingToFit DEF Free, TrialFits
  <2>6. PromotionEarned'
    BY <2>1, <2>2, <2>3, ActiveStays
  <2>7. record' # None => RecordFits'
    BY <2>2 DEF ForgeInv, RecordFits, CandidateFits, Tried
  <2> QED
    BY <2>1, <2>3, <2>4, <2>5, <2>6, <2>7 DEF ForgeInv
<1>6. CASE UNCHANGED vars
  <2>1. ApprovalsInv' /\ Keeps
    BY <1>6 DEF vars, avars, ForgeInv, ApprovalsInv, ApprovalsTypeOK, GrantsFit, Harmless,
                JobsFit, BooksFit, Owed, Keeps
  <2> QED
    BY <1>1, <1>6, <2>1 DEF vars
<1> QED
  BY <1>2, <1>3, <1>4, <1>5, <1>6 DEF Next

LEMMA ForgeInitially == Init => ForgeInv
<1> SUFFICES ASSUME Init PROVE ForgeInv
  OBVIOUS
<1>1. ApprovalsTypeOK
  BY ApprovalsAssumption DEF Init, ApprovalsInit, ApprovalsTypeOK, Statuses
<1>2. TypeOK
  BY <1>1 DEF Init, TypeOK
<1>3. GrantsFit /\ JobsFit /\ AboutFits
  BY DEF Init, ApprovalsInit, GrantsFit, JobsFit, AboutFits, Idle
<1>4. BooksFit
  <2>1. \A r \in Requests : Owed(r) = {}
    BY DEF Init, ApprovalsInit, Owed, Idle
  <2>2. Cardinality({}) = 0
    BY FS_EmptySet
  <2> QED
    BY <2>1, <2>2 DEF Init, ApprovalsInit, BooksFit
<1>5. \A t \in Threads : WorkFits(work[t]) /\ TrialFits(work[t])
  BY DEF Init, Free, WorkFits, TrialFits, Holding
<1>6. record = None
  BY DEF Init
<1> QED
  BY <1>2, <1>1, <1>3, <1>4, <1>5, <1>6 DEF ForgeInv, ApprovalsInv, Init, PromotionEarned

THEOREM ForgeInvariant ==
    ASSUME IsFiniteSet(Threads)
    PROVE  Spec => []ForgeInv
BY ForgeInitially, ForgeStepsKeep, PTL DEF Spec

\* Approvals, callbacks, stages and files keep their types.
THEOREM TypeCorrect ==
    ASSUME IsFiniteSet(Threads)
    PROVE  Spec => []TypeOK
<1>1. ForgeInv => TypeOK
  BY DEF ForgeInv
<1> QED
  BY <1>1, ForgeInvariant, PTL

\* No expense is booked without a grant of its own, by a human who did not ask for it.
THEOREM ExpensesGranted ==
    ASSUME IsFiniteSet(Threads)
    PROVE  Spec => []ExpenseHasGrant
<1>1. ForgeInv => ExpenseHasGrant
  <2> SUFFICES ASSUME ForgeInv, IsFiniteSet(Threads) PROVE ExpenseHasGrant
    OBVIOUS
  <2>1. \A r \in Requests : booked[r] <= grants[r]
    <3> SUFFICES ASSUME NEW r \in Requests PROVE booked[r] <= grants[r]
      OBVIOUS
    <3>1. /\ booked[r] \in Nat /\ grants[r] \in Nat
          /\ booked[r] + Cardinality(Owed(r)) <= grants[r]
      BY DEF ForgeInv, ApprovalsInv, ApprovalsTypeOK, BooksFit
    <3>2. Cardinality(Owed(r)) \in Nat
      BY OwedFinite
    <3> QED
      BY <3>1, <3>2
  <2> QED
    BY <2>1 DEF ForgeInv, ApprovalsInv, BooksFit, GrantsFit, ExpenseHasGrant
<1> QED
  BY <1>1, ForgeInvariant, PTL

\* Nothing becomes active that has not passed the review as what it is, with a grant of
\* its own by a human who did not ask for it; it was tried as what it is, unless another
\* request replaced candidate.json under it.
THEOREM PromotionsEarned ==
    ASSUME IsFiniteSet(Threads)
    PROVE  Spec => []PromotionEarned
<1>1. ForgeInv => PromotionEarned
  BY DEF ForgeInv
<1> QED
  BY <1>1, ForgeInvariant, PTL
=============================================================================
