-------------------------------- MODULE Forge --------------------------------
(***************************************************************************)
(* The forge: a definition of an agent or a skill becomes a candidate       *)
(* artifact, is tried in the sandbox, reviewed, put to a human, and promoted *)
(* to an active one.                                                        *)
(*                                                                          *)
(* Two requests may drive candidates of one id at the same time: a stage    *)
(* reads the candidate's record, works, and writes the whole record back.   *)
(* Approvals go through the service specified by Approvals.                 *)
(***************************************************************************)
EXTENDS Approvals

CONSTANTS Kinds,         \* {"agent", "skill"}
          Definitions,   \* the bodies proposed for the one id of the model
          Prices,        \* costo_estimado_usd of a promotion
          Proposers      \* requested_by of a promotion

\* Of a definition: does the smoke test find its id and objective, does
\* AgentManifest accept it, and what do the other evaluations say.  What counts as a
\* task contract has an objective.
ASSUME ForgeAssumption ==
    /\ Definitions \subseteq [name : STRING, smoke : BOOLEAN, schema : BOOLEAN,
                              safety : BOOLEAN, contract : BOOLEAN]
    /\ \A d \in Definitions : d.contract => d.smoke
    /\ None \notin Definitions
    /\ Prices \subseteq Nat
    /\ Proposers \subseteq Actors

VARIABLES record,    \* the ForgeCandidate of the id in the candidate store
          artifact,  \* artifact[k]: its file below candidates/, or None
          trial,     \* candidate.json in the sandbox workspace of the id, or None
          active,    \* active[k]: its file among the real agents or skills
          work,      \* work[t]: the stage thread t is in, and what it read
          about,     \* about[r]: the definition request r was filed for
          earned     \* history: definitions, as what, and the stages passed

fvars == <<record, artifact, trial, active, work, about, earned>>

\* The stages of submit() and promote(), and what each wants to find recorded.
Needs == [sandbox |-> "proposed", review |-> "sandboxed", request |-> "reviewed",
          promote |-> "pending_approval"]
After == [sandbox |-> "review", review |-> "request"]
\* What a passed stage is recorded as (mutant: the artifact's own status).
MutPassed == [sandbox |-> "testing", review |-> "reviewed"]
Passed == [sandbox |-> "sandboxed", review |-> "reviewed"]
Failed == [sandbox |-> "sandbox_failed", review |-> "review_failed"]

Stages == {"proposed", "sandboxed", "sandbox_failed", "reviewed", "review_failed",
           "pending_approval", "promoted"}
Candidates == [stage : Stages, kind : Kinds, def : Definitions,
               approval : Requests \cup {None}]
Free == [at |-> "free"]
Holding == {"sandbox", "trial", "review", "request", "filed", "promote", "vacant", "placed"}
Works == [at : {"checked", "clear", "written"}, kind : Kinds, def : Definitions] \cup
         [at : {"next"}, stage : {"sandbox", "review", "request"}] \cup
         [at : Holding, cand : Candidates] \cup
         [at : {"judged"}, cand : Candidates, ok : BOOLEAN]
Marks == {"sandbox", "review", "disturbed"}

TypeOK == /\ ApprovalsTypeOK
          /\ record \in Candidates \cup {None}
          /\ artifact \in [Kinds -> Definitions \cup {None}]
          /\ trial \in Definitions \cup {None}
          /\ active \in [Kinds -> Definitions \cup {None}]
          /\ work \in [Threads -> Works \cup {Free}]
          /\ about \in [Requests -> Definitions \cup {None}]
          /\ earned \subseteq Kinds \X Definitions \X Marks

Init == /\ ApprovalsInit
        /\ record = None
        /\ artifact = [k \in Kinds |-> None]
        /\ trial = None
        /\ active = [k \in Kinds |-> None]
        /\ work = [t \in Threads |-> Free]
        /\ about = [r \in Requests |-> None]
        /\ earned = {}
-----------------------------------------------------------------------------
Goto(t, w) == work' = [work EXCEPT ![t] = w]

\* check_not_duplicate looks through the candidates too, whatever their kind.
Taken == \E k \in Kinds : artifact[k] # None \/ active[k] # None

\* propose: the checks.  No path stores the stage REJECTED that would let an id be
\* proposed again; a skill without an objective is refused.
Propose(t, k, d) ==
    /\ work[t] = Free
    /\ job[t] = Idle
    /\ ~Taken
    /\ record = None
    /\ k = "skill" => d.smoke
    /\ Goto(t, [at |-> "checked", kind |-> k, def |-> d])
    /\ UNCHANGED <<avars, record, artifact, trial, active, about, earned>>

\* create_from_definition, and the best-effort file of a malformed agent: is the file
\* there, ...
Look(t) ==
    /\ work[t].at = "checked"
    /\ Goto(t, IF artifact[work[t].kind] = None THEN [work[t] EXCEPT !.at = "clear"]
               ELSE Free)
    /\ UNCHANGED <<avars, record, artifact, trial, active, about, earned>>

\* ... and its text is written.  Only the directory of a skill cannot be made twice.
MadeTwice(k, files) == k = "skill" /\ files[k] # None

Materialize(t) ==
    /\ work[t].at = "clear"
    /\ LET w == work[t]
       IN  IF MadeTwice(w.kind, artifact)
           THEN Goto(t, Free) /\ UNCHANGED artifact
           ELSE /\ artifact' = [artifact EXCEPT ![w.kind] = w.def]
                /\ Goto(t, [w EXCEPT !.at = "written"])
    /\ UNCHANGED <<avars, record, trial, active, about, earned>>

SaveProposal(t) ==
    /\ work[t].at = "written"
    /\ record' = [stage |-> "proposed", kind |-> work[t].kind, def |-> work[t].def,
                  approval |-> None]
    /\ Goto(t, [at |-> "next", stage |-> "sandbox"])
    /\ UNCHANGED <<avars, artifact, trial, active, about, earned>>

\* The next stage of submit() requires the record; another stage in it is an error.
Enter(t) ==
    /\ work[t].at = "next"
    /\ Goto(t, IF record.stage = Needs[work[t].stage]
               THEN [at |-> work[t].stage, cand |-> record] ELSE Free)
    /\ UNCHANGED <<avars, record, artifact, trial, active, about, earned>>

\* Those whose candidate.json is replaced by another definition while it is tried.
Disturbed(t, d) == {x \in Threads \ {t} : work[x].at = "trial" /\ work[x].cand.def # d}

\* run_sandbox writes the definition into the workspace of the id (mutant: it keeps a
\* file that is there), ...
MutTrial(d) == IF trial = None THEN d ELSE trial
Trial(d) == d

WriteTrial(t) ==
    /\ work[t].at = "sandbox"
    /\ LET d == Trial(work[t].cand.def)
       IN  /\ trial' = d
           /\ earned' = earned \cup {<<work[x].cand.kind, work[x].cand.def, "disturbed">> :
                                         x \in Disturbed(t, d)}
    /\ Goto(t, [work[t] EXCEPT !.at = "trial"])
    /\ UNCHANGED <<avars, record, artifact, active, about>>

\* ... the container reads what it finds there; it may fail for other reasons, ...
Try(t) ==
    /\ work[t].at = "trial"
    /\ \E ok \in {trial.smoke, FALSE} :
           /\ Goto(t, [at |-> "judged", cand |-> work[t].cand, ok |-> ok])
           /\ earned' = IF ok THEN earned \cup {<<work[t].cand.kind, trial, "sandbox">>}
                        ELSE earned
    /\ UNCHANGED <<avars, record, artifact, trial, active, about>>

\* A stage writes the record it has read back, with its verdict.
Verdict(t, s, c, ok) ==
    /\ record' = [c EXCEPT !.stage = IF ok THEN Passed[s] ELSE Failed[s]]
    /\ Goto(t, IF ok THEN [at |-> "next", stage |-> After[s]] ELSE Free)

\* ... and the verdict is saved, and the status in the candidate's file rewritten if it
\* can be read as a manifest.
SaveTrial(t) ==
    /\ work[t].at = "judged"
    /\ LET c == work[t].cand
       IN  /\ Verdict(t, "sandbox", c, work[t].ok)
           /\ artifact' = IF work[t].ok /\ (c.kind = "agent" => c.def.schema)
                          THEN [artifact EXCEPT ![c.kind] = c.def] ELSE artifact
    /\ UNCHANGED <<avars, trial, active, about, earned>>

\* evaluate_schema, evaluate_safety and evaluate_task_contract.
CrossReviewed(c) == c.def.safety /\ c.def.contract /\ (c.kind = "agent" => c.def.schema)

CrossReview(t) ==
    /\ work[t].at = "review"
    /\ LET c == work[t].cand
       IN  /\ Verdict(t, "review", c, CrossReviewed(c))
           /\ earned' = IF CrossReviewed(c) THEN earned \cup {<<c.kind, c.def, "review">>}
                        ELSE earned
    /\ UNCHANGED <<avars, artifact, trial, active, about>>

\* request_approval: the request is filed, at HIGH risk, ...
FileForCandidate(t, r, price, by) ==
    /\ work[t].at = "request"
    /\ File(t, r, [harm |-> "risk", cost |-> price, by |-> by])
    /\ about' = [about EXCEPT ![r] = work[t].cand.def]
    /\ Goto(t, [at |-> "filed", cand |-> [work[t].cand EXCEPT !.approval = r]])
    /\ UNCHANGED <<record, artifact, trial, active, earned>>

\* ... the policy engine has its say, and the record is written back.
SavePending(t) ==
    /\ work[t].at = "filed"
    /\ job[t] = Idle
    /\ record' = [work[t].cand EXCEPT !.stage = "pending_approval"]
    /\ Goto(t, Free)
    /\ UNCHANGED <<avars, artifact, trial, active, about, earned>>

\* promote: the approval must have been granted.
Granted(r) == r # None /\ status[r] = "approved"

StartPromote(t) ==
    /\ work[t] = Free
    /\ job[t] = Idle
    /\ record # None
    /\ record.stage = Needs["promote"]
    /\ Granted(record.approval)
    /\ Goto(t, [at |-> "promote", cand |-> record])
    /\ UNCHANGED <<avars, record, artifact, trial, active, about, earned>>

\* The factory's promote(): is there an active file, ...
LookActive(t) ==
    /\ work[t].at = "promote"
    /\ Goto(t, IF active[work[t].cand.kind] = None THEN [work[t] EXCEPT !.at = "vacant"]
               ELSE Free)
    /\ UNCHANGED <<avars, record, artifact, trial, active, about, earned>>

\* ... and it is written; the file below candidates/ stays.
Place(t) ==
    /\ work[t].at = "vacant"
    /\ LET c == work[t].cand
       IN  IF MadeTwice(c.kind, active)
           THEN Goto(t, Free) /\ UNCHANGED active
           ELSE /\ active' = [active EXCEPT ![c.kind] = c.def]
                /\ Goto(t, [work[t] EXCEPT !.at = "placed"])
    /\ UNCHANGED <<avars, record, artifact, trial, about, earned>>

SavePromoted(t) ==
    /\ work[t].at = "placed"
    /\ record' = [work[t].cand EXCEPT !.stage = "promoted"]
    /\ Goto(t, Free)
    /\ UNCHANGED <<avars, artifact, trial, active, about, earned>>
-----------------------------------------------------------------------------
\* The process ends and comes back: the stages and callbacks under way are lost.
Restart == /\ \E t \in Threads : work[t] # Free \/ job[t] # Idle
           /\ work' = [t \in Threads |-> Free]
           /\ job' = [t \in Threads |-> Idle]
           /\ UNCHANGED <<status, form, grants, granted, booked, bookers, resolves>>
           /\ UNCHANGED <<record, artifact, trial, active, about, earned>>

ForgeStep(t) ==
    \/ \E k \in Kinds, d \in Definitions : Propose(t, k, d)
    \/ Look(t)
    \/ Materialize(t)
    \/ SaveProposal(t)
    \/ Enter(t)
    \/ WriteTrial(t)
    \/ Try(t)
    \/ SaveTrial(t)
    \/ CrossReview(t)
    \/ \E r \in Requests, p \in Prices, a \in Proposers : FileForCandidate(t, r, p, a)
    \/ SavePending(t)
    \/ StartPromote(t)
    \/ LookActive(t)
    \/ Place(t)
    \/ SavePromoted(t)

Next == \/ \E t \in Threads : \/ ForgeStep(t)
                              \/ (work[t] = Free /\ FileForTask(t)) /\ UNCHANGED fvars
                              \/ ApprovalStep(t) /\ UNCHANGED fvars
        \/ Restart

vars == <<avars, fvars>>
Spec == Init /\ [][Next]_vars
-----------------------------------------------------------------------------
\* What is active has passed the review as what it is, and a human who did not ask for
\* it granted a request filed for that very definition, however the stages of two
\* requests interleave; it has passed the sandbox itself too, unless another request
\* put its own candidate.json there while it was tried (forge/pipeline.py, docstring).
PromotionEarned ==
    \A k \in Kinds : active[k] # None =>
        /\ <<k, active[k], "review">> \in earned
        /\ \E m \in {"sandbox", "disturbed"} : <<k, active[k], m>> \in earned
        /\ \E r \in Requests, a \in Humans : /\ about[r] = active[k]
                                             /\ <<r, a>> \in granted
                                             /\ a # form[r].by

\* AgentRegistry.load and SkillRegistry.load, which walk every directory below
\* their root, raise on an id found twice and on a malformed agent.  Candidates
\* were to be out of their sight ("never */candidates/", forge/pipeline.py).
RegistryLoads ==
    /\ \A k \in Kinds : artifact[k] = None \/ active[k] = None
    /\ artifact["agent"] # None => artifact["agent"].schema
=============================================================================
