------------------------------ MODULE Approvals ------------------------------
(***************************************************************************)
(* Approval requests: filed by a run that may not go on, granted at once by *)
(* the policy engine when they are harmless, otherwise resolved by anybody  *)
(* who calls /resolve, again and again.  A resolution is saved first; then  *)
(* a callback books the expense it grants in the accounting table.          *)
(*                                                                          *)
(* The callers are pool threads: one may be between the save of a request   *)
(* and its automatic grant, or between the save of a resolution and its     *)
(* callback, while others resolve the same request.                         *)
(***************************************************************************)
EXTENDS Naturals

CONSTANTS Requests, Threads, Humans,
          Forms,           \* what tasks ask for: [harm, cost, by]
          MaxResolves      \* bound: how often /resolve is called
CONSTANT None

PolicyEngine == "policy-engine"                    \* AUTO_APPROVAL_ACTOR
Actors == Humans \cup {"system", PolicyEngine}
\* Why a request is not for the policy engine: its risk, its action, the office
\* that forbids the action, or a ledger already overdrawn.
Harms == {"none", "risk", "sensitive", "never", "overdrawn"}
Statuses == {"none", "pending", "approved", "rejected"}

ASSUME ApprovalsAssumption ==
    /\ Forms \subseteq [harm : Harms, cost : Nat, by : Actors]
    /\ MaxResolves \in Nat
    /\ None \notin Requests \cup Threads

VARIABLES status,    \* status[r]: ApprovalRequest.status
          form,      \* form[r]: what was asked for, and by whom
          job,       \* job[t]: the request thread t is busy with
          grants,    \* history: how often each request was approved
          granted,   \* history: who approved what
          booked,    \* booked[r]: rows of the accounting table that refer to r
          bookers,   \* history: whose grants those rows come from
          resolves

avars == <<status, form, job, grants, granted, booked, bookers, resolves>>

Idle == [step |-> "idle"]
Jobs == [step : {"auto"}, request : Requests] \cup
        [step : {"book"}, request : Requests, by : Actors, approved : BOOLEAN]

ApprovalsTypeOK ==
    /\ status \in [Requests -> Statuses]
    /\ form \in [Requests -> [harm : Harms, cost : Nat, by : Actors] \cup {None}]
    /\ job \in [Threads -> Jobs \cup {Idle}]
    /\ grants \in [Requests -> Nat]
    /\ granted \subseteq Requests \X Actors
    /\ booked \in [Requests -> Nat]
    /\ bookers \subseteq Requests \X Actors
    /\ resolves \in 0..MaxResolves

ApprovalsInit ==
    /\ status = [r \in Requests |-> "none"]
    /\ form = [r \in Requests |-> None]
    /\ job = [t \in Threads |-> Idle]
    /\ grants = [r \in Requests |-> 0]
    /\ granted = {}
    /\ booked = [r \in Requests |-> 0]
    /\ bookers = {}
    /\ resolves = 0
-----------------------------------------------------------------------------
\* ApprovalService.request saves the request; try_auto_approve comes next.
File(t, r, f) ==
    /\ job[t] = Idle
    /\ status[r] = "none"
    /\ status' = [status EXCEPT ![r] = "pending"]
    /\ form' = [form EXCEPT ![r] = f]
    /\ job' = [job EXCEPT ![t] = [step |-> "auto", request |-> r]]
    /\ UNCHANGED <<grants, granted, booked, bookers, resolves>>

\* ApprovalService.resolve refuses an actor's own request.
MayResolve(r, actor) == status[r] # "none" /\ form[r].by # actor

\* The save of a resolution: no earlier one stands in its way.
Resolution(t, r, actor, approved) ==
    /\ MayResolve(r, actor)
    /\ status' = [status EXCEPT ![r] = IF approved THEN "approved" ELSE "rejected"]
    /\ grants' = [grants EXCEPT ![r] = IF approved THEN @ + 1 ELSE @]
    /\ granted' = IF approved THEN granted \cup {<<r, actor>>} ELSE granted
    /\ job' = [job EXCEPT ![t] = [step |-> "book", request |-> r, by |-> actor,
                                  approved |-> approved]]
    /\ UNCHANGED <<form, booked, bookers>>

\* evaluate_auto_approval.  The write target is one of its own allowed paths wherever
\* it is given.
Harmless(f) == f.harm = "none" /\ f.cost = 0

\* try_auto_approve goes through the same resolve, which may refuse it.
AutoApprove(t) ==
    /\ job[t].step = "auto"
    /\ UNCHANGED resolves
    /\ LET r == job[t].request
       IN  \/ /\ Harmless(form[r])
              /\ Resolution(t, r, PolicyEngine, TRUE)
           \/ /\ ~(Harmless(form[r]) /\ MayResolve(r, PolicyEngine))
              /\ job' = [job EXCEPT ![t] = Idle]
              /\ UNCHANGED <<status, form, grants, granted, booked, bookers>>

\* POST /api/approvals/{id}/resolve.
Resolve(t, r, actor, approved) ==
    /\ job[t] = Idle
    /\ resolves < MaxResolves
    /\ resolves' = resolves + 1
    /\ Resolution(t, r, actor, approved)

\* on_approval_resolved books what was approved and costs something (mutant: what
\* was rejected too).
MutExpense(j) == form[j.request].cost > 0
Expense(j) == j.approved /\ form[j.request].cost > 0

\* The callback: the row is written, or Baserow does not take it; a row that looks
\* like an earlier one is reported and written all the same.
Book(t) ==
    /\ job[t].step = "book"
    /\ job' = [job EXCEPT ![t] = Idle]
    /\ LET j == job[t]
       IN  \/ /\ Expense(j)
              /\ booked' = [booked EXCEPT ![j.request] = @ + 1]
              /\ bookers' = bookers \cup {<<j.request, j.by>>}
           \/ UNCHANGED <<booked, bookers>>
    /\ UNCHANGED <<status, form, grants, granted, resolves>>

\* A request is listed by POST /resolve as soon as it is saved.
ApprovalStep(t) ==
    \/ AutoApprove(t)
    \/ \E r \in Requests, a \in Humans, v \in BOOLEAN : Resolve(t, r, a, v)
    \/ Book(t)

FileForTask(t) == \E r \in Requests, f \in Forms : File(t, r, f)
-----------------------------------------------------------------------------
\* "No se mueve dinero sin aprobacion" (accounting.py): every row of the accounting
\* table has a grant of its own behind it, by a human who did not ask for it, also
\* when a request is resolved again while an earlier callback is under way.
ExpenseHasGrant ==
    /\ bookers \subseteq granted
    /\ \A r \in Requests : booked[r] <= grants[r]
    /\ \A b \in bookers : b[2] \in Humans /\ b[2] # form[b[1]].by
=============================================================================
