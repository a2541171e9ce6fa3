--------------------------- MODULE ExecutionRows ---------------------------
(***************************************************************************)
(* What POST /api/tasks/{id}/execute and GET /api/executions/{id} promise   *)
(* the caller: an accepted execution is pending, then running, then has an *)
(* answer, final once no worker serves it; a bounded number are served at  *)
(* once; only the end of the process leaves one without an answer.         *)
(***************************************************************************)
EXTENDS Naturals, FiniteSets

CONSTANTS Execs, MaxWorkers

Answers == {"completed", "failed", "approval_required"}

VARIABLES row,      \* row[e]: the status the caller reads
          serving   \* the executions being worked on

vars == <<row, serving>>

Init == /\ row = [e \in Execs |-> "none"]
        /\ serving = {}

Accept(e) == /\ row[e] = "none"
             /\ row' = [row EXCEPT ![e] = "pending"]
             /\ UNCHANGED serving

Begin(e) == /\ row[e] = "pending"
            /\ Cardinality(serving) < MaxWorkers
            /\ row' = [row EXCEPT ![e] = "running"]
            /\ serving' = serving \cup {e}

\* The answer is visible, maybe before the worker is done with the execution.
Answer(e) == /\ row[e] = "running"
             /\ e \in serving
             /\ \E a \in Answers : row' = [row EXCEPT ![e] = a]
             /\ serving' \in {serving, serving \ {e}}

\* Handing over the results fails after the answer was already visible.
Withdraw(e) == /\ e \in serving
               /\ row[e] = "completed"
               /\ row' = [row EXCEPT ![e] = "failed"]
               /\ serving' = serving \ {e}

Retire(e) == /\ e \in serving
             /\ row[e] \in Answers
             /\ serving' = serving \ {e}
             /\ UNCHANGED row

Lose == /\ serving' = {}
        /\ UNCHANGED row

Next == \/ \E e \in Execs :
              \/ Accept(e) \/ Begin(e)
              \/ Answer(e) \/ Withdraw(e) \/ Retire(e)
        \/ Lose

Spec == Init /\ [][Next]_vars
=============================================================================
