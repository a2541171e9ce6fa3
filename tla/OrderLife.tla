------------------------------ MODULE OrderLife ------------------------------
(***************************************************************************)
(* What an order promises its owner (the life cycle told in OrderStatus and *)
(* in the docstrings of dispatch_order and close_order_with_synthesis): it  *)
(* is sent to kanban once, only ever moves forward, and of a result, when   *)
(* there is one, its owner is told no more than once and not before.        *)
(***************************************************************************)
EXTENDS Naturals

CONSTANT Orders

VARIABLES life,  \* life[o]: the OrderStatus an owner sees
          told   \* told[o]: how often the owner was sent the final report

vars == <<life, told>>

Init == /\ life = [o \in Orders |-> "received"]
        /\ told = [o \in Orders |-> 0]

Move(o, from, to) == /\ life[o] = from
                     /\ life' = [life EXCEPT ![o] = to]

Dispatch(o) == Move(o, "received", "dispatched") /\ UNCHANGED told

\* The kanban command failed.
Refuse(o) == Move(o, "received", "failed") /\ UNCHANGED told

\* The board reports the work blocked, or finished.
Block(o) == Move(o, "dispatched", "blocked") /\ UNCHANGED told
Aggregate(o) == Move(o, "dispatched", "aggregating") /\ UNCHANGED told

\* The synthesis ended: a report, a human gate, or a failure.
Report(o) == Move(o, "aggregating", "done") /\ UNCHANGED told
GiveUp(o) == /\ \E s \in {"blocked", "failed"} : Move(o, "aggregating", s)
             /\ UNCHANGED told

\* The message about the report, which may never come.
Tell(o) == /\ life[o] = "done" /\ told[o] = 0
           /\ told' = [told EXCEPT ![o] = 1]
           /\ UNCHANGED life

Next == \E o \in Orders : \/ Dispatch(o) \/ Refuse(o) \/ Block(o)
                          \/ Aggregate(o) \/ Report(o) \/ GiveUp(o)
                          \/ Tell(o)

Spec == Init /\ [][Next]_vars
=============================================================================
