---------------------------- MODULE OrdersProofs ----------------------------
(***************************************************************************)
(* For any orders, requests, syntheses and child tasks: a synthesis has a   *)
(* dispatch of its own, an order that is done has a completed card and a    *)
(* good synthesis behind it, and an order that is dispatched by one request *)
(* at a time lives as OrderLife promises.                                   *)
(***************************************************************************)
EXTENDS Orders, FiniteSetTheorems, TLAPS

\* A request that is under way knows its order.
TypeInv == /\ TypeOK
           /\ \A d \in Threads : at[d] # "idle" => about[d] \in Orders

LEMMA TypeInitially == Init => TypeInv
<1> SUFFICES ASSUME Init PROVE TypeInv
  OBVIOUS
<1>1. status \in [Orders -> OrderStatuses] /\ dispatches \in [Orders -> Nat]
  BY DEF Init, OrderStatuses
<1>2. /\ at \in [Threads -> {"idle", "submitting", "created", "linked"}]
      /\ about \in [Threads -> Orders \cup {None}]
      /\ card \in [Orders -> {"none", "ready", "claimed", "blocked", "reclaimed", "completed"}]
  BY DEF Init
<1>4. told \in [Orders -> Nat] /\ report = None
  BY DEF Init
<1>3. 0 \in 0..MaxLost /\ 0 \in 0..MaxRestarts
  BY OrdersAssumption
<1> QED
  BY <1>1, <1>2, <1>3, <1>4 DEF Init, TypeOK, TypeInv

LEMMA TypeStep == TypeInv /\ [Next]_vars => TypeInv'
<1> SUFFICES ASSUME TypeInv, [Next]_vars PROVE TypeInv'
  OBVIOUS
<1> USE OrdersAssumption DEF TypeInv, TypeOK, boardVars, ownerVars
<1>1. ASSUME NEW d \in Threads, NEW o \in Orders, StartDispatch(d, o) PROVE TypeInv'
  BY <1>1 DEF StartDispatch
<1>2. ASSUME NEW d \in Threads, Submit(d) PROVE TypeInv'
  BY <1>2 DEF Submit
<1>3. ASSUME NEW d \in Threads, SubmitFails(d) PROVE TypeInv'
  BY <1>3 DEF SubmitFails, OrderStatuses
<1>4. ASSUME NEW d \in Threads, SaveLink(d) PROVE TypeInv'
  BY <1>4 DEF SaveLink
<1>5. ASSUME NEW d \in Threads, MarkDispatched(d) PROVE TypeInv'
  BY <1>5 DEF MarkDispatched, OrderStatuses
<1>6. ASSUME NEW o \in Orders, BoardStep(o) PROVE TypeInv'
  BY <1>6 DEF BoardStep, Events
<1>7. ASSUME NEW o \in Orders, NEW ev \in Events, Deliver(o, ev) PROVE TypeInv'
  <2>1. AllTerminal(o) \in BOOLEAN
    BY DEF AllTerminal
  <2> QED
    BY <1>7, <2>1 DEF Deliver, Answered, Reading
<1>8. CASE Ignore
  BY <1>8 DEF Ignore, Answered
<1>9. CASE BlockOrder
  BY <1>9 DEF BlockOrder, Answered, OrderStatuses, Reading
<1>10. ASSUME NEW s \in Synths, Aggregate(s) PROVE TypeInv'
  BY <1>10 DEF Aggregate, OrderStatuses, Reading
<1>11. ASSUME NEW s \in Synths, NEW outcome \in Outcomes, SynthesisEnds(s, outcome)
       PROVE  TypeInv'
  BY <1>11 DEF SynthesisEnds, OrderAfter, Answered, OrderStatuses, Free
<1>12. ASSUME NEW s \in Synths, SynthesisRaises(s) PROVE TypeInv'
  BY <1>12 DEF SynthesisRaises, Free
<1>13. ASSUME NEW s \in Synths, Reap(s) PROVE TypeInv'
  BY <1>13 DEF Reap, Free
<1>14. ASSUME NEW k \in Kids, NEW o \in Orders, CreateKid(k, o) PROVE TypeInv'
  BY <1>14 DEF CreateKid
<1>15. ASSUME NEW k \in Kids, MoveKid(k) PROVE TypeInv'
  BY <1>15 DEF MoveKid, Free
<1>16. CASE Restart
  BY <1>16 DEF Restart, Free
<1>17. CASE UNCHANGED vars
  BY <1>17 DEF vars
<1>18. CASE Tell
  BY <1>18 DEF Tell, Answered
<1> QED
  BY <1>1, <1>2, <1>3, <1>4, <1>5, <1>6, <1>7, <1>8, <1>9, <1>10, <1>11, <1>12, <1>13,
     <1>14, <1>15, <1>16, <1>17, <1>18 DEF Next, DispatchStep, HandlerStep, RunEnds

\* Every variable of the dispatch, event and synthesis handlers keeps its type.
THEOREM TypeCorrect == Spec => []TypeOK
<1>1. TypeInv => TypeOK
  BY DEF TypeInv
<1> QED
  BY <1>1, TypeInitially, TypeStep, PTL DEF Spec
-----------------------------------------------------------------------------
\* What is said of a completed card is true, and a done order has its synthesis.
DoneInv ==
    /\ TypeInv
    /\ \A o \in Orders : <<o, "completed">> \in outbox => card[o] = "completed"
    /\ loop # None => /\ loop.order \in link
                      /\ loop.event = "completed" => card[loop.order] = "completed"
    /\ \A s \in Synths : synth[s] # Free => /\ synth[s].order \in link
                                            /\ card[synth[s].order] = "completed"
    /\ \A o \in Orders : status[o] = "done" =>
           \E s \in Synths : synth[s].order = o /\ synth[s].state = "done"

LEMMA DoneInitially == Init => DoneInv
<1> SUFFICES ASSUME Init PROVE DoneInv
  OBVIOUS
<1>1. TypeInv
  BY TypeInitially
<1> QED
  BY <1>1 DEF Init, DoneInv

LEMMA DoneStep == DoneInv /\ [Next]_vars => DoneInv'
<1> SUFFICES ASSUME DoneInv, [Next]_vars PROVE DoneInv'
  OBVIOUS
<1>0. TypeInv'
  BY TypeStep DEF DoneInv
<1>t. /\ status \in [Orders -> OrderStatuses]
      /\ card \in [Orders -> {"none", "ready", "claimed", "blocked", "reclaimed", "completed"}]
      /\ about \in [Threads -> Orders \cup {None}]
      /\ \A d \in Threads : at[d] # "idle" => about[d] \in Orders
      /\ loop # None => loop.order \in Orders
      /\ DOMAIN synth = Synths
      /\ \A s \in Synths : synth[s] # Free => synth[s].order \in Orders
      /\ \A o \in Orders : Free.order # o
  BY OrdersAssumption DEF DoneInv, TypeInv, TypeOK, Reading, Free
<1> USE <1>0, <1>t DEF DoneInv, boardVars
<1>1. ASSUME NEW d \in Threads, NEW o \in Orders, StartDispatch(d, o) PROVE DoneInv'
  BY <1>1 DEF StartDispatch
<1>2. ASSUME NEW d \in Threads, Submit(d) PROVE DoneInv'
  BY <1>2 DEF Submit
<1>3. ASSUME NEW d \in Threads, SubmitFails(d) PROVE DoneInv'
  BY <1>3 DEF SubmitFails
<1>4. ASSUME NEW d \in Threads, SaveLink(d) PROVE DoneInv'
  <2>1. link \subseteq link' /\ UNCHANGED <<status, card, outbox, loop, synth>>
    BY <1>4 DEF SaveLink
  <2> QED
    BY <2>1
<1>5. ASSUME NEW d \in Threads, MarkDispatched(d) PROVE DoneInv'
  BY <1>5 DEF MarkDispatched
<1>6. ASSUME NEW o \in Orders, BoardStep(o) PROVE DoneInv'
  <2>1. \A x \in Orders : card[x] = "completed" => card'[x] = "completed"
    BY <1>6 DEF BoardStep
  <2>2. \A x \in Orders : <<x, "completed">> \in outbox' =>
                             <<x, "completed">> \in outbox \/ card'[x] = "completed"
    BY <1>6 DEF BoardStep
  <2>3. UNCHANGED <<status, link, loop, synth>>
    BY <1>6 DEF BoardStep
  <2> QED
    BY <2>1, <2>2, <2>3
<1>7. ASSUME NEW o \in Orders, NEW ev \in Events, Deliver(o, ev) PROVE DoneInv'
  BY <1>7 DEF Deliver, Answered
<1>8. CASE Ignore
  BY <1>8 DEF Ignore, Answered, Reading
<1>9. CASE BlockOrder
  BY <1>9 DEF BlockOrder, Answered, Reading
<1>10. ASSUME NEW s \in Synths, Aggregate(s) PROVE DoneInv'
  <2>1. /\ loop.order \in link /\ card[loop.order] = "completed" /\ loop.order \in Orders
        /\ loop' = None
        /\ UNCHANGED <<link, card, outbox>>
    BY <1>10 DEF Aggregate, Aggregates, Reading
  <2>2. /\ synth[s] = Free
        /\ synth'[s].order = loop.order
        /\ \A x \in Synths \ {s} : synth'[x] = synth[x]
    BY <1>10 DEF Aggregate
  <2>3. \A x \in Orders : status'[x] = "done" => status[x] = "done"
    BY <1>10 DEF Aggregate
  <2> QED
    BY <2>1, <2>2, <2>3
<1>11. ASSUME NEW s \in Synths, NEW outcome \in Outcomes, SynthesisEnds(s, outcome)
       PROVE  DoneInv'
  <2>1. /\ synth[s] # Free /\ synth[s].order \in Orders /\ synth[s].state = "running"
        /\ synth' = [synth EXCEPT ![s].state = outcome]
        /\ outbox' \subseteq outbox
        /\ UNCHANGED <<link, card, loop>>
    BY <1>11 DEF SynthesisEnds, Answered, Free
  <2>2. \A x \in Synths : /\ synth'[x].order = synth[x].order
                          /\ synth'[x] # Free => synth[x] # Free
                          /\ synth[x].state = "done" => synth'[x].state = "done"
    BY <2>1
  <2>3. \A x \in Orders \ {synth[s].order} : status'[x] = status[x]
    BY <1>11 DEF SynthesisEnds
  <2>4. status'[synth[s].order] = "done" => synth'[s].state = "done"
    BY <1>11, <2>1 DEF SynthesisEnds, OrderAfter
  <2> QED
    BY <2>1, <2>2, <2>3, <2>4
<1>12. ASSUME NEW s \in Synths, SynthesisRaises(s) PROVE DoneInv'
  BY <1>12 DEF SynthesisRaises, Free
<1>13. ASSUME NEW s \in Synths, Reap(s) PROVE DoneInv'
  BY <1>13 DEF Reap, Free
<1>14. ASSUME NEW k \in Kids, NEW o \in Orders, CreateKid(k, o) PROVE DoneInv'
  BY <1>14 DEF CreateKid
<1>15. ASSUME NEW k \in Kids, MoveKid(k) PROVE DoneInv'
  BY <1>15 DEF MoveKid
<1>16. CASE Restart
  BY <1>16 DEF Restart, Free
<1>17. CASE UNCHANGED vars
  BY <1>17 DEF vars
<1>18. CASE Tell
  BY <1>18 DEF Tell, Answered
<1> QED
  BY <1>1, <1>2, <1>3, <1>4, <1>5, <1>6, <1>7, <1>8, <1>9, <1>10, <1>11, <1>12, <1>13,
     <1>14, <1>15, <1>16, <1>17, <1>18 DEF Next, DispatchStep, HandlerStep, RunEnds

\* An order is done only after its card was completed, over a link, and on a
\* synthesis that ended well.
THEOREM DoneIsDone == Spec => []DoneMeansDone
<1>1. DoneInv => DoneMeansDone
  BY OrdersAssumption DEF DoneInv, TypeInv, TypeOK, DoneMeansDone, Syntheses, Free
<1> QED
  BY <1>1, DoneInitially, DoneStep, PTL DEF Spec
-----------------------------------------------------------------------------
\* An order that is dispatched, or was when a handler read it, has a dispatch left.
Due(o) == \/ status[o] = "dispatched"
          \/ loop # None /\ loop.order = o /\ loop.seen = "dispatched"

CountInv == /\ TypeInv
            /\ \A o \in Orders : /\ Cardinality(Syntheses(o)) <= dispatches[o]
                                 /\ Due(o) => Cardinality(Syntheses(o)) < dispatches[o]

LEMMA SynthesesFinite == \A o : /\ IsFiniteSet(Syntheses(o))
                                /\ Cardinality(Syntheses(o)) \in Nat
BY OrdersAssumption, FS_Subset, FS_CardinalityType DEF Syntheses

\* A step that starts no synthesis, marks no order and finds none due keeps the count.
LEMMA NothingDue ==
    ASSUME CountInv, TypeInv', dispatches' = dispatches,
           \A o \in Orders : Syntheses(o)' = Syntheses(o),
           \A o \in Orders : Due(o)' => Due(o)
    PROVE  CountInv'
BY DEF CountInv

LEMMA CountInitially == Init => CountInv
<1> SUFFICES ASSUME Init PROVE CountInv
  OBVIOUS
<1>1. TypeInv
  BY TypeInitially
<1>2. \A o \in Orders : Syntheses(o) = {} /\ ~Due(o) /\ dispatches[o] = 0
  BY OrdersAssumption DEF Init, Syntheses, Free, Due
<1>3. Cardinality({}) = 0
  BY FS_EmptySet
<1> QED
  BY <1>1, <1>2, <1>3 DEF CountInv

LEMMA CountStep == CountInv /\ [Next]_vars => CountInv'
<1> SUFFICES ASSUME CountInv, [Next]_vars PROVE CountInv'
  OBVIOUS
<1>0. TypeInv'
  BY TypeStep DEF CountInv
<1>t. /\ status \in [Orders -> OrderStatuses]
      /\ dispatches \in [Orders -> Nat]
      /\ \A d \in Threads : at[d] # "idle" => about[d] \in Orders
      /\ loop # None => loop.order \in Orders
      /\ DOMAIN synth = Synths
      /\ \A s \in Synths : synth[s] # Free => synth[s].order \in Orders
      /\ \A o \in Orders : Free.order # o
  BY OrdersAssumption DEF CountInv, TypeInv, TypeOK, Reading, Free
<1>1. ASSUME NEW d \in Threads, NEW o \in Orders, StartDispatch(d, o) PROVE CountInv'
  <2>1. dispatches' = dispatches /\ \A x \in Orders : Due(x)' => Due(x)
    BY <1>1, <1>t DEF StartDispatch, Due
  <2>2. \A x \in Orders : Syntheses(x)' = Syntheses(x)
    BY <1>1, <1>t DEF StartDispatch, Syntheses
  <2> QED
    BY <1>0, <2>1, <2>2, NothingDue
<1>2. ASSUME NEW d \in Threads, Submit(d) PROVE CountInv'
  <2>1. dispatches' = dispatches /\ \A x \in Orders : Due(x)' => Due(x)
    BY <1>2, <1>t DEF Submit, Due
  <2>2. \A x \in Orders : Syntheses(x)' = Syntheses(x)
    BY <1>2, <1>t DEF Submit, Syntheses
  <2> QED
    BY <1>0, <2>1, <2>2, NothingDue
<1>3. ASSUME NEW d \in Threads, SubmitFails(d) PROVE CountInv'
  <2>1. dispatches' = dispatches /\ \A x \in Orders : Due(x)' => Due(x)
    BY <1>3, <1>t DEF SubmitFails, Due
  <2>2. \A x \in Orders : Syntheses(x)' = Syntheses(x)
    BY <1>3, <1>t DEF SubmitFails, Syntheses
  <2> QED
    BY <1>0, <2>1, <2>2, NothingDue
<1>4. ASSUME NEW d \in Threads, SaveLink(d) PROVE CountInv'
  <2>1. dispatches' = dispatches /\ \A x \in Orders : Due(x)' => Due(x)
    BY <1>4, <1>t DEF SaveLink, Due
  <2>2. \A x \in Orders : Syntheses(x)' = Syntheses(x)
    BY <1>4, <1>t DEF SaveLink, Syntheses
  <2> QED
    BY <1>0, <2>1, <2>2, NothingDue
<1>5. ASSUME NEW d \in Threads, MarkDispatched(d) PROVE CountInv'
  <2>1. /\ UNCHANGED <<loop, synth>>
        /\ about[d] \in Orders
        /\ dispatches' = [dispatches EXCEPT ![about[d]] = @ + 1]
        /\ \A o \in Orders \ {about[d]} : status'[o] = status[o]
    BY <1>5, <1>t DEF MarkDispatched
  <2>2. \A x \in Orders : Syntheses(x)' = Syntheses(x)
    BY <2>1 DEF Syntheses
  <2>3. \A o \in Orders \ {about[d]} : Due(o)' => Due(o)
    BY <2>1 DEF Due
  <2>4. \A o \in Orders : dispatches'[o] \in Nat
    BY <1>0 DEF TypeInv, TypeOK
  <2> QED
    BY <1>0, <1>t, <2>1, <2>2, <2>3, <2>4, SynthesesFinite DEF CountInv
<1>6. ASSUME NEW o \in Orders, BoardStep(o) PROVE CountInv'
  <2>1. dispatches' = dispatches /\ \A x \in Orders : Due(x)' => Due(x)
    BY <1>6, <1>t DEF BoardStep, Due
  <2>2. \A x \in Orders : Syntheses(x)' = Syntheses(x)
    BY <1>6, <1>t DEF BoardStep, Syntheses
  <2> QED
    BY <1>0, <2>1, <2>2, NothingDue
<1>7. ASSUME NEW o \in Orders, NEW ev \in Events, Deliver(o, ev) PROVE CountInv'
  <2>1. dispatches' = dispatches /\ \A x \in Orders : Due(x)' => Due(x)
    BY <1>7, <1>t DEF Deliver, Answered, Due
  <2>2. \A x \in Orders : Syntheses(x)' = Syntheses(x)
    BY <1>7, <1>t DEF Deliver, Answered, Syntheses
  <2> QED
    BY <1>0, <2>1, <2>2, NothingDue
<1>8. CASE Ignore
  <2>1. dispatches' = dispatches /\ \A x \in Orders : Due(x)' => Due(x)
    BY <1>8, <1>t DEF Ignore, Answered, Reading, Due
  <2>2. \A x \in Orders : Syntheses(x)' = Syntheses(x)
    BY <1>8, <1>t DEF Ignore, Answered, Reading, Syntheses
  <2> QED
    BY <1>0, <2>1, <2>2, NothingDue
<1>9. CASE BlockOrder
  <2>1. dispatches' = dispatches /\ \A x \in Orders : Due(x)' => Due(x)
    BY <1>9, <1>t DEF BlockOrder, Answered, Reading, Due
  <2>2. \A x \in Orders : Syntheses(x)' = Syntheses(x)
    BY <1>9, <1>t DEF BlockOrder, Answered, Reading, Syntheses
  <2> QED
    BY <1>0, <2>1, <2>2, NothingDue
<1>10. ASSUME NEW s \in Synths, Aggregate(s) PROVE CountInv'
  <2>0. PICK o \in Orders : o = loop.order
    BY <1>10, <1>t DEF Aggregate
  <2>1. /\ o \in Orders /\ Due(o)
        /\ s \notin Syntheses(o) /\ loop' = None
        /\ dispatches' = dispatches
    BY <1>10, <1>t, <2>0 DEF Aggregate, Aggregates, Ignores, Due, Syntheses
  <2>2. Syntheses(o)' = Syntheses(o) \cup {s}
    BY <1>10, <1>t, <2>0 DEF Aggregate, Syntheses
  <2>3. \A x \in Orders \ {o} : Syntheses(x)' = Syntheses(x)
    BY <1>10, <1>t, <2>0 DEF Aggregate, Syntheses
  <2>4. /\ \A x \in Orders \ {o} : Due(x)' => Due(x)
        /\ ~Due(o)'
    BY <1>10, <1>t, <2>0 DEF Aggregate, Due
  <2>5. Cardinality(Syntheses(o)') = Cardinality(Syntheses(o)) + 1
    BY <2>1, <2>2, SynthesesFinite, FS_AddElement
  <2>6. dispatches[o] \in Nat /\ Cardinality(Syntheses(o)) < dispatches[o]
    BY <1>t, <2>1 DEF CountInv
  <2> QED
    BY <1>0, <2>1, <2>3, <2>4, <2>5, <2>6, SynthesesFinite DEF CountInv
<1>11. ASSUME NEW s \in Synths, NEW outcome \in Outcomes, SynthesisEnds(s, outcome)
       PROVE  CountInv'
  <2>1. dispatches' = dispatches /\ \A x \in Orders : Due(x)' => Due(x)
    BY <1>11, <1>t DEF SynthesisEnds, OrderAfter, Answered, Free, Due
  <2>2. \A x \in Orders : Syntheses(x)' = Syntheses(x)
    BY <1>11, <1>t DEF SynthesisEnds, OrderAfter, Answered, Free, Syntheses
  <2> QED
    BY <1>0, <2>1, <2>2, NothingDue
<1>12. ASSUME NEW s \in Synths, SynthesisRaises(s) PROVE CountInv'
  <2>1. dispatches' = dispatches /\ \A x \in Orders : Due(x)' => Due(x)
    BY <1>12, <1>t DEF SynthesisRaises, Free, Due
  <2>2. \A x \in Orders : Syntheses(x)' = Syntheses(x)
    BY <1>12, <1>t DEF SynthesisRaises, Free, Syntheses
  <2> QED
    BY <1>0, <2>1, <2>2, NothingDue
<1>13. ASSUME NEW s \in Synths, Reap(s) PROVE CountInv'
  <2>1. dispatches' = dispatches /\ \A x \in Orders : Due(x)' => Due(x)
    BY <1>13, <1>t DEF Reap, Free, Due
  <2>2. \A x \in Orders : Syntheses(x)' = Syntheses(x)
    BY <1>13, <1>t DEF Reap, Free, Syntheses
  <2> QED
    BY <1>0, <2>1, <2>2, NothingDue
<1>14. ASSUME NEW k \in Kids, NEW o \in Orders, CreateKid(k, o) PROVE CountInv'
  <2>1. dispatches' = dispatches /\ \A x \in Orders : Due(x)' => Due(x)
    BY <1>14, <1>t DEF CreateKid, Due
  <2>2. \A x \in Orders : Syntheses(x)' = Syntheses(x)
    BY <1>14, <1>t DEF CreateKid, Syntheses
  <2> QED
    BY <1>0, <2>1, <2>2, NothingDue
<1>15. ASSUME NEW k \in Kids, MoveKid(k) PROVE CountInv'
  <2>1. dispatches' = dispatches /\ \A x \in Orders : Due(x)' => Due(x)
    BY <1>15, <1>t DEF MoveKid, Due
  <2>2. \A x \in Orders : Syntheses(x)' = Syntheses(x)
    BY <1>15, <1>t DEF MoveKid, Syntheses
  <2> QED
    BY <1>0, <2>1, <2>2, NothingDue
<1>16. CASE Restart
  <2>1. dispatches' = dispatches /\ \A x \in Orders : Due(x)' => Due(x)
    BY <1>16, <1>t DEF Restart, Free, Due
  <2>2. \A x \in Orders : Syntheses(x)' = Syntheses(x)
    BY <1>16, <1>t DEF Restart, Free, Syntheses
  <2> QED
    BY <1>0, <2>1, <2>2, NothingDue
<1>17. CASE UNCHANGED vars
  <2>1. dispatches' = dispatches /\ \A x \in Orders : Due(x)' => Due(x)
    BY <1>17, <1>t DEF vars, Due
  <2>2. \A x \in Orders : Syntheses(x)' = Syntheses(x)
    BY <1>17, <1>t DEF vars, Syntheses
  <2> QED
    BY <1>0, <2>1, <2>2, NothingDue
<1>18. CASE Tell
  <2>1. dispatches' = dispatches /\ \A x \in Orders : Due(x)' => Due(x)
    BY <1>18, <1>t DEF Tell, Due
  <2>2. \A x \in Orders : Syntheses(x)' = Syntheses(x)
    BY <1>18, <1>t DEF Tell, Syntheses
  <2> QED
    BY <1>0, <2>1, <2>2, NothingDue
<1> QED
  BY <1>1, <1>2, <1>3, <1>4, <1>5, <1>6, <1>7, <1>8, <1>9, <1>10, <1>11, <1>12, <1>13,
     <1>14, <1>15, <1>16, <1>17, <1>18 DEF Next, DispatchStep, HandlerStep, RunEnds

\* Each synthesis of an order has a dispatch of its own, whatever events are repeated.
THEOREM SynthesesCounted == Spec => []SynthesisPerDispatch
<1>1. CountInv => SynthesisPerDispatch
  BY DEF CountInv, SynthesisPerDispatch
<1> QED
  BY <1>1, CountInitially, CountStep, PTL DEF Spec
-----------------------------------------------------------------------------
\* What holds of an order that no two requests dispatch at once: one request is
\* under way while it is received, what a handler read of it is still so when the
\* handler writes, its one synthesis runs while it is being aggregated, and nobody has
\* been told of it before it is done, or is told again.
Solo == Orders \ racy

SoloInv ==
    /\ TypeInv
    /\ \A d \in Threads, x \in Threads : about[d] = about[x] /\ about[d] \in Solo => d = x
    /\ \A d \in Threads : about[d] \in Solo => status[about[d]] = "received"
    /\ loop # None /\ loop.order \in Solo /\ loop.seen = "dispatched" =>
           status[loop.order] = "dispatched"
    /\ \A s \in Synths : synth[s].order \in Solo =>
           status[synth[s].order] \notin {"received", "dispatched"}
    /\ \A s \in Synths : synth[s].order \in Solo /\ synth[s].state = "running" =>
           status[synth[s].order] = "aggregating"
    /\ \A s \in Synths, x \in Synths :
           synth[s].order = synth[x].order /\ synth[s].order \in Solo => s = x
    /\ report \in Solo => status[report] = "done" /\ told[report] = 0
    /\ \A o \in Solo : told[o] # 0 => status[o] = "done"
    /\ loop = None \/ report = None

LEMMA SoloInitially == Init => SoloInv
<1> SUFFICES ASSUME Init PROVE SoloInv
  OBVIOUS
<1>1. TypeInv
  BY TypeInitially
<1>2. None \notin Solo
  BY OrdersAssumption DEF Solo
<1> QED
  BY <1>1, <1>2 DEF Init, SoloInv, Free, Solo

LEMMA SoloStep == SoloInv /\ [Next]_vars => SoloInv'
<1> SUFFICES ASSUME SoloInv, [Next]_vars PROVE SoloInv'
  OBVIOUS
<1>0. TypeInv'
  BY TypeStep DEF SoloInv
<1>t. /\ status \in [Orders -> OrderStatuses]
      /\ at \in [Threads -> {"idle", "submitting", "created", "linked"}]
      /\ about \in [Threads -> Orders \cup {None}]
      /\ \A d \in Threads : at[d] # "idle" => about[d] \in Orders
      /\ loop # None => loop.order \in Orders
      /\ DOMAIN synth = Synths
      /\ \A s \in Synths : synth[s] # Free => synth[s].order \in Orders
      /\ Free.order = None
      /\ None \notin Solo /\ Solo \subseteq Orders
      /\ told \in [Orders -> Nat]
      /\ report # None => report \in Orders
  BY OrdersAssumption DEF SoloInv, TypeInv, TypeOK, Reading, Free, Solo
<1>r. Solo' = Solo
  BY DEF Next, DispatchStep, HandlerStep, RunEnds, StartDispatch, Submit, SubmitFails,
         SaveLink, MarkDispatched, BoardStep, Deliver, Ignore, BlockOrder, Aggregate,
         SynthesisEnds, SynthesisRaises, Tell, Reap, CreateKid, MoveKid, Restart, vars, Solo
<1> USE <1>0, <1>t, <1>r DEF SoloInv, boardVars, ownerVars
<1>1. ASSUME NEW d \in Threads, NEW o \in Orders, StartDispatch(d, o) PROVE SoloInv'
  BY <1>1 DEF StartDispatch, Solo
<1>2. ASSUME NEW d \in Threads, Submit(d) PROVE SoloInv'
  BY <1>2 DEF Submit
<1>3. ASSUME NEW d \in Threads, SubmitFails(d) PROVE SoloInv'
  BY <1>3 DEF SubmitFails
<1>4. ASSUME NEW d \in Threads, SaveLink(d) PROVE SoloInv'
  BY <1>4 DEF SaveLink
<1>5. ASSUME NEW d \in Threads, MarkDispatched(d) PROVE SoloInv'
  BY <1>5 DEF MarkDispatched
<1>6. ASSUME NEW o \in Orders, BoardStep(o) PROVE SoloInv'
  BY <1>6 DEF BoardStep
<1>7. ASSUME NEW o \in Orders, NEW ev \in Events, Deliver(o, ev) PROVE SoloInv'
  BY <1>7 DEF Deliver
<1>8. CASE Ignore
  BY <1>8 DEF Ignore
<1>9. CASE BlockOrder
  BY <1>9 DEF BlockOrder, Ignores
<1>10. ASSUME NEW s \in Synths, Aggregate(s) PROVE SoloInv'
  <2>1. /\ loop.order \in Orders
        /\ loop.order \in Solo => status[loop.order] = "dispatched"
    BY <1>10 DEF Aggregate, Aggregates, Ignores
  <2>2. /\ synth'[s].order = loop.order
        /\ \A x \in Synths \ {s} : synth'[x] = synth[x]
        /\ status'[loop.order] = "aggregating"
        /\ \A o \in Orders \ {loop.order} : status'[o] = status[o]
        /\ loop' = None
        /\ report = None
        /\ UNCHANGED <<about, told, report>>
    BY <1>10, <2>1 DEF Aggregate
  <2>3. \A x \in Synths \ {s} : loop.order \in Solo => synth'[x].order # loop.order
    BY <2>1, <2>2
  <2>4. \A o \in Solo : told'[o] # 0 => status'[o] = "done"
    BY <2>1, <2>2
  <2>5. \A d \in Threads : about'[d] \in Solo => status'[about'[d]] = "received"
    BY <2>1, <2>2
  <2>6. \A x \in Synths : synth'[x].order \in Solo =>
           /\ status'[synth'[x].order] \notin {"received", "dispatched"}
           /\ synth'[x].state = "running" => status'[synth'[x].order] = "aggregating"
    BY <2>1, <2>2, <2>3
  <2>7. \A x \in Synths, y \in Synths :
           synth'[x].order = synth'[y].order /\ synth'[x].order \in Solo => x = y
    BY <2>2, <2>3
  <2> QED
    BY <2>2, <2>4, <2>5, <2>6, <2>7
<1>11. ASSUME NEW s \in Synths, NEW outcome \in Outcomes, SynthesisEnds(s, outcome)
       PROVE  SoloInv'
  <2>1. /\ synth[s] # Free /\ synth[s].state = "running"
        /\ synth' = [synth EXCEPT ![s].state = outcome]
        /\ status'[synth[s].order] \in {"done", "blocked", "failed"}
        /\ \A o \in Orders \ {synth[s].order} : status'[o] = status[o]
        /\ loop = None
        /\ UNCHANGED <<about, loop, told>>
    BY <1>11 DEF SynthesisEnds, OrderAfter, Free
  <2>2. \A x \in Synths : synth'[x].order = synth[x].order
    BY <2>1
  <2>3. \A x \in Synths \ {s} : synth'[x] = synth[x]
    BY <2>1
  <2>4. synth'[s].state \notin {"running"}
    BY <2>1 DEF Outcomes
  <2>5. synth[s].order \in Solo => status[synth[s].order] = "aggregating"
    BY <2>1
  <2>6. \A d \in Threads : about[d] \in Solo => status'[about[d]] = "received"
    BY <2>1, <2>5
  <2>7. report' \in Solo => report' = synth[s].order /\ status'[report'] = "done"
    BY <1>11 DEF SynthesisEnds, OrderAfter, Free
  <2>8. synth[s].order \in Solo => told[synth[s].order] = 0
    BY <2>5
  <2>9. \A o \in Solo : told'[o] # 0 => status'[o] = "done"
    BY <2>1, <2>8
  <2>10. report' \in Solo => told'[report'] = 0
    BY <2>1, <2>7, <2>8
  <2>11. \A x \in Synths : synth'[x].order \in Solo =>
           /\ status'[synth'[x].order] \notin {"received", "dispatched"}
           /\ synth'[x].state = "running" => status'[synth'[x].order] = "aggregating"
    BY <2>1, <2>2, <2>3, <2>4
  <2> QED
    BY <2>1, <2>2, <2>6, <2>7, <2>9, <2>10, <2>11
<1>12. ASSUME NEW s \in Synths, SynthesisRaises(s) PROVE SoloInv'
  BY <1>12 DEF SynthesisRaises
<1>13. ASSUME NEW s \in Synths, Reap(s) PROVE SoloInv'
  BY <1>13 DEF Reap
<1>14. ASSUME NEW k \in Kids, NEW o \in Orders, CreateKid(k, o) PROVE SoloInv'
  BY <1>14 DEF CreateKid
<1>15. ASSUME NEW k \in Kids, MoveKid(k) PROVE SoloInv'
  BY <1>15 DEF MoveKid
<1>16. CASE Restart
  BY <1>16 DEF Restart
<1>17. CASE UNCHANGED vars
  BY <1>17 DEF vars
<1>18. CASE Tell
  <2>1. /\ report \in Orders /\ report' = None
        /\ \A o \in Orders \ {report} : told'[o] = told[o]
    BY <1>18 DEF Tell
  <2>2. UNCHANGED <<status, at, about, loop, synth>>
    BY <1>18 DEF Tell
  <2>3. \A o \in Solo : told'[o] # 0 => status'[o] = "done"
    BY <2>1, <2>2
  <2> QED
    BY <2>1, <2>2, <2>3
<1> QED
  BY <1>1, <1>2, <1>3, <1>4, <1>5, <1>6, <1>7, <1>8, <1>9, <1>10, <1>11, <1>12, <1>13,
     <1>14, <1>15, <1>16, <1>17, <1>18 DEF Next, DispatchStep, HandlerStep, RunEnds
-----------------------------------------------------------------------------
\* The status of an order as OrderLife sees it.
LifeOf == [o \in Orders |-> IF o \in racy THEN "received" ELSE status[o]]
ToldOf == [o \in Orders |-> IF o \in racy THEN 0 ELSE told[o]]

\* Nothing that OrderLife sees has changed.
Quiet == LifeOf' = LifeOf /\ ToldOf' = ToldOf

LEMMA QuietStutters == ASSUME Quiet PROVE UNCHANGED Life!vars
BY DEF Quiet, LifeOf, ToldOf, Life!vars

LEMMA ToldStays == ASSUME racy' = racy, told' = told PROVE ToldOf' = ToldOf
BY DEF ToldOf

\* A write to the status of one order is a move of its life, or is not seen.
LEMMA WriteMoves ==
    ASSUME SoloInv, NEW o \in Orders, NEW to, racy' = racy,
           status' = [status EXCEPT ![o] = to]
    PROVE  /\ o \in Solo => /\ LifeOf[o] = status[o]
                            /\ LifeOf' = [LifeOf EXCEPT ![o] = to]
           /\ o \notin Solo => LifeOf' = LifeOf
<1>1. status \in [Orders -> OrderStatuses]
  BY DEF SoloInv, TypeInv, TypeOK
<1> QED
  BY <1>1 DEF LifeOf, Solo

LEMMA LifeInitially == Init => Life!Init
<1> SUFFICES ASSUME Init PROVE Life!Init
  OBVIOUS
<1>1. ToldOf = [o \in Orders |-> 0]
  BY DEF Init, ToldOf
<1>2. LifeOf = [o \in Orders |-> "received"]
  BY DEF Init, LifeOf
<1> QED
  BY <1>1, <1>2 DEF Life!Init, LifeOf, ToldOf

LEMMA LifeStep == SoloInv /\ [Next]_vars => [Life!Next]_(Life!vars)
<1> SUFFICES ASSUME SoloInv, [Next]_vars PROVE Life!Next \/ UNCHANGED Life!vars
  OBVIOUS
<1>t. /\ status \in [Orders -> OrderStatuses]
      /\ \A d \in Threads : at[d] # "idle" => about[d] \in Orders
      /\ loop # None => loop.order \in Orders
      /\ DOMAIN synth = Synths
      /\ \A s \in Synths : synth[s] # Free => synth[s].order \in Orders
      /\ Free.order = None
      /\ None \notin Solo /\ Solo \subseteq Orders
      /\ told \in [Orders -> Nat]
      /\ report # None => report \in Orders
  BY OrdersAssumption DEF SoloInv, TypeInv, TypeOK, Reading, Free, Solo
<1> USE <1>t DEF boardVars, ownerVars
<1>1. ASSUME NEW d \in Threads, NEW o \in Orders, StartDispatch(d, o)
      PROVE  Life!Next \/ UNCHANGED Life!vars
  <2>1. status' = status /\ racy' = racy
    BY <1>1 DEF StartDispatch
  <2>2. ToldOf' = ToldOf
    BY <1>1, <2>1, ToldStays DEF StartDispatch
  <2>3. Quiet
    BY <2>1, <2>2 DEF Quiet, LifeOf
  <2> QED
    BY <2>3, QuietStutters
<1>2. ASSUME NEW d \in Threads, Submit(d) PROVE Life!Next \/ UNCHANGED Life!vars
  <2>1. status' = status /\ racy' = racy
    BY <1>2 DEF Submit
  <2>2. ToldOf' = ToldOf
    BY <1>2, <2>1, ToldStays DEF Submit
  <2>3. Quiet
    BY <2>1, <2>2 DEF Quiet, LifeOf
  <2> QED
    BY <2>3, QuietStutters
<1>3. ASSUME NEW d \in Threads, SubmitFails(d) PROVE Life!Next \/ UNCHANGED Life!vars
  <2>0. PICK o \in Orders : o = about[d]
    BY <1>3 DEF SubmitFails
  <2>1. /\ status' = [status EXCEPT ![o] = "failed"]
        /\ racy' = racy
    BY <1>3, <2>0 DEF SubmitFails
  <2>2. ToldOf' = ToldOf
    BY <1>3, <2>1, ToldStays DEF SubmitFails
  <2>3. CASE o \in Solo
    <3>1. LifeOf[o] = "received"
      BY <1>3, <2>0, <2>1, <2>3, WriteMoves DEF SoloInv, SubmitFails
    <3>2. LifeOf' = [LifeOf EXCEPT ![o] = "failed"]
      BY <2>1, <2>3, WriteMoves
    <3>3. Life!Refuse(o)
      BY <2>2, <3>1, <3>2 DEF Life!Refuse, Life!Move, LifeOf, ToldOf
    <3> QED
      BY <3>3 DEF Life!Next
  <2>4. CASE o \notin Solo
    <3>1. Quiet
      BY <2>1, <2>2, <2>4, WriteMoves DEF Quiet
    <3> QED
      BY <3>1, QuietStutters
  <2> QED
    BY <2>3, <2>4
<1>4. ASSUME NEW d \in Threads, SaveLink(d) PROVE Life!Next \/ UNCHANGED Life!vars
  <2>1. status' = status /\ racy' = racy
    BY <1>4 DEF SaveLink
  <2>2. ToldOf' = ToldOf
    BY <1>4, <2>1, ToldStays DEF SaveLink
  <2>3. Quiet
    BY <2>1, <2>2 DEF Quiet, LifeOf
  <2> QED
    BY <2>3, QuietStutters
<1>5. ASSUME NEW d \in Threads, MarkDispatched(d) PROVE Life!Next \/ UNCHANGED Life!vars
  <2>0. PICK o \in Orders : o = about[d]
    BY <1>5 DEF MarkDispatched
  <2>1. /\ status' = [status EXCEPT ![o] = "dispatched"]
        /\ racy' = racy
    BY <1>5, <2>0 DEF MarkDispatched
  <2>2. ToldOf' = ToldOf
    BY <1>5, <2>1, ToldStays DEF MarkDispatched
  <2>3. CASE o \in Solo
    <3>1. LifeOf[o] = "received"
      BY <1>5, <2>0, <2>1, <2>3, WriteMoves DEF SoloInv, MarkDispatched
    <3>2. LifeOf' = [LifeOf EXCEPT ![o] = "dispatched"]
      BY <2>1, <2>3, WriteMoves
    <3>3. Life!Dispatch(o)
      BY <2>2, <3>1, <3>2 DEF Life!Dispatch, Life!Move, LifeOf, ToldOf
    <3> QED
      BY <3>3 DEF Life!Next
  <2>4. CASE o \notin Solo
    <3>1. Quiet
      BY <2>1, <2>2, <2>4, WriteMoves DEF Quiet
    <3> QED
      BY <3>1, QuietStutters
  <2> QED
    BY <2>3, <2>4
<1>6. ASSUME NEW o \in Orders, BoardStep(o) PROVE Life!Next \/ UNCHANGED Life!vars
  <2>1. status' = status /\ racy' = racy
    BY <1>6 DEF BoardStep
  <2>2. ToldOf' = ToldOf
    BY <1>6, <2>1, ToldStays DEF BoardStep
  <2>3. Quiet
    BY <2>1, <2>2 DEF Quiet, LifeOf
  <2> QED
    BY <2>3, QuietStutters
<1>7. ASSUME NEW o \in Orders, NEW ev \in Events, Deliver(o, ev)
      PROVE  Life!Next \/ UNCHANGED Life!vars
  <2>1. status' = status /\ racy' = racy
    BY <1>7 DEF Deliver
  <2>2. ToldOf' = ToldOf
    BY <1>7, <2>1, ToldStays DEF Deliver
  <2>3. Quiet
    BY <2>1, <2>2 DEF Quiet, LifeOf
  <2> QED
    BY <2>3, QuietStutters
<1>8. CASE Ignore
  <2>1. status' = status /\ racy' = racy
    BY <1>8 DEF Ignore
  <2>2. ToldOf' = ToldOf
    BY <1>8, <2>1, ToldStays DEF Ignore
  <2>3. Quiet
    BY <2>1, <2>2 DEF Quiet, LifeOf
  <2> QED
    BY <2>3, QuietStutters
<1>9. CASE BlockOrder
  <2>0. PICK o \in Orders : o = loop.order
    BY <1>9 DEF BlockOrder, Ignores
  <2>1. /\ status' = [status EXCEPT ![o] = "blocked"]
        /\ racy' = racy
    BY <1>9, <2>0 DEF BlockOrder, Ignores
  <2>2. ToldOf' = ToldOf
    BY <1>9, <2>1, ToldStays DEF BlockOrder, Ignores
  <2>3. CASE o \in Solo
    <3>1. LifeOf[o] = "dispatched"
      <4>1. loop # None /\ loop.seen = "dispatched"
        BY <1>9 DEF BlockOrder, Ignores
      <4>2. status[o] = "dispatched"
        BY <2>0, <2>3, <4>1 DEF SoloInv
      <4> QED
        BY <2>1, <2>3, <4>2, WriteMoves
    <3>2. LifeOf' = [LifeOf EXCEPT ![o] = "blocked"]
      BY <2>1, <2>3, WriteMoves
    <3>3. Life!Block(o)
      BY <2>2, <3>1, <3>2 DEF Life!Block, Life!Move, LifeOf, ToldOf
    <3> QED
      BY <3>3 DEF Life!Next
  <2>4. CASE o \notin Solo
    <3>1. Quiet
      BY <2>1, <2>2, <2>4, WriteMoves DEF Quiet
    <3> QED
      BY <3>1, QuietStutters
  <2> QED
    BY <2>3, <2>4
<1>10. ASSUME NEW s \in Synths, Aggregate(s) PROVE Life!Next \/ UNCHANGED Life!vars
  <2>0. PICK o \in Orders : o = loop.order
    BY <1>10 DEF Aggregate, Aggregates, Ignores
  <2>1. /\ status' = [status EXCEPT ![o] = "aggregating"]
        /\ racy' = racy
    BY <1>10, <2>0 DEF Aggregate, Aggregates, Ignores
  <2>2. ToldOf' = ToldOf
    BY <1>10, <2>1, ToldStays DEF Aggregate, Aggregates, Ignores, Free
  <2>3. CASE o \in Solo
    <3>1. LifeOf[o] = "dispatched"
      <4>1. loop # None /\ loop.seen = "dispatched"
        BY <1>10 DEF Aggregate, Aggregates, Ignores
      <4>2. status[o] = "dispatched"
        BY <2>0, <2>3, <4>1 DEF SoloInv
      <4> QED
        BY <2>1, <2>3, <4>2, WriteMoves
    <3>2. LifeOf' = [LifeOf EXCEPT ![o] = "aggregating"]
      BY <2>1, <2>3, WriteMoves
    <3>3. Life!Aggregate(o)
      BY <2>2, <3>1, <3>2 DEF Life!Aggregate, Life!Move, LifeOf, ToldOf
    <3> QED
      BY <3>3 DEF Life!Next
  <2>4. CASE o \notin Solo
    <3>1. Quiet
      BY <2>1, <2>2, <2>4, WriteMoves DEF Quiet
    <3> QED
      BY <3>1, QuietStutters
  <2> QED
    BY <2>3, <2>4
<1>11. ASSUME NEW s \in Synths, NEW outcome \in Outcomes, SynthesisEnds(s, outcome)
       PROVE  Life!Next \/ UNCHANGED Life!vars
  <2>0. PICK o \in Orders : o = synth[s].order
    BY <1>11 DEF SynthesisEnds, Free
  <2>1. /\ status' = [status EXCEPT ![o] = OrderAfter(outcome)]
        /\ synth' = [synth EXCEPT ![s].state = outcome]
        /\ synth[s].state = "running"
        /\ racy' = racy /\ told' = told
    BY <1>11, <2>0 DEF SynthesisEnds
  <2>2. CASE o \notin Solo
    <3>1. ToldOf' = ToldOf
      BY <2>0, <2>1, <2>2, ToldStays
    <3>2. Quiet
      BY <2>1, <2>2, <3>1, WriteMoves DEF Quiet
    <3> QED
      BY <3>2, QuietStutters
  <2>3. CASE o \in Solo
    <3>1. LifeOf[o] = "aggregating"
      BY <2>0, <2>1, <2>3, WriteMoves DEF SoloInv
    <3>2. LifeOf' = [LifeOf EXCEPT ![o] = OrderAfter(outcome)]
      BY <2>1, <2>3, WriteMoves
    <3>3. CASE outcome = "done"
      <4>1. ToldOf' = ToldOf
        BY <2>1, ToldStays
      <4>2. Life!Report(o)
        BY <3>1, <3>2, <3>3, <4>1 DEF Life!Report, Life!Move, LifeOf, ToldOf, OrderAfter
      <4> QED
        BY <4>2 DEF Life!Next
    <3>4. CASE outcome # "done"
      <4>1. ToldOf' = ToldOf
        BY <2>1, <3>4, ToldStays
      <4>2. OrderAfter(outcome) \in {"blocked", "failed"}
        BY <3>4 DEF OrderAfter
      <4>3. Life!GiveUp(o)
        BY <3>1, <3>2, <4>1, <4>2 DEF Life!GiveUp, Life!Move, LifeOf, ToldOf
      <4> QED
        BY <4>3 DEF Life!Next
    <3> QED
      BY <3>3, <3>4
  <2> QED
    BY <2>2, <2>3
<1>12. ASSUME NEW s \in Synths, SynthesisRaises(s)
       PROVE  Life!Next \/ UNCHANGED Life!vars
  <2>1. status' = status /\ racy' = racy
    BY <1>12 DEF SynthesisRaises
  <2>2. ToldOf' = ToldOf
    BY <1>12, <2>1, ToldStays DEF SynthesisRaises
  <2>3. Quiet
    BY <2>1, <2>2 DEF Quiet, LifeOf
  <2> QED
    BY <2>3, QuietStutters
<1>13. ASSUME NEW s \in Synths, Reap(s) PROVE Life!Next \/ UNCHANGED Life!vars
  <2>1. status' = status /\ racy' = racy
    BY <1>13 DEF Reap
  <2>2. ToldOf' = ToldOf
    BY <1>13, <2>1, ToldStays DEF Reap
  <2>3. Quiet
    BY <2>1, <2>2 DEF Quiet, LifeOf
  <2> QED
    BY <2>3, QuietStutters
<1>14. ASSUME NEW k \in Kids, NEW o \in Orders, CreateKid(k, o)
       PROVE  Life!Next \/ UNCHANGED Life!vars
  <2>1. status' = status /\ racy' = racy
    BY <1>14 DEF CreateKid
  <2>2. ToldOf' = ToldOf
    BY <1>14, <2>1, ToldStays DEF CreateKid
  <2>3. Quiet
    BY <2>1, <2>2 DEF Quiet, LifeOf
  <2> QED
    BY <2>3, QuietStutters
<1>15. ASSUME NEW k \in Kids, MoveKid(k) PROVE Life!Next \/ UNCHANGED Life!vars
  <2>1. status' = status /\ racy' = racy
    BY <1>15 DEF MoveKid
  <2>2. ToldOf' = ToldOf
    BY <1>15, <2>1, ToldStays DEF MoveKid
  <2>3. Quiet
    BY <2>1, <2>2 DEF Quiet, LifeOf
  <2> QED
    BY <2>3, QuietStutters
<1>16. CASE Restart
  <2>1. status' = status /\ racy' = racy
    BY <1>16 DEF Restart
  <2>2. ToldOf' = ToldOf
    BY <1>16, <2>1, ToldStays DEF Restart
  <2>3. Quiet
    BY <2>1, <2>2 DEF Quiet, LifeOf
  <2> QED
    BY <2>3, QuietStutters
<1>17. CASE UNCHANGED vars
  <2>1. status' = status /\ racy' = racy
    BY <1>17 DEF vars
  <2>2. ToldOf' = ToldOf
    BY <1>17, <2>1, ToldStays DEF vars
  <2>3. Quiet
    BY <2>1, <2>2 DEF Quiet, LifeOf
  <2> QED
    BY <2>3, QuietStutters
<1>18. CASE Tell
  <2>1. /\ report \in Orders /\ report' = None
        /\ told' \in {told, [told EXCEPT ![report] = @ + 1]}
        /\ status' = status /\ racy' = racy
    BY <1>18 DEF Tell
  <2>2. LifeOf' = LifeOf
    BY <2>1 DEF LifeOf
  <2>3. CASE ToldOf' = ToldOf
    BY <2>2, <2>3, QuietStutters DEF Quiet
  <2>4. CASE ToldOf' # ToldOf
    <3>1. told' = [told EXCEPT ![report] = @ + 1]
      BY <2>1, <2>4 DEF ToldOf
    <3>2. report \in Solo
      BY <2>1, <2>4, <3>1 DEF ToldOf, Solo
    <3>3. told[report] = 0 /\ status[report] = "done"
      BY <2>1, <3>2 DEF SoloInv
    <3>4. ToldOf' = [ToldOf EXCEPT ![report] = 1]
      <4>1. told[report] + 1 = 1
        BY <3>3
      <4>2. told'[report] = 1 /\ \A o \in Orders \ {report} : told'[o] = told[o]
        BY <2>1, <3>1, <4>1
      <4> QED
        BY <2>1, <3>2, <4>2 DEF ToldOf, Solo
    <3>5. LifeOf[report] = "done" /\ ToldOf[report] = 0
      BY <2>1, <3>2, <3>3 DEF LifeOf, ToldOf, Solo
    <3>6. PICK o \in Orders : o = report
      BY <2>1
    <3>7. Life!Tell(o)
      BY <2>2, <3>4, <3>5, <3>6 DEF Life!Tell, LifeOf, ToldOf
    <3> QED
      BY <3>7 DEF Life!Next
  <2> QED
    BY <2>3, <2>4
<1> QED
  BY <1>1, <1>2, <1>3, <1>4, <1>5, <1>6, <1>7, <1>8, <1>9, <1>10, <1>11, <1>12, <1>13,
     <1>14, <1>15, <1>16, <1>17, <1>18 DEF Next, DispatchStep, HandlerStep, RunEnds

\* An order that is dispatched by one request at a time is dispatched once, moves only
\* forward, and its owner is told of a result once, when there is one.
THEOREM LivesAsPromised == Spec => LifeSpec
<1>1. SoloInv /\ [Next]_vars => SoloInv' /\ [Life!Next]_(Life!vars)
  BY SoloStep, LifeStep
<1> QED
  BY <1>1, SoloInitially, LifeInitially, PTL DEF Spec, LifeSpec, Life!Spec
=============================================================================
