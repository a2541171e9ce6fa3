------------------------------- MODULE Orders -------------------------------
(***************************************************************************)
(* An order: dispatched to the kanban board by an HTTP handler in a pool   *)
(* thread, moved on by the board's events, which the event loop handles,   *)
(* and closed by a synthesis run.                                          *)
(*                                                                         *)
(* Every SQLite statement is a transaction of its own.  A dispatch is cut  *)
(* at its writes and at the kanban subprocess; an event handler between    *)
(* its reads and its write, where only pool threads interleave, and at the *)
(* await of the synthesis run.  The board and the plugin that posts its    *)
(* events are outside the repository; the plugin repeats an event until it *)
(* is answered.                                                            *)
(***************************************************************************)
EXTENDS Naturals, FiniteSets

CONSTANTS Orders, Threads,  \* orders, and pool threads that dispatch them
          Synths,           \* synthesis tasks engine.create may make
          Kids,             \* tasks POST /api/tasks may make below an order
          MaxLost,          \* bound: answers to the plugin that get lost
          MaxRestarts,      \* bound: how often the process is killed
          None

ASSUME OrdersAssumption == /\ IsFiniteSet(Synths)
                           /\ None \notin Orders \cup Threads \cup Synths \cup Kids
                           /\ {MaxLost, MaxRestarts} \subseteq Nat

Events == {"claimed", "blocked", "completed"}     \* VALID_EVENTS

VARIABLES status,      \* status[o]: OrderRecord.status
          link,        \* orders with a bridge_links row
          dispatches,  \* history: how often each order was marked dispatched
          at, about,   \* how far each thread's dispatch is, and of which order
          card,        \* card[o]: the order's card on the board
          outbox,      \* events the plugin has not got an answer for
          loop,        \* the handler between its reads and its write, or None
          synth,       \* synth[s]: the order and the state of a synthesis
          kid,         \* kid[k]: the order and the state of a child task
          racy,        \* orders that two requests may dispatch at once: the
                       \* callers' doing, settled from the start
          report,      \* the order whose DONE is saved and whose owner is to be
                       \* told, or None
          told,        \* told[o]: messages about its result its owner has got
          lost, restarts

boardVars == <<card, outbox>>
ownerVars == <<report, told>>
vars == <<status, link, dispatches, at, about, boardVars, loop, synth, kid,
          racy, ownerVars, lost, restarts>>

OrderStatuses == {"received", "dispatched", "aggregating", "done", "failed",
                  "blocked"}
Outcomes == {"done", "approval", "failed", "planned"}
Free == [order |-> None, state |-> "none"]
Reading == [order : Orders, event : Events, seen : OrderStatuses, ready : BOOLEAN]

TypeOK == /\ status \in [Orders -> OrderStatuses]
          /\ link \subseteq Orders
          /\ dispatches \in [Orders -> Nat]
          /\ at \in [Threads -> {"idle", "submitting", "created", "linked"}]
          /\ about \in [Threads -> Orders \cup {None}]
          /\ card \in [Orders -> {"none", "ready", "claimed", "blocked",
                                  "reclaimed", "completed"}]
          /\ outbox \subseteq Orders \X Events
          /\ loop \in Reading \cup {None}
          /\ synth \in [Synths -> [order : Orders, state : Outcomes \cup
                                   {"running", "raised", "reaped"}] \cup {Free}]
          /\ kid \in [Kids -> [order : Orders, state : {"open", "terminal"}]
                              \cup {Free}]
          /\ racy \subseteq Orders
          /\ report \in Orders \cup {None}
          /\ told \in [Orders -> Nat]
          /\ lost \in 0..MaxLost
          /\ restarts \in 0..MaxRestarts

Init == /\ status = [o \in Orders |-> "received"]
        /\ link = {}
        /\ dispatches = [o \in Orders |-> 0]
        /\ at = [d \in Threads |-> "idle"]
        /\ about = [d \in Threads |-> None]
        /\ card = [o \in Orders |-> "none"]
        /\ outbox = {}
        /\ loop = None
        /\ synth = [s \in Synths |-> Free]
        /\ kid = [k \in Kids |-> Free]
        /\ racy \in SUBSET Orders
        /\ report = None
        /\ told = [o \in Orders |-> 0]
        /\ lost = 0
        /\ restarts = 0
-----------------------------------------------------------------------------
\* POST /orders/{id}/dispatch: only a received order passes the check.
StartDispatch(d, o) ==
    /\ at[d] = "idle"
    /\ status[o] = "received"
    /\ o \in racy \/ \A x \in Threads : about[x] # o
    /\ at' = [at EXCEPT ![d] = "submitting"]
    /\ about' = [about EXCEPT ![d] = o]
    /\ UNCHANGED <<status, link, dispatches, boardVars, loop, synth, kid, lost,
                   restarts, racy, ownerVars>>

\* `hermes kanban create` with the order's id as idempotency key: a second call
\* finds the card of the first.
Submit(d) ==
    /\ at[d] = "submitting"
    /\ at' = [at EXCEPT ![d] = "created"]
    /\ card' = IF card[about[d]] = "none" THEN [card EXCEPT ![about[d]] = "ready"]
                                          ELSE card
    /\ UNCHANGED <<status, link, dispatches, about, outbox, loop, synth, kid,
                   lost, restarts, racy, ownerVars>>

\* KanbanBridgeError, before the card exists or after (timeout, bad output).
SubmitFails(d) ==
    /\ at[d] \in {"submitting", "created"}
    /\ status' = [status EXCEPT ![about[d]] = "failed"]
    /\ at' = [at EXCEPT ![d] = "idle"]
    /\ about' = [about EXCEPT ![d] = None]
    /\ UNCHANGED <<link, dispatches, boardVars, loop, synth, kid, lost, restarts,
                   racy, ownerVars>>

SaveLink(d) ==
    /\ at[d] = "created"
    /\ link' = link \cup {about[d]}
    /\ at' = [at EXCEPT ![d] = "linked"]
    /\ UNCHANGED <<status, dispatches, about, boardVars, loop, synth, kid, lost,
                   restarts, racy, ownerVars>>

\* The order object read before the subprocess is saved as dispatched.
MarkDispatched(d) ==
    /\ at[d] = "linked"
    /\ status' = [status EXCEPT ![about[d]] = "dispatched"]
    /\ dispatches' = [dispatches EXCEPT ![about[d]] = @ + 1]
    /\ at' = [at EXCEPT ![d] = "idle"]
    /\ about' = [about EXCEPT ![d] = None]
    /\ UNCHANGED <<link, boardVars, loop, synth, kid, lost, restarts, racy, ownerVars>>
-----------------------------------------------------------------------------
\* The board works on a card, and its hooks hand an event to the plugin.
BoardStep(o) ==
    /\ \E m \in {<<"ready", "claimed", "claimed">>,
                 <<"claimed", "blocked", "blocked">>,
                 <<"blocked", "reclaimed", "claimed">>,
                 <<"claimed", "completed", "completed">>,
                 <<"reclaimed", "completed", "completed">>} :
          /\ card[o] = m[1]
          /\ card' = [card EXCEPT ![o] = m[2]]
          /\ outbox' = outbox \cup {<<o, m[3]>>}
    /\ UNCHANGED <<status, link, dispatches, at, about, loop, synth, kid, lost,
                   restarts, racy, ownerVars>>

\* The plugin gets the answer to an event, or does not and will repeat it (mutant:
\* an event that comes too late is answered with an error).
MutAnswered(o, ev) ==
    /\ outbox' = IF status[o] = "dispatched" THEN outbox \ {<<o, ev>>} ELSE outbox
    /\ UNCHANGED lost
Answered(o, ev) ==
    \/ outbox' = outbox \ {<<o, ev>>} /\ UNCHANGED lost
    \/ lost < MaxLost /\ lost' = lost + 1 /\ UNCHANGED outbox

\* Tasks whose parent_task_id is the order: its children and its syntheses.
AllTerminal(o) ==
    /\ \A k \in Kids : kid[k].order = o => kid[k].state = "terminal"
    /\ \A s \in Synths : synth[s].order = o =>
                           synth[s].state \in {"done", "failed", "reaped"}

\* handle_kanban_event, up to its reads: without a link the event is answered
\* and forgotten.
Deliver(o, ev) ==
    /\ loop = None /\ report = None
    /\ <<o, ev>> \in outbox
    /\ IF o \in link
       THEN /\ loop' = [order |-> o, event |-> ev, seen |-> status[o],
                        ready |-> AllTerminal(o)]
            /\ UNCHANGED <<outbox, lost>>
       ELSE Answered(o, ev) /\ UNCHANGED loop
    /\ UNCHANGED <<status, link, dispatches, at, about, card, synth, kid, restarts,
                   racy, ownerVars>>

\* The event changes nothing: a claim is only recorded, an order that is not
\* dispatched is left alone, and open children are waited for.
Ignores(r) == \/ r.event = "claimed"
              \/ r.seen # "dispatched"
              \/ r.event = "completed" /\ ~r.ready

Ignore == /\ loop # None
          /\ Ignores(loop)
          /\ loop' = None
          /\ Answered(loop.order, loop.event)
          /\ UNCHANGED <<status, link, dispatches, at, about, card, synth, kid,
                         restarts, racy, ownerVars>>

BlockOrder == /\ loop # None
              /\ ~Ignores(loop)
              /\ loop.event = "blocked"
              /\ status' = [status EXCEPT ![loop.order] = "blocked"]
              /\ loop' = None
              /\ Answered(loop.order, loop.event)
              /\ UNCHANGED <<link, dispatches, at, about, card, synth, kid, restarts,
                             racy, ownerVars>>

\* What may be aggregated (mutants: an order that is already being aggregated;
\* an order reported blocked).
MutAggregates(r) == r.event = "completed" /\ r.seen \in {"dispatched", "aggregating"}
MutAnyEvent(r) == r.event # "claimed" /\ r.seen = "dispatched"
Aggregates(r) == r.event = "completed" /\ ~Ignores(r)

\* close_order_with_synthesis up to its await: the order is saved, the synthesis
\* task created and its run started; the plugin waits for the answer meanwhile.
Aggregate(s) == /\ loop # None
                /\ Aggregates(loop)
                /\ synth[s] = Free
                /\ status' = [status EXCEPT ![loop.order] = "aggregating"]
                /\ synth' = [synth EXCEPT ![s] = [order |-> loop.order,
                                                  state |-> "running"]]
                /\ loop' = None
                /\ UNCHANGED <<link, dispatches, at, about, boardVars, kid, lost,
                               restarts, racy, ownerVars>>

\* What the order becomes, by the status its synthesis task is found in (mutant:
\* the status is taken over).
MutRawOutcome(outcome) == outcome
OrderAfter(outcome) == CASE outcome = "done" -> "done"
                         [] outcome = "approval" -> "blocked"
                         [] OTHER -> "failed"

\* run() returned.  It may have stopped at the approval gate; another request may
\* have re-planned the task before it is read again.  Of an order that is done the
\* owner is still to be told.
SynthesisEnds(s, outcome) ==
    /\ loop = None /\ report = None
    /\ synth[s].state = "running"
    /\ synth' = [synth EXCEPT ![s].state = outcome]
    /\ status' = [status EXCEPT ![synth[s].order] = OrderAfter(outcome)]
    /\ IF outcome = "done"
       THEN report' = synth[s].order /\ UNCHANGED <<outbox, lost>>
       ELSE Answered(synth[s].order, "completed") /\ UNCHANGED report
    /\ UNCHANGED <<link, dispatches, at, about, card, loop, kid, restarts, racy, told>>

\* notify_order_done, if there is a notifier and Telegram takes the message; then the
\* plugin gets its answer.
Tell == /\ report # None
        /\ told' \in {told, [told EXCEPT ![report] = @ + 1]}
        /\ report' = None
        /\ Answered(report, "completed")
        /\ UNCHANGED <<status, link, dispatches, at, about, card, loop, synth, kid,
                       restarts, racy>>

\* run(), or copying the artifacts, raises: the answer is a 500, which the plugin
\* repeats like no answer.
SynthesisRaises(s) ==
    /\ loop = None /\ report = None
    /\ synth[s].state = "running"
    /\ synth' = [synth EXCEPT ![s].state = "raised"]
    /\ UNCHANGED <<status, link, dispatches, at, about, boardVars, loop, kid, lost,
                   restarts, racy, ownerVars>>

\* reap_orphaned fails a task that a run which raised has left RUNNING.
Reap(s) == /\ synth[s].state = "raised"
           /\ synth' = [synth EXCEPT ![s].state = "reaped"]
           /\ UNCHANGED <<status, link, dispatches, at, about, boardVars, loop, kid,
                          lost, restarts, racy, ownerVars>>
-----------------------------------------------------------------------------
\* POST /api/tasks with a parent_task_id; such a task finishes and may be planned
\* again.
CreateKid(k, o) == /\ kid[k] = Free
                   /\ kid' = [kid EXCEPT ![k] = [order |-> o, state |-> "open"]]
                   /\ UNCHANGED <<status, link, dispatches, at, about, boardVars,
                                  loop, synth, lost, restarts, racy, ownerVars>>
MoveKid(k) == /\ kid[k] # Free
              /\ kid' = [kid EXCEPT ![k].state =
                           IF @ = "open" THEN "terminal" ELSE "open"]
              /\ UNCHANGED <<status, link, dispatches, at, about, boardVars, loop,
                             synth, lost, restarts, racy, ownerVars>>

\* The process is killed and starts again: requests and runs are gone, and
\* lifespan reaps the tasks of those runs.
Restart == /\ restarts < MaxRestarts
           /\ restarts' = restarts + 1
           /\ at' = [d \in Threads |-> "idle"]
           /\ about' = [d \in Threads |-> None]
           /\ loop' = None
           /\ report' = None
           /\ synth' = [s \in Synths |->
                          IF synth[s].state \in {"running", "raised"}
                          THEN [synth[s] EXCEPT !.state = "reaped"]
                          ELSE synth[s]]
           /\ UNCHANGED <<status, link, dispatches, boardVars, kid, lost, racy, told>>
-----------------------------------------------------------------------------
DispatchStep(d) == \/ \E o \in Orders : StartDispatch(d, o)
                   \/ Submit(d)
                   \/ SubmitFails(d)
                   \/ SaveLink(d)
                   \/ MarkDispatched(d)

HandlerStep == \/ Ignore
               \/ BlockOrder
               \/ \E s \in Synths : Aggregate(s)
               \/ Tell

RunEnds(s) == \/ \E outcome \in Outcomes : SynthesisEnds(s, outcome)
              \/ SynthesisRaises(s)

Next == \/ \E d \in Threads : DispatchStep(d)
        \/ \E o \in Orders : BoardStep(o)
        \/ \E o \in Orders, ev \in Events : Deliver(o, ev)
        \/ HandlerStep
        \/ \E s \in Synths : RunEnds(s) \/ Reap(s)
        \/ \E k \in Kids, o \in Orders : CreateKid(k, o)
        \/ \E k \in Kids : MoveKid(k)
        \/ Restart

Spec == Init /\ [][Next]_vars

\* The event loop runs its handlers, runs end by their timeout, and the plugin
\* repeats what was not answered.  No request and no step of the board is owed.
Fairness == /\ \A o \in Orders, ev \in Events : WF_vars(Deliver(o, ev))
            /\ WF_vars(HandlerStep)
            /\ \A s \in Synths : WF_vars(RunEnds(s))

FairSpec == Spec /\ Fairness
-----------------------------------------------------------------------------
Syntheses(o) == {s \in Synths : synth[s].order = o}

\* Each synthesis of an order has a dispatch of its own: no repeated, late or
\* concurrent event runs one again ("must never re-run synthesis",
\* aggregator.py).
SynthesisPerDispatch == \A o \in Orders : Cardinality(Syntheses(o)) <= dispatches[o]

\* An order is reported done only after its card was completed, over a link, and
\* on a synthesis that ended DONE.
DoneMeansDone ==
    \A o \in Orders : status[o] = "done" =>
        /\ o \in link
        /\ card[o] = "completed"
        /\ \E s \in Syntheses(o) : synth[s].state = "done"

\* What the owner of an order that is dispatched by one request at a time was
\* promised.
Life == INSTANCE OrderLife
            WITH life <- [o \in Orders |-> IF o \in racy THEN "received" ELSE status[o]],
                 told <- [o \in Orders |-> IF o \in racy THEN 0 ELSE told[o]]
LifeSpec == Life!Spec

\* No event is repeated for ever: whatever it meets, raising included, the plugin
\* gets its answer in the end.
EventsSettle == \A o \in Orders, ev \in Events :
                    <<o, ev>> \in outbox ~> <<o, ev>> \notin outbox
-----------------------------------------------------------------------------
(* What the code says of itself and does not keep. *)

\* "an order must never be left silently stuck in AGGREGATING if the run itself
\* failed" (close_order_with_synthesis).
AggregatingHasRun == \A o \in Orders : status[o] = "aggregating" =>
                         \E s \in Syntheses(o) : synth[s].state = "running"

\* Dispatch "is a one-way, one-time transition" (dispatch_order).
DispatchedOnce == \A o \in Orders : dispatches[o] <= 1
=============================================================================
