------------------------------ MODULE Dashboards ------------------------------
(***************************************************************************)
(* What the dashboards make of the store.  A request reads one table after   *)
(* another, each in a connection of its own, while orders are decomposed and *)
(* executions are recorded; the page must still add up.                      *)
(***************************************************************************)
EXTENDS Naturals, Sequences, FiniteSetsExt

CONSTANTS Orders, Tasks, Execs,
          ParentOf,     \* ParentOf[t]: the order t is a subtask of, or Nobody
          Nobody        \* no order, no provider, no row

ActiveStatuses == {"received", "decomposing", "dispatched", "aggregating", "blocked"}
OrderStatuses == ActiveStatuses \cup {"done", "failed"}
Executors == {"claude-code", "hermes-agent"}
Providers == {"nvidia", Nobody}
Rows == [task : Tasks, executor : Executors, cost : 0..1, provider : Providers,
         open : BOOLEAN]   \* pending or running

VARIABLES orders,   \* orders[o]: its status
          finished, \* orders with an order.done event
          again,    \* history: orders that a second dispatch has written over
          tasks,    \* the tasks there are
          rows,     \* rows[e]: the row of execution e
          get       \* the request under way, and what it has read

dashVars == <<orders, finished, again, tasks, rows, get>>

Tables == {"executions", "tasks", "orders", "events"}

\* In which order a request reads its tables (mutant: tasks before executions).
MutReading(page) ==
    [finance |-> <<"tasks", "executions", "orders">>,
     orders |-> <<"orders", "tasks", "executions", "events">>][page]
Reading(page) ==
    [finance |-> <<"executions", "tasks", "orders">>,
     orders |-> <<"orders", "tasks", "executions", "events">>][page]

\* A table that a request has not read yet reads as an empty one.
NoRows == [e \in Execs |-> Nobody]
NoOrders == [o \in Orders |-> Nobody]
Unread(page) == [page |-> page, left |-> Reading(page), rows |-> NoRows, tasks |-> {},
                 orders |-> NoOrders, finished |-> {}]

TypeOK == /\ orders \in [Orders -> OrderStatuses \cup {Nobody}]
          /\ finished \subseteq Orders
          /\ again \subseteq Orders
          /\ tasks \subseteq Tasks
          /\ rows \in [Execs -> Rows \cup {Nobody}]
          /\ get \in [page : {"finance", "orders"}, left : Seq(Tables),
                     rows : [Execs -> Rows \cup {Nobody}], tasks : SUBSET Tasks,
                     orders : [Orders -> OrderStatuses \cup {Nobody}],
                     finished : SUBSET Orders]
          /\ \E i \in 1..5 :
                 get.left = SubSeq(Reading(get.page), i, Len(Reading(get.page)))

Init == /\ orders = NoOrders
        /\ finished = {}
        /\ again = {}
        /\ tasks = {}
        /\ rows = NoRows
        /\ get \in {Unread("finance"), Unread("orders")}
-----------------------------------------------------------------------------
\* The writers, as Orders and ExecutionEngine have them.
CreateOrder(o) == /\ orders[o] = Nobody
                  /\ orders' = [orders EXCEPT ![o] = "received"]
                  /\ UNCHANGED <<finished, again, tasks, rows, get>>

MoveOrder(o) ==
    /\ \E s \in OrderStatuses :
          /\ \/ orders[o] = "received" /\ s \in {"dispatched", "failed"}
             \/ orders[o] = "dispatched" /\ s \in {"aggregating", "blocked"}
             \/ orders[o] = "aggregating" /\ s \in {"done", "blocked", "failed"}
          /\ orders' = [orders EXCEPT ![o] = s]
    /\ UNCHANGED <<finished, again, tasks, rows, get>>

\* A dispatch that has read the order as received writes its outcome over whatever it has
\* become; from then on the calls about the order, each with the order it has read, save it
\* over one another.
Overwrite(o) ==
    /\ orders[o] \notin {Nobody, "received"}
    /\ \E s \in {"dispatched", "aggregating", "blocked", "done", "failed"} :
          /\ s \in {"dispatched", "failed"} \/ o \in again
          /\ orders' = [orders EXCEPT ![o] = s]
    /\ again' = again \cup {o}
    /\ UNCHANGED <<finished, tasks, rows, get>>

\* The event comes after the save of the order.
LogDone(o) == /\ orders[o] = "done" \/ o \in again
              /\ finished' = finished \cup {o}
              /\ UNCHANGED <<orders, again, tasks, rows, get>>

CreateTask(t) == /\ t \notin tasks
                 /\ ParentOf[t] # Nobody => orders[ParentOf[t]] # Nobody
                 /\ tasks' = tasks \cup {t}
                 /\ UNCHANGED <<orders, finished, again, rows, get>>

Enqueue(e, t) ==
    /\ rows[e] = Nobody
    /\ t \in tasks
    /\ rows' = [rows EXCEPT ![e] = [task |-> t, executor |-> "claude-code", cost |-> 0,
                    provider |-> Nobody, open |-> TRUE]]
    /\ UNCHANGED <<orders, finished, again, tasks, get>>

Record(e, r) == /\ rows[e] # Nobody
                /\ rows[e].open /\ ~r.open
                /\ r.task = rows[e].task
                /\ r.provider # Nobody => r.executor = "hermes-agent" /\ r.cost > 0
                /\ rows' = [rows EXCEPT ![e] = r]
                /\ UNCHANGED <<orders, finished, again, tasks, get>>

\* The last save of _process, without the usage.
Resave(e) == /\ rows[e] # Nobody
             /\ ~rows[e].open
             /\ rows' = [rows EXCEPT ![e].cost = 0, ![e].provider = Nobody]
             /\ UNCHANGED <<orders, finished, again, tasks, get>>
-----------------------------------------------------------------------------
\* finance_dashboard and orders_dashboard.
Read == /\ get.left # << >>
        /\ get' = LET seen == [get EXCEPT !.left = Tail(@)]
                  IN  CASE Head(get.left) = "executions" -> [seen EXCEPT !.rows = rows]
                        [] Head(get.left) = "tasks" -> [seen EXCEPT !.tasks = tasks]
                        [] Head(get.left) = "orders" -> [seen EXCEPT !.orders = orders]
                        [] Head(get.left) = "events" -> [seen EXCEPT !.finished = finished]
        /\ UNCHANGED <<orders, finished, again, tasks, rows>>

Next == \/ \E o \in Orders : CreateOrder(o) \/ MoveOrder(o) \/ Overwrite(o)
                           \/ LogDone(o)
        \/ \E t \in Tasks : CreateTask(t)
        \/ \E e \in Execs, t \in Tasks : Enqueue(e, t)
        \/ \E e \in Execs, r \in Rows : Record(e, r)
        \/ \E e \in Execs : Resave(e)
        \/ Read

Spec == Init /\ [][Next]_dashVars
-----------------------------------------------------------------------------
\* finance_dashboard.
Priced == {e \in Execs : get.rows[e] # Nobody /\ get.rows[e].cost > 0}
CostOf(execs) == MapThenSumSet(LAMBDA e : get.rows[e].cost, execs)
ByExecutor(x) == CostOf({e \in Priced : get.rows[e].executor = x})
\* A cost without a provider is "desconocido" (mutant: it is left out).
MutByProvider(p) == CostOf({e \in Priced : p # Nobody /\ get.rows[e].provider = p})
ByProvider(p) == CostOf({e \in Priced : get.rows[e].provider = p})
ByTask(t) == CostOf({e \in Priced : get.rows[e].task = t})
ByOrder(o) == MapThenSumSet(ByTask, {t \in get.tasks : ParentOf[t] = o})
Total == CostOf(Priced)

\* orders_dashboard.
WithStatus(statuses) == {o \in Orders : get.orders[o] \in statuses}
Active == WithStatus(ActiveStatuses)
Done == WithStatus({"done"})
FailedOrBlocked == WithStatus({"failed", "blocked"})
Sample == {o \in get.finished : get.orders[o] # Nobody}

\* A finance page adds up: the same total by executor, by provider and by task, and
\* what a subtask has cost is all under its order, which is shown with its status,
\* although the tables changed while they were read.  An order that an orders page has both
\* among the failures and in the average time to a result was written over by a second
\* dispatch.
PagesAddUp ==
    get.left = << >> =>
        /\ Total = MapThenSumSet(ByExecutor, Executors)
        /\ Total = MapThenSumSet(ByProvider, Providers)
        /\ Total = MapThenSumSet(ByTask, Tasks)
        /\ get.page = "finance" =>
              \A o \in Orders :
                 /\ ByOrder(o) = CostOf({e \in Priced : ParentOf[get.rows[e].task] = o})
                 /\ ByOrder(o) > 0 => get.orders[o] # Nobody
        /\ Sample \cap FailedOrBlocked \subseteq again
=============================================================================
