-------------------------------- MODULE Spend --------------------------------
(***************************************************************************)
(* What a day costs.  run() admits an execution on the ledger of the day and *)
(* charges it after its executor has returned: what the usage file of its    *)
(* workspace says, or else what the result says.  Charges are made in the    *)
(* event loop; daily_cycle.py is a process of its own that ingests every     *)
(* usage file into the ledger of its day, and mirrors costs to `gastos`.     *)
(* The row of a day is made by whoever first reads it: ledger_for writes an  *)
(* empty one if it has found none, in pool threads, the loop and the cycle.  *)
(*                                                                           *)
(* In supervised mode an execution runs only if it declares no cost (see     *)
(* Approvals), so the gate compares what is spent with the limit.            *)
(***************************************************************************)
EXTENDS Integers, FiniteSets, FiniteSetsExt

CONSTANTS Runs, Tasks,
          Offices,     \* usage files that offices write
          Syntheses,   \* runs of the aggregator, outside the queue's semaphore
          Slots,       \* max_concurrent_workers
          Readers,     \* who may be first to read the ledger of a day
          Limit,       \* default_daily_budget_usd
          MaxCost,     \* bound: what one executor or office may cost
          MaxDay,      \* bound: days
          MaxCycles,   \* bound: daily cycles
          Nothing      \* no file, no amount, nobody

Costs == 0..MaxCost
Days == 1..MaxDay
Workspaces == Tasks \X {"claude-code", "hermes-agent"}
Files == Workspaces \cup Offices

VARIABLES day,       \* the UTC date
          ledger,    \* ledger[d]: spent_usd; Nothing: no row
          stage,     \* stage[r]: how far run() is
          looking,   \* looking[p]: the day whose row p has found missing
          place,     \* place[r]: its task and first executor
          file,      \* file[f]: the usage file below storage/workspaces
          output,    \* output[o]: the file in the office's own output
          spending,  \* record_spend of the service, between its read and its save
          cycle,     \* the daily cycle under way
          gastos,    \* the rows that cycles have written for offices
          cycles,
          cost,      \* history: cost[r]: what r's executors reported
          due,       \* history: due[r]: what r was charged
          born,      \* history: born[o]: the day of the office's file
          charged,   \* history: charged[d]: what runs charged to d
          kept,      \* history: kept[d]: of which the row holds
          lost       \* history: lost[d]: of which a cycle or a first read overwrote

spendVars == <<day, ledger, stage, looking, place, file, output, spending, cycle, gastos,
               cycles, cost, due, born, charged, kept, lost>>

\* In both, `held` is what the sum that was read holds of the charges of runs.
Spending == [run : Runs, on : Days, sum : Nat, held : Nat]
Cycle == [on : Days, todo : SUBSET Files, read : Nat \cup {Nothing}, amount : Nat,
          held : Nat]

TypeOK == /\ day \in Days
          /\ ledger \in [Days -> Nat \cup {Nothing}]
          /\ looking \in [Readers -> Days \cup {Nothing}]
          /\ stage \in [Runs -> {"new", "working", "fallback", "charging", "charged"}]
          /\ place \in [Runs -> Workspaces \cup {Nothing}]
          /\ \A r \in Runs : stage[r] \in {"working", "fallback"} => place[r] \in Workspaces
          /\ file \in [Files -> Costs \cup {Nothing}]
          /\ output \in [Offices -> Costs \cup {Nothing}]
          /\ spending \in Spending \cup {Nothing}
          /\ cycle \in Cycle \cup {Nothing}
          /\ \A g \in gastos : g.on \in Days /\ g.amount > 0
          /\ cycles \in Nat
          /\ cost \in [Runs -> Nat]
          /\ due \in [Runs -> Costs]
          /\ born \in [Offices -> Days \cup {Nothing}]
          /\ charged \in [Days -> Nat]
          /\ kept \in [Days -> Nat]
          /\ lost \in [Days -> Nat]

Init == /\ day = 1
        /\ ledger = [d \in Days |-> Nothing]
        /\ looking = [p \in Readers |-> Nothing]
        /\ stage = [r \in Runs |-> "new"]
        /\ place = [r \in Runs |-> Nothing]
        /\ file = [f \in Files |-> Nothing]
        /\ output = [o \in Offices |-> Nothing]
        /\ spending = Nothing
        /\ cycle = Nothing
        /\ gastos = {}
        /\ cycles = 0
        /\ cost = [r \in Runs |-> 0]
        /\ due = [r \in Runs |-> 0]
        /\ born = [o \in Offices |-> Nothing]
        /\ charged = [d \in Days |-> 0]
        /\ kept = [d \in Days |-> 0]
        /\ lost = [d \in Days |-> 0]
-----------------------------------------------------------------------------
\* Executions whose charge is still to come.
Open == {r \in Runs : stage[r] \in {"working", "fallback", "charging"}}

\* What the row of a day says, and ledger_for: an empty row is saved if there is none.
Spent(d) == IF ledger[d] = Nothing THEN 0 ELSE ledger[d]
LedgerFor(d) == [ledger EXCEPT ![d] = Spent(d)]

\* ledger_for is a read and a save.  Where others come in between: p finds no row for today
\* (or for the day it was when it was called), or for the day of the cycle...
LookUp(p, d) ==
    /\ looking[p] = Nothing
    /\ ledger[d] = Nothing
    /\ d \in {day, day - 1} \/ (cycle # Nothing /\ cycle.on = d)
    /\ looking' = [looking EXCEPT ![p] = d]
    /\ UNCHANGED <<day, ledger, stage, place, file, output, spending, cycle,
                   gastos, cycles, cost, due, born, charged, kept, lost>>

\* ... and saves an empty one, over what was saved in between.
SaveEmpty(p) ==
    LET d == looking[p]
    IN  /\ d # Nothing
        /\ ledger' = [ledger EXCEPT ![d] = 0]
        /\ lost' = [lost EXCEPT ![d] = @ + kept[d]]
        /\ kept' = [kept EXCEPT ![d] = 0]
        /\ looking' = [looking EXCEPT ![p] = Nothing]
        /\ UNCHANGED <<day, stage, place, file, output, spending, cycle, gastos, cycles,
                       cost, due, born, charged>>
-----------------------------------------------------------------------------
\* can_spend and the presupuesto_restante condition of the automatic approval
\* (mutant: nobody compares).
MutSolvent == TRUE
Solvent == Spent(day) <= Limit

\* A run of the queue has a slot of the semaphore; the synthesis of an order, which the
\* aggregator runs itself, needs none.
Admit(r, w) == /\ stage[r] = "new"
               /\ r \in Syntheses \/ Cardinality(Open \ Syntheses) < Slots
               /\ Solvent
               /\ ledger' = LedgerFor(day)
               /\ stage' = [stage EXCEPT ![r] = "working"]
               /\ place' = [place EXCEPT ![r] = w]
               /\ UNCHANGED <<day, looking, file, output, spending, cycle, gastos,
                              cycles, cost, due, born, charged, kept, lost>>

\* The usage limit: what the first executor reported, if it is anything, is dropped with its
\* result.
Degrade(r, c) == /\ stage[r] = "working"
                 /\ place[r][2] = "claude-code"
                 /\ stage' = [stage EXCEPT ![r] = "fallback"]
                 /\ cost' = [cost EXCEPT ![r] = c]
                 /\ UNCHANGED <<day, ledger, looking, place, file, output, spending, cycle,
                                gastos, cycles, due, born, charged, kept, lost>>

\* Who runs in the end, and so where a usage file is written.
Hermes(r) == stage[r] = "fallback" \/ place[r][2] = "hermes-agent"
Target(r) == IF Hermes(r) THEN <<place[r][1], "hermes-agent">> ELSE place[r]

\* What run() charges when the last executor reported c: the file of the workspace
\* it began with, whoever wrote it, or else the total in the result, which only
\* claude-code fills in.
Charge(r, files, c) == IF files[place[r]] # Nothing THEN files[place[r]]
                       ELSE IF Hermes(r) \/ c = Nothing THEN 0 ELSE c

\* The executor returns with a report (Nothing: without one), and record_spend
\* reads the ledger; nothing else of the event loop comes in between.  Its place is a
\* variable of the call.
Return(r, c) ==
    LET files == IF Hermes(r) /\ c # Nothing THEN [file EXCEPT ![Target(r)] = c] ELSE file
        amount == Charge(r, files, c)
    IN  /\ stage[r] \in {"working", "fallback"}
        /\ spending = Nothing
        /\ ledger' = IF amount > 0 THEN LedgerFor(day) ELSE ledger
        /\ file' = files
        /\ place' = [place EXCEPT ![r] = Nothing]
        /\ cost' = [cost EXCEPT ![r] = IF c = Nothing THEN @ ELSE @ + c]
        /\ due' = [due EXCEPT ![r] = amount]
        /\ stage' = [stage EXCEPT ![r] = IF amount > 0 THEN "charging" ELSE "charged"]
        /\ spending' = IF amount > 0
                       THEN [run |-> r, on |-> day, sum |-> Spent(day) + amount,
                             held |-> kept[day]]
                       ELSE Nothing
        /\ UNCHANGED <<day, looking, output, cycle, gastos, cycles, born,
                       charged, kept, lost>>

\* save_budget_state.
Save == LET r == spending.run
            d == spending.on
        IN  /\ spending # Nothing
            /\ ledger' = [ledger EXCEPT ![d] = spending.sum]
            /\ charged' = [charged EXCEPT ![d] = @ + due[r]]
            /\ kept' = [kept EXCEPT ![d] = spending.held + due[r]]
            /\ stage' = [stage EXCEPT ![r] = "charged"]
            /\ spending' = Nothing
            /\ UNCHANGED <<day, looking, place, file, output, cycle, gastos, cycles, cost,
                           due, born, lost>>
-----------------------------------------------------------------------------
\* An office leaves a usage file; one that says 0 would change no sum.
OfficeWrites(o, c) == /\ output[o] = Nothing
                      /\ output' = [output EXCEPT ![o] = c]
                      /\ born' = [born EXCEPT ![o] = day]
                      /\ UNCHANGED <<day, ledger, looking, stage, place, file, spending,
                                     cycle, gastos, cycles, cost, due, charged, kept, lost>>

\* sync_office_usage_to_workspaces, whenever the finance dashboard is asked for.
Mirrored == [f \in Files |-> IF f \in Offices /\ file[f] = Nothing THEN output[f]
                             ELSE file[f]]
Sync == /\ file' = Mirrored
        /\ UNCHANGED <<day, ledger, looking, stage, place, output, spending, cycle, gastos,
                       cycles, cost, due, born, charged, kept, lost>>

\* run_cycle ingests what is below storage/workspaces to the ledger of the local
\* date, which near midnight is not the UTC one.
StartCycle(d) ==
    /\ cycle = Nothing
    /\ cycles < MaxCycles
    /\ d \in {day, day - 1}
    /\ cycles' = cycles + 1
    /\ ledger' = LedgerFor(d)
    /\ cycle' = [on |-> d, todo |-> {f \in Files : file[f] # Nothing}, read |-> Nothing,
                 amount |-> 0, held |-> 0]
    /\ UNCHANGED <<day, looking, stage, place, file, output, spending, gastos, cost,
                   due, born, charged, kept, lost>>

\* ingest_usage_file, and the read and the save of its record_spend.
Ingest(f) == /\ cycle # Nothing
             /\ f \in cycle.todo
             /\ cycle.read = Nothing
             /\ cycle' = [cycle EXCEPT !.todo = @ \ {f},
                                       !.read = IF file[f] > 0 THEN Spent(cycle.on) ELSE @,
                                       !.amount = file[f],
                                       !.held = kept[cycle.on]]
             /\ UNCHANGED <<day, ledger, looking, stage, place, file, output, spending,
                            gastos, cycles, cost, due, born, charged, kept, lost>>

\* (mutant: the sum is forgotten)
MutIngested == cycle.amount
Ingested == cycle.read + cycle.amount

\* Charges the row holds and the cycle's sum does not.
Overwritten == IF kept[cycle.on] > cycle.held THEN kept[cycle.on] - cycle.held ELSE 0

SaveIngested ==
    /\ cycle # Nothing
    /\ cycle.read # Nothing
    /\ ledger' = [ledger EXCEPT ![cycle.on] = Ingested]
    /\ kept' = [kept EXCEPT ![cycle.on] = cycle.held]
    /\ lost' = [lost EXCEPT ![cycle.on] = @ + Overwritten]
    /\ cycle' = [cycle EXCEPT !.read = Nothing, !.held = 0]
    /\ UNCHANGED <<day, looking, stage, place, file, output, spending, gastos, cycles, cost,
                   due, born, charged>>

\* office_usage_costs: what all the mirrored files say.
OfficeCosts == MapThenSumSet(LAMBDA o : Mirrored[o],
                             {o \in Offices : Mirrored[o] # Nothing})

\* write_finance_and_orders_snapshot writes that as the day's row, if Baserow takes it.
Snapshot == /\ cycle # Nothing
            /\ cycle.todo = {}
            /\ cycle.read = Nothing
            /\ file' = Mirrored
            /\ \/ /\ OfficeCosts > 0
                  /\ gastos' = gastos \cup {[on |-> day, amount |-> OfficeCosts]}
               \/ gastos' = gastos
            /\ cycle' = Nothing
            /\ UNCHANGED <<day, ledger, looking, stage, place, output, spending, cycles,
                           cost, due, born, charged, kept, lost>>

NextDay == /\ day < MaxDay
           /\ day' = day + 1
           /\ UNCHANGED <<ledger, looking, stage, place, file, output, spending, cycle,
                          gastos, cycles, cost, due, born, charged, kept, lost>>

Next == \/ \E p \in Readers, d \in Days : LookUp(p, d)
        \/ \E p \in Readers : SaveEmpty(p)
        \/ \E r \in Runs, w \in Workspaces : Admit(r, w)
        \/ \E r \in Runs, c \in Costs \ {0} : Degrade(r, c)
        \/ \E r \in Runs, c \in Costs \cup {Nothing} : Return(r, c)
        \/ Save
        \/ \E o \in Offices, c \in Costs \ {0} : OfficeWrites(o, c)
        \/ Sync
        \/ \E d \in Days : StartCycle(d)
        \/ \E f \in Files : Ingest(f)
        \/ SaveIngested
        \/ Snapshot
        \/ NextDay

Spec == Init /\ [][Next]_spendVars
-----------------------------------------------------------------------------
\* The ledger of a day holds what runs charged to it, but for what a daily cycle that had
\* read it before overwrote, or somebody who had found no row yet and saved an empty one:
\* no charge is lost to another.
ChargesKept == \A d \in Days : charged[d] - lost[d] <= Spent(d)

\* The gate is looked at when a run begins and the charge made when it ends, maybe on
\* the next day.  However they interleave, a day is charged at most one execution per
\* slot and one per synthesis beyond its limit, and again what was overwritten.
OverspendBounded ==
    \A d \in Days : charged[d] - lost[d] <= Limit + MaxCost * (Slots + Cardinality(Syntheses))

\* "Reconcile whatever this specific run actually cost ... exactly-once even across
\* many task runs" (execution_service.py).
ChargedExactly == \A r \in Runs : stage[r] = "charged" => due[r] = cost[r]

\* A row "gasto agregado del dia" is not more than what offices spent on that day.
DailyExpenses ==
    \A row \in gastos :
        row.amount <= MapThenSumSet(LAMBDA o : output[o],
                                    {o \in Offices : born[o] = row.on})
=============================================================================
