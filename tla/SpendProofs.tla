------------------------------ MODULE SpendProofs ------------------------------
(***************************************************************************)
(* What a day is charged: that a charge is lost only to a daily cycle or to a *)
(* first read of the day, and that a day exceeds its limit by no more than   *)
(* one execution per slot and one per synthesis, for every number of runs,   *)
(* syntheses, offices, slots, readers, days and daily cycles.                *)
(***************************************************************************)
EXTENDS Services, FiniteSetTheorems, TLAPS

\* Cardinality is the same operator in every instance.
LEMMA MoneyCardinality == ASSUME NEW S PROVE Money!Cardinality(S) = Cardinality(S)
BY DEF Cardinality, Money!Cardinality

\* What a cycle is still to ingest is there to be read.
SpendTypes ==
    /\ Money!TypeOK
    /\ cycle # Nothing => \A f \in cycle.todo : file[f] # Nothing

LEMMA SpendTypesInitially == Money!Init => SpendTypes
<1> USE ServicesAssumption
<1> SUFFICES ASSUME Money!Init PROVE SpendTypes
  OBVIOUS
<1>1. 1 \in Money!Days /\ 0 \in Money!Costs
  BY DEF Money!Days, Money!Costs
<1> QED
  BY <1>1 DEF Money!Init, SpendTypes, Money!TypeOK

\* What run() charges is a cost, of the file that is there then or of the result.
LEMMA ChargeIsCost ==
    ASSUME SpendTypes, NEW r \in SpendRuns, stage[r] \in {"working", "fallback"},
           NEW files \in [Money!Files -> Money!Costs \cup {Nothing}],
           NEW c \in Money!Costs \cup {Nothing}
    PROVE  /\ Money!Charge(r, files, c) \in Money!Costs
           /\ Money!Charge(r, files, c) \in Nat
           /\ Money!Target(r) \in Money!Files
<1>1. place[r] \in Money!Workspaces /\ place[r] \in Money!Files
  BY DEF SpendTypes, Money!TypeOK, Money!Files
<1>2. 0 \in Money!Costs /\ Money!Costs \subseteq Nat
  BY ServicesAssumption DEF Money!Costs
<1>3. Money!Charge(r, files, c) \in Money!Costs
  BY <1>1, <1>2 DEF Money!Charge
<1>4. <<place[r][1], "hermes-agent">> \in Money!Workspaces
  BY <1>1 DEF Money!Workspaces
<1> QED
  BY <1>1, <1>2, <1>3, <1>4 DEF Money!Target, Money!Files

\* ledger_for makes a row and changes no sum.
LEMMA RowMade ==
    ASSUME SpendTypes, NEW d \in Money!Days
    PROVE  /\ Money!Spent(d) \in Nat
           /\ Money!LedgerFor(d) \in [Money!Days -> Nat \cup {Nothing}]
           /\ ledger' = Money!LedgerFor(d) =>
                  \A e \in Money!Days : Money!Spent(e)' = Money!Spent(e)
<1>1. ledger \in [Money!Days -> Nat \cup {Nothing}]
  BY DEF SpendTypes, Money!TypeOK
<1>2. Nothing \notin Nat
  BY ServicesAssumption
<1> QED
  BY <1>1, <1>2 DEF Money!Spent, Money!LedgerFor

\* A save changes the sum of its day.
LEMMA RowSaved ==
    ASSUME SpendTypes, NEW d \in Money!Days, NEW x \in Nat, ledger' = [ledger EXCEPT ![d] = x]
    PROVE  /\ Money!Spent(d)' = x
           /\ \A e \in Money!Days : e # d => Money!Spent(e)' = Money!Spent(e)
<1>1. ledger'[d] = x /\ \A e \in Money!Days : e # d => ledger'[e] = ledger[e]
  BY DEF SpendTypes, Money!TypeOK
<1>2. Nothing \notin Nat
  BY ServicesAssumption
<1> QED
  BY <1>1, <1>2 DEF Money!Spent

\* Each action keeps the types, and no usage file is ever taken away.
LEMMA SpendTypesStep == SpendTypes /\ [Money!Next]_moneyVars => SpendTypes'
<1> SUFFICES ASSUME SpendTypes, [Money!Next]_moneyVars PROVE SpendTypes'
  OBVIOUS
<1>0. Money!Costs \subseteq Nat /\ Nothing \notin Nat /\ 0 \in Money!Costs
      /\ \A d \in Money!Days : d \in Nat
  BY ServicesAssumption DEF Money!Costs, Money!Days
<1>1. ASSUME NEW r \in SpendRuns, NEW w \in Money!Workspaces, Money!Admit(r, w)
      PROVE  SpendTypes'
  <2>1. ledger' \in [Money!Days -> Nat \cup {Nothing}]
    BY <1>1, RowMade DEF Money!Admit, SpendTypes, Money!TypeOK
  <2> QED
    BY <1>1, <2>1 DEF Money!Admit, SpendTypes, Money!TypeOK
<1>2. ASSUME NEW r \in SpendRuns, NEW c \in Money!Costs, Money!Degrade(r, c)
      PROVE  SpendTypes'
  BY <1>0, <1>2 DEF Money!Degrade, SpendTypes, Money!TypeOK
<1>3. ASSUME NEW r \in SpendRuns, NEW c \in Money!Costs \cup {Nothing}, Money!Return(r, c)
      PROVE  SpendTypes'
  <2> DEFINE files == IF Money!Hermes(r) /\ c # Nothing
                      THEN [file EXCEPT ![Money!Target(r)] = c] ELSE file
             amount == Money!Charge(r, files, c)
  <2>1. /\ stage[r] \in {"working", "fallback"}
        /\ spending = Nothing
        /\ file' = files
        /\ cost' = [cost EXCEPT ![r] = IF c = Nothing THEN @ ELSE @ + c]
        /\ due' = [due EXCEPT ![r] = amount]
        /\ stage' = [stage EXCEPT ![r] = IF amount > 0 THEN "charging" ELSE "charged"]
        /\ spending' = IF amount > 0
                       THEN [run |-> r, on |-> day, sum |-> Money!Spent(day) + amount,
                             held |-> kept[day]]
                       ELSE Nothing
        /\ ledger' = IF amount > 0 THEN Money!LedgerFor(day) ELSE ledger
        /\ place' = [place EXCEPT ![r] = Nothing]
        /\ UNCHANGED <<day, looking, output, cycle, gastos, cycles, born, charged, kept, lost>>
    BY <1>3 DEF Money!Return
  <2>2. files \in [Money!Files -> Money!Costs \cup {Nothing}]
        /\ \A f \in Money!Files : file[f] # Nothing => files[f] # Nothing
    BY DEF SpendTypes, Money!TypeOK
  <2>3. amount \in Money!Costs /\ amount \in Nat
    BY <2>1, <2>2, ChargeIsCost
  <2> HIDE DEF files, amount
  <2>4. spending' \in Money!Spending \cup {Nothing}
    <3>1. Money!Spent(day) \in Nat
      BY RowMade DEF SpendTypes, Money!TypeOK
    <3> QED
      BY <2>1, <2>3, <3>1 DEF SpendTypes, Money!TypeOK, Money!Spending
  <2>5. cost' \in [SpendRuns -> Nat]
    <3>1. (IF c = Nothing THEN cost[r] ELSE cost[r] + c) \in Nat
      BY <1>0 DEF SpendTypes, Money!TypeOK
    <3> QED
      BY <2>1, <3>1 DEF SpendTypes, Money!TypeOK
  <2>6. due' \in [SpendRuns -> Money!Costs]
    BY <2>1, <2>3 DEF SpendTypes, Money!TypeOK
  <2>7. /\ stage' \in [SpendRuns -> {"new", "working", "fallback", "charging", "charged"}]
        /\ \A q \in SpendRuns : stage'[q] \in {"working", "fallback"} =>
               place'[q] \in Money!Workspaces
        /\ place' \in [SpendRuns -> Money!Workspaces \cup {Nothing}]
    BY <2>1 DEF SpendTypes, Money!TypeOK
  <2>8. cycle # Nothing => \A f \in cycle.todo : f \in Money!Files
    BY DEF SpendTypes, Money!TypeOK, Money!Cycle
  <2>9. ledger' \in [Money!Days -> Nat \cup {Nothing}]
    BY <2>1, RowMade DEF SpendTypes, Money!TypeOK
  <2> QED
    BY <2>1, <2>2, <2>4, <2>5, <2>6, <2>7, <2>8, <2>9 DEF SpendTypes, Money!TypeOK
<1>4. ASSUME Money!Save PROVE SpendTypes'
  <2> DEFINE r == spending.run
             d == spending.on
  <2>0. spending \in Money!Spending
    BY <1>4 DEF Money!Save, SpendTypes, Money!TypeOK
  <2>1. r \in SpendRuns /\ d \in Money!Days /\ spending.sum \in Nat /\ due[r] \in Nat
    BY <1>0, <2>0 DEF Money!Spending, SpendTypes, Money!TypeOK
  <2>2. /\ ledger' = [ledger EXCEPT ![d] = spending.sum]
        /\ charged' = [charged EXCEPT ![d] = @ + due[r]]
        /\ stage' = [stage EXCEPT ![r] = "charged"]
        /\ spending' = Nothing
        /\ kept' = [kept EXCEPT ![d] = spending.held + due[r]]
        /\ UNCHANGED <<day, looking, place, file, output, cycle, gastos, cycles, cost, due,
                       born, lost>>
    BY <1>4 DEF Money!Save
  <2>3. spending.held + due[r] \in Nat
    BY <2>0, <2>1 DEF Money!Spending
  <2> HIDE DEF r, d
  <2>4. /\ ledger' \in [Money!Days -> Nat \cup {Nothing}]
        /\ charged' \in [Money!Days -> Nat] /\ kept' \in [Money!Days -> Nat]
    BY <2>1, <2>2, <2>3 DEF SpendTypes, Money!TypeOK
  <2>5. /\ stage' \in [SpendRuns -> {"new", "working", "fallback", "charging", "charged"}]
        /\ \A q \in SpendRuns : stage'[q] \in {"working", "fallback"} =>
               place'[q] \in Money!Workspaces
    BY <2>1, <2>2 DEF SpendTypes, Money!TypeOK
  <2> QED
    BY <2>2, <2>4, <2>5 DEF SpendTypes, Money!TypeOK
<1>5. ASSUME NEW o \in UsageOffices, NEW c \in Money!Costs, Money!OfficeWrites(o, c)
      PROVE  SpendTypes'
  BY <1>5 DEF Money!OfficeWrites, SpendTypes, Money!TypeOK
<1>6. /\ Money!Mirrored \in [Money!Files -> Money!Costs \cup {Nothing}]
      /\ \A f \in Money!Files : file[f] # Nothing => Money!Mirrored[f] # Nothing
  BY DEF SpendTypes, Money!TypeOK, Money!Mirrored
<1>7. ASSUME Money!Sync PROVE SpendTypes'
  <2>1. cycle # Nothing => \A f \in cycle.todo : f \in Money!Files
    BY DEF SpendTypes, Money!TypeOK, Money!Cycle
  <2> QED
    BY <1>6, <1>7, <2>1 DEF Money!Sync, SpendTypes, Money!TypeOK
<1>8. ASSUME NEW d \in Money!Days, Money!StartCycle(d) PROVE SpendTypes'
  <2>1. cycle' \in Money!Cycle /\ \A f \in cycle'.todo : file[f] # Nothing
    BY <1>8 DEF Money!StartCycle, Money!Cycle
  <2>2. cycles' \in Nat
    BY <1>8 DEF Money!StartCycle, SpendTypes, Money!TypeOK
  <2>3. ledger' \in [Money!Days -> Nat \cup {Nothing}]
    BY <1>8, RowMade DEF Money!StartCycle
  <2> QED
    BY <1>8, <2>1, <2>2, <2>3 DEF Money!StartCycle, SpendTypes, Money!TypeOK
<1>9. ASSUME NEW f \in Money!Files, Money!Ingest(f) PROVE SpendTypes'
  <2>1. /\ cycle \in Money!Cycle /\ file[f] \in Nat
        /\ Money!Spent(cycle.on) \in Nat /\ kept[cycle.on] \in Nat
    BY <1>0, <1>9, RowMade DEF Money!Ingest, SpendTypes, Money!TypeOK, Money!Cycle
  <2>2. cycle' \in Money!Cycle /\ cycle'.todo \subseteq cycle.todo /\ cycle # Nothing
    BY <1>9, <2>1 DEF Money!Ingest, Money!Cycle
  <2> QED
    BY <1>9, <2>2 DEF Money!Ingest, SpendTypes, Money!TypeOK
<1>10. ASSUME Money!SaveIngested PROVE SpendTypes'
  <2>1. cycle \in Money!Cycle /\ cycle.read \in Nat /\ cycle # Nothing
    BY <1>10 DEF Money!SaveIngested, SpendTypes, Money!TypeOK, Money!Cycle
  <2>2. Money!Ingested \in Nat
    BY <2>1 DEF Money!Ingested, Money!Cycle
  <2>3. cycle' \in Money!Cycle /\ cycle'.todo = cycle.todo
    BY <1>10, <2>1 DEF Money!SaveIngested, Money!Cycle
  <2>4. cycle.on \in Money!Days /\ cycle.held \in Nat /\ kept[cycle.on] \in Nat
    BY <2>1 DEF Money!Cycle, SpendTypes, Money!TypeOK
  <2>5. Money!Overwritten \in Nat
    BY <2>4 DEF Money!Overwritten
  <2>6. /\ ledger' \in [Money!Days -> Nat \cup {Nothing}]
        /\ lost' \in [Money!Days -> Nat] /\ kept' \in [Money!Days -> Nat]
    BY <1>10, <2>2, <2>4, <2>5 DEF Money!SaveIngested, SpendTypes, Money!TypeOK
  <2> QED
    BY <1>10, <2>1, <2>3, <2>6 DEF Money!SaveIngested, SpendTypes, Money!TypeOK
<1>11. ASSUME Money!Snapshot PROVE SpendTypes'
  <2>1. \A g \in gastos' : g.on \in Money!Days /\ g.amount > 0
    BY <1>11 DEF Money!Snapshot, SpendTypes, Money!TypeOK
  <2>2. file' = Money!Mirrored /\ cycle' = Nothing
        /\ UNCHANGED <<day, ledger, looking, stage, place, output, spending, cycles, cost,
                       due, born, charged, kept, lost>>
    BY <1>11 DEF Money!Snapshot
  <2> QED
    BY <1>6, <2>1, <2>2 DEF SpendTypes, Money!TypeOK
<1>12. ASSUME Money!NextDay PROVE SpendTypes'
  <2>1. day' \in Money!Days
    BY <1>12, ServicesAssumption DEF Money!NextDay, SpendTypes, Money!TypeOK, Money!Days
  <2> QED
    BY <1>12, <2>1 DEF Money!NextDay, SpendTypes, Money!TypeOK
<1>13. ASSUME UNCHANGED moneyVars PROVE SpendTypes'
  BY <1>13 DEF moneyVars, SpendTypes, Money!TypeOK
<1>14. ASSUME NEW p \in LedgerReaders, NEW d \in Money!Days, Money!LookUp(p, d)
       PROVE  SpendTypes'
  BY <1>14 DEF Money!LookUp, SpendTypes, Money!TypeOK
<1>15. ASSUME NEW p \in LedgerReaders, Money!SaveEmpty(p) PROVE SpendTypes'
  <2>1. looking[p] \in Money!Days
    BY <1>15 DEF Money!SaveEmpty, SpendTypes, Money!TypeOK
  <2>2. lost[looking[p]] + kept[looking[p]] \in Nat
    BY <2>1 DEF SpendTypes, Money!TypeOK
  <2> QED
    BY <1>15, <2>1, <2>2 DEF Money!SaveEmpty, SpendTypes, Money!TypeOK
<1> QED
  BY <1>1, <1>2, <1>3, <1>4, <1>5, <1>7, <1>8, <1>9, <1>10, <1>11, <1>12, <1>13, <1>14, <1>15
     DEF Money!Next

\* What a return does to the ledger's bookkeeping: it charges some cost, and begins the
\* save of it if it is not nothing.
LEMMA ReturnCharges ==
    ASSUME SpendTypes, NEW r \in SpendRuns, NEW c \in Money!Costs \cup {Nothing},
           Money!Return(r, c)
    PROVE  \E amount \in Nat :
              /\ amount \in Money!Costs
              /\ spending = Nothing
              /\ stage[r] \in {"working", "fallback"}
              /\ due' = [due EXCEPT ![r] = amount]
              /\ stage' = [stage EXCEPT ![r] = IF amount > 0 THEN "charging" ELSE "charged"]
              /\ spending' = IF amount > 0
                             THEN [run |-> r, on |-> day, sum |-> Money!Spent(day) + amount,
                                   held |-> kept[day]]
                             ELSE Nothing
              /\ ledger' = IF amount > 0 THEN Money!LedgerFor(day) ELSE ledger
              /\ UNCHANGED <<day, cycle, charged, kept, lost>>
<1> DEFINE files == IF Money!Hermes(r) /\ c # Nothing
                    THEN [file EXCEPT ![Money!Target(r)] = c] ELSE file
           amount == Money!Charge(r, files, c)
<1>1. files \in [Money!Files -> Money!Costs \cup {Nothing}]
  BY DEF SpendTypes, Money!TypeOK
<1>2. stage[r] \in {"working", "fallback"}
  BY DEF Money!Return
<1>3. amount \in Money!Costs /\ amount \in Nat
  BY <1>1, <1>2, ChargeIsCost
<1>4. /\ spending = Nothing
      /\ due' = [due EXCEPT ![r] = amount]
      /\ stage' = [stage EXCEPT ![r] = IF amount > 0 THEN "charging" ELSE "charged"]
      /\ spending' = IF amount > 0
                     THEN [run |-> r, on |-> day, sum |-> Money!Spent(day) + amount,
                           held |-> kept[day]]
                     ELSE Nothing
      /\ ledger' = IF amount > 0 THEN Money!LedgerFor(day) ELSE ledger
      /\ UNCHANGED <<day, cycle, charged, kept, lost>>
  BY DEF Money!Return
<1> HIDE DEF files, amount
<1> QED
  BY <1>2, <1>3, <1>4

\* The row of a day holds all that runs charged to it and nobody overwrote.
RowsHold == \A d \in Money!Days : /\ charged[d] - lost[d] <= kept[d]
                                  /\ kept[d] <= Money!Spent(d)

\* What stands between a read of the ledger and its save: the service's save will hold that
\* and the charge it is for; a cycle's, at least what of it it has read.
SpendInv ==
    /\ SpendTypes
    /\ RowsHold
    /\ spending # Nothing =>
           /\ stage[spending.run] = "charging"
           /\ spending.on <= day
           /\ charged[spending.on] - lost[spending.on] <= spending.held
           /\ spending.held + due[spending.run] <= spending.sum
    /\ cycle # Nothing /\ cycle.read # Nothing => cycle.held <= cycle.read

LEMMA SpendInitially == Money!Init => SpendInv
<1> SUFFICES ASSUME Money!Init PROVE SpendInv
  OBVIOUS
<1>1. \A d \in Money!Days : charged[d] = 0 /\ lost[d] = 0 /\ kept[d] = 0 /\ Money!Spent(d) = 0
  BY DEF Money!Init, Money!Spent
<1> QED
  BY <1>1, SpendTypesInitially DEF Money!Init, SpendInv, RowsHold

\* So the ledger holds what was charged and not overwritten.
LEMMA Held ==
    ASSUME SpendInv, NEW d \in Money!Days
    PROVE  charged[d] - lost[d] <= Money!Spent(d) /\ Money!Spent(d) \in Nat
<1>1. charged[d] \in Nat /\ lost[d] \in Nat /\ kept[d] \in Nat /\ Money!Spent(d) \in Nat
  BY RowMade DEF SpendInv, SpendTypes, Money!TypeOK
<1> QED
  BY <1>1 DEF SpendInv, RowsHold

\* Nothing changes for a step that makes no charge, leaves the sums alone and reads none.
LEMMA NothingCharged ==
    ASSUME SpendInv, SpendTypes', UNCHANGED <<spending, due, charged, kept, lost>>,
           \A d \in Money!Days : Money!Spent(d)' = Money!Spent(d),
           spending # Nothing => stage'[spending.run] = stage[spending.run],
           day' = day \/ day' = day + 1,
           cycle' = cycle \/ cycle' = Nothing \/ cycle'.read = Nothing
    PROVE  SpendInv'
<1>1. RowsHold'
  BY DEF SpendInv, RowsHold
<1>2. spending # Nothing => spending.on <= day'
  <2>1. SpendTypes /\ \A d \in Money!Days : d \in Nat
    BY DEF SpendInv, Money!Days
  <2>2. day \in Nat /\ (spending # Nothing => spending.on \in Nat)
    BY <2>1 DEF SpendTypes, Money!TypeOK, Money!Spending
  <2> QED
    BY <2>2 DEF SpendInv
<1> QED
  BY <1>1, <1>2 DEF SpendInv

LEMMA SpendStep == SpendInv /\ [Money!Next]_moneyVars => SpendInv'
<1> SUFFICES ASSUME SpendInv, [Money!Next]_moneyVars PROVE SpendInv'
  OBVIOUS
<1>0. /\ SpendTypes' /\ SpendTypes
      /\ Money!Costs \subseteq Nat /\ Nothing \notin Nat /\ 0 \in Money!Costs
      /\ day \in Nat /\ \A d \in Money!Days : d \in Nat
  <2>1. SpendTypes' /\ SpendTypes
    BY SpendTypesStep DEF SpendInv
  <2>2. /\ Money!Costs \subseteq Nat /\ Nothing \notin Nat /\ 0 \in Money!Costs
        /\ \A d \in Money!Days : d \in Nat
    BY ServicesAssumption DEF Money!Costs, Money!Days
  <2> QED
    BY <2>1, <2>2 DEF SpendTypes, Money!TypeOK
<1>a. \A d \in Money!Days : /\ charged[d] \in Nat /\ lost[d] \in Nat /\ kept[d] \in Nat
                            /\ Money!Spent(d) \in Nat
                            /\ charged[d] - lost[d] <= kept[d] /\ kept[d] <= Money!Spent(d)
  BY <1>0, RowMade DEF SpendInv, RowsHold, SpendTypes, Money!TypeOK
<1>b. spending # Nothing =>
          /\ spending.run \in SpendRuns /\ spending.on \in Money!Days
          /\ spending.sum \in Nat /\ spending.held \in Nat /\ due[spending.run] \in Nat
          /\ stage[spending.run] = "charging"
  BY <1>0 DEF SpendInv, SpendTypes, Money!TypeOK, Money!Spending
<1>c. cycle # Nothing => /\ cycle \in Money!Cycle /\ cycle.on \in Money!Days
                         /\ cycle.amount \in Nat /\ cycle.held \in Nat
                         /\ cycle.read # Nothing => cycle.read \in Nat
  BY <1>0 DEF SpendTypes, Money!TypeOK, Money!Cycle
<1>d. ledger' = ledger => \A d \in Money!Days : Money!Spent(d)' = Money!Spent(d)
  BY DEF Money!Spent
<1>1. ASSUME NEW r \in SpendRuns, NEW w \in Money!Workspaces, Money!Admit(r, w)
      PROVE  SpendInv'
  <2>1. /\ stage[r] = "new" /\ stage' = [stage EXCEPT ![r] = "working"]
        /\ ledger' = Money!LedgerFor(day)
        /\ UNCHANGED <<day, spending, cycle, due, charged, kept, lost>>
    BY <1>1 DEF Money!Admit
  <2>2. spending # Nothing => stage'[spending.run] = stage[spending.run]
    BY <1>0, <1>b, <2>1 DEF SpendTypes, Money!TypeOK
  <2>3. \A d \in Money!Days : Money!Spent(d)' = Money!Spent(d)
    BY <1>0, <2>1, RowMade DEF SpendTypes, Money!TypeOK
  <2> QED
    BY <1>0, <2>1, <2>2, <2>3, NothingCharged
<1>2. ASSUME NEW r \in SpendRuns, NEW c \in Money!Costs, Money!Degrade(r, c)
      PROVE  SpendInv'
  <2>1. spending # Nothing => stage'[spending.run] = stage[spending.run]
    BY <1>0, <1>2, <1>b DEF Money!Degrade, SpendTypes, Money!TypeOK
  <2> QED
    BY <1>0, <1>2, <1>d, <2>1, NothingCharged DEF Money!Degrade
<1>3. ASSUME NEW r \in SpendRuns, NEW c \in Money!Costs \cup {Nothing}, Money!Return(r, c)
      PROVE  SpendInv'
  <2>1. PICK amount \in Nat :
            /\ due' = [due EXCEPT ![r] = amount]
            /\ stage' = [stage EXCEPT ![r] = IF amount > 0 THEN "charging" ELSE "charged"]
            /\ spending' = IF amount > 0
                           THEN [run |-> r, on |-> day, sum |-> Money!Spent(day) + amount,
                                 held |-> kept[day]]
                           ELSE Nothing
            /\ ledger' = IF amount > 0 THEN Money!LedgerFor(day) ELSE ledger
            /\ UNCHANGED <<day, cycle, charged, kept, lost>>
    BY <1>0, <1>3, ReturnCharges
  <2>2. spending' # Nothing =>
            /\ spending'.run = r /\ spending'.on = day /\ spending'.held = kept[day]
            /\ spending'.sum = Money!Spent(day) + amount
            /\ stage'[r] = "charging" /\ due'[r] = amount
    BY <1>0, <2>1 DEF SpendTypes, Money!TypeOK
  <2>3. day \in Money!Days
    BY <1>0 DEF SpendTypes, Money!TypeOK
  <2>4. \A d \in Money!Days : Money!Spent(d)' = Money!Spent(d)
    BY <1>0, <1>d, <2>1, <2>3, RowMade
  <2>5. RowsHold'
    BY <1>a, <2>1, <2>4 DEF RowsHold
  <2>6. spending' # Nothing =>
            /\ stage'[spending'.run] = "charging"
            /\ spending'.on <= day'
            /\ charged'[spending'.on] - lost'[spending'.on] <= spending'.held
            /\ spending'.held + due'[spending'.run] <= spending'.sum
    BY <1>0, <1>a, <2>1, <2>2, <2>3
  <2>7. cycle' # Nothing /\ cycle'.read # Nothing => cycle'.held <= cycle'.read
    BY <2>1 DEF SpendInv
  <2> QED
    BY <1>0, <2>5, <2>6, <2>7 DEF SpendInv
<1>4. ASSUME Money!Save PROVE SpendInv'
  <2> DEFINE r == spending.run
  <2>0. PICK d \in Money!Days : d = spending.on
    BY <1>4, <1>b DEF Money!Save
  <2>1. /\ spending # Nothing
        /\ ledger' = [ledger EXCEPT ![d] = spending.sum]
        /\ charged' = [charged EXCEPT ![d] = @ + due[r]]
        /\ kept' = [kept EXCEPT ![d] = spending.held + due[r]]
        /\ spending' = Nothing
        /\ UNCHANGED <<day, lost, cycle>>
    BY <1>4, <2>0 DEF Money!Save
  <2>2. /\ r \in SpendRuns /\ d \in Money!Days /\ due[r] \in Nat
        /\ spending.held \in Nat /\ spending.sum \in Nat
        /\ charged[d] - lost[d] <= spending.held
        /\ spending.held + due[r] <= spending.sum
    BY <1>b, <2>0, <2>1 DEF SpendInv
  <2> HIDE DEF r
  <2>3. /\ \A e \in Money!Days : e # d => /\ charged'[e] = charged[e] /\ kept'[e] = kept[e]
                                          /\ Money!Spent(e)' = Money!Spent(e)
        /\ charged'[d] = charged[d] + due[r] /\ kept'[d] = spending.held + due[r]
        /\ Money!Spent(d)' = spending.sum
    BY <1>0, <2>1, <2>2, RowSaved DEF SpendTypes, Money!TypeOK
  <2>4. RowsHold'
    <3> SUFFICES ASSUME NEW e \in Money!Days
                 PROVE  /\ charged'[e] - lost'[e] <= kept'[e]
                        /\ kept'[e] <= Money!Spent(e)'
      BY DEF RowsHold
    <3>1. CASE e = d
      BY <1>a, <2>1, <2>2, <2>3, <3>1
    <3>2. CASE e # d
      BY <1>a, <2>1, <2>3, <3>2
    <3> QED
      BY <3>1, <3>2
  <2> QED
    BY <1>0, <2>1, <2>4 DEF SpendInv
<1>5. ASSUME NEW o \in UsageOffices, NEW c \in Money!Costs, Money!OfficeWrites(o, c)
      PROVE  SpendInv'
  BY <1>0, <1>5, <1>d, NothingCharged DEF Money!OfficeWrites
<1>6. ASSUME Money!Sync PROVE SpendInv'
  BY <1>0, <1>6, <1>d, NothingCharged DEF Money!Sync
<1>7. ASSUME NEW d \in Money!Days, Money!StartCycle(d) PROVE SpendInv'
  <2>1. cycle'.read = Nothing
    BY <1>7 DEF Money!StartCycle
  <2>2. \A e \in Money!Days : Money!Spent(e)' = Money!Spent(e)
    BY <1>0, <1>7, RowMade DEF Money!StartCycle
  <2> QED
    BY <1>0, <1>7, <2>1, <2>2, NothingCharged DEF Money!StartCycle
<1>8. ASSUME NEW f \in Money!Files, Money!Ingest(f) PROVE SpendInv'
  <2>1. /\ cycle # Nothing /\ cycle.read = Nothing
        /\ cycle' = [cycle EXCEPT !.todo = @ \ {f},
                                  !.read = IF file[f] > 0 THEN Money!Spent(cycle.on) ELSE @,
                                  !.amount = file[f],
                                  !.held = kept[cycle.on]]
        /\ UNCHANGED <<day, ledger, stage, spending, due, charged, kept, lost>>
    BY <1>8 DEF Money!Ingest
  <2>2. /\ cycle'.held = kept[cycle.on]
        /\ cycle'.read = IF file[f] > 0 THEN Money!Spent(cycle.on) ELSE Nothing
    BY <1>c, <2>1 DEF Money!Cycle
  <2>3. cycle'.read # Nothing => cycle'.held <= cycle'.read
    BY <1>a, <1>c, <2>1, <2>2
  <2>4. RowsHold'
    BY <1>d, <2>1 DEF SpendInv, RowsHold
  <2> QED
    BY <1>0, <2>1, <2>3, <2>4 DEF SpendInv
<1>9. ASSUME Money!SaveIngested PROVE SpendInv'
  <2>0. PICK d \in Money!Days : d = cycle.on
    BY <1>9, <1>c DEF Money!SaveIngested
  <2>1. /\ cycle # Nothing /\ cycle.read # Nothing
        /\ ledger' = [ledger EXCEPT ![d] = cycle.read + cycle.amount]
        /\ kept' = [kept EXCEPT ![d] = cycle.held]
        /\ lost' = [lost EXCEPT ![d] = @ + Money!Overwritten]
        /\ cycle' = [cycle EXCEPT !.read = Nothing, !.held = 0]
        /\ UNCHANGED <<day, stage, spending, due, charged>>
    BY <1>9, <2>0 DEF Money!SaveIngested, Money!Ingested
  <2>2. /\ d \in Money!Days /\ cycle.read \in Nat /\ cycle.held \in Nat
        /\ cycle.amount \in Nat /\ cycle.held <= cycle.read
    BY <1>c, <2>1 DEF SpendInv
  <2>3. cycle'.read = Nothing
    BY <1>c, <2>1 DEF Money!Cycle
  <2>4. Money!Overwritten \in Nat /\ kept[d] - Money!Overwritten <= cycle.held
    BY <1>a, <2>0, <2>2 DEF Money!Overwritten
  <2>5. /\ \A e \in Money!Days : e # d => /\ lost'[e] = lost[e] /\ kept'[e] = kept[e]
                                          /\ Money!Spent(e)' = Money!Spent(e)
        /\ lost'[d] = lost[d] + Money!Overwritten /\ kept'[d] = cycle.held
        /\ Money!Spent(d)' = cycle.read + cycle.amount
    <3>1. cycle.read + cycle.amount \in Nat
      BY <2>2
    <3> QED
      BY <1>0, <2>1, <2>2, <3>1, RowSaved DEF SpendTypes, Money!TypeOK
  <2>6. RowsHold'
    <3> SUFFICES ASSUME NEW e \in Money!Days
                 PROVE  /\ charged'[e] - lost'[e] <= kept'[e]
                        /\ kept'[e] <= Money!Spent(e)'
      BY DEF RowsHold
    <3>1. CASE e = d
      <4>1. /\ charged[d] \in Nat /\ lost[d] \in Nat /\ kept[d] \in Nat
            /\ charged[d] - lost[d] <= kept[d] /\ charged'[d] = charged[d]
            /\ lost'[d] = lost[d] + Money!Overwritten /\ kept'[d] = cycle.held
            /\ Money!Spent(d)' = cycle.read + cycle.amount
        BY <1>a, <2>1, <2>2, <2>5
      <4>2. charged'[d] - lost'[d] <= kept'[d]
        BY <2>2, <2>4, <4>1
      <4>3. kept'[d] <= Money!Spent(d)'
        BY <2>2, <4>1
      <4> QED
        BY <3>1, <4>2, <4>3
    <3>2. CASE e # d
      BY <1>a, <2>1, <2>5, <3>2
    <3> QED
      BY <3>1, <3>2
  <2>7. \A e \in Money!Days : lost'[e] \in Nat /\ lost'[e] >= lost[e]
    BY <1>a, <2>2, <2>4, <2>5
  <2>8. spending # Nothing =>
            charged[spending.on] - lost'[spending.on] <= spending.held
    BY <1>a, <1>b, <2>7 DEF SpendInv
  <2> QED
    BY <1>0, <2>1, <2>3, <2>6, <2>8 DEF SpendInv
<1>10. ASSUME Money!Snapshot PROVE SpendInv'
  BY <1>0, <1>10, <1>d, NothingCharged DEF Money!Snapshot
<1>11. ASSUME Money!NextDay PROVE SpendInv'
  BY <1>0, <1>11, <1>d, NothingCharged DEF Money!NextDay
<1>12. ASSUME UNCHANGED moneyVars PROVE SpendInv'
  BY <1>0, <1>12, <1>d, NothingCharged DEF moneyVars
<1>13. ASSUME NEW p \in LedgerReaders, NEW d \in Money!Days, Money!LookUp(p, d)
       PROVE  SpendInv'
  BY <1>0, <1>13, <1>d, NothingCharged DEF Money!LookUp
<1>14. ASSUME NEW p \in LedgerReaders, Money!SaveEmpty(p) PROVE SpendInv'
  <2>0. PICK d \in Money!Days : d = looking[p]
    BY <1>0, <1>14 DEF Money!SaveEmpty, SpendTypes, Money!TypeOK
  <2>1. /\ d # Nothing
        /\ ledger' = [ledger EXCEPT ![d] = 0]
        /\ lost' = [lost EXCEPT ![d] = @ + kept[d]]
        /\ kept' = [kept EXCEPT ![d] = 0]
        /\ UNCHANGED <<day, stage, spending, cycle, due, charged>>
    BY <1>14, <2>0 DEF Money!SaveEmpty
  <2>2. d \in Money!Days
    BY <2>0
  <2>3. /\ \A e \in Money!Days : e # d => /\ lost'[e] = lost[e] /\ kept'[e] = kept[e]
                                          /\ Money!Spent(e)' = Money!Spent(e)
        /\ lost'[d] = lost[d] + kept[d] /\ kept'[d] = 0 /\ Money!Spent(d)' = 0
    <3>1. 0 \in Nat
      OBVIOUS
    <3> QED
      BY <1>0, <2>1, <2>2, <3>1, RowSaved DEF SpendTypes, Money!TypeOK
  <2>4. RowsHold'
    <3> SUFFICES ASSUME NEW e \in Money!Days
                 PROVE  /\ charged'[e] - lost'[e] <= kept'[e]
                        /\ kept'[e] <= Money!Spent(e)'
      BY DEF RowsHold
    <3>1. CASE e = d
      BY <1>a, <2>1, <2>2, <2>3, <3>1
    <3>2. CASE e # d
      BY <1>a, <2>1, <2>3, <3>2
    <3> QED
      BY <3>1, <3>2
  <2>5. \A e \in Money!Days : lost'[e] \in Nat /\ lost'[e] >= lost[e]
    BY <1>a, <2>2, <2>3
  <2>6. spending # Nothing =>
            charged[spending.on] - lost'[spending.on] <= spending.held
    BY <1>a, <1>b, <2>5 DEF SpendInv
  <2> QED
    BY <1>0, <2>1, <2>4, <2>6 DEF SpendInv
<1> QED
  BY <1>1, <1>2, <1>3, <1>4, <1>5, <1>6, <1>7, <1>8, <1>9, <1>10, <1>11, <1>12, <1>13, <1>14
     DEF Money!Next

\* How many executions can be past the gate at once, and the room there is, in the end, for
\* what a day is charged.
Places == Slots + Cardinality(Syntheses)
Room == Limit + MaxCost * Places

\* The charge of day d that record_spend is about to save.
Pending(d) == IF spending # Nothing /\ spending.on = d THEN due[spending.run] ELSE 0

\* Today's charges and one full charge for each execution under way fit the room; so do those
\* of a day that is over, with the one that may still be saved for it.
OverspendInv ==
    /\ SpendInv
    /\ IsFiniteSet(Money!Open) /\ Cardinality(Money!Open \ Syntheses) <= Slots
    /\ \A d \in Money!Days : d > day => charged[d] = 0
    /\ charged[day] - lost[day] + MaxCost * Cardinality(Money!Open) <= Room
    /\ \A d \in Money!Days : d < day => charged[d] - lost[d] + Pending(d) <= Room

\* One execution more, or less, is one full charge more, or less.
LEMMA OneMore ==
    ASSUME NEW S, IsFiniteSet(S), NEW x, x \notin S
    PROVE  /\ IsFiniteSet(S \cup {x})
           /\ Cardinality(S) \in Nat
           /\ Cardinality(S \cup {x}) = Cardinality(S) + 1
           /\ MaxCost * Cardinality(S) \in Nat
           /\ MaxCost * Cardinality(S \cup {x}) = MaxCost * Cardinality(S) + MaxCost
<1>1. /\ IsFiniteSet(S \cup {x}) /\ Cardinality(S) \in Nat
      /\ Cardinality(S \cup {x}) = Cardinality(S) + 1
  BY FS_AddElement, FS_CardinalityType
<1>2. MaxCost \in Nat
  BY ServicesAssumption
<1>3. \A m, n \in Nat : m * n \in Nat /\ m * (n + 1) = m * n + m
  OBVIOUS
<1> QED
  BY <1>1, <1>2, <1>3

LEMMA OneLess ==
    ASSUME NEW S, IsFiniteSet(S), NEW x \in S
    PROVE  /\ IsFiniteSet(S \ {x})
           /\ Cardinality(S \ {x}) \in Nat
           /\ Cardinality(S) = Cardinality(S \ {x}) + 1
           /\ MaxCost * Cardinality(S \ {x}) \in Nat
           /\ MaxCost * Cardinality(S) = MaxCost * Cardinality(S \ {x}) + MaxCost
<1>1. IsFiniteSet(S \ {x})
  BY FS_Subset
<1>2. (S \ {x}) \cup {x} = S
  OBVIOUS
<1> QED
  BY <1>1, <1>2, OneMore

\* The executions under way fit the slots and the syntheses, and so do their charges.
LEMMA OpenFits ==
    ASSUME NEW S, IsFiniteSet(S), Cardinality(S \ Syntheses) <= Slots
    PROVE  /\ MaxCost * Cardinality(S) \in Nat
           /\ MaxCost * Cardinality(S) <= MaxCost * Places
           /\ MaxCost * Places \in Nat /\ Room \in Nat /\ MaxCost * Places <= Room
<1>1. MaxCost \in Nat /\ Slots \in Nat /\ Limit \in Nat /\ IsFiniteSet(Syntheses)
  BY ServicesAssumption
<1> DEFINE queued == S \ Syntheses
           free == S \cap Syntheses
<1>2. IsFiniteSet(queued) /\ IsFiniteSet(free) /\ Cardinality(free) <= Cardinality(Syntheses)
  BY <1>1, FS_Subset
<1>3. Cardinality(queued \cup free)
      = Cardinality(queued) + Cardinality(free) - Cardinality(queued \cap free)
  BY <1>2, FS_Union
<1>4. queued \cup free = S /\ queued \cap free = {}
  OBVIOUS
<1>5. /\ Cardinality(queued) \in Nat /\ Cardinality(free) \in Nat
      /\ Cardinality(Syntheses) \in Nat /\ Cardinality(S) \in Nat
      /\ Cardinality({}) = 0
  BY <1>1, <1>2, FS_CardinalityType, FS_EmptySet
<1>6. Cardinality(S) = Cardinality(queued) + Cardinality(free)
  <2>1. Cardinality(queued \cap free) = 0 /\ Cardinality(queued \cup free) = Cardinality(S)
    BY <1>4, <1>5
  <2>2. Cardinality(S) = Cardinality(queued) + Cardinality(free) - 0
    BY <1>3, <2>1
  <2> HIDE DEF queued, free
  <2> QED
    BY <1>5, <2>2
<1>7. Cardinality(S) <= Places /\ Places \in Nat
  BY <1>1, <1>2, <1>5, <1>6 DEF Places
<1>8. \A k, m, n \in Nat : k <= n => m * k \in Nat /\ m * n \in Nat /\ m * k <= m * n
  BY SMTT(30)
<1>9. /\ MaxCost * Cardinality(S) \in Nat /\ MaxCost * Places \in Nat
      /\ MaxCost * Cardinality(S) <= MaxCost * Places
  BY <1>1, <1>5, <1>7, <1>8
<1> QED
  BY <1>1, <1>9 DEF Room

\* An execution that ends leaves the slots fit.
LEMMA StillFits ==
    ASSUME IsFiniteSet(Money!Open), Cardinality(Money!Open \ Syntheses) <= Slots,
           NEW S, S \subseteq Money!Open
    PROVE  IsFiniteSet(S) /\ Cardinality(S \ Syntheses) <= Slots
<1>1. IsFiniteSet(S) /\ IsFiniteSet(Money!Open \ Syntheses)
  BY FS_Subset
<1>2. Cardinality(S \ Syntheses) <= Cardinality(Money!Open \ Syntheses)
  <2>1. S \ Syntheses \subseteq Money!Open \ Syntheses
    OBVIOUS
  <2> QED
    BY <1>1, <2>1, FS_Subset
<1>3. IsFiniteSet(S \ Syntheses)
  BY <1>1, FS_Subset
<1>4. Cardinality(S \ Syntheses) \in Nat /\ Cardinality(Money!Open \ Syntheses) \in Nat
  BY <1>1, <1>3, FS_CardinalityType
<1>5. Slots \in Nat
  BY ServicesAssumption
<1> QED
  BY <1>1, <1>2, <1>4, <1>5

\* Where no execution begins or ends and no charge is made, the room is kept: what
\* is lost only ever grows.
LEMMA RoomKept ==
    ASSUME OverspendInv, SpendInv', UNCHANGED <<day, charged, spending, due>>,
           Money!Open' = Money!Open, \A d \in Money!Days : lost'[d] >= lost[d]
    PROVE  OverspendInv'
<1>1. \A d \in Money!Days : charged[d] \in Nat /\ lost[d] \in Nat /\ lost'[d] \in Nat
  BY DEF OverspendInv, SpendInv, SpendTypes, Money!TypeOK
<1>2. Room \in Nat /\ MaxCost * Cardinality(Money!Open) \in Nat /\ day \in Money!Days
  BY OpenFits DEF OverspendInv, SpendInv, SpendTypes, Money!TypeOK
<1>3. charged[day] - lost'[day] + MaxCost * Cardinality(Money!Open) <= Room
  BY <1>1, <1>2 DEF OverspendInv
<1>4. \A d \in Money!Days : Pending(d)' = Pending(d)
  BY DEF Pending
<1>5. \A d \in Money!Days : Pending(d) \in Nat
  <2>1. MaxCost \in Nat
    BY ServicesAssumption
  <2> QED
    BY <2>1 DEF Pending, OverspendInv, SpendInv, SpendTypes, Money!TypeOK, Money!Spending,
       Money!Costs
<1>6. \A d \in Money!Days : d < day => charged[d] - lost'[d] + Pending(d) <= Room
  BY <1>1, <1>2, <1>5 DEF OverspendInv
<1> QED
  BY <1>3, <1>4, <1>6 DEF OverspendInv

LEMMA OverspendInitially == Money!Init => OverspendInv
<1> USE ServicesAssumption
<1> SUFFICES ASSUME Money!Init PROVE OverspendInv
  OBVIOUS
<1>1. Money!Open = {}
  BY DEF Money!Init, Money!Open
<1>2. /\ IsFiniteSet(Money!Open) /\ Cardinality(Money!Open) = 0
      /\ Cardinality(Money!Open \ Syntheses) = 0 /\ 0 <= Slots
  <2>1. Money!Open \ Syntheses = {}
    BY <1>1
  <2> QED
    BY <1>1, <2>1, FS_EmptySet
<1>3. MaxCost * 0 = 0 /\ Room \in Nat
  BY <1>2, OpenFits
<1>4. SpendInv /\ day \in Money!Days
  BY SpendInitially DEF SpendInv, SpendTypes, Money!TypeOK
<1>5. \A d \in Money!Days : d \in Nat /\ charged[d] = 0 /\ lost[d] = 0 /\ Pending(d) = 0
  BY DEF Money!Init, Pending, Money!Days
<1> QED
  BY <1>2, <1>3, <1>4, <1>5 DEF OverspendInv

LEMMA OverspendStep == OverspendInv /\ [Money!Next]_moneyVars => OverspendInv'
<1> SUFFICES ASSUME OverspendInv, [Money!Next]_moneyVars PROVE OverspendInv'
  OBVIOUS
<1>0. SpendInv /\ SpendInv' /\ SpendTypes
  BY SpendStep DEF OverspendInv, SpendInv
<1>a. /\ \A d \in Money!Days : d \in Nat /\ charged[d] \in Nat /\ lost[d] \in Nat
      /\ day \in Money!Days
  <2>1. \A d \in Money!Days : d \in Nat
    BY DEF Money!Days
  <2>2. /\ charged \in [Money!Days -> Nat] /\ lost \in [Money!Days -> Nat]
        /\ day \in Money!Days
    BY <1>0 DEF SpendTypes, Money!TypeOK
  <2> QED
    BY <2>1, <2>2
<1>b. /\ Room \in Nat /\ MaxCost * Cardinality(Money!Open) \in Nat
      /\ MaxCost \in Nat /\ Limit \in Nat /\ Room = Limit + MaxCost * Places
      /\ MaxCost * Places \in Nat /\ MaxCost * Cardinality(Money!Open) <= MaxCost * Places
  <2>1. MaxCost \in Nat /\ Limit \in Nat
    BY ServicesAssumption
  <2> QED
    BY <2>1, OpenFits DEF OverspendInv, Room
<1>c. \A d \in Money!Days : Pending(d) \in Nat
  BY <1>0, ServicesAssumption DEF Pending, SpendTypes, Money!TypeOK, Money!Spending, Money!Costs
<1>1. ASSUME NEW r \in SpendRuns, NEW w \in Money!Workspaces, Money!Admit(r, w)
      PROVE  OverspendInv'
  <2>1. /\ stage[r] = "new" /\ stage' = [stage EXCEPT ![r] = "working"]
        /\ r \in Syntheses \/ Cardinality(Money!Open \ Syntheses) < Slots
        /\ Money!Spent(day) <= Limit
        /\ UNCHANGED <<day, spending, due, charged, lost>>
    BY <1>1, MoneyCardinality DEF Money!Admit, Money!Solvent
  <2>2. Money!Open' = Money!Open \cup {r} /\ r \notin Money!Open
    BY <1>0, <2>1 DEF Money!Open, SpendTypes, Money!TypeOK
  <2>3. /\ IsFiniteSet(Money!Open')
        /\ Cardinality(Money!Open') = Cardinality(Money!Open) + 1
        /\ Cardinality(Money!Open) \in Nat
    BY <2>2, OneMore DEF OverspendInv
  <2>4. Cardinality(Money!Open' \ Syntheses) <= Slots
    <3>1. CASE r \in Syntheses
      <4>1. Money!Open' \ Syntheses = Money!Open \ Syntheses
        BY <2>2, <3>1
      <4> QED
        BY <4>1 DEF OverspendInv
    <3>2. CASE r \notin Syntheses
      <4>1. Money!Open' \ Syntheses = (Money!Open \ Syntheses) \cup {r}
            /\ r \notin Money!Open \ Syntheses
        BY <2>2, <3>2
      <4>2. IsFiniteSet(Money!Open \ Syntheses)
        BY FS_Subset DEF OverspendInv
      <4>3. /\ Cardinality(Money!Open' \ Syntheses) = Cardinality(Money!Open \ Syntheses) + 1
            /\ Cardinality(Money!Open \ Syntheses) \in Nat
        BY <4>1, <4>2, OneMore
      <4>4. Slots \in Nat
        BY ServicesAssumption
      <4> QED
        BY <2>1, <3>2, <4>3, <4>4
    <3> QED
      BY <3>1, <3>2
  <2>5. MaxCost * Cardinality(Money!Open') <= MaxCost * Places
        /\ MaxCost * Cardinality(Money!Open') \in Nat
    BY <2>3, <2>4, OpenFits
  <2>6. charged[day] - lost[day] <= Money!Spent(day) /\ Money!Spent(day) \in Nat
    BY <1>0, <1>a, Held
  <2>7. charged[day] - lost[day] + MaxCost * Cardinality(Money!Open') <= Room
    BY <1>a, <1>b, <2>1, <2>5, <2>6
  <2>8. \A d \in Money!Days : Pending(d)' = Pending(d)
    BY <2>1 DEF Pending
  <2> QED
    BY <1>0, <2>1, <2>3, <2>4, <2>7, <2>8 DEF OverspendInv
<1>2. ASSUME NEW r \in SpendRuns, NEW c \in Money!Costs, Money!Degrade(r, c)
      PROVE  OverspendInv'
  <2>1. Money!Open' = Money!Open
    BY <1>0, <1>2 DEF Money!Degrade, Money!Open, SpendTypes, Money!TypeOK
  <2> QED
    BY <1>0, <1>2, <1>a, <2>1, RoomKept DEF Money!Degrade
<1>3. ASSUME NEW r \in SpendRuns, NEW c \in Money!Costs \cup {Nothing}, Money!Return(r, c)
      PROVE  OverspendInv'
  <2>1. PICK amount \in Nat :
            /\ spending = Nothing
            /\ stage[r] \in {"working", "fallback"}
            /\ due' = [due EXCEPT ![r] = amount]
            /\ stage' = [stage EXCEPT ![r] = IF amount > 0 THEN "charging" ELSE "charged"]
            /\ spending' = IF amount > 0
                           THEN [run |-> r, on |-> day, sum |-> Money!Spent(day) + amount,
                                 held |-> kept[day]]
                           ELSE Nothing
            /\ UNCHANGED <<day, charged, lost>>
    BY <1>0, <1>3, ReturnCharges
  <2>2. \A d \in Money!Days : d < day => Pending(d)' = 0 /\ Pending(d) = 0
    BY <1>a, <2>1 DEF Pending
  <2>3. /\ IsFiniteSet(Money!Open') /\ Cardinality(Money!Open' \ Syntheses) <= Slots
        /\ MaxCost * Cardinality(Money!Open') <= MaxCost * Cardinality(Money!Open)
        /\ MaxCost * Cardinality(Money!Open') \in Nat
    <3>1. CASE amount > 0
      <4>1. Money!Open' = Money!Open
        BY <1>0, <2>1, <3>1 DEF Money!Open, SpendTypes, Money!TypeOK
      <4> QED
        BY <1>b, <4>1 DEF OverspendInv
    <3>2. CASE ~(amount > 0)
      <4>1. Money!Open' = Money!Open \ {r} /\ r \in Money!Open
        BY <1>0, <2>1, <3>2 DEF Money!Open, SpendTypes, Money!TypeOK
      <4>2. IsFiniteSet(Money!Open) /\ Cardinality(Money!Open \ Syntheses) <= Slots
        BY DEF OverspendInv
      <4>3. /\ IsFiniteSet(Money!Open') /\ Cardinality(Money!Open') \in Nat
            /\ Cardinality(Money!Open) = Cardinality(Money!Open') + 1
            /\ MaxCost * Cardinality(Money!Open) = MaxCost * Cardinality(Money!Open') + MaxCost
            /\ MaxCost * Cardinality(Money!Open') \in Nat
        BY <4>1, <4>2, OneLess
      <4>4. Cardinality(Money!Open' \ Syntheses) <= Slots
        BY <4>1, <4>2, StillFits
      <4> QED
        BY <1>b, <4>3, <4>4
    <3> QED
      BY <3>1, <3>2
  <2>4. charged[day] - lost[day] + MaxCost * Cardinality(Money!Open') <= Room
    BY <1>a, <1>b, <2>3 DEF OverspendInv
  <2> QED
    BY <1>0, <2>1, <2>2, <2>3, <2>4 DEF OverspendInv
<1>4. ASSUME Money!Save PROVE OverspendInv'
  <2> DEFINE r == spending.run
             e == spending.on
  <2>1. /\ spending # Nothing
        /\ charged' = [charged EXCEPT ![e] = @ + due[r]]
        /\ stage' = [stage EXCEPT ![r] = "charged"]
        /\ spending' = Nothing
        /\ UNCHANGED <<day, lost, due>>
    BY <1>4 DEF Money!Save
  <2>2. /\ r \in SpendRuns /\ e \in Money!Days /\ due[r] \in Nat /\ due[r] <= MaxCost
        /\ stage[r] = "charging" /\ e <= day
    BY <1>0, <2>1, <1>b DEF SpendInv, SpendTypes, Money!TypeOK, Money!Spending, Money!Costs
  <2>3. \A d \in Money!Days : Pending(d) = IF e = d THEN due[r] ELSE 0
    BY <2>1 DEF Pending
  <2>4. \A d \in Money!Days : Pending(d)' = 0
    BY <2>1 DEF Pending
  <2> HIDE DEF r, e
  <2>5. \A d \in Money!Days : charged'[d] = charged[d] + (IF e = d THEN due[r] ELSE 0)
    BY <1>0, <1>a, <2>1, <2>2 DEF SpendTypes, Money!TypeOK
  <2>6. Money!Open' = Money!Open \ {r} /\ r \in Money!Open
    BY <1>0, <2>1, <2>2 DEF Money!Open, SpendTypes, Money!TypeOK
  <2>7. /\ IsFiniteSet(Money!Open') /\ Cardinality(Money!Open' \ Syntheses) <= Slots
        /\ MaxCost * Cardinality(Money!Open) = MaxCost * Cardinality(Money!Open') + MaxCost
        /\ MaxCost * Cardinality(Money!Open') \in Nat
    <3>1. IsFiniteSet(Money!Open) /\ Cardinality(Money!Open \ Syntheses) <= Slots
      BY DEF OverspendInv
    <3>2. /\ IsFiniteSet(Money!Open') /\ Cardinality(Money!Open') \in Nat
          /\ Cardinality(Money!Open) = Cardinality(Money!Open') + 1
          /\ MaxCost * Cardinality(Money!Open) = MaxCost * Cardinality(Money!Open') + MaxCost
          /\ MaxCost * Cardinality(Money!Open') \in Nat
      BY <2>6, <3>1, OneLess
    <3>3. Cardinality(Money!Open' \ Syntheses) <= Slots
      BY <2>6, <3>1, StillFits
    <3> QED
      BY <3>2, <3>3
  <2>8. charged'[day] - lost[day] + MaxCost * Cardinality(Money!Open') <= Room
    BY <1>a, <1>b, <2>2, <2>5, <2>7 DEF OverspendInv
  <2>9. \A d \in Money!Days : d > day => charged'[d] = 0
    BY <1>a, <2>2, <2>5 DEF OverspendInv
  <2>10. \A d \in Money!Days : d < day => charged'[d] - lost[d] + 0 <= Room
    BY <1>a, <1>b, <2>2, <2>3, <2>5 DEF OverspendInv
  <2> QED
    BY <1>0, <2>1, <2>4, <2>7, <2>8, <2>9, <2>10 DEF OverspendInv
<1>5. ASSUME NEW o \in UsageOffices, NEW c \in Money!Costs, Money!OfficeWrites(o, c)
      PROVE  OverspendInv'
  BY <1>0, <1>5, <1>a, RoomKept DEF Money!OfficeWrites, Money!Open
<1>6. ASSUME Money!Sync PROVE OverspendInv'
  BY <1>0, <1>6, <1>a, RoomKept DEF Money!Sync, Money!Open
<1>7. ASSUME NEW d \in Money!Days, Money!StartCycle(d) PROVE OverspendInv'
  BY <1>0, <1>7, <1>a, RoomKept DEF Money!StartCycle, Money!Open
<1>8. ASSUME NEW f \in Money!Files, Money!Ingest(f) PROVE OverspendInv'
  BY <1>0, <1>8, <1>a, RoomKept DEF Money!Ingest, Money!Open
<1>9. ASSUME Money!SaveIngested PROVE OverspendInv'
  <2>1. /\ cycle # Nothing
        /\ lost' = [lost EXCEPT ![cycle.on] = @ + Money!Overwritten]
        /\ UNCHANGED <<day, stage, spending, due, charged>>
    BY <1>9 DEF Money!SaveIngested
  <2>2. cycle.on \in Money!Days /\ Money!Overwritten \in Nat
    <3>1. cycle.on \in Money!Days /\ cycle.held \in Nat /\ kept[cycle.on] \in Nat
      BY <1>0, <2>1 DEF SpendTypes, Money!TypeOK, Money!Cycle
    <3> QED
      BY <3>1 DEF Money!Overwritten
  <2>3. \A d \in Money!Days : lost'[d] >= lost[d]
    BY <1>0, <1>a, <2>1, <2>2 DEF SpendTypes, Money!TypeOK
  <2>4. Money!Open' = Money!Open
    BY <2>1 DEF Money!Open
  <2> QED
    BY <1>0, <2>1, <2>3, <2>4, RoomKept
<1>10. ASSUME Money!Snapshot PROVE OverspendInv'
  BY <1>0, <1>10, <1>a, RoomKept DEF Money!Snapshot, Money!Open
<1>11. ASSUME Money!NextDay PROVE OverspendInv'
  <2>1. day' = day + 1 /\ day' \in Money!Days
        /\ UNCHANGED <<stage, spending, due, charged, lost>>
    BY <1>0, <1>11 DEF Money!NextDay, SpendInv, SpendTypes, Money!TypeOK
  <2>2. Money!Open' = Money!Open /\ \A d \in Money!Days : Pending(d)' = Pending(d)
    BY <2>1 DEF Money!Open, Pending
  <2>3. charged[day'] = 0
    BY <1>a, <2>1 DEF OverspendInv
  <2>4. charged[day'] - lost[day'] + MaxCost * Cardinality(Money!Open) <= Room
    BY <1>a, <1>b, <2>1, <2>3
  <2>5. Pending(day) <= MaxCost * Cardinality(Money!Open)
    <3>1. CASE spending # Nothing
      <4>1. spending.run \in Money!Open /\ due[spending.run] <= MaxCost
            /\ due[spending.run] \in Nat
        BY <1>0, <1>b, <3>1 DEF SpendInv, SpendTypes, Money!TypeOK, Money!Spending, Money!Costs,
           Money!Open
      <4>2. MaxCost <= MaxCost * Cardinality(Money!Open)
        <5>1. IsFiniteSet(Money!Open)
          BY DEF OverspendInv
        <5>2. MaxCost * Cardinality(Money!Open \ {spending.run}) \in Nat
              /\ MaxCost * Cardinality(Money!Open)
                 = MaxCost * Cardinality(Money!Open \ {spending.run}) + MaxCost
          BY <4>1, <5>1, OneLess
        <5> QED
          BY <1>b, <5>2
      <4> QED
        BY <1>b, <4>1, <4>2 DEF Pending
    <3>2. CASE spending = Nothing
      BY <1>b, <3>2 DEF Pending
    <3> QED
      BY <3>1, <3>2
  <2>6. charged[day] - lost[day] + Pending(day) <= Room
    BY <1>a, <1>b, <1>c, <2>5 DEF OverspendInv
  <2>7. \A d \in Money!Days : d < day' => charged[d] - lost[d] + Pending(d) <= Room
    BY <1>a, <2>1, <2>6 DEF OverspendInv
  <2>8. \A d \in Money!Days : d > day' => charged[d] = 0
    BY <1>a, <2>1 DEF OverspendInv
  <2> QED
    BY <1>0, <2>1, <2>2, <2>4, <2>7, <2>8 DEF OverspendInv
<1>12. ASSUME UNCHANGED moneyVars PROVE OverspendInv'
  BY <1>0, <1>12, <1>a, RoomKept DEF moneyVars, Money!Open
<1>13. ASSUME NEW p \in LedgerReaders, NEW d \in Money!Days, Money!LookUp(p, d)
       PROVE  OverspendInv'
  BY <1>0, <1>13, <1>a, RoomKept DEF Money!LookUp, Money!Open
<1>14. ASSUME NEW p \in LedgerReaders, Money!SaveEmpty(p) PROVE OverspendInv'
  <2> DEFINE e == looking[p]
  <2>1. /\ e # Nothing
        /\ lost' = [lost EXCEPT ![e] = @ + kept[e]]
        /\ UNCHANGED <<day, stage, spending, due, charged>>
    BY <1>14 DEF Money!SaveEmpty
  <2>2. e \in Money!Days /\ kept[e] \in Nat
    BY <1>0, <2>1 DEF SpendTypes, Money!TypeOK
  <2>3. \A d \in Money!Days : lost'[d] >= lost[d]
    BY <1>0, <1>a, <2>1, <2>2 DEF SpendTypes, Money!TypeOK
  <2>4. Money!Open' = Money!Open
    BY <2>1 DEF Money!Open
  <2> QED
    BY <1>0, <2>1, <2>3, <2>4, RoomKept
<1> QED
  BY <1>1, <1>2, <1>3, <1>4, <1>5, <1>6, <1>7, <1>8, <1>9, <1>10, <1>11, <1>12, <1>13, <1>14
     DEF Money!Next

LEMMA MoneyAlways == Spec => [](part = "money" => OverspendInv)
<1>1. Init => (part = "money" => OverspendInv)
  BY OverspendInitially DEF Init
<1>2. (part = "money" => OverspendInv) /\ [Next]_vars => (part = "money" => OverspendInv)'
  BY OverspendStep DEF Next, vars
<1> QED
  BY <1>1, <1>2, PTL DEF Spec

\* No charge of a run is lost to another run: what the ledger of a day lacks is what a daily
\* cycle that had read it before overwrote, or a first read of the day with its empty row.
THEOREM NoChargeLost == Spec => []ChargesKept
<1>1. OverspendInv => Money!ChargesKept
  BY Held DEF OverspendInv, Money!ChargesKept
<1> QED
  BY <1>1, MoneyAlways, PTL DEF ChargesKept

\* A day is charged its limit, one execution per slot and one per synthesis at most, and what
\* was overwritten.
THEOREM OverspendFits == Spec => []OverspendBounded
<1>1. OverspendInv => Money!OverspendBounded
  <2> SUFFICES ASSUME OverspendInv, NEW d \in Money!Days
               PROVE  charged[d] - lost[d] <= Room
    BY MoneyCardinality DEF Money!OverspendBounded, Room, Places
  <2>1. /\ d \in Nat /\ day \in Nat /\ charged[d] \in Nat /\ lost[d] \in Nat
        /\ Pending(d) \in Nat
    <3>1. MaxCost \in Nat /\ SpendDays \in Nat /\ Nothing \notin Nat
      BY ServicesAssumption
    <3>2. Money!TypeOK
      BY DEF OverspendInv, SpendInv, SpendTypes
    <3>3. d \in Nat /\ day \in Nat /\ charged[d] \in Nat /\ lost[d] \in Nat
      BY <3>1, <3>2 DEF Money!TypeOK, Money!Days
    <3>4. spending # Nothing => spending.run \in SpendRuns
      BY <3>2 DEF Money!TypeOK, Money!Spending
    <3>5. \A r \in SpendRuns : due[r] \in Nat
      BY <3>1, <3>2 DEF Money!TypeOK, Money!Costs
    <3> QED
      BY <3>3, <3>4, <3>5 DEF Pending
  <2>2. Room \in Nat /\ MaxCost * Cardinality(Money!Open) \in Nat
    BY OpenFits DEF OverspendInv
  <2>3. CASE d > day
    BY <2>1, <2>2, <2>3 DEF OverspendInv
  <2>4. CASE d = day
    BY <2>1, <2>2, <2>4 DEF OverspendInv
  <2>5. CASE d < day
    BY <2>1, <2>2, <2>5 DEF OverspendInv
  <2> QED
    BY <2>1, <2>3, <2>4, <2>5
<1> QED
  BY <1>1, MoneyAlways, PTL DEF OverspendBounded
================================================================================
