-------------------------------- MODULE Books --------------------------------
(***************************************************************************)
(* The business ledger: the table `contabilidad`, which the system appends to *)
(* and its owner edits, and the three sums made of it: the cash position, the *)
(* monthly close and the buckets of the accounting dashboard.  A reader gets *)
(* the table page by page while others write it.                             *)
(***************************************************************************)
EXTENDS Integers, Sequences, FiniteSetsExt, SequencesExt

CONSTANTS Months, Categories,
          MaxAmount,    \* bound: amounts
          PageSize,     \* rows of a page
          MaxPages,     \* _MAX_PAGES
          MaxInserts,   \* bound: rows ever inserted
          MaxEdits,     \* bound: edits by the owner
          Blank         \* an empty cell

NEGOCIOS == {"CASS", "otro"}
TIPOS == {"ingreso", "gasto"}
Amounts == 1..MaxAmount
Movements == [negocio : NEGOCIOS, tipo : TIPOS, monto : Amounts, mes : Months,
              categoria : Categories]
Rows == [negocio : NEGOCIOS \cup {Blank}, tipo : TIPOS \cup {Blank},
         monto : Amounts \cup {Blank}, mes : Months \cup {Blank},
         categoria : Categories \cup {Blank}]

VARIABLES table,     \* contabilidad
          read,      \* the rows a reader has got, whether it goes on, and how it ended
          before,    \* history: the table when it began
          touched,   \* history: a row was deleted or edited since
          inserts, edits

bookVars == <<table, read, before, touched, inserts, edits>>

TypeOK == /\ table \in Seq(Rows)
          /\ read \in [status : {"idle", "reading", "ok", "error"}, page : 0..MaxPages,
                      rows : Seq(Rows)]
          /\ before \in Seq(Rows)
          /\ touched \in BOOLEAN
          /\ inserts \in 0..MaxInserts
          /\ edits \in 0..MaxEdits

Init == /\ table = << >>
        /\ read = [status |-> "idle", page |-> 0, rows |-> << >>]
        /\ before = << >>
        /\ touched = FALSE
        /\ inserts = 0
        /\ edits = 0
-----------------------------------------------------------------------------
\* insert_movement takes only what validate_movement lets through.
Insert(row) == /\ inserts < MaxInserts
               /\ inserts' = inserts + 1
               /\ table' = Append(table, row)
               /\ UNCHANGED <<read, before, touched, edits>>

\* The owner clears a cell or deletes a row.
Edit(i, row) == /\ edits < MaxEdits
                /\ edits' = edits + 1
                /\ table' \in {[table EXCEPT ![i] = row], RemoveAt(table, i)}
                /\ touched' = TRUE
                /\ UNCHANGED <<read, before, inserts>>

Cleared(row) == {[row EXCEPT !.negocio = Blank], [row EXCEPT !.tipo = Blank],
                 [row EXCEPT !.monto = Blank], [row EXCEPT !.mes = Blank],
                 [row EXCEPT !.categoria = Blank]}
-----------------------------------------------------------------------------
\* fetch_rows.
StartRead == /\ read.status # "reading"
             /\ read' = [status |-> "reading", page |-> 0, rows |-> << >>]
             /\ before' = table
             /\ touched' = FALSE
             /\ UNCHANGED <<table, inserts, edits>>

\* A page, and whether there is a next one (mutant: the one after it is asked for).
MutFirstOf(page) == (page + 1) * PageSize
FirstOf(page) == page * PageSize
ReadPage ==
    LET first == FirstOf(read.page)
        last == first + PageSize
        rows == read.rows \o SubSeq(table, first + 1, Min({last, Len(table)}))
        more == last < Len(table) /\ read.page + 1 < MaxPages
    IN  /\ read.status = "reading"
        /\ first < Len(table) \/ read.page = 0
        /\ read' = [status |-> IF more THEN "reading" ELSE "ok",
                    page |-> IF more THEN read.page + 1 ELSE 0,
                    rows |-> rows]
        /\ UNCHANGED <<table, before, touched, inserts, edits>>

\* No token, no answer, or the page is no longer there: what was read is dropped, and
\* the callers go on with no rows.
ReadFails == /\ read.status = "reading"
             /\ read' = [status |-> "error", page |-> 0, rows |-> << >>]
             /\ UNCHANGED <<table, before, touched, inserts, edits>>

Next == \/ \E row \in Movements : Insert(row)
        \/ \E i \in DOMAIN table : \E row \in Cleared(table[i]) : Edit(i, row)
        \/ StartRead
        \/ ReadPage
        \/ ReadFails

Spec == Init /\ [][Next]_bookVars
-----------------------------------------------------------------------------
Negocio(row) == IF row.negocio = Blank THEN "otro" ELSE row.negocio
Signed(row) == IF row.tipo = "ingreso" THEN row.monto ELSE -row.monto
Counted(row) == row.monto # Blank /\ row.tipo # Blank
\* The rows of a report, by their place in what was read, and what they add up to.
Places == DOMAIN read.rows
SumOf(places) == MapThenSumSet(LAMBDA i : Signed(read.rows[i]), places)

\* cash_position (mutant: a row without a business is left out).
MutSaldo(n) == SumOf({i \in Places : Counted(read.rows[i]) /\ read.rows[i].negocio = n})
Saldo(n) == SumOf({i \in Places : Counted(read.rows[i]) /\ Negocio(read.rows[i]) = n})

\* accounting_dashboard: a bucket per month, one of them for undated rows.
Bucket(n, m) == SumOf({i \in Places : /\ Counted(read.rows[i])
                                      /\ Negocio(read.rows[i]) = n
                                      /\ read.rows[i].mes = m})

\* finance_close.
OfMonth(n, m) == {i \in Places : read.rows[i].mes = m /\ Negocio(read.rows[i]) = n}
Flujo(n, m) == SumOf({i \in OfMonth(n, m) : Counted(read.rows[i])})
PorCategoria(n, m, c) ==
    SumOf({i \in OfMonth(n, m) : /\ read.rows[i].monto # Blank
                                 /\ read.rows[i].categoria = c})

OverMonths(n) == MapThenSumSet(LAMBDA m : Bucket(n, m), Months \cup {Blank})
OverCategories(n, m) == MapThenSumSet(LAMBDA c : PorCategoria(n, m, c),
                                      Categories \cup {Blank})

\* The three reports tell one story, whatever cells the owner has cleared: the balance
\* of a business is its flows of all months and of undated rows, the flow of a month is
\* what its categories add up to unless a row has no type, and all of it is about the
\* rows that were in the table, if none was changed while the pages were read.
BooksAddUp ==
    read.status = "ok" =>
        /\ \A n \in NEGOCIOS :
              /\ Saldo(n) = OverMonths(n)
              /\ \A m \in Months :
                    /\ Flujo(n, m) = Bucket(n, m)
                    /\ (\A i \in OfMonth(n, m) : read.rows[i].tipo # Blank)
                       => Flujo(n, m) = OverCategories(n, m)
        /\ ~touched /\ Len(table) <= PageSize * MaxPages =>
              /\ IsPrefix(before, read.rows)
              /\ IsPrefix(read.rows, table)
=============================================================================
