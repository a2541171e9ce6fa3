-------------------------------- MODULE Trends --------------------------------
(***************************************************************************)
(* What the content dashboard says of a channel: scale, keep or kill.  Runs  *)
(* of content_analytics.py measure the channels and append rows to           *)
(* `metricas_diarias`, one request each, as daily_cycle.py does for the       *)
(* system; the dashboard reads the first pages of that table and compares    *)
(* the watch time of a channel's first day with its last.                    *)
(***************************************************************************)
EXTENDS Integers, Sequences, FiniteSets, FiniteSetsExt

CONSTANTS CHANNEL_MAP,  \* a sequence of channels
          RunIds,       \* runs of content_analytics.py --apply
          Capacity,     \* rows in _GASTOS_MAX_PAGES pages
          MinDays,      \* MIN_DAYS_FOR_CLASSIFICATION
          MaxValue,     \* bound: what a channel may measure
          MaxDay,       \* bound: days
          MaxOther,     \* bound: rows of the daily cycle
          Unreachable,         \* a channel that does not answer
          Nothing       \* no value

Channels == Range(CHANNEL_MAP)
Days == 1..MaxDay
Values == 0..MaxValue
Places == 1..(Len(CHANNEL_MAP) + 1)
Rows == [on : Days, office : Channels \cup {"sistema", "uploadpost"},
         metric : {"yt_watch_min_28d", "other"}, value : Values]

VARIABLES day,
          table,     \* metricas_diarias, oldest row first
          run,       \* run[r]: its date, the place of the channel it asks for next, and
                     \* the rows it is yet to write
          others,    \* rows of daily cycles
          measured   \* history: what the API has answered, on which day, and the date of
                     \* the run that asked

trendVars == <<day, table, run, others, measured>>

TypeOK == /\ day \in Days
          /\ table \in Seq(Rows)
          /\ run \in [RunIds -> [pc : {"new", "fetching", "writing"}, fecha : Days,
                                next : Places, todo : Seq(Rows)]]
          /\ others \in 0..MaxOther
          /\ measured \subseteq [of : Channels, on : Days, taken : Days, value : Values]

Init == /\ day = 1
        /\ table = << >>
        /\ run = [r \in RunIds |-> [pc |-> "new", fecha |-> 1, next |-> 1, todo |-> << >>]]
        /\ others = 0
        /\ measured = {}
-----------------------------------------------------------------------------
\* main takes the date before it asks for anything.
StartRun(r) == /\ run[r].pc = "new"
               /\ run' = [run EXCEPT ![r].pc = "fetching", ![r].fecha = day]
               /\ UNCHANGED <<day, table, others, measured>>

\* build_metric_rows for one channel: none if the Data API failed, and no watch time
\* if the Analytics API did or had no rows (mutant: a zero).
MutRowsOf(c, answer, fecha) ==
    LET row(m, v) == [on |-> fecha, office |-> c, metric |-> m, value |-> v]
    IN  << row("other", 0),
           row("yt_watch_min_28d", IF answer \in Values THEN answer ELSE 0) >>
RowsOf(c, answer, fecha) ==
    LET row(m, v) == [on |-> fecha, office |-> c, metric |-> m, value |-> v]
    IN  CASE answer = Unreachable -> << >>
          [] answer = Nothing -> << row("other", 0) >>
          [] OTHER -> << row("other", 0), row("yt_watch_min_28d", answer) >>

\* Upload-Post adds rows unless its key is missing or it does not answer at all.
PostRows(posts, fecha) ==
    IF posts
    THEN << [on |-> fecha, office |-> "uploadpost", metric |-> "other", value |-> 0] >>
    ELSE << >>

\* fetch_youtube_stats: one channel after the other answers, or does not, for the 28 days
\* up to the day on which it is asked; its rows will bear the date of the run.
Fetch(r, answer) ==
    LET c == CHANNEL_MAP[run[r].next]
        new == [of |-> c, on |-> run[r].fecha, taken |-> day, value |-> answer]
    IN  /\ run[r].pc = "fetching"
        /\ run[r].next <= Len(CHANNEL_MAP)
        /\ run' = [run EXCEPT ![r].next = @ + 1,
                              ![r].todo = @ \o RowsOf(c, answer, run[r].fecha)]
        /\ measured' = IF answer \in Values THEN measured \cup {new} ELSE measured
        /\ UNCHANGED <<day, table, others>>

\* fetch_uploadpost_stats, after which the rows are written.
FetchPosts(r, posts) ==
    /\ run[r].pc = "fetching"
    /\ run[r].next > Len(CHANNEL_MAP)
    /\ run' = [run EXCEPT ![r].pc = "writing",
                          ![r].todo = @ \o PostRows(posts, run[r].fecha)]
    /\ UNCHANGED <<day, table, others, measured>>

\* write_to_baserow: a row that Baserow does not take is counted and given up.
Write(r) == /\ run[r].pc = "writing"
            /\ run[r].todo # << >>
            /\ table' \in {table, Append(table, Head(run[r].todo))}
            /\ run' = [run EXCEPT ![r].todo = Tail(@)]
            /\ UNCHANGED <<day, others, measured>>

\* write_baserow_metrics and the metrics of the finance snapshot.
CycleWrites ==
    /\ others < MaxOther
    /\ others' = others + 1
    /\ table' = Append(table, [on |-> day, office |-> "sistema", metric |-> "other",
                               value |-> 0])
    /\ UNCHANGED <<day, run, measured>>

NextDay == /\ day < MaxDay
           /\ day' = day + 1
           /\ UNCHANGED <<table, run, others, measured>>

Next == \/ \E r \in RunIds : StartRun(r) \/ Write(r)
        \/ \E r \in RunIds, answer \in Values \cup {Unreachable, Nothing} : Fetch(r, answer)
        \/ \E r \in RunIds, posts \in BOOLEAN : FetchPosts(r, posts)
        \/ CycleWrites
        \/ NextDay

Spec == Init /\ [][Next]_trendVars
-----------------------------------------------------------------------------
\* fetch_metric_rows: the places of the rows that are read.
Fetched == 1..Min({Len(table), Capacity})

\* _watch_time_trend_by_channel: sorted by date, and within one as written.
WatchOf(c, row) == row.office = c /\ row.metric = "yt_watch_min_28d"
Points(c) == {i \in Fetched : WatchOf(c, table[i])}
PointDays(c) == {table[i].on : i \in Points(c)}
On(c, d) == {i \in Points(c) : table[i].on = d}
Oldest(c) == table[Min(On(c, Min(PointDays(c))))].value
Newest(c) == table[Max(On(c, Max(PointDays(c))))].value

\* channel_performance_classification, in tenths.
Classification(c) ==
    LET gain == 10 * (Newest(c) - Oldest(c))
    IN  IF Cardinality(PointDays(c)) < MinDays THEN "sin_datos_suficientes"
        ELSE IF Oldest(c) = 0 THEN IF Newest(c) > 0 THEN "ESCALAR" ELSE "MANTENER"
        ELSE IF gain >= Oldest(c) THEN "ESCALAR"
        ELSE IF gain <= -Oldest(c) THEN "MATAR"
        ELSE "MANTENER"

\* What is said of a channel compares two answers of the API, under dates as far apart as
\* it takes and the later the last that the channel has a row for, while the table fits what
\* is read: neither a failed request nor a lost write makes a trend or hides one.  The days
\* of the answers are as far apart too, unless the earlier is of a run that had taken its
\* date before midnight and asked after it.
TrendsAreMeasured ==
    \A c \in Channels :
        Classification(c) # "sin_datos_suficientes" =>
            \E before, after \in {m \in measured : m.of = c} :
                /\ after.on - before.on >= MinDays - 1
                /\ \/ after.taken - before.taken >= MinDays - 1
                   \/ before.taken > before.on
                /\ Len(table) <= Capacity =>
                       \A i \in DOMAIN table : WatchOf(c, table[i]) => table[i].on <= after.on
                /\ LET gain == 10 * (after.value - before.value)
                   IN  CASE Classification(c) = "MATAR" -> gain <= -before.value
                         [] Classification(c) = "ESCALAR" -> gain >= before.value
                         [] OTHER -> gain \in (-before.value)..before.value
=============================================================================
