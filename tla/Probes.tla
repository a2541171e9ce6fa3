-------------------------------- MODULE Probes --------------------------------
(***************************************************************************)
(* The offices dashboard.  Docker is asked through a cache of a few seconds  *)
(* that pool threads share without a lock: several may find it too old, ask, *)
(* and store their answers in any order.                                     *)
(***************************************************************************)
EXTENDS Naturals

CONSTANTS Gets,         \* requests, each in a pool thread
          Offices,      \* OFFICE_NAMES
          TTL,          \* docker_stats_ttl
          MaxTime,      \* bound: the clock
          Nothing

VARIABLES clock,    \* time.monotonic
          up,       \* the offices whose container runs
          was,      \* history: was[t]: all that `up` was at time t
          cache,    \* _CACHE["docker_stats"]
          get       \* get[i]: how far the i-th request is, when it looked, and
                    \* what it answers

probeVars == <<clock, up, was, cache, get>>

Times == 0..MaxTime
Answers == (SUBSET Offices) \cup {Nothing}   \* Nothing: an error

TypeOK == /\ clock \in Times
          /\ up \subseteq Offices
          /\ was \in [Times -> SUBSET (SUBSET Offices)]
          /\ cache \in [at : Times, answer : Answers] \cup {Nothing}
          /\ get \in [Gets -> [pc : {"new", "missed", "asked", "shown"}, now : Times,
                               answer : Answers]]

Init == /\ clock = 0
        /\ up = {}
        /\ was = [t \in Times |-> IF t = 0 THEN {{}} ELSE {}]
        /\ cache = Nothing
        /\ get = [i \in Gets |-> [pc |-> "new", now |-> 0, answer |-> Nothing]]
-----------------------------------------------------------------------------
Tick == /\ clock < MaxTime
        /\ clock' = clock + 1
        /\ was' = [was EXCEPT ![clock + 1] = {up}]
        /\ UNCHANGED <<up, cache, get>>

\* An office is started or stopped.
Switch(o) == /\ up' = (up \ {o}) \cup ({o} \ up)
             /\ was' = [was EXCEPT ![clock] = @ \cup {up'}]
             /\ UNCHANGED <<clock, cache, get>>

\* _cached reads the time, and then the cache.
Fresh == cache # Nothing /\ clock - cache.at < TTL
Look(i) == /\ get[i].pc = "new"
           /\ get' = [get EXCEPT ![i] =
                  IF Fresh THEN [pc |-> "shown", now |-> clock, answer |-> cache.answer]
                  ELSE [pc |-> "missed", now |-> clock, answer |-> Nothing]]
           /\ UNCHANGED <<clock, up, was, cache>>

\* check_docker_stats does not raise: docker missing, slow or down is an answer.
Ask(i) == /\ get[i].pc = "missed"
          /\ \E answer \in {up, Nothing} :
                get' = [get EXCEPT ![i].pc = "asked", ![i].answer = answer]
          /\ UNCHANGED <<clock, up, was, cache>>

\* The answer is as old as the look (mutant: as the end of the call).
MutStamp(i) == clock
Stamp(i) == get[i].now

Store(i) == /\ get[i].pc = "asked"
            /\ cache' = [at |-> Stamp(i), answer |-> get[i].answer]
            /\ get' = [get EXCEPT ![i].pc = "shown"]
            /\ UNCHANGED <<clock, up, was>>

Next == \/ Tick
        \/ \E o \in Offices : Switch(o)
        \/ \E i \in Gets : Look(i) \/ Ask(i) \/ Store(i)

Spec == Init /\ [][Next]_probeVars
-----------------------------------------------------------------------------
\* "`office just started' shows up within one refresh cycle": what a request is
\* answered was the case less than TTL before it looked, or later, however slow the
\* calls to docker are and in whatever order they end.
ServedFresh ==
    \A i \in Gets :
        get[i].pc = "shown" /\ get[i].answer # Nothing =>
            \E t \in Times : t + TTL > get[i].now /\ get[i].answer \in was[t]
=============================================================================
