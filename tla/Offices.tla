------------------------------- MODULE Offices -------------------------------
(***************************************************************************)
(* OfficeLauncher: containers of offices are started and stopped on demand,  *)
(* no more than MaxActive of them.  Callers in several threads first list    *)
(* what runs and then call `docker compose`, which may take longer than they *)
(* wait for it.                                                              *)
(***************************************************************************)
EXTENDS Naturals, FiniteSets

CONSTANTS Callers,      \* threads that start or stop an office
          KnownOffices,
          MaxActive,    \* offices_max_active
          MaxCalls      \* bound: calls

VARIABLES up,        \* offices whose container runs
          late,      \* offices that docker is still bringing up for nobody
          call,      \* call[c]: what c is doing, for which office
          calls,
          rushed     \* history: a caller counted while an admitted office was not yet up

officeVars == <<up, late, call, calls, rushed>>

TypeOK == /\ up \subseteq KnownOffices
          /\ late \subseteq KnownOffices
          /\ call \in [Callers -> [pc : {"idle", "starting", "stopping"},
                                   office : KnownOffices]]
          /\ calls \in 0..MaxCalls
          /\ rushed \in BOOLEAN

Init == /\ up = {}
        /\ late = {}
        /\ call \in [Callers -> [pc : {"idle"}, office : {CHOOSE o \in KnownOffices : TRUE}]]
        /\ calls = 0
        /\ rushed = FALSE
-----------------------------------------------------------------------------
\* Offices that somebody was let start and that are not running yet.
Admitted == late \cup {call[c].office : c \in {d \in Callers : call[d].pc = "starting"}}

\* The cap (mutant: one more).
MutRoom == Cardinality(up) <= MaxActive
Room == Cardinality(up) < MaxActive

\* active(), and what start does before it runs compose: nothing if the office runs
\* or there is no room.
CountForStart(c, o) ==
    /\ call[c].pc = "idle"
    /\ calls < MaxCalls
    /\ calls' = calls + 1
    /\ IF o \notin up /\ Room
       THEN /\ call' = [call EXCEPT ![c] = [pc |-> "starting", office |-> o]]
            /\ rushed' = (rushed \/ Admitted \ up # {})
       ELSE UNCHANGED <<call, rushed>>
    /\ UNCHANGED <<up, late>>

\* `up -d` ends: the container runs, or it failed, or the caller gave up waiting.
Up(c) == /\ call[c].pc = "starting"
         /\ \/ up' = up \cup {call[c].office} /\ UNCHANGED late
            \/ UNCHANGED <<up, late>>
            \/ late' = late \cup {call[c].office} /\ UNCHANGED up
         /\ call' = [call EXCEPT ![c].pc = "idle"]
         /\ UNCHANGED <<calls, rushed>>

UpLate(o) == /\ o \in late
             /\ late' = late \ {o}
             /\ up' \in {up, up \cup {o}}
             /\ UNCHANGED <<call, calls, rushed>>

CountForStop(c, o) ==
    /\ call[c].pc = "idle"
    /\ calls < MaxCalls
    /\ calls' = calls + 1
    /\ call' = IF o \in up THEN [call EXCEPT ![c] = [pc |-> "stopping", office |-> o]]
               ELSE call
    /\ UNCHANGED <<up, late, rushed>>

Down(c) == /\ call[c].pc = "stopping"
           /\ up' \in {up, up \ {call[c].office}}
           /\ call' = [call EXCEPT ![c].pc = "idle"]
           /\ UNCHANGED <<late, calls, rushed>>

\* The work of an office is done and its container exits.
Exit(o) == /\ o \in up
           /\ up' = up \ {o}
           /\ UNCHANGED <<late, call, calls, rushed>>

Next == \/ \E c \in Callers, o \in KnownOffices : CountForStart(c, o) \/ CountForStop(c, o)
        \/ \E c \in Callers : Up(c) \/ Down(c)
        \/ \E o \in KnownOffices : UpLate(o) \/ Exit(o)

Spec == Init /\ [][Next]_officeVars
-----------------------------------------------------------------------------
\* "At most offices_max_active simultaneously": more offices than that run only if a
\* caller counted them while one that had been let start was not up yet, because two
\* calls overlapped or docker was slower than the caller's patience.
CapBrokenOnlyByRush == Cardinality(up) > MaxActive => rushed
=============================================================================
