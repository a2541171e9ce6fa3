------------------------------- MODULE Virality -------------------------------
(***************************************************************************)
(* scripts/virality_research.py: one process asks, channel by channel and   *)
(* platform by platform, an Apify actor for what is viral, with the keys of *)
(* the vault in turn (ApifyRotation), and leaves a brief a channel and the  *)
(* report of the day.  What an actor finds is whether it found something.   *)
(***************************************************************************)
EXTENDS Integers, Sequences, FiniteSets

CONSTANTS Names,       \* APIFY_KEY_ENV_NAMES: the names of the keys
          Canales,     \* the channels of a run, in their order
          Platforms,   \* --platforms, in their order
          MaxRuns,     \* bound: runs in a day
          Nothing      \* no call under way, no brief

VARIABLES keys,      \* the keys the vault gave, in the order of its lines
          cursor,    \* _cursor: position in keys the next search starts at
          excluded,  \* _excluded: keys that answered 401, 402 or 429
          asked,     \* history: calls made with each key in this run
          calling,   \* the key of the call under way, or Nothing
          tries,     \* turns of run_actor_sync's loop that are over
          canal,     \* position in Canales
          platform,  \* position in Platforms
          found,     \* real_items: the platforms that gave some for this channel
          brief,     \* the brief of each channel today: its platforms, or Nothing
          entries,   \* channels the report will list
          report,    \* the channels the report of the day lists
          runs       \* counter bounded by MaxRuns

virVars == <<keys, cursor, excluded, asked, calling, tries, canal, platform, found,
             brief, entries, report, runs>>

Channels == {Canales[i] : i \in DOMAIN Canales}
Orders == UNION {{s \in [1..n -> Names] : \A i, j \in 1..n : i # j => s[i] # s[j]}
                   : n \in 0..Cardinality(Names)}
Held == {keys[i] : i \in DOMAIN keys}

\* keys = <<>> is a process that is not running.
TypeOK == /\ keys \in Orders
          /\ cursor \in 1..Cardinality(Names)
          /\ excluded \subseteq Held
          /\ asked \in [Names -> Nat]
          /\ calling \in Held \cup {Nothing}
          /\ tries \in 0..Len(keys)
          /\ canal \in 1..Len(Canales) + 1
          /\ platform \in 1..Len(Platforms) + 1
          /\ found \subseteq DOMAIN Platforms
          /\ brief \in [Channels -> (SUBSET (DOMAIN Platforms)) \cup {Nothing}]
          /\ entries \subseteq Channels
          /\ report \subseteq Channels
          /\ runs \in 0..MaxRuns

Fresh == /\ cursor' = 1
         /\ excluded' = {}
         /\ asked' = [n \in Names |-> 0]
         /\ calling' = Nothing
         /\ tries' = 0
         /\ canal' = 1
         /\ platform' = 1
         /\ found' = {}
         /\ entries' = {}

Init == /\ keys = <<>>
        /\ cursor = 1
        /\ excluded = {}
        /\ asked = [n \in Names |-> 0]
        /\ calling = Nothing
        /\ tries = 0
        /\ canal = 1
        /\ platform = 1
        /\ found = {}
        /\ brief = [c \in Channels |-> Nothing]
        /\ entries = {}
        /\ report = {}
        /\ runs = 0

\* main --apply: read_vault_keys gives the lines with a value; with none of them the
\* constructor of ApifyRotation raises, and the process never runs.
Start(ks) == /\ keys = <<>>
             /\ runs < MaxRuns
             /\ keys' = ks
             /\ Fresh
             /\ runs' = runs + 1
             /\ UNCHANGED <<brief, report>>

\* The position _next gives: the first from the cursor that is not excluded.
At(offset) == 1 + ((cursor - 1 + offset) % Len(keys))
Turn == At(CHOOSE o \in 0..Len(keys) - 1 :
               /\ keys[At(o)] \notin excluded
               /\ \A p \in 0..o - 1 : keys[At(p)] \in excluded)
\* Where the next search starts (mutants: at the key just given, past the last one).
MutAfter(i) == i
MutPastEnd(i) == i + 1
After(i) == 1 + (i % Len(keys))

Fetching == keys # <<>> /\ canal <= Len(Canales) /\ platform <= Len(Platforms)
Briefing == keys # <<>> /\ canal <= Len(Canales) /\ platform > Len(Platforms)

Ask == /\ Fetching
       /\ calling = Nothing
       /\ tries < Len(keys)
       /\ ~ Held \subseteq excluded
       /\ calling' = keys[Turn]
       /\ cursor' = After(Turn)
       /\ asked' = [asked EXCEPT ![keys[Turn]] = @ + 1]
       /\ UNCHANGED <<keys, excluded, tries, canal, platform, found, brief, entries,
                      report, runs>>

\* The fetch of the platform is over, with its items or its ApifyRotationError.
NextPlatform == /\ platform' = platform + 1
                /\ calling' = Nothing
                /\ tries' = 0
                /\ UNCHANGED <<keys, canal, brief, entries, report, runs, cursor, asked>>

\* The actor's dataset comes back, with items or empty.
Answered == /\ calling # Nothing
            /\ found' \in {found, found \cup {platform}}
            /\ NextPlatform
            /\ UNCHANGED excluded

\* 401, 402 or 429: this key no more in this run, and the next one is tried.
Refused == /\ calling # Nothing
           /\ excluded' = excluded \cup {calling}
           /\ calling' = Nothing
           /\ tries' = tries + 1
           /\ UNCHANGED <<keys, cursor, asked, canal, platform, found, brief,
                          entries, report, runs>>

\* Any other status, the network or the time limit, a dataset that is no list: raised
\* at once, though the actor may have run.
Failed == /\ calling # Nothing
          /\ NextPlatform
          /\ UNCHANGED <<excluded, found>>

\* Every key was refused, in this fetch or before it.
NoKeys == /\ Fetching
          /\ calling = Nothing
          /\ tries = Len(keys) \/ Held \subseteq excluded
          /\ NextPlatform
          /\ UNCHANGED <<excluded, found>>

\* An answer that is not JSON or not of the form expected, and an engine that cannot be
\* imported or raises: nothing catches it, and neither briefs nor report follow.
Dies == /\ \/ calling # Nothing
           \/ Briefing
        /\ keys' = <<>>
        /\ Fresh
        /\ UNCHANGED <<brief, report, runs>>

\* build_brief and write_workspace_brief: over the brief of an earlier run of the day,
\* also with no item at all.
WriteBrief == /\ Briefing
              /\ brief' = [brief EXCEPT ![Canales[canal]] = found]
              /\ entries' = entries \cup {Canales[canal]}
              /\ canal' = canal + 1
              /\ platform' = 1
              /\ found' = {}
              /\ UNCHANGED <<keys, cursor, excluded, asked, calling, tries, report,
                             runs>>

WriteReport == /\ keys # <<>>
               /\ canal > Len(Canales)
               /\ report' = entries
               /\ keys' = <<>>
               /\ Fresh
               /\ UNCHANGED <<brief, runs>>

Next == \/ \E ks \in Orders : Start(ks)
        \/ Ask
        \/ Answered
        \/ Refused
        \/ Failed
        \/ NoKeys
        \/ Dies
        \/ WriteBrief
        \/ WriteReport

Spec == Init /\ [][Next]_virVars
-----------------------------------------------------------------------------
\* The rotation shares the work: keys nobody refused have been asked equally often,
\* give or take one, whatever was refused, failed or skipped between, and a platform is
\* given up for want of keys only when every key has been refused.
KeysTakeTurns ==
    /\ \A a, b \in Held \ excluded : asked[a] <= asked[b] + 1
    /\ tries = Len(keys) => Held \subseteq excluded
=============================================================================
