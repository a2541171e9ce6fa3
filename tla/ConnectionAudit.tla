--------------------------- MODULE ConnectionAudit ---------------------------
(***************************************************************************)
(* The daily audit of the keys in the vault: every provider has a validator *)
(* that tries its key against an endpoint that costs nothing, the answers   *)
(* are written to a report named after the date, and the daily cycle raises *)
(* an alert for a provider that worked in the previous report and is refused *)
(* now.  An audit by hand writes over the report of the same day.           *)
(***************************************************************************)
EXTENDS Integers, Sequences

CONSTANTS Audited,      \* the providers of VALIDATORS in the model
          MaxDay,       \* bound: days
          MaxChanges,   \* bound: changes to the vault or to what is accepted
          MaxAudits,    \* bound: audits
          Missing       \* no report, no cycle

\* VALIDATORS, in the sections of registry.py: how an answer is read, and the sets
\* of names one of which must be usable, in the order they are tried.
LanguageModels ==
    [openai |-> <<"http", <<{"OPENAI"}>>>>, anthropic |-> <<"http", <<{"ANTHROPIC"}>>>>,
     kimi_moonshot |-> <<"http", <<{"KIMI"}, {"MOONSHOT"}>>>>,
     openrouter |-> <<"http", <<{"OPENROUTER"}>>>>, nvidia_nim |-> <<"http", <<{"NVIDIA"}>>>>,
     groq |-> <<"http", <<{"GROQ"}>>>>, mistral |-> <<"http", <<{"MISTRAL"}>>>>,
     cohere |-> <<"http", <<{"COHERE"}>>>>, gemini |-> <<"http", <<{"GEMINI"}>>>>]
Media ==
    [xai |-> <<"skip", <<>>>>,
     perplexity |-> <<"presence", <<{"PERPLEXITY"}, {"PERPLEXITY_2"}>>>>,
     deepl |-> <<"http", <<{"DEEPL"}>>>>, replicate |-> <<"http", <<{"REPLICATE"}>>>>,
     elevenlabs |-> <<"http", <<{"ELEVENLABS"}, {"ELEVENLABS_2"}>>>>,
     heygen |-> <<"http", <<{"HEYGEN"}>>>>, pexels |-> <<"http", <<{"PEXELS"}>>>>]
Research ==
    [pixabay |-> <<"http", <<{"PIXABAY"}>>>>,
     cloudinary |-> <<"http", <<{"CLOUDINARY_KEY", "CLOUDINARY_SECRET", "CLOUDINARY_CLOUD"}>>>>,
     firecrawl |-> <<"http", <<{"FIRECRAWL"}>>>>,
     exa |-> <<"presence", <<{"EXA"}>>>>, rapidapi |-> <<"presence", <<{"RAPIDAPI"}>>>>,
     uploadpost |-> <<"http", <<{"UPLOADPOST"}>>>>, github |-> <<"http", <<{"GITHUB"}>>>>,
     notion |-> <<"http", <<{"NOTION"}>>>>]
Services ==
    [telegram |-> <<"bot", <<{"TELEGRAM"}, {"TELEGRAM_PHOTOREEL"}>>>>,
     cloudflare |-> <<"body", <<{"CF_AUTH"}, {"CF_DNS"}, {"CF_WORKERS"}, {"CF_BILLING"},
                                {"CF_GTAV"}, {"CF_WORDPRESS"}>>>>,
     stripe |-> <<"http", <<{"STRIPE"}, {"STRIPE_LIVE"}>>>>,
     supabase |-> <<"http", <<{"ORION_URL", "ORION_KEY"}, {"NISSAN_URL", "NISSAN_KEY"},
                              {"WORLDVIBE_URL", "WORLDVIBE_KEY"}>>>>]
SelfHosted ==
    [baserow |-> <<"http", <<{"BASEROW"}, {"BASEROW_API"}, {"BASEROW_CONTENT"},
                             {"BASEROW_ACCOUNTING"}>>>>,
     n8n |-> <<"http", <<{"N8N_KEY", "N8N_HOST"}>>>>,
     upstash |-> <<"body", <<{"UPSTASH_URL", "UPSTASH_TOKEN"}>>>>,
     huggingface |-> <<"http", <<{"HF"}, {"HF_FINEGRAINED"}>>>>,
     apify |-> <<"http", <<{"APIFY"}, {"APIFY_1"}, {"APIFY_2"}, {"APIFY_3"}, {"APIFY_4"},
                           {"APIFY_5"}, {"APIFY_6"}, {"APIFY_7"}>>>>,
     kie |-> <<"skip", <<>>>>, higgsfield |-> <<"skip", <<>>>>, modal |-> <<"skip", <<>>>>]

Sections == {LanguageModels, Media, Research, Services, SelfHosted}
VALIDATORS(p) == (CHOOSE s \in Sections : p \in DOMAIN s)[p]
Sort(p) == VALIDATORS(p)[1]
Names(p) == UNION {VALIDATORS(p)[2][i] : i \in DOMAIN VALIDATORS(p)[2]}
AllNames == UNION {Names(p) : p \in Audited}

Marks == {"ok", "fail", "unknown", "skip"}
Statuses == [Audited -> Marks]

VARIABLES day,
          found,     \* whether the vault is there
          usable,    \* the names that have a value in it, and no placeholder
          accepted,  \* the names whose value the provider takes
          report,    \* report[d]: connection-matrix-<d>.json
          cycle,     \* a daily cycle under way: its date and its own audit
          alerts,    \* the providers the last cycle raised an alert for
          last,      \* history: the last audit and the day it was written
          changes, audits

auditVars == <<day, found, usable, accepted, report, cycle, alerts, last,
               changes, audits>>

TypeOK == /\ day \in 1..MaxDay
          /\ found \in BOOLEAN
          /\ usable \subseteq AllNames
          /\ accepted \subseteq AllNames
          /\ report \in [1..MaxDay -> Statuses \cup {Missing}]
          /\ cycle \in [today : 1..MaxDay, got : Statuses \cup {Missing},
                        before : [on : 0..MaxDay, got : Statuses]] \cup {Missing}
          /\ alerts \subseteq Audited
          /\ last \in [on : 0..MaxDay, got : Statuses]
          /\ changes \in 0..MaxChanges
          /\ audits \in 0..MaxAudits

Init == /\ day = 1
        /\ found = TRUE
        /\ usable = AllNames
        /\ accepted = AllNames
        /\ report = [d \in 1..MaxDay |-> Missing]
        /\ cycle = Missing
        /\ alerts = {}
        /\ last = [on |-> 0, got |-> [p \in Audited |-> "unknown"]]
        /\ changes = 0
        /\ audits = 0
-----------------------------------------------------------------------------
\* pick_candidate: the first alternative all of whose names are usable.
Picks(p) == LET alternatives == VALIDATORS(p)[2]
            IN  {i \in DOMAIN alternatives :
                    /\ alternatives[i] \subseteq usable
                    /\ \A j \in 1..i-1 : ~(alternatives[j] \subseteq usable)}

\* What the service may answer: a code, 0 standing for a network error, and whether
\* the body says that all is well.
Answers(good) == IF good THEN {0, 200, 500} \X BOOLEAN
                         ELSE {0, 401, 403, 404, 500} \X {FALSE}

\* _classify_http and its variants (mutant: whatever is not 200 is a failure).
MutVerdict(sort, code, sound) ==
    IF code = 200 /\ (sort = "body" => sound) THEN "ok" ELSE "fail"
Verdict(sort, code, sound) ==
    CASE code = 200 /\ (sort = "body" => sound) -> "ok"
      [] code \in {401, 403} -> "fail"
      [] code = 404 /\ sort = "bot" -> "fail"
      [] OTHER -> "unknown"

\* What the validator of p may report.
Reports(p) ==
    CASE ~found -> {"fail"}
      [] found /\ Sort(p) = "skip" -> {"skip"}
      [] found /\ Sort(p) # "skip" /\ Picks(p) = {} -> {"unknown"}
      [] OTHER -> IF Sort(p) = "presence" THEN {"ok"}
                  ELSE LET pick == VALIDATORS(p)[2][CHOOSE i \in Picks(p) : TRUE]
                       IN  {Verdict(Sort(p), a[1], a[2]) :
                               a \in Answers(pick \subseteq accepted)}

\* compute_and_render writes the report of the day it ends on.
Audit(got) ==
    /\ audits < MaxAudits
    /\ audits' = audits + 1
    /\ \A p \in Audited : got[p] \in Reports(p)
    /\ report' = [report EXCEPT ![day] = got]
    /\ last' = [on |-> day, got |-> got]
    /\ UNCHANGED <<day, found, usable, accepted, alerts, changes>>

AuditByHand(got) == Audit(got) /\ UNCHANGED cycle

StartCycle == /\ cycle = Missing
              /\ cycle' = [today |-> day, got |-> Missing, before |-> last]
              /\ UNCHANGED <<day, found, usable, accepted, report, alerts, last,
                             changes, audits>>

AuditInCycle(got) ==
    /\ cycle # Missing
    /\ cycle.got = Missing
    /\ Audit(got)
    /\ cycle' = [cycle EXCEPT !.got = got, !.before = last]

\* _load_previous_connection_matrix: yesterday's report, else the last one before
\* today's (mutant: or today's itself).
MutPrevious(today) == {d \in 1..today : /\ report[d] # Missing
                                        /\ \A e \in (d + 1)..today : report[e] = Missing}
Previous(today) == {d \in 1..(today - 1) :
                       /\ report[d] # Missing
                       /\ \A e \in (d + 1)..(today - 1) : report[e] = Missing}

\* _detect_connection_regressions; an audit that raised has nothing to compare.
Compare ==
    /\ cycle # Missing
    /\ alerts' = IF cycle.got = Missing THEN {}
                 ELSE {p \in Audited : /\ cycle.got[p] = "fail"
                                       /\ \E d \in Previous(cycle.today) :
                                             report[d][p] = "ok"}
    /\ cycle' = Missing
    /\ UNCHANGED <<day, found, usable, accepted, report, last, changes, audits>>

NextDay == /\ day < MaxDay
           /\ day' = day + 1
           /\ UNCHANGED <<found, usable, accepted, report, cycle, alerts, last,
                          changes, audits>>

Change == /\ changes < MaxChanges
          /\ changes' = changes + 1
          /\ \/ found' = ~found /\ UNCHANGED <<usable, accepted>>
             \/ /\ \E n \in AllNames : usable' = (usable \ {n}) \cup ({n} \ usable)
                /\ UNCHANGED <<found, accepted>>
             \/ /\ \E n \in AllNames : accepted' = (accepted \ {n}) \cup ({n} \ accepted)
                /\ UNCHANGED <<found, usable>>
          /\ UNCHANGED <<day, report, cycle, alerts, last, audits>>

Next == \/ \E got \in Statuses : AuditByHand(got) \/ AuditInCycle(got)
        \/ StartCycle
        \/ Compare
        \/ NextDay
        \/ Change

Spec == Init /\ [][Next]_auditVars
-----------------------------------------------------------------------------
\* Nobody is called because a network error or a half-filled vault says nothing
\* about a key: an audit marks a failure only if the service refuses the values it
\* was given, or there is no vault.
FailsOnRefusal ==
    \A p \in Audited :
        last'.got[p] = "fail" /\ audits' # audits =>
            ~found \/ (Names(p) \cap usable) \ accepted # {}
FailuresAreRefusals == [][FailsOnRefusal]_auditVars

\* "proveedor que ayer estaba ok y hoy falla": a provider that the audit before a
\* cycle's, on an earlier day, saw working and the cycle's own sees refused raises an
\* alert, whichever days had no report and whenever midnight comes.
AlertsRegression ==
    cycle # Missing /\ cycle' = Missing /\ cycle.got # Missing =>
        \A p \in Audited :
            /\ cycle.before.on \in 1..(cycle.today - 1)
            /\ cycle.before.got[p] = "ok"
            /\ cycle.got[p] = "fail"
            => p \in alerts'
RegressionsAlerted == [][AlertsRegression]_auditVars
=============================================================================
