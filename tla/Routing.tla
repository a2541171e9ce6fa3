------------------------------- MODULE Routing -------------------------------
(***************************************************************************)
(* Which agent and which model profile a task is planned with: Conductor      *)
(* picks the team of the task's domain and one of its active agents,         *)
(* ModelRouter the profile of highest score among those the task can use.    *)
(* A task may be planned again, after its registry or metadata changed.      *)
(***************************************************************************)
EXTENDS Integers

CONSTANTS Domains,          \* domains of tasks
          Numbers,          \* what metadata may say: complexity, context, cost tier
          NoTeam            \* not a value of the rest

Risks == {"low", "medium", "high", "critical"}
Runtimes == {"hermes", "claude-code", "aah"}

\* DOMAIN_TEAMS, for the teams whose name is not that of the domain.
Team(domain) ==
    CASE domain = "security" -> "governance"
      [] domain = "trading" -> "investments"
      [] domain = "personal" -> "personal-operations"
      [] domain \in {"engineering", "research", "content", "operations", "forge", "finance",
                     "investments", "revenue", "documents", "learning",
                     "personal-operations", "projects", "ads"} -> domain
      [] OTHER -> "governance"

Profile(id, tier, quality, context, tools, vision, subscription) ==
    [id |-> id, cost_tier |-> tier, quality |-> quality, context |-> context,
     tools |-> tools, vision |-> vision, subscription |-> subscription]

DEFAULT_PROFILES ==
    { Profile("local-daily",         0, 2, 2, FALSE, FALSE, FALSE),
      Profile("deepseek-daily",      1, 3, 4, TRUE,  FALSE, FALSE),
      Profile("qwen-daily",          1, 3, 4, TRUE,  FALSE, FALSE),
      Profile("kimi-research",       2, 4, 5, TRUE,  FALSE, FALSE),
      Profile("grok-trends",         3, 4, 4, TRUE,  TRUE,  FALSE),
      Profile("claude-subscription", 1, 5, 5, TRUE,  TRUE,  TRUE),
      Profile("codex-subscription",  1, 5, 4, TRUE,  TRUE,  TRUE),
      Profile("aah-subscription",    1, 5, 5, TRUE,  FALSE, TRUE),
      Profile("anthropic-premium",   5, 5, 5, TRUE,  TRUE,  FALSE),
      Profile("openai-premium",      5, 5, 5, TRUE,  TRUE,  FALSE),
      Profile("kimi-office",         0, 4, 5, TRUE,  FALSE, FALSE),
      Profile("glm-nim",             0, 4, 6, TRUE,  FALSE, FALSE),
      Profile("qwen-nim-batch",      0, 3, 4, TRUE,  FALSE, FALSE),
      Profile("nemotron-nim-worker", 0, 4, 4, TRUE,  FALSE, FALSE) }

Tasks == [domain : Domains, risk : Risks, complexity : Numbers, context_need : Numbers,
          vision_required : BOOLEAN, max_cost_tier : Numbers]

VARIABLES task,     \* the task: what plan reads of it
          route,    \* its profile, or NoTeam before it is planned
          runtime   \* the runtime of its agent, or NoTeam

routingVars == <<task, route, runtime>>

TypeOK == /\ task \in Tasks
          /\ route \in DEFAULT_PROFILES \cup {NoTeam}
          /\ runtime \in Runtimes \cup {NoTeam}

Init == /\ task \in Tasks
        /\ route = NoTeam
        /\ runtime = NoTeam
-----------------------------------------------------------------------------
Larger(a, b) == IF a >= b THEN a ELSE b
Smaller(a, b) == IF a <= b THEN a ELSE b
Distance(a, b) == IF a >= b THEN a - b ELSE b - a

\* The filter of route: cost, tools, vision.
Usable(t, p) ==
    /\ p.cost_tier <= t.max_cost_tier
    /\ t.domain \in {"engineering", "operations", "content"} => p.tools
    /\ t.vision_required => p.vision

\* What a domain or a risk adds to a profile, in tenths.
Bonus(t, p) ==
    (IF p.subscription THEN 30 ELSE 0)
    + (IF /\ t.domain \in {"engineering", "governance"}
          /\ p.id \in {"claude-subscription", "codex-subscription"} THEN 35 ELSE 0)
    + (IF t.domain = "research" /\ p.id = "kimi-research" THEN 30 ELSE 0)
    + (IF t.domain \in {"trends", "content"} /\ p.id = "grok-trends" THEN 20 ELSE 0)
    + (IF t.risk \in {"high", "critical"} /\ p.quality >= 5 THEN 25 ELSE 0)

\* The score, in tenths (mutant: the tier is added, not what it saves).
MutScore(t, p) ==
    Larger(0, 60 - 15 * Distance(p.quality, t.complexity))
    + 8 * Smaller(p.context, t.context_need) + 11 * p.cost_tier + Bonus(t, p)
Score(t, p) ==
    Larger(0, 60 - 15 * Distance(p.quality, t.complexity))
    + 8 * Smaller(p.context, t.context_need) + 11 * Larger(0, 5 - p.cost_tier) + Bonus(t, p)

\* A profile of highest score; between equal ones floating point or their order decides.
Routes(t, p) ==
    /\ p \in DEFAULT_PROFILES
    /\ Usable(t, p)
    /\ \A q \in DEFAULT_PROFILES : Usable(t, q) => Score(t, q) <= Score(t, p)

\* _select among the runtimes of the team's active agents; task-governor if it has none.
Selected(t, active) ==
    LET wanted == IF Team(t.domain) = "engineering" /\ t.risk # "low"
                  THEN active \cap {"aah"} ELSE active \ {"aah"}
    IN  CASE active = {} -> {"hermes"}
          [] wanted # {} -> wanted
          [] OTHER -> active

\* Conductor.assign, behind POST /plan; it raises if no profile is usable.
Plan == \E p \in DEFAULT_PROFILES :
            /\ Routes(task, p)
            /\ route' = p
            /\ \E active \in SUBSET Runtimes : runtime' \in Selected(task, active)
            /\ UNCHANGED task

Next == Plan

Spec == Init /\ [][Next]_routingVars
-----------------------------------------------------------------------------
\* No score ever lets a profile that is paid per use, of tier 5, win over the
\* subscription that does the same, and the work of the engineers and of the master
\* goes to a subscription rather than to any free worker, whatever the task's
\* complexity, context and risk, as long as tier 1 is allowed.
RoutingPrefersSubscription ==
    route # NoTeam =>
        /\ route.cost_tier < 5
        /\ task.domain \in {"engineering", "governance"} => route.subscription
                                                            \/ task.max_cost_tier < 1
=============================================================================
