----------------------------- MODULE KeyRegistry -----------------------------
(***************************************************************************)
(* Two scripts the owner of the keys runs by hand.  build_key_registry.py   *)
(* scans the repositories for readers of the keys in the vault and writes   *)
(* the registry, which the owner may then edit.  propagate_env_keys.py      *)
(* plans from the registry and the vault what each repository's .env lacks, *)
(* then writes it.                                                          *)
(*                                                                          *)
(* The owner edits vault, .env files, code and registry at any time: between *)
(* what a script reads and what it writes too.                              *)
(***************************************************************************)
EXTENDS Naturals

CONSTANTS Keys, Repos,    \* names in the vault; CONSUMER_REPO_NAMES
          Secrets,        \* values that are fit for use
          MaxEdits,       \* bound: edits by the owner
          MaxScripts,     \* bound: runs of the scripts
          Absent, NoEntry, Idle

\* A value as it stands after the "=": `""` is blank once it is read from an .env,
\* but is_placeholder and strip() leave it its quotes.
Values == Secrets \cup {"blank", "quoted", "placeholder"}
Read(v) == IF v = "quoted" THEN "blank" ELSE v
Entries == [consumers : SUBSET Repos, curated : BOOLEAN]
Plans == [Repos -> [add : SUBSET Keys, sanitize : SUBSET Keys]]

VARIABLES vault,     \* vault[k]: the value of k in the vault
          code,      \* code[k]: the repositories whose sources read k
          env,       \* env[q][k]: the active value of k in q's .env
          registry,  \* registry[k]: k's entry in config/key_registry.yaml
          builder,   \* what a build read and is about to write
          plan,      \* what a propagation is about to do, by repository
          source,    \* the vault as it read it again before writing, or Idle
          mine,      \* history: mine[q][k]: what the owner last wrote there, if
                     \* it was not a plan's write that it came too late for
          hurried,   \* history: edits since a script read what they change
          served,    \* history: nothing has changed since the last build began
          edits, scripts

regVars == <<vault, code, env, registry, builder, plan, source, mine, hurried,
             served, edits, scripts>>

TypeOK == /\ vault \in [Keys -> Values \cup {Absent}]
          /\ code \in [Keys -> SUBSET Repos]
          /\ env \in [Repos -> [Keys -> Values \cup {Absent}]]
          /\ registry \in [Keys -> Entries \cup {NoEntry}]
          /\ builder \in [Keys -> Entries \cup {NoEntry}] \cup {Idle}
          /\ plan \in Plans \cup {Idle}
          /\ source \in [Keys -> Values \cup {Absent}] \cup {Idle}
          /\ mine \in [Repos -> [Keys -> Values \cup {Absent}]]
          /\ hurried \subseteq (Repos \cup {NoEntry}) \X Keys
          /\ served \in {"no", "building", "built", "planned", "yes"}
          /\ edits \in 0..MaxEdits
          /\ scripts \in 0..MaxScripts

Init == /\ vault = [k \in Keys |-> Absent]
        /\ code = [k \in Keys |-> {}]
        /\ env = [q \in Repos |-> [k \in Keys |-> Absent]]
        /\ registry = [k \in Keys |-> NoEntry]
        /\ builder = Idle
        /\ plan = Idle
        /\ source = Idle
        /\ mine = env
        /\ hurried = {}
        /\ served = "no"
        /\ edits = 0
        /\ scripts = 0
-----------------------------------------------------------------------------
\* The owner.
Edits == /\ edits < MaxEdits
         /\ edits' = edits + 1
         /\ served' = "no"

EditVault(k, v) == /\ Edits
                   /\ vault' = [vault EXCEPT ![k] = v]
                   /\ UNCHANGED <<code, env, registry, builder, plan, source, mine,
                                  hurried, scripts>>

EditCode(k, readers) == /\ Edits
                        /\ code' = [code EXCEPT ![k] = readers]
                        /\ UNCHANGED <<vault, env, registry, builder, plan, source,
                                       mine, hurried, scripts>>

EditEnv(q, k, v) ==
    /\ Edits
    /\ env' = [env EXCEPT ![q][k] = v]
    /\ mine' = [mine EXCEPT ![q][k] = v]
    /\ hurried' = IF plan = Idle THEN hurried ELSE hurried \cup {<<q, k>>}
    /\ UNCHANGED <<vault, code, registry, builder, plan, source, scripts>>

Curate(k) ==
    /\ Edits
    /\ registry[k] # NoEntry
    /\ registry' = [registry EXCEPT ![k].curated = TRUE]
    /\ hurried' = IF builder = Idle THEN hurried ELSE hurried \cup {<<NoEntry, k>>}
    /\ UNCHANGED <<vault, code, env, builder, plan, source, mine, scripts>>
-----------------------------------------------------------------------------
\* build_registry: an existing entry keeps everything but its consumers (mutant:
\* those too), a key of the vault without one gets one, and an entry whose key has
\* left the vault is dropped.
MutEntryOf(k) == IF vault[k] = Absent THEN NoEntry
                 ELSE IF registry[k] # NoEntry THEN registry[k]
                 ELSE [consumers |-> code[k], curated |-> FALSE]
\* (mutant: the consumers that changed make it a new entry)
MutFreshEntry(k) == IF vault[k] = Absent THEN NoEntry
                    ELSE IF registry[k] # NoEntry /\ registry[k].consumers = code[k]
                    THEN registry[k]
                    ELSE [consumers |-> code[k], curated |-> FALSE]
EntryOf(k) == IF vault[k] = Absent THEN NoEntry
              ELSE IF registry[k] # NoEntry
              THEN [registry[k] EXCEPT !.consumers = code[k]]
              ELSE [consumers |-> code[k], curated |-> FALSE]

Runs == /\ scripts < MaxScripts
        /\ scripts' = scripts + 1

BuildRead == /\ builder = Idle
             /\ Runs
             /\ builder' = [k \in Keys |-> EntryOf(k)]
             /\ hurried' = hurried \ ({NoEntry} \X Keys)
             /\ served' = "building"
             /\ UNCHANGED <<vault, code, env, registry, plan, source, mine, edits>>

BuildWrite == /\ builder # Idle
              /\ registry' = builder
              /\ builder' = Idle
              /\ served' = IF served = "building" THEN "built" ELSE "no"
              /\ UNCHANGED <<vault, code, env, plan, source, mine, hurried, edits,
                             scripts>>
-----------------------------------------------------------------------------
\* needed_keys_by_repo.
Needed(q) == {k \in Keys : registry[k] # NoEntry /\ q \in registry[k].consumers}

\* What plan_repo takes for a value to put in a placeholder's place.
Fit(v) == v \notin {Absent, "blank", "placeholder"}

\* plan_repo: what is missing is copied, whatever the vault has; a placeholder is
\* replaced (mutant: any other value).
MutPlanOf(q) ==
    [add |-> {k \in Needed(q) : env[q][k] = Absent /\ vault[k] # Absent},
     sanitize |-> {k \in Needed(q) : env[q][k] \notin {Absent, vault[k]} /\ Fit(vault[k])}]
PlanOf(q) ==
    [add |-> {k \in Needed(q) : env[q][k] = Absent /\ vault[k] # Absent},
     sanitize |-> {k \in Needed(q) : Read(env[q][k]) = "placeholder" /\ Fit(vault[k])}]

MakePlan == /\ plan = Idle
            /\ Runs
            /\ plan' = [q \in Repos |-> PlanOf(q)]
            /\ hurried' = hurried \ (Repos \X Keys)
            /\ served' = IF served = "built" THEN "planned" ELSE "no"
            /\ UNCHANGED <<vault, code, env, registry, builder, source, mine, edits>>

\* --apply reads the vault again.
ReadVault == /\ plan # Idle
             /\ source = Idle
             /\ source' = vault
             /\ UNCHANGED <<vault, code, env, registry, builder, plan, mine, hurried,
                            served, edits, scripts>>

\* The script ends: all is written, or it only was to show its plan, or a planned
\* key or line is no longer there and it raises.
EndPlan == /\ plan # Idle
           /\ plan' = Idle
           /\ source' = Idle
           /\ served' = IF served = "planned" /\ source # Idle
                           /\ \A q \in Repos : plan[q].add \cup plan[q].sanitize = {}
                        THEN "yes" ELSE "no"
           /\ UNCHANGED <<vault, code, env, registry, builder, mine, hurried, edits,
                          scripts>>

\* apply_plan: an appended line is the active one, whatever the file has by now.
Apply(q) ==
    LET p == plan[q]
    IN  /\ source # Idle
        /\ p.add \cup p.sanitize # {}
        /\ \A k \in p.add \cup p.sanitize : source[k] # Absent
        /\ \A k \in p.sanitize : env[q][k] # Absent
        /\ env' = [env EXCEPT ![q] = [k \in Keys |->
                       IF k \in p.add \cup p.sanitize THEN source[k] ELSE env[q][k]]]
        /\ mine' = [mine EXCEPT ![q] = [k \in Keys |->
                        IF k \in p.add \cup p.sanitize /\ <<q, k>> \in hurried
                        THEN Absent ELSE @[k]]]
        /\ plan' = [plan EXCEPT ![q] = [add |-> {}, sanitize |-> {}]]
        /\ UNCHANGED <<vault, code, registry, builder, source, hurried, served,
                       edits, scripts>>

\* `git check-ignore` does not vouch for the .env, or the repository is not there.
Abort(q) ==
    /\ source # Idle
    /\ plan[q].add \cup plan[q].sanitize # {}
    /\ plan' = [plan EXCEPT ![q] = [add |-> {}, sanitize |-> {}]]
    /\ served' = "no"
    /\ UNCHANGED <<vault, code, env, registry, builder, source, mine, hurried, edits,
                   scripts>>

Next == \/ \E k \in Keys, v \in Values \cup {Absent} : EditVault(k, v)
        \/ \E k \in Keys, readers \in SUBSET Repos : EditCode(k, readers)
        \/ \E q \in Repos, k \in Keys, v \in Values \cup {Absent} : EditEnv(q, k, v)
        \/ \E k \in Keys : Curate(k)
        \/ BuildRead
        \/ BuildWrite
        \/ MakePlan
        \/ ReadVault
        \/ EndPlan
        \/ \E q \in Repos : Apply(q) \/ Abort(q)

Spec == Init /\ [][Next]_regVars
-----------------------------------------------------------------------------
\* "sin tocar jamas un valor ya escrito por un humano" (propagate_env_keys.py): a
\* usable value the owner wrote stays, unless it was written between a plan and its
\* application, which appends to the file as it then is.
HumanValuesKept ==
    \A q \in Repos, k \in Keys :
        mine[q][k] \in Secrets => env[q][k] = mine[q][k]

\* What the owner wrote into an entry of the registry is lost in a build only if its
\* key had left the vault, or if the owner wrote it while the build was under way.
KeepsCuration ==
    \A k \in Keys :
        /\ registry[k] # NoEntry /\ registry[k].curated
        /\ <<NoEntry, k>> \notin hurried
        /\ registry'[k] # NoEntry
        => registry'[k].curated
CurationKept == [][KeepsCuration]_regVars

\* A build and a propagation that nothing disturbs leave every repository with a
\* usable or blank value of each key its code reads and the vault can give, and
\* nothing to do for another plan.
ConsumersServed ==
    served = "yes" =>
        \A k \in Keys : \A q \in code[k] :
            Fit(vault[k]) => env[q][k] \notin {Absent, "placeholder"}
=============================================================================
