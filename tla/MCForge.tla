------------------------------- MODULE MCForge -------------------------------
\* Instance for TLC: two requests to the API at a time, about one id.
EXTENDS Forge, TLC
CONSTANTS r1, r2, t1, t2, cano

TwoRequests == {r1, r2}
TwoThreads == {t1, t2}
OneHuman == {cano}
BothKinds == {"agent", "skill"}
Good == [name |-> "good", smoke |-> TRUE, schema |-> TRUE, safety |-> TRUE, contract |-> TRUE]
\* AgentManifest refuses it; as a skill it is as good as any other.
Malformed == [Good EXCEPT !.name = "malformed", !.schema = FALSE]
\* AgentManifest accepts an empty objective; the smoke test does not.
Empty == [Good EXCEPT !.name = "empty", !.smoke = FALSE, !.contract = FALSE]
AllDefinitions == {Good, Empty, Malformed}
GoodOnly == {Good}
OnePrice == {1}
HumanOrSystem == {cano, "system"}
TaskForms == {[harm |-> "none", cost |-> 0, by |-> "system"],
              [harm |-> "none", cost |-> 1, by |-> cano]}
NoForms == {}
Interchangeable == Permutations(TwoThreads) \cup Permutations(TwoRequests)
=============================================================================
