-------------------------- MODULE MCExecutionEngine --------------------------
(* Instances of ExecutionEngine.  `render` is a render task, `plain` is not; *)
(* `risky` is the task evaluate_auto_approval leaves to a human.             *)
EXTENDS ExecutionEngine, TLC

CONSTANTS e1, e2, plain, render, risky

TwoExecs == {e1, e2}
AllThree == {plain, render, risky}
OneTask == {plain}
WithRender == {plain, render}
NoOne == {}
RiskyOnly == {risky}
RenderOnly == {render}
ClaudeOnly == {"claude-code"}
ClaudeHermes == {"claude-code", "hermes-agent"}
ClaudeUnknown == {"claude-code", "no-such-executor"}

ExecSymmetry == Permutations(Execs)
=============================================================================
