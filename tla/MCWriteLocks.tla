---------------------------- MODULE MCWriteLocks ----------------------------
(* Instance of WriteLocks: three executions, the render slot and a workspace. *)
EXTENDS WriteLocks, TLC

CONSTANTS r1, r2, r3, render, workspace

MCRuns == {r1, r2, r3}
MCKeys == {render, workspace}
Prompt == {}        \* every executor timeout is below the lock TTL
OneLong == {r1}     \* one execution may outlive the TTL
=============================================================================
