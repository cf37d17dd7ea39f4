------------------------------ MODULE MCAgentLoop ------------------------------
(* AgentLoop for TLC: a concurrent tool, an exclusive one and one that needs  *)
(* a permission.                                                              *)
EXTENDS AgentLoop

CONSTANTS search, write, shell

MCTools == {search, write, shell}
MCExclusive == {write}
MCPermission == [t \in MCTools |-> IF t = shell THEN "ask" ELSE "allow"]

\* "Between poll_completed() calls during streaming and this final collect, all
\* tools are accounted for" (systems/tools/executor.rs:203-204): when the model
\* is called again after a response that asked for tools, it is told the result
\* of each that has one.
ResultsReachTheModel ==
  pc = "calling" /\ reply.stop = "tool_use" =>
    \A i \in content \cap At({"reported"}) : Answered(i)
================================================================================
