------------------------------ MODULE MCDelegation ------------------------------
(* Delegation for TLC: a type with every tool and one that only reads; a tool  *)
(* of an MCP server that needs approval, and a tool the rules deny.            *)
EXTENDS Delegation

MCTools  == {"Agent", "ToolSearch", "WebFetch", "memory_write", "mcp__mail__send"}
MCTypes  == {"general", "explorer"}
MCListed == [type \in MCTypes |-> IF type = "general" THEN {} ELSE {"WebFetch"}]
MCDisallowed == [type \in MCTypes |-> {}]
MCMaxTurns   == [type \in MCTypes |-> 1]
MCRules == <<[tools |-> {"mcp__mail__send"}, decision |-> "ask"],
             [tools |-> {"memory_write"}, decision |-> "deny"]>>
MCDirectories ==
  {[name |-> "report", mode |-> "forked", manifest |-> TRUE, prompt |-> TRUE]}

\* "Key: the query chain depth increments. This prevents runaway recursion:
\* depth 0 (user) -> depth 1 (sub-agent) -> depth 2 (sub-sub-agent). If depth >=
\* max_depth -> refuse to spawn" (systems/subagents/isolation.rs:7-9).
NestingIsBounded == \A a \in DOMAIN agents : agents[a].nesting <= MaxDepth
================================================================================
