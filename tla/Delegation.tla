------------------------------- MODULE Delegation -------------------------------
(***************************************************************************)
(* Who may do what in one turn of a thread: the loop of the turn and the   *)
(* loops of its sub-agents, the tools each of them has, and what stops     *)
(* them.                                                                   *)
(*                                                                         *)
(*   kernel/permission.rs, hooks.rs, plan_mode.rs   the gates of a call    *)
(*   systems/tools/registry.rs, search.rs           who has which tools    *)
(*   systems/subagents/, tools/builtin/agent.rs     spawning               *)
(*   systems/skills/, runtime/assembler.rs          how a turn begins      *)
(*                                                                         *)
(* The loop itself is AgentLoop's; here a response is the calls it makes   *)
(* and how it ends.  A call that is refused changes nothing but the        *)
(* conversation.  Names that differ in case only are one name.             *)
(***************************************************************************)
EXTENDS Naturals, Sequences, FiniteSets

CONSTANTS
  Tools,            \* of build_tool_registry
  Agent,            \* AgentTool
  ToolSearch,       \* ToolSearchTool
  Deferred,         \* tools with should_defer: those of MCP servers
  Types,            \* names in agents/*.yaml
  General,          \* the type of an unknown name
  AllTools,         \* the types whose tools are ["*"]
  Listed,           \* tools a type lists
  Disallowed,       \* disallowed_tools of a type
  MaxTurns,         \* max_turns of a type
  MaxIterations,    \* DEFAULT_MAX_ITERATIONS, of the turn's own loop
  MaxDepth,         \* max_depth
  PlanTools,        \* PLAN_MODE_TOOLS
  PermissionMode,   \* of the session: "auto", "ask", "readonly"
  Rules,            \* its rules, in order: [tools, decision]
  BlockedTools,     \* of the turn's ToolBlocklistHook
  Directories,      \* under data/skills: [name, mode, manifest, prompt]
  MaxAgents         \* bound: loops of a turn

ASSUME DelegationAssumption ==
  /\ {Agent, ToolSearch} \subseteq Tools
  /\ Deferred \subseteq Tools \ {Agent, ToolSearch}
  /\ General \in AllTools
  /\ AllTools \subseteq Types
  /\ Listed \in [Types -> SUBSET Tools]
  /\ Disallowed \in [Types -> SUBSET Tools]
  /\ MaxTurns \in [Types -> Nat]
  /\ MaxIterations \in Nat
  /\ MaxDepth \in Nat
  /\ PlanTools \subseteq Tools
  /\ BlockedTools \subseteq Tools
  /\ PermissionMode \in {"auto", "ask", "readonly"}
  /\ Rules \in Seq([tools : SUBSET Tools, decision : {"allow", "ask", "deny"}])
  /\ MaxAgents \in Nat \ {0}

\* agents/*.yaml: a type that has not every tool has no Agent.
ASSUME RestrictedTypes ==
  \A type \in Types :
    \/ type \in AllTools /\ Disallowed[type] = {}
    \/ Agent \in Disallowed[type]
    \/ type \notin AllTools /\ Agent \notin Listed[type]

VARIABLES
  request,    \* what the message asks for: "plan", "plain", or a skill's name
  agents,     \* the loops, in the order they began: the turn's own is the first
  cancelled   \* the turn's token

vars == <<request, agents, cancelled>>

--------------------------------------------------------------------------------
(* Permissions, hooks, plan mode *)

\* PermissionEvaluator::check: the first rule that matches, or the mode.
Permission(tool) ==
  LET matching == {i \in DOMAIN Rules : tool \in Rules[i].tools}
  IN IF matching # {}
     THEN Rules[CHOOSE i \in matching : \A j \in matching : i <= j].decision
     ELSE CASE PermissionMode = "auto" -> "allow"
            [] PermissionMode = "ask" -> "ask"
            [] PermissionMode = "readonly" -> IF tool \in PlanTools THEN "allow" ELSE "deny"

\* The hooks of a loop: a sub-agent has none.
Blocks(a, tool) == a = 1 /\ tool \in BlockedTools

--------------------------------------------------------------------------------
(* Tools *)

\* Mutant: AgentTool is added to the registry of every type.
ResolveWithAgent(registry, type) ==
  IF type \in AllTools THEN registry \ Disallowed[type]
                       ELSE ((registry \cap Listed[type]) \ Disallowed[type]) \cup {Agent}

\* resolve_tool_registry.
Resolve(registry, type) ==
  IF type \in AllTools THEN registry \ Disallowed[type]
                       ELSE (registry \cap Listed[type]) \ Disallowed[type]

\* tools_for_mode: the definitions a request carries.
Offered(registry, planning) ==
  IF planning THEN (registry \ Deferred) \cap PlanTools ELSE registry \ Deferred

\* find_agent_def, and the fall-back.
TypeOf(name) == IF name \in Types THEN name ELSE General

\* Skills that scan_skills_dir finds.
Installed == {d \in Directories : d.manifest /\ d.prompt}

--------------------------------------------------------------------------------
(* Loops *)

Pcs == {"skill", "fork", "guard", "stream", "collect", "ended", "dropped"}

\*   caller      loop whose call it is
\*   heard       that call still waits for it
\*   depth       chain.depth
\*   nesting     history: how many callers are above it
\*   tools       its registry
\*   seen        tools its conversation tells of, besides those it is offered
\*   searched    its response has called ToolSearch
\*   ran         history: tools its response has run, Agent and ToolSearch aside
Loop ==
  [pc : Pcs, caller : Nat, heard : BOOLEAN, depth : Nat, nesting : Nat,
   tools : SUBSET Tools, seen : SUBSET Tools, searched : BOOLEAN,
   iteration : Nat, limit : Nat, ran : SUBSET Tools]

Root ==
  [pc |-> "guard", caller |-> 0, heard |-> FALSE, depth |-> 0, nesting |-> 0,
   tools |-> Tools, seen |-> {}, searched |-> FALSE,
   iteration |-> 0, limit |-> MaxIterations, ran |-> {}]

\* build_sub_agent_config, of the configuration the SpawnFn holds, whoever calls
\* it; build_fork_messages: its conversation begins with the caller's, whose
\* calls name what the caller may call.
SubAgent(caller, name, seen) ==
  LET config == agents[1]
  IN [pc |-> "guard", caller |-> caller, heard |-> TRUE, depth |-> config.depth + 1,
      nesting |-> agents[caller].nesting + 1,
      tools |-> Resolve(config.tools, TypeOf(name)), seen |-> seen, searched |-> FALSE,
      iteration |-> 0, limit |-> MaxTurns[TypeOf(name)], ran |-> {}]

Planning(a) == a = 1 /\ request = "plan"

Callable(a) == Offered(agents[a].tools, Planning(a)) \cup agents[a].seen

Init ==
  \E content \in {"plan", "plain"} \cup {d.name : d \in Directories} :
    /\ request = content
    /\ agents = <<IF content \in {"plan", "plain"} THEN Root ELSE [Root EXCEPT !.pc = "skill"]>>
    /\ cancelled = FALSE

\* Loop a after it stopped waiting for the calls of its response.
Deaf(a) == [b \in DOMAIN agents |->
              IF agents[b].caller = a THEN [agents[b] EXCEPT !.heard = FALSE] ELSE agents[b]]

\* The loop of a returns.  Its executor is dropped: a call that still waits for a
\* sub-agent is aborted, the sub-agent, a task of its own, is not.
Ends(a, pc) ==
  /\ agents' = [Deaf(a) EXCEPT ![a] =
       [agents[a] EXCEPT !.pc = pc, !.heard = FALSE, !.seen = {}, !.searched = FALSE,
                         !.iteration = 0, !.ran = {}]]
  /\ UNCHANGED <<request, cancelled>>

Waits(a) == \E b \in DOMAIN agents : agents[b].caller = a /\ agents[b].heard

At(a, pc) == a \in DOMAIN agents /\ agents[a].pc = pc

--------------------------------------------------------------------------------
(* A skill before the turn begins *)

\* spawn_sub_agent: beyond max_depth the call has its answer at once.
Spawn(caller, name, seen, others) ==
  /\ agents[1].depth < MaxDepth
  /\ Len(agents) < MaxAgents
  /\ agents' = Append(others, SubAgent(caller, name, seen))
  /\ UNCHANGED <<request, cancelled>>

\* The message is /name of a skill that runs in a sub-agent; the turn waits.
ForkSkill ==
  /\ At(1, "skill")
  /\ \E d \in Installed : d.name = request /\ d.mode = "forked"
  /\ Spawn(1, General, {}, [agents EXCEPT ![1].pc = "fork"])

\* The skill is inline, or there is none of that name, or its prompt cannot be read.
SkipSkill ==
  /\ At(1, "skill")
  /\ agents' = [agents EXCEPT ![1].pc = "guard"]
  /\ UNCHANGED <<request, cancelled>>

SkillForked ==
  /\ At(1, "fork")
  /\ ~Waits(1)
  /\ agents' = [agents EXCEPT ![1].pc = "guard"]
  /\ UNCHANGED <<request, cancelled>>

--------------------------------------------------------------------------------
(* A loop *)

Cancelled(a) == cancelled

\* Mutant: an iteration that is asked for again is not counted.
GuardUncounted(a) ==
  /\ At(a, "guard")
  /\ IF Cancelled(a) THEN Ends(a, "ended")
     ELSE /\ agents' = [agents EXCEPT ![a].pc = "stream"]
          /\ UNCHANGED <<request, cancelled>>

\* Mutant: the limit is compared after the iteration is counted.
GuardLate(a) ==
  /\ At(a, "guard")
  /\ IF Cancelled(a) \/ agents[a].iteration > agents[a].limit THEN Ends(a, "ended")
     ELSE /\ agents' = [agents EXCEPT ![a].pc = "stream", ![a].iteration = @ + 1]
          /\ UNCHANGED <<request, cancelled>>

\* The guards of an iteration, then the call to the provider.
Guard(a) ==
  /\ At(a, "guard")
  /\ IF Cancelled(a) THEN Ends(a, "ended")
     ELSE IF agents[a].iteration >= agents[a].limit THEN Ends(a, "ended")
     ELSE /\ agents' = [agents EXCEPT ![a].pc = "stream", ![a].iteration = @ + 1]
          /\ UNCHANGED <<request, cancelled>>

\* dispatch_tool and the executor's lookup: a call that does not pass changes
\* nothing but the conversation.
Runs(a, tool) ==
  /\ At(a, "stream")
  /\ tool \in Callable(a) \cap agents[a].tools
  /\ Permission(tool) = "allow"
  /\ ~Blocks(a, tool)

Call(a, tool) ==
  /\ Runs(a, tool)
  /\ tool \notin {Agent, ToolSearch}
  /\ agents' = [agents EXCEPT ![a].ran = @ \cup {tool}]
  /\ UNCHANGED <<request, cancelled>>

\* ToolSearchTool::call; what it finds is told when the answers are collected.
Search(a) ==
  /\ Runs(a, ToolSearch)
  /\ agents' = [agents EXCEPT ![a].searched = TRUE]
  /\ UNCHANGED <<request, cancelled>>

\* AgentTool::call.
CallAgent(a, name) ==
  /\ Runs(a, Agent)
  /\ ~Cancelled(a)
  /\ Spawn(a, name, Callable(a), agents)

\* The call needs the user's approval: the loop pauses.  Only the turn's own
\* request is saved; a sub-agent's is in a slot nobody reads.
Ask(a, tool) ==
  /\ At(a, "stream")
  /\ tool \in Callable(a)
  /\ Permission(tool) = "ask"
  /\ Ends(a, "ended")

\* The response ends without a call, or what it called is not waited for.
Finish(a) ==
  /\ At(a, "stream")
  /\ Ends(a, "ended")

\* The provider fails, in the middle of a response or before it, the window is
\* full, or recovery gives up; a sub-agent's task may also panic.
Break(a) ==
  /\ At(a, "stream")
  /\ Ends(a, "ended")

\* A retryable error: the response is asked for again, its calls are dropped.
Retry(a) ==
  /\ At(a, "stream")
  /\ agents' = [Deaf(a) EXCEPT ![a] =
                  [agents[a] EXCEPT !.pc = "guard", !.searched = FALSE, !.ran = {}]]
  /\ UNCHANGED <<request, cancelled>>

StartCollect(a) ==
  /\ At(a, "stream")
  /\ agents' = [agents EXCEPT ![a].pc = "collect", ![a].ran = {}]
  /\ UNCHANGED <<request, cancelled>>

\* Mutant: the answers are taken as far as they have come.
CollectAtOnce(a) ==
  /\ At(a, "collect")
  /\ agents' = [agents EXCEPT ![a].pc = "guard", ![a].searched = FALSE]
  /\ UNCHANGED <<request, cancelled>>

\* Every call has its answer.  What a search found, any of the deferred tools by
\* its query, is in the conversation, unless the answer was harvested while the
\* response went on.
Collect(a) ==
  /\ At(a, "collect")
  /\ ~Waits(a)
  /\ \E found \in SUBSET (IF agents[a].searched THEN Deferred ELSE {}) :
       agents' = [agents EXCEPT ![a].pc = "guard", ![a].searched = FALSE,
                                ![a].seen = @ \cup found]
  /\ UNCHANGED <<request, cancelled>>

--------------------------------------------------------------------------------
(* Around the loops *)

\* CancelRun, while the run registry holds the turn's token: until the turn
\* returns, and for good when its handler is dropped.
Cancel ==
  /\ ~cancelled
  /\ agents[1].pc # "ended"
  /\ cancelled' = TRUE
  /\ UNCHANGED <<request, agents>>

\* The client disconnects and the turn's future is dropped where it waits.
DropTurn ==
  /\ agents[1].pc \notin {"ended", "dropped"}
  /\ Ends(1, "dropped")

EndResponse(a) == Finish(a) \/ Break(a) \/ Retry(a) \/ StartCollect(a)

Names == Types \cup {"other"}

LoopStep(a) ==
  \/ Guard(a)
  \/ EndResponse(a)
  \/ Collect(a)
  \/ \E tool \in Tools : Call(a, tool) \/ Ask(a, tool)
  \/ Search(a)
  \/ \E name \in Names : CallAgent(a, name)

Next ==
  \/ ForkSkill
  \/ SkipSkill
  \/ SkillForked
  \/ Cancel
  \/ DropTurn
  \/ \E a \in DOMAIN agents : LoopStep(a)

\* Tasks are scheduled, and every response ends: the stream of a provider that
\* is gone ends with an error.
Fairness ==
  /\ WF_vars(ForkSkill \/ SkipSkill \/ SkillForked)
  /\ \A a \in 1 .. MaxAgents : WF_vars(Guard(a) \/ EndResponse(a) \/ Collect(a))

Spec == Init /\ [][Next]_vars /\ Fairness

--------------------------------------------------------------------------------
(* Properties *)

\* Every field of a loop is one the code can produce, its caller is an earlier
\* loop, and no loop goes beyond its limit of iterations or the limit of depth.
DelegationTypeOK ==
  /\ agents \in Seq(Loop)
  /\ Len(agents) \in 1 .. MaxAgents
  /\ cancelled \in BOOLEAN
  /\ \A a \in DOMAIN agents :
       /\ agents[a].caller < a
       /\ agents[a].iteration <= agents[a].limit
       /\ agents[a].depth <= MaxDepth

\* A tool runs only if the session's permissions allow it without asking, at
\* whatever depth, and no sub-agent has a tool its caller does not have: what a
\* type is not given comes back through no sub-agent of its own.
Contained ==
  \A a \in DOMAIN agents :
    /\ agents[a].ran \subseteq agents[a].tools
    /\ \A tool \in agents[a].ran : Permission(tool) = "allow"
    /\ agents[a].caller # 0 => agents[a].tools \subseteq agents[agents[a].caller].tools

\* A sub-agent some call waits for works for a loop that has not gone on without
\* it: its caller is in the response that made the call, or collects its answers.
CallerWaits ==
  \A a \in DOMAIN agents :
    agents[a].heard =>
      /\ agents[a].pc # "ended"
      /\ agents[agents[a].caller].pc \in {"fork", "stream", "collect"}

\* Every loop of a turn ends, the sub-agents its callers no longer wait for
\* included: nobody waits for a loop that waits for it, and no error is retried
\* beyond the limit of iterations.
EveryLoopEnds ==
  \A a \in 1 .. MaxAgents :
    a \in DOMAIN agents ~> At(a, "ended") \/ At(a, "dropped")
================================================================================
