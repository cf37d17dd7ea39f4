-------------------------------- MODULE AgentLoop --------------------------------
(***************************************************************************)
(* One turn of the agent: the loop that streams a response of the model,   *)
(* runs the tools it asks for beside the stream, and calls the model again *)
(* with their results.                                                     *)
(*                                                                         *)
(*   kernel/loop.rs              run_loop, StreamProcessor, dispatch_tool,  *)
(*                               finalize_turn, collect_tool_results        *)
(*   systems/tools/executor.rs   ToolExecutor: a JoinSet and a queue        *)
(*   kernel/error_recovery.rs    the counters that end or retry a call      *)
(*                                                                         *)
(* The loop and every spawned tool are tasks of their own.  Each action is *)
(* the code from one await to the next.  A tool use is named by its        *)
(* position among the uses of the turn; text, inputs and outputs are left  *)
(* out.  `messages` lists what the turn has pushed to the history: folding *)
(* its older part is the matter of the compression pipeline, and only the  *)
(* overflow it can report is here.  The model and the users are the        *)
(* environment.                                                            *)
(***************************************************************************)
EXTENDS Integers, Sequences, FiniteSets

CONSTANTS
  Tools,                  \* tool names
  Exclusive,              \* the tools whose is_concurrent() is false
  Permission,             \* PermissionEvaluator::check for each tool
  MaxIterations,          \* LoopConfig.max_iterations
  MaxTokenEscalations,    \* MAX_TOKEN_ESCALATIONS
  MaxLowOutputTurns,      \* MAX_LOW_OUTPUT_TURNS
  MaxRateLimitRetries,    \* MAX_RATE_LIMIT_RETRIES
  MaxServerErrorRetries,  \* MAX_SERVER_ERROR_RETRIES
  MaxUses                 \* bound: tool uses in the turn

ASSUME AgentLoopAssumption ==
  /\ Exclusive \subseteq Tools
  /\ Permission \in [Tools -> {"allow", "ask", "deny"}]
  /\ MaxIterations \in Nat
  /\ MaxTokenEscalations \in Nat
  /\ MaxLowOutputTurns \in Nat
  /\ MaxRateLimitRetries \in Nat
  /\ MaxServerErrorRetries \in Nat
  /\ MaxUses \in Nat

VARIABLES
  mode,       \* run_mode
  pc,         \* where run_loop stands
  iteration,  \* responses asked for so far
  cancelled,  \* is the turn's CancellationToken cancelled?
  recovery,   \* RecoveryState: four counters
  messages,   \* messages pushed to the history, oldest first
  uses,       \* the tool uses of the turn and what became of each
  content,    \* StreamProcessor.content: the uses of the response so far
  reply,      \* what MessageEnd said of the response
  slot,       \* LoopRuntime.pending_control
  events,     \* control requests and turn ends on the event bus
  stop        \* TurnResult.stop_reason

history == <<messages, uses, content>>
verdict == <<slot, events, stop>>
vars    == <<mode, pc, iteration, cancelled, recovery, history, reply, verdict>>

--------------------------------------------------------------------------------
(* Data *)

Modes == {"execute", "planning"}   \* a reflection ends as an execution does

Over     == {"returned", "dropped"}
Places   == {"top", "calling", "streaming", "finalizing", "joining", "exclusive"} \cup Over

\* In the executor's JoinSet: running, a ready error, done and not yet joined.
InSet    == {"running", "erring", "finished", "panicked"}
Live     == InSet \cup {"queued", "exclusive"}
UseState == Live \cup {"blocked", "asked", "collected", "reported", "lost", "aborted"}

Use == [tool : Tools, at : UseState, shown : Nat]   \* shown: ToolResult events

Message == [kind : {"user", "assistant", "results"}, uses : SUBSET Nat]

User         == [kind |-> "user", uses |-> {}]
Assistant(S) == [kind |-> "assistant", uses |-> S]
Results(S)   == [kind |-> "results", uses |-> S]

StopReasons == {"end_turn", "tool_use", "max_tokens"}
Reply       == [stop : StopReasons \cup {"none"}, low : BOOLEAN]
NoReply     == [stop |-> "none", low |-> TRUE]

Recovery == [escalations : Nat, streak : Nat, rate : Nat, server : Nat]

Pauses == {"requires_action", "plan_review"}
Silent == {"max_iterations", "cancelled", "context_overflow", "diminishing_returns"}
Stops  == {"none", "completed", "error"} \cup Pauses \cup Silent

Init ==
  /\ mode \in Modes
  /\ pc = "top"
  /\ iteration = 0
  /\ cancelled = FALSE
  /\ recovery = [escalations |-> 0, streak |-> 0, rate |-> 0, server |-> 0]
  /\ messages = <<>>
  /\ uses = <<>>
  /\ content = {}
  /\ reply = NoReply
  /\ slot = "none"
  /\ events = <<>>
  /\ stop = "none"

--------------------------------------------------------------------------------
(* The executor *)

At(S) == {i \in DOMAIN uses : uses[i].at \in S}

\* A result taken from the JoinSet: an output, or the error of a panic.
Joined(use, how) ==
  CASE use.at = "finished" -> how
    [] use.at = "panicked" -> "lost"
    [] OTHER -> use.at

Shown(use) == [tool |-> use.tool, at |-> "reported", shown |-> use.shown + 1]

\* Mutant: poll_completed leaves what it shows in the JoinSet.
HarvestedAgain(us) ==
  [i \in DOMAIN us |-> IF us[i].at = "finished" THEN [us[i] EXCEPT !.shown = @ + 1]
                       ELSE us[i]]

\* poll_completed: what is done is shown to the user and leaves the JoinSet.
Harvested(us) ==
  [i \in DOMAIN us |-> IF us[i].at = "finished" THEN Shown(us[i])
                       ELSE [us[i] EXCEPT !.at = Joined(us[i], "reported")]]

\* Mutant: only the queue is dropped, as if the tasks were detached.
AbortedQueue(us) ==
  [i \in DOMAIN us |-> IF us[i].at \in {"queued", "exclusive"}
                       THEN [us[i] EXCEPT !.at = "aborted"] ELSE us[i]]

\* The executor is dropped: its tasks are aborted and its queue is gone.
Aborted(us) ==
  [i \in DOMAIN us |-> IF us[i].at \in Live THEN [us[i] EXCEPT !.at = "aborted"]
                       ELSE us[i]]

\* Mutant: a state the executor lacks.
SubmittedUnchecked(tool, valid) ==
  [tool |-> tool, shown |-> 0, at |-> IF valid THEN "running" ELSE "invalid"]

\* submit: an unknown tool or an invalid input is an error that is ready.
Submitted(tool, valid) ==
  [tool |-> tool, shown |-> 0,
   at |-> IF ~ valid THEN "erring"
          ELSE IF tool \in Exclusive THEN "queued" ELSE "running"]

Denied(tool) == [tool |-> tool, shown |-> 0, at |-> "blocked"]
AskedFor(tool) == [tool |-> tool, shown |-> 0, at |-> "asked"]

ToolFinishes(i) ==
  /\ uses[i].at \in {"running", "erring"}
  /\ uses' = [uses EXCEPT ![i].at = "finished"]
  /\ UNCHANGED <<mode, pc, iteration, cancelled, recovery, messages, content, reply, verdict>>

ToolPanics(i) ==
  /\ uses[i].at = "running"
  /\ uses' = [uses EXCEPT ![i].at = "panicked"]
  /\ UNCHANGED <<mode, pc, iteration, cancelled, recovery, messages, content, reply, verdict>>

--------------------------------------------------------------------------------
(* run_loop: from the guards to the stream *)

\* The loop returns with no further event; the executor, if any, is dropped.
Return(reason) ==
  /\ pc' = "returned"
  /\ stop' = reason
  /\ UNCHANGED <<slot, events>>

\* The guards and the check of the context's pressure.
Iterate ==
  /\ pc = "top"
  /\ \/ /\ cancelled
        /\ Return("cancelled")
        /\ UNCHANGED iteration
     \/ /\ ~ cancelled
        /\ iteration' = iteration + 1
        /\ IF iteration' > MaxIterations THEN Return("max_iterations")
           ELSE \/ Return("context_overflow")
                \/ pc' = "calling" /\ UNCHANGED verdict
  /\ UNCHANGED <<mode, cancelled, recovery, history, reply>>

\* provider.stream opens the response, with a fresh executor, or fails.
OpenStream ==
  /\ pc = "calling"
  /\ \/ /\ pc' = "streaming"
        /\ content' = {}
        /\ reply' = NoReply
        /\ UNCHANGED verdict
     \/ /\ Return("error")
        /\ UNCHANGED <<content, reply>>
  /\ UNCHANGED <<mode, iteration, cancelled, recovery, messages, uses>>

--------------------------------------------------------------------------------
(* StreamProcessor *)

Streaming ==
  /\ pc = "streaming"
  /\ reply = NoReply
  /\ UNCHANGED <<mode, iteration, cancelled>>

\* TurnEnd, and back to the caller.
Fatal(reason) ==
  /\ pc' = "returned"
  /\ stop' = reason
  /\ events' = Append(events, "turn_end")

\* Any event that is none of the following.
Delta ==
  /\ Streaming
  /\ uses' = Harvested(uses)
  /\ UNCHANGED <<pc, recovery, messages, content, reply, verdict>>

\* dispatch_tool: denied by a permission or blocked by a PreToolUse hook.
BlockTool(tool) ==
  /\ Streaming
  /\ Len(uses) < MaxUses
  /\ Permission[tool] # "ask"
  /\ LET i == Len(uses) + 1 IN
       /\ uses' = Harvested(Append(uses, Denied(tool)))
       /\ content' = content \cup {i}
       /\ messages' = messages \o <<Assistant(content \cup {i}), Results({i})>>
  /\ UNCHANGED <<pc, recovery, reply, verdict>>

\* Mutant: the request is emitted and not left in the slot.
AskForToolInPassing(tool) ==
  /\ Streaming
  /\ Len(uses) < MaxUses
  /\ Permission[tool] = "ask"
  /\ uses' = Aborted(Append(uses, AskedFor(tool)))
  /\ events' = events \o <<"control_request", "turn_end">>
  /\ pc' = "returned"
  /\ stop' = "requires_action"
  /\ UNCHANGED <<recovery, messages, content, reply, slot>>

\* dispatch_tool: the user is asked for a permission, and the turn pauses.
AskForTool(tool) ==
  /\ Streaming
  /\ Len(uses) < MaxUses
  /\ Permission[tool] = "ask"
  /\ uses' = Aborted(Append(uses, AskedFor(tool)))
  /\ slot' = "permission"
  /\ events' = events \o <<"control_request", "turn_end">>
  /\ pc' = "returned"
  /\ stop' = "requires_action"
  /\ UNCHANGED <<recovery, messages, content, reply>>

\* dispatch_tool: the tool is allowed and handed to the executor.
SubmitTool(tool, valid) ==
  /\ Streaming
  /\ Len(uses) < MaxUses
  /\ Permission[tool] = "allow"
  /\ uses' = Harvested(Append(uses, Submitted(tool, valid)))
  /\ content' = content \cup {Len(uses) + 1}
  /\ UNCHANGED <<pc, recovery, messages, reply, verdict>>

\* MessageEnd: why the model stopped, and whether its output was short.
MessageEnd(reason, low) ==
  /\ Streaming
  /\ reply' = [stop |-> reason, low |-> low]
  /\ uses' = Harvested(uses)
  /\ UNCHANGED <<pc, recovery, messages, content, verdict>>

\* An error event.  Only a rate limit and a server error that the provider
\* calls retryable are tried again, each a number of times per turn.
RetryCall(kind) ==
  /\ Streaming
  /\ \/ kind = "rate" /\ recovery.rate < MaxRateLimitRetries
     \/ kind = "server" /\ recovery.server < MaxServerErrorRetries
  /\ recovery' = [recovery EXCEPT ![kind] = @ + 1]
  /\ pc' = "top"
  /\ uses' = Aborted(uses)
  /\ UNCHANGED <<messages, content, reply, verdict>>

\* An error that is not tried again, in the stream or of the stream.
StreamFails ==
  /\ pc = "streaming"
  /\ Fatal("error")
  /\ uses' = Aborted(uses)
  /\ UNCHANGED <<mode, iteration, cancelled, recovery, messages, content, reply, slot>>

--------------------------------------------------------------------------------
(* run_loop: after the stream *)

Push(message) == Append(messages, message)

StreamEnds ==
  /\ pc = "streaming"
  /\ reply # NoReply
  /\ UNCHANGED <<mode, iteration, cancelled, content, reply>>

\* error_recovery::evaluate of a truncated response: ask for more tokens, then
\* for a continuation, then give up.  Its tools are dropped.
Truncated ==
  /\ StreamEnds
  /\ reply.stop = "max_tokens"
  /\ recovery' = [recovery EXCEPT !.escalations = @ + 1]
  /\ uses' = Aborted(uses)
  /\ \/ /\ recovery'.escalations = 1
        /\ messages' = Push(Assistant(content))
        /\ pc' = "top"
        /\ UNCHANGED verdict
     \/ /\ recovery'.escalations \in 2 .. MaxTokenEscalations
        /\ messages' = Push(Assistant(content)) \o <<User>>
        /\ pc' = "top"
        /\ UNCHANGED verdict
     \/ /\ recovery'.escalations > 1
        /\ recovery'.escalations > MaxTokenEscalations
        /\ messages' = Push(Assistant(content))
        /\ Return("error")

\* error_recovery::evaluate of any other response: a series of short ones ends
\* the turn, or the turn goes on to its end or to the results of its tools.
Evaluated ==
  /\ StreamEnds
  /\ reply.stop # "max_tokens"
  /\ messages' = Push(Assistant(content))
  /\ recovery' = [recovery EXCEPT !.streak = IF reply.low THEN @ + 1 ELSE 0]
  /\ IF reply.low /\ recovery'.streak >= MaxLowOutputTurns
     THEN /\ Return("diminishing_returns")
          /\ uses' = Aborted(uses)
     ELSE /\ pc' = IF reply.stop = "end_turn" THEN "finalizing" ELSE "joining"
          /\ UNCHANGED <<uses, verdict>>

\* finalize_turn: a PreComplete hook sends the model back to work.
HookObjects ==
  /\ pc = "finalizing"
  /\ messages' = Push(User)
  /\ pc' = "top"
  /\ uses' = Aborted(uses)
  /\ UNCHANGED <<mode, iteration, cancelled, recovery, content, reply, verdict>>

\* finalize_turn: the turn is complete, or its plan is up for review.
FinalizeTurn ==
  /\ pc = "finalizing"
  /\ pc' = "returned"
  /\ uses' = Aborted(uses)
  /\ \/ /\ mode = "planning"
        /\ slot' = "plan_review"
        /\ events' = events \o <<"control_request", "turn_end">>
        /\ stop' = "plan_review"
     \/ /\ mode = "execute"
        /\ Fatal("completed")
        /\ UNCHANGED slot
  /\ UNCHANGED <<mode, iteration, cancelled, recovery, messages, content, reply>>

--------------------------------------------------------------------------------
(* collect_tool_results *)

Collecting(here, there) ==
  /\ pc = here
  /\ pc' = there
  /\ UNCHANGED <<mode, iteration, cancelled, recovery, content, reply, verdict>>

\* collect_remaining: the JoinSet first, in the order its tasks finish.
Join(i) ==
  /\ Collecting("joining", "joining")
  /\ uses[i].at \in {"finished", "panicked"}
  /\ uses' = [uses EXCEPT ![i].at = Joined(uses[i], "collected")]
  /\ UNCHANGED messages

\* Mutant: the queue does not wait for the JoinSet.
RunExclusiveEarly(i) ==
  /\ Collecting("joining", "exclusive")
  /\ uses[i].at = "queued"
  /\ \A j \in At({"queued"}) : i <= j
  /\ uses' = [uses EXCEPT ![i].at = "exclusive"]
  /\ UNCHANGED messages

\* Then the queue, one tool at a time, in the loop's own task.
RunExclusive(i) ==
  /\ Collecting("joining", "exclusive")
  /\ At(InSet) = {}
  /\ uses[i].at = "queued"
  /\ \A j \in At({"queued"}) : i <= j
  /\ uses' = [uses EXCEPT ![i].at = "exclusive"]
  /\ UNCHANGED messages

ExclusiveFinishes(i) ==
  /\ Collecting("exclusive", "joining")
  /\ uses[i].at = "exclusive"
  /\ uses' = [uses EXCEPT ![i].at = "collected"]
  /\ UNCHANGED messages

\* Mutant: every result of the turn is pushed again.
PushResultsAgain ==
  /\ Collecting("joining", "top")
  /\ At(Live) = {}
  /\ uses' = [i \in DOMAIN uses |->
                IF uses[i].at = "collected" THEN Shown(uses[i]) ELSE uses[i]]
  /\ messages' = Push(Results(At({"collected", "reported"})))

\* Show each result, then push them all as one message.
PushResults ==
  /\ Collecting("joining", "top")
  /\ At(Live) = {}
  /\ uses' = [i \in DOMAIN uses |->
                IF uses[i].at = "collected" THEN Shown(uses[i]) ELSE uses[i]]
  /\ messages' = Push(Results(At({"collected"})))

--------------------------------------------------------------------------------
(* The surroundings *)

\* CancelRun, at any time.
Cancel ==
  /\ ~ cancelled
  /\ pc \notin Over
  /\ cancelled' = TRUE
  /\ UNCHANGED <<mode, pc, iteration, recovery, history, reply, verdict>>

\* The handler is dropped at an await, or an exclusive tool panics in it.
Drop ==
  /\ pc \notin Over
  /\ pc' = "dropped"
  /\ uses' = Aborted(uses)
  /\ UNCHANGED <<mode, iteration, cancelled, recovery, messages, content, reply, verdict>>

Stream ==
  \/ Delta
  \/ \E tool \in Tools : \/ BlockTool(tool) \/ AskForTool(tool)
                         \/ \E valid \in BOOLEAN : SubmitTool(tool, valid)
  \/ \E reason \in StopReasons, low \in BOOLEAN : MessageEnd(reason, low)
  \/ \E kind \in {"rate", "server"} : RetryCall(kind)
  \/ StreamFails

Loop ==
  \/ Iterate \/ OpenStream \/ Stream \/ Truncated \/ Evaluated
  \/ HookObjects \/ FinalizeTurn \/ PushResults
  \/ \E i \in DOMAIN uses : Join(i) \/ RunExclusive(i) \/ ExclusiveFinishes(i)

Next ==
  \/ Loop
  \/ \E i \in DOMAIN uses : ToolFinishes(i) \/ ToolPanics(i)
  \/ Cancel
  \/ Drop

Spec == Init /\ [][Next]_vars

--------------------------------------------------------------------------------
(* Properties *)

TypeOK ==
  /\ mode \in Modes
  /\ pc \in Places
  /\ iteration \in Nat
  /\ cancelled \in BOOLEAN
  /\ recovery \in Recovery
  /\ messages \in Seq(Message)
  /\ uses \in Seq(Use)
  /\ content \subseteq Nat
  /\ reply \in Reply
  /\ slot \in {"none", "permission", "plan_review"}
  /\ events \in Seq({"control_request", "turn_end"})
  /\ stop \in Stops

\* A tool that is not concurrent never runs beside another, whatever order the
\* spawned ones finish in and however the responses before it were cut short:
\* "Non-concurrent tools wait here until all parallel work finishes"
\* (executor.rs).
Runs(i) == uses[i].at \in {"running", "exclusive"}

ExclusiveRunsAlone ==
  \A i, j \in DOMAIN uses :
    i # j /\ Runs(i) /\ Runs(j) => uses[i].tool \notin Exclusive

\* Every tool at work belongs to the response that is being handled: none that a
\* retry, a truncation or a hook has left behind runs on into the next response
\* or outlives the turn, and none waits for a collection that will not come.
NoStrayTool ==
  \A i \in At(Live) :
    /\ i \in content
    /\ pc \in {"streaming", "finalizing", "joining", "exclusive"}

\* "The tool_use_id must match a previous ToolUse.id" (common/message.rs), and
\* a use gets one result at most, in one message: blocked ones included, whose
\* messages are pushed in the middle of the stream.
ResultAnswersUse ==
  \A n \in DOMAIN messages : messages[n].kind = "results" =>
    \A i \in messages[n].uses :
      /\ \E m \in 1 .. n - 1 : messages[m].kind = "assistant" /\ i \in messages[m].uses
      /\ \A m \in DOMAIN messages :
           messages[m].kind = "results" /\ i \in messages[m].uses => m = n

Answered(i) ==
  \E n \in DOMAIN messages : messages[n].kind = "results" /\ i \in messages[n].uses

\* The user is shown a result once at most, harvested or collected; every result
\* of a tool that ran and that the model is told of has been shown; a blocked
\* tool is shown nothing but the model is told.
ResultIsShownOnce ==
  \A i \in DOMAIN uses :
    /\ uses[i].shown <= 1
    /\ uses[i].at # "blocked" /\ Answered(i) => uses[i].shown = 1
    /\ uses[i].at = "blocked" => uses[i].shown = 0 /\ Answered(i)

\* What the caller and the stream's readers learn of the end agrees: a control
\* request is left in the slot, and is on the bus before the one TurnEnd,
\* exactly if the turn pauses; a turn that ends otherwise leaves none, also when
\* a pause cuts a stream short in which other tools run.
EndIsAnnounced ==
  pc = "returned" =>
    /\ slot # "none" <=> stop \in Pauses
    /\ stop \in Pauses => events = <<"control_request", "turn_end">>
    /\ stop = "completed" => events = <<"turn_end">>
    /\ stop \in Silent => events = <<>>
================================================================================
