--------------------------- MODULE ContextCompression ---------------------------
(***************************************************************************)
(* The message history of one thread and the three levels that compress    *)
(* it before a call of the model.                                          *)
(*                                                                         *)
(*   kernel/context.rs               estimate_tokens, check_pressure,       *)
(*                                   messages_for_api                       *)
(*   kernel/compression/             L1 budget, L2 collapse, L3 compact     *)
(*   adapters/llm/providers/         the blocks a request carries           *)
(*                                                                         *)
(* The messages pushed to the thread are numbered.  A message of the       *)
(* history stands for the numbers from `from` to `to`; `given` are those   *)
(* whose content it still holds, for itself or through a summary that was  *)
(* made of them.  Text is left out but for its length.  What pushes        *)
(* messages between two compressions is AgentLoop; a turn whose handler is *)
(* dropped is not saved and leaves the history as if it had never begun.   *)
(* The history is only the loop's own while a summary is awaited.  A       *)
(* message of tool results has one result here: the budget of each is      *)
(* looked at by itself.                                                    *)
(***************************************************************************)
EXTENDS Integers, Sequences, FiniteSetsExt, SequencesExt

CONSTANTS
  KeepRecent,          \* KEEP_RECENT: messages L2 leaves alone
  MinSegmentSize,      \* MIN_SEGMENT_SIZE: messages worth folding
  KeepRecentMessages,  \* KEEP_RECENT_MESSAGES: messages L3 leaves alone
  ToolResultMaxChars,  \* TOOL_RESULT_MAX_CHARS
  CharsPerToken,       \* CHARS_PER_TOKEN
  MaxTokens,           \* ContextManager.max_tokens
  Threshold,           \* max_tokens * compact_threshold
  NoteSize,            \* length of the note L1 leaves
  PlaceholderSize,     \* length of the text L2 leaves
  SummarySizes,        \* lengths a summary may have
  MessageSizes,        \* lengths a pushed message may have
  MaxPushed            \* bound: messages pushed to the thread

ASSUME CompressionAssumption ==
  /\ KeepRecent \in Nat
  /\ MinSegmentSize \in Nat
  /\ KeepRecentMessages \in Nat
  /\ ToolResultMaxChars \in Nat
  /\ CharsPerToken \in Nat \ {0}
  /\ MaxTokens \in Nat
  /\ Threshold \in Nat
  /\ NoteSize \in Nat
  /\ PlaceholderSize \in Nat
  /\ SummarySizes \subseteq Nat \ {0}
  /\ MessageSizes \subseteq Nat
  /\ MaxPushed \in Nat

VARIABLES
  pc,        \* where the turn stands
  messages,  \* the history, as the checkpoint keeps it between turns
  pressure,  \* ContextPressure of this iteration
  pushed,    \* messages pushed to the thread so far
  folded     \* those among them that L2 has folded away

vars == <<pc, messages, pressure, pushed, folded>>

--------------------------------------------------------------------------------
(* Messages *)

Places   == {"idle", "top", "squeezing", "calling", "responding"}
Verbatim == {"text", "results"}   \* a text message, a message of tool results

Message == [kind : Verbatim \cup {"folded", "boundary"},
            from : Nat \ {0}, to : Nat \ {0}, size : Nat, given : SUBSET Nat]

\* Mutant: numbered from zero.
FreshFromZero(kind, size) ==
  [kind |-> kind, from |-> pushed, to |-> pushed, size |-> size, given |-> {pushed}]

Fresh(kind, size) ==
  [kind |-> kind, from |-> pushed + 1, to |-> pushed + 1, size |-> size,
   given |-> {pushed + 1}]

Init ==
  /\ pc = "idle"
  /\ messages = <<>>
  /\ pressure = "normal"
  /\ pushed = 0
  /\ folded = {}

Earlier(ms, keep) == SubSeq(ms, 1, Len(ms) - keep)
Latest(ms, keep)  == SubSeq(ms, Len(ms) - keep + 1, Len(ms))

\* What the messages of ms hold.
Given(ms) == UNION {ms[i].given : i \in DOMAIN ms}

--------------------------------------------------------------------------------
(* L1: apply_tool_result_budget *)

\* A tool result that is too long is cut, and a note says so.
Budgeted(ms) ==
  [i \in DOMAIN ms |->
     IF ms[i].kind = "results" /\ ms[i].size > ToolResultMaxChars
     THEN [ms[i] EXCEPT !.size = ToolResultMaxChars + NoteSize] ELSE ms[i]]

--------------------------------------------------------------------------------
(* ContextManager *)

Chars(ms) ==
  LET upTo[i \in 0 .. Len(ms)] == IF i = 0 THEN 0 ELSE upTo[i - 1] + ms[i].size
  IN upTo[Len(ms)]

EstimateTokens(ms) == Chars(ms) \div CharsPerToken

\* messages_for_api: from the last boundary on.
MessagesForApi(ms) ==
  LET boundaries == {i \in DOMAIN ms : ms[i].kind = "boundary"} IN
    IF boundaries = {} THEN ms ELSE SubSeq(ms, Max(boundaries), Len(ms))

\* Mutant: the window itself is not looked at.
PressureBelow(ms) == IF EstimateTokens(ms) > Threshold THEN "compact" ELSE "normal"

Pressure(ms) ==
  IF EstimateTokens(ms) > MaxTokens THEN "overflow"
  ELSE IF EstimateTokens(ms) > Threshold THEN "compact"
  ELSE "normal"

\* to_api_content_block, to_api_messages: of a placeholder and of a boundary a
\* request carries nothing.
Told(ms) == UNION {ms[i].given : i \in {j \in DOMAIN ms : ms[j].kind \in Verbatim}}

Request == MessagesForApi(messages)

--------------------------------------------------------------------------------
(* L2: collapse *)

\* Mutant: the last message of the segment is kept as well.
CollapsedShort(ms) ==
  LET segment == Earlier(ms, KeepRecent) IN
    <<[kind |-> "folded", from |-> ms[1].from, to |-> Last(segment).to,
       size |-> PlaceholderSize, given |-> {}]>> \o Latest(ms, KeepRecent + 1)

\* One placeholder for all but the latest messages.  A summary among them is
\* folded away too.
Collapsed(ms) ==
  LET segment == Earlier(ms, KeepRecent) IN
    <<[kind |-> "folded", from |-> ms[1].from, to |-> Last(segment).to,
       size |-> PlaceholderSize, given |-> {}]>> \o Latest(ms, KeepRecent)

Collapsible(ms) == Len(ms) > KeepRecent + MinSegmentSize

--------------------------------------------------------------------------------
(* L3: auto_compact *)

\* Mutant: one message more is summarized than is to be.
CompactedFar(ms, size) ==
  LET old == Earlier(ms, KeepRecentMessages - 1) IN
    <<[kind |-> "boundary", from |-> ms[1].from, to |-> Last(old).to,
       size |-> size, given |-> Given(old)]>> \o Latest(ms, KeepRecentMessages - 1)

\* Mutant: the earlier summary is not built upon.
CompactedAnew(ms, size) ==
  LET old == Earlier(ms, KeepRecentMessages) IN
    <<[kind |-> "boundary", from |-> ms[1].from, to |-> Last(old).to, size |-> size,
       given |-> Told(old)]>> \o Latest(ms, KeepRecentMessages)

\* A boundary with the summary of all but the latest messages.  Its prompt has the
\* earlier summary, and nothing of a placeholder.
Compacted(ms, size) ==
  LET old == Earlier(ms, KeepRecentMessages) IN
    <<[kind |-> "boundary", from |-> ms[1].from, to |-> Last(old).to,
       size |-> size, given |-> Given(old)]>> \o Latest(ms, KeepRecentMessages)

Compactable(ms) == Len(ms) > KeepRecentMessages

--------------------------------------------------------------------------------
(* The turn *)

Push(kind, size) ==
  /\ pushed < MaxPushed
  /\ messages' = Append(messages, Fresh(kind, size))
  /\ pushed' = pushed + 1

\* What a slash command has to say comes before the user's message.
Remind(size) ==
  /\ pc = "idle"
  /\ Push("text", size)
  /\ pressure' = "normal"
  /\ UNCHANGED <<pc, folded>>

\* The user's message begins a turn.
StartTurn(size) ==
  /\ pc = "idle"
  /\ Push("text", size)
  /\ pc' = "top"
  /\ pressure' = "normal"
  /\ UNCHANGED folded

\* run_loop, before the call: the budget, then the pressure.  An overflow ends
\* the turn, and the history is saved as it is.
CheckPressure ==
  /\ pc = "top"
  /\ messages' = Budgeted(messages)
  /\ pressure' = Pressure(MessagesForApi(messages'))
  /\ pc' = CASE pressure' = "overflow" -> "idle"
             [] pressure' = "compact"  -> "squeezing"
             [] pressure' = "normal"   -> "calling"
  /\ UNCHANGED <<pushed, folded>>

\* apply_pressure: the budget once more, then the first stage that applies.
Squeeze ==
  /\ pc = "squeezing"
  /\ pc' = "calling"
  /\ UNCHANGED <<pressure, pushed>>

Collapse ==
  /\ Squeeze
  /\ LET ms == Budgeted(messages) IN
       /\ Collapsible(ms)
       /\ messages' = Collapsed(ms)
       /\ folded' = folded \cup (ms[1].from .. Last(Earlier(ms, KeepRecent)).to)

Compact(size) ==
  /\ Squeeze
  /\ LET ms == Budgeted(messages) IN
       /\ ~ Collapsible(ms)
       /\ Compactable(ms)
       /\ messages' = Compacted(ms, size)
  /\ UNCHANGED folded

\* Too few messages, or a summary that cannot be had: on with what there is.
PassThrough ==
  /\ Squeeze
  /\ messages' = Budgeted(messages)
  /\ ~ Collapsible(messages')
  /\ UNCHANGED folded

\* provider.stream with messages_for_api
Call ==
  /\ pc = "calling"
  /\ pc' = "responding"
  /\ UNCHANGED <<messages, pressure, pushed, folded>>

\* The response, its results, a continuation prompt, the reason of a hook.
Respond(kind, size) ==
  /\ pc = "responding"
  /\ Push(kind, size)
  /\ UNCHANGED <<pc, pressure, folded>>

Again ==
  /\ pc = "responding"
  /\ pc' = "top"
  /\ UNCHANGED <<messages, pressure, pushed, folded>>

\* The turn ends, for whatever reason, and its history is saved.
EndTurn ==
  /\ pc \in {"top", "calling", "responding"}
  /\ pc' = "idle"
  /\ UNCHANGED <<messages, pressure, pushed, folded>>

Next ==
  \/ \E size \in MessageSizes : \/ Remind(size)
                                \/ StartTurn(size)
                                \/ \E kind \in Verbatim : Respond(kind, size)
  \/ CheckPressure
  \/ Collapse
  \/ \E size \in SummarySizes : Compact(size)
  \/ PassThrough
  \/ Call \/ Again \/ EndTurn

Spec == Init /\ [][Next]_vars

--------------------------------------------------------------------------------
(* Properties *)

TypeOK ==
  /\ pc \in Places
  /\ messages \in Seq(Message)
  /\ pressure \in {"normal", "compact", "overflow"}
  /\ pushed \in Nat
  /\ folded \subseteq Nat

\* Through any mixture of folds and summaries the history stands for everything
\* that was pushed, in order, nothing twice: one placeholder or boundary at its
\* head, and single messages behind it.
HistoryIsWhole ==
  \A i \in DOMAIN messages :
    /\ messages[i].to = pushed - Len(messages) + i
    /\ messages[i].from = IF i = 1 THEN 1 ELSE messages[i].to
    /\ messages[i].kind \in Verbatim => messages[i].given = {messages[i].to}
    /\ i > 1 => messages[i].kind \in Verbatim

\* Whatever was compressed, the request carries the latest messages verbatim:
\* "These are kept verbatim -- only older messages are summarized" (compact.rs).
RecentIsTold ==
  pc = "calling" =>
    \A i \in 1 .. pushed :
      i > pushed - KeepRecent /\ i > pushed - KeepRecentMessages => i \in Told(Request)

\* What the history no longer holds, not even in a summary, was folded by L2: no
\* summary forgets what an earlier one held.
LossIsFolding == 1 .. pushed \subseteq Given(messages) \cup folded

\* Pressure is not looked at again after a compression, so a summary may be longer
\* than what it replaces; but a request is longer than the window by one summary
\* or placeholder at most.
CallNearlyFits ==
  pc = "calling" =>
    \E size \in SummarySizes \cup {PlaceholderSize} :
      EstimateTokens(Request) <= MaxTokens + 1 + size \div CharsPerToken
================================================================================
