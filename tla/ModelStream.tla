------------------------------ MODULE ModelStream ------------------------------
(***************************************************************************)
(* One call of a model: the conversation is put into the provider's form    *)
(* and sent (providers/anthropic.rs, openai.rs), the body of the response   *)
(* comes in chunks, frames are cut from a buffer (adapters/llm/sse.rs), a   *)
(* parser that keeps state across frames turns them into stream events, and *)
(* the loop takes those one at a time (StreamProcessor::run).              *)
(*                                                                         *)
(* A frame is what its JSON tells: text and arguments are names.           *)
(***************************************************************************)
EXTENDS Naturals, Sequences, FiniteSets, SequencesExt

CONSTANTS
  Conversations,   \* what the loop of a turn may send: sequences of [role, content]
  Histories,       \* what a caller hands to a sub-agent, of the same form
  Responses        \* bodies a provider may send: [provider, frames]

\* What a frame may be: its event or, of OpenAI, the one thing its chunk tells.
AnthropicFrames ==
  [event : {"comment", "message_start", "content_block_start", "content_block_delta",
            "content_block_stop", "message_delta", "message_stop", "error"},
   kind  : {"", "text", "thinking", "tool_use", "server_tool_use", "text_delta",
            "thinking_delta", "input_json_delta", "citations_delta"},
   id    : STRING, index : Nat]

OpenAIFrames ==
  [event : {"comment", "chunk", "[DONE]"},
   kind  : {"", "content", "tool_use", "arguments", "finish", "usage"},
   id    : STRING, index : Nat]

\* ContentBlock.
Blocks ==
  [type : {"text", "thinking", "tool_use", "tool_result", "compact_boundary", "collapsed"},
   id   : STRING]

\* The frames in which a tool begins, in which the message ends, and the last one.
Opens(f)      == f.event \in {"content_block_start", "chunk"} /\ f.kind = "tool_use"
Finishes(f)   == f.event = "message_delta" \/ (f.event = "chunk" /\ f.kind = "finish")
IsTerminal(f) == f.event \in {"message_stop", "[DONE]"}

\* What both protocols promise of the frames of a body: each tool has an id of its
\* own and begins before the message ends, and nothing is behind the last frame.
WellOrdered(fs) ==
  \A i, k \in DOMAIN fs :
    /\ IsTerminal(fs[i]) => k <= i
    /\ Opens(fs[k]) /\ Finishes(fs[i]) => k < i
    /\ Opens(fs[i]) /\ Opens(fs[k]) /\ i # k => fs[i].id # fs[k].id

\* Anthropic: one block after another.  The input of a tool is in its block, which
\* is closed before the next one begins or the message ends.  (The requests offer
\* no tools that Anthropic's own servers would call.)
Stopped(fs, i, k) == \E j \in i + 1 .. k - 1 : fs[j].event = "content_block_stop"

InBlocks(fs) ==
  \A k \in DOMAIN fs :
    /\ fs[k].event = "content_block_delta" /\ fs[k].kind = "input_json_delta" =>
         \E i \in 1 .. k - 1 : Opens(fs[i]) /\ ~Stopped(fs, i, k)
    /\ fs[k].event \in {"content_block_start", "message_delta"} =>
         \A i \in 1 .. k - 1 : Opens(fs[i]) => Stopped(fs, i, k)

\* OpenAI: the tools of a message are told apart by their index.
Indexed(fs) ==
  \A i, k \in DOMAIN fs : Opens(fs[i]) /\ Opens(fs[k]) /\ i # k => fs[i].index # fs[k].index

\* The assistant makes the calls, and the user brings the results.
Placed(ms) ==
  \A i \in DOMAIN ms : \A b \in ToSet(ms[i].content) :
    /\ b.type = "tool_use" => ms[i].role = "assistant"
    /\ b.type = "tool_result" => ms[i].role = "user"

ASSUME ModelStreamAssumption ==
  /\ \A r \in Responses :
       /\ WellOrdered(r.frames)
       /\ \/ r.provider = "anthropic" /\ r.frames \in Seq(AnthropicFrames) /\ InBlocks(r.frames)
          \/ r.provider = "openai" /\ r.frames \in Seq(OpenAIFrames) /\ Indexed(r.frames)
  /\ Conversations \cup Histories \subseteq Seq([role : {"user", "assistant", "system"}, content : Seq(Blocks)])
  /\ \A ms \in Conversations \cup Histories : Placed(ms)

VARIABLES
  messages,   \* the conversation
  request,    \* the messages that were sent for it
  response,   \* the response that is read
  wire,       \* its frames that have not arrived
  buffer,     \* frames that have arrived, in ParseState.buffer
  reading,    \* frames are being cut from the buffer
  parser,     \* AnthropicParser or OpenAiParser
  pending,    \* events parsed and not taken
  yielded,    \* history: the events the loop has taken
  ended       \* how the stream ended

vars == <<messages, request, response, wire, buffer, reading, parser, pending, yielded, ended>>

None == "none"

--------------------------------------------------------------------------------
(* The conversation *)

\* The blocks of some types, in their order.
Only(types, content) ==
  FlattenSeq([i \in DOMAIN content |->
                IF content[i].type \in types THEN <<content[i]>> ELSE <<>>])

Of(type, content) == Only({type}, content)

Said(role, content) == [role |-> role, content |-> content]

\* The calls of the last response.
LastCalls(m) ==
  LET spoken == {i \in DOMAIN m : m[i].role = "assistant"}
  IN IF spoken = {} THEN <<>> ELSE Of("tool_use", m[Max(spoken)].content)

\* build_fork_messages: the calls of the last response have a placeholder each for
\* their results, those that were refused and have one another.
BuildForkMessages(m) ==
  LET uses == LastCalls(m)
      task == Said("user", <<[type |-> "text", id |-> "directive"]>>)
  IN IF uses = <<>> THEN Append(m, task)
     ELSE m \o <<Said("user", [i \in DOMAIN uses |-> [uses[i] EXCEPT !.type = "tool_result"]]),
                 task>>

\* spawn_sub_agent.
Begun(history) ==
  IF history = <<>> THEN <<Said("user", <<[type |-> "text", id |-> "directive"]>>)>>
                    ELSE BuildForkMessages(history)

--------------------------------------------------------------------------------
(* The requests *)

\* to_api_content_block.
Sendable == {"text", "tool_use", "tool_result"}

\* AnthropicProvider::build_request_body.
AnthropicRequest ==
  [i \in DOMAIN messages |->
     [role    |-> IF messages[i].role = "assistant" THEN "assistant" ELSE "user",
      content |-> Only(Sendable, messages[i].content)]]

\* A message of OpenAI's form: its text, its calls, or the result of one.
ApiMessage(role, content) == Said(role, content)

OfBlock(b) == ApiMessage(IF b.type = "tool_result" THEN "tool" ELSE "user", <<b>>)

\* Mutant: the results of one message go into one.
ResultsTogether(m) ==
  CASE m.role = "assistant" ->
         <<ApiMessage(m.role, Of("text", m.content) \o Of("tool_use", m.content))>>
    [] m.role = "user" /\ Of("tool_result", m.content) # <<>> ->
         <<OfBlock(Head(Of("tool_result", m.content)))>>
    [] OTHER -> <<ApiMessage(m.role, Of("text", m.content))>>

\* to_api_messages.
ToApiMessages(m) ==
  CASE m.role = "assistant" ->
         <<ApiMessage(m.role, Of("text", m.content) \o Of("tool_use", m.content))>>
    [] m.role = "user" /\ Of("tool_result", m.content) # <<>> ->
         LET kept == Only({"text", "tool_result"}, m.content)
         IN [i \in DOMAIN kept |-> OfBlock(kept[i])]
    [] OTHER -> <<ApiMessage(m.role, Of("text", m.content))>>

\* OpenAIProvider::build_request_body.
OpenAIRequest ==
  <<ApiMessage("system", <<>>)>>
    \o FlattenSeq([i \in DOMAIN messages |-> ToApiMessages(messages[i])])

--------------------------------------------------------------------------------
(* The parsers *)

TextDelta(text)       == [type |-> "text", id |-> text]
ThinkingDelta(text)   == [type |-> "thinking", id |-> text]
ToolUseStart(id)      == [type |-> "tool_use_start", id |-> id]
ToolInputDelta(id)    == [type |-> "tool_input", id |-> id]
ToolUseEnd(id)        == [type |-> "tool_use_end", id |-> id]
MessageEnd(stop)      == [type |-> "message_end", id |-> stop]
StreamError           == [type |-> "error", id |-> None]

\* Both have a flag for the last frame.  Anthropic: the block that is open and
\* its tool; OpenAI: the tools of the message by their index.
Fresh == [done |-> FALSE, block |-> None, tool |-> None, calls |-> <<>>]

Parsed(p, events) == [parser |-> p, events |-> events]

StopReason(stop) ==
  CASE stop \in {"tool_use", "tool_calls"} -> "tool_use"
    [] stop \in {"max_tokens", "length"}   -> "max_tokens"
    [] OTHER                               -> "end_turn"

ContentBlockStart(p, f) ==
  CASE f.kind = "tool_use" -> Parsed([p EXCEPT !.block = f.kind, !.tool = f.id],
                                     <<ToolUseStart(f.id)>>)
    [] f.kind \in {"text", "thinking"} -> Parsed([p EXCEPT !.block = f.kind], <<>>)
    [] OTHER -> Parsed(p, <<>>)

ContentBlockDelta(p, f) ==
  Parsed(p, CASE f.kind = "text_delta"       -> <<TextDelta(f.id)>>
              [] f.kind = "thinking_delta"   -> <<ThinkingDelta(f.id)>>
              [] f.kind = "input_json_delta" -> <<ToolInputDelta(p.tool)>>
              [] OTHER                       -> <<>>)

ContentBlockStop(p) ==
  IF p.block = "tool_use"
  THEN Parsed([p EXCEPT !.block = None, !.tool = None], <<ToolUseEnd(p.tool)>>)
  ELSE Parsed([p EXCEPT !.block = None], <<>>)

\* AnthropicParser::parse.
Anthropic(p, f) ==
  CASE f.event = "content_block_start" -> ContentBlockStart(p, f)
    [] f.event = "content_block_delta" -> ContentBlockDelta(p, f)
    [] f.event = "content_block_stop"  -> ContentBlockStop(p)
    [] f.event = "message_delta" -> Parsed(p, <<MessageEnd(StopReason(f.id))>>)
    [] f.event = "message_stop"  -> Parsed([p EXCEPT !.done = TRUE], <<>>)
    [] f.event = "error"         -> Parsed(p, <<StreamError>>)
    [] OTHER                     -> Parsed(p, <<>>)

\* Mutant: one tool ends, whichever the message has.
FinishOne(p, f) ==
  {Parsed([p EXCEPT !.calls = <<>>], <<ToolUseEnd(p.calls[i]), MessageEnd(StopReason(f.id))>>) :
     i \in DOMAIN p.calls}

\* The tools of a message end with it, in the order of a HashMap's values.
Finish(p, f) ==
  {Parsed([p EXCEPT !.calls = <<>>],
          [i \in DOMAIN order |-> ToolUseEnd(p.calls[order[i]])]
            \o <<MessageEnd(StopReason(f.id))>>) : order \in SetToSeqs(DOMAIN p.calls)}

\* HashMap::insert.
Inserted(map, key, value) ==
  [k \in DOMAIN map \cup {key} |-> IF k = key THEN value ELSE map[k]]

\* OpenAiParser::parse.
OpenAI(p, f) ==
  IF f.event = "[DONE]" THEN {Parsed([p EXCEPT !.done = TRUE], <<>>)}
  ELSE CASE f.kind = "content" -> {Parsed(p, <<TextDelta(f.id)>>)}
         [] f.kind = "tool_use" ->
              {Parsed([p EXCEPT !.calls = Inserted(p.calls, f.index, f.id)],
                      <<ToolUseStart(f.id)>>)}
         [] f.kind = "arguments" ->
              {Parsed(p, IF f.index \in DOMAIN p.calls
                         THEN <<ToolInputDelta(p.calls[f.index])>> ELSE <<>>)}
         [] f.kind = "finish" -> Finish(p, f)
         [] OTHER -> {Parsed(p, <<>>)}

Parse(p, f) == IF response.provider = "anthropic" THEN {Anthropic(p, f)} ELSE OpenAI(p, f)

--------------------------------------------------------------------------------
(* sse_stream *)

Started(r) ==
  /\ response = r /\ wire = r.frames /\ buffer = <<>> /\ reading = FALSE
  /\ parser = Fresh /\ pending = <<>> /\ yielded = <<>> /\ ended = None

\* The request is sent; a status that is none of success ends the call.
Send ==
  /\ request = <<>>
  /\ request' = IF response.provider = "anthropic" THEN AnthropicRequest ELSE OpenAIRequest
  /\ ended' \in {None, "error"}
  /\ UNCHANGED <<messages, response, wire, buffer, reading, parser, pending, yielded>>

\* The loop polls the stream and there is no event to give it.
Polled == request # <<>> /\ ended = None /\ ~reading /\ pending = <<>>

\* A chunk of the body arrives: the rest of some frames, or of none.
Receive ==
  /\ Polled
  /\ wire # <<>>
  /\ \E n \in 0 .. Len(wire) :
       /\ buffer' = buffer \o SubSeq(wire, 1, n)
       /\ wire' = SubSeq(wire, n + 1, Len(wire))
  /\ reading' = TRUE
  /\ UNCHANGED <<messages, request, response, parser, pending, yielded, ended>>

\* extract_frame, then parse.  A frame without data is cut and ends the reading:
\* what is behind it stays in the buffer until the next chunk.
ExtractFrame ==
  /\ reading
  /\ buffer # <<>>
  /\ buffer' = Tail(buffer)
  /\ IF Head(buffer).event = "comment"
     THEN reading' = FALSE /\ UNCHANGED <<parser, pending>>
     ELSE \E result \in Parse(parser, Head(buffer)) :
            /\ parser' = result.parser
            /\ pending' = pending \o result.events
            /\ UNCHANGED reading
  /\ UNCHANGED <<messages, request, response, wire, yielded, ended>>

BufferEmpty ==
  /\ reading
  /\ buffer = <<>>
  /\ reading' = FALSE
  /\ UNCHANGED <<messages, request, response, wire, buffer, parser, pending, yielded, ended>>

\* The loop takes the next event; an error event is the end of the response.
Yield ==
  /\ ended = None
  /\ ~reading
  /\ pending # <<>>
  /\ pending' = Tail(pending)
  /\ yielded' = Append(yielded, Head(pending))
  /\ ended' = IF Head(pending) = StreamError THEN "error" ELSE None
  /\ UNCHANGED <<messages, request, response, wire, buffer, reading, parser>>

\* Mutant: the end of the body is the end of the response.
EndOfAnyBody ==
  /\ Polled
  /\ wire = <<>>
  /\ ended' = "clean"
  /\ UNCHANGED <<messages, request, response, wire, buffer, reading, parser, pending, yielded>>

\* The body ends: cleanly if the last frame was parsed.
EndOfBody ==
  /\ Polled
  /\ wire = <<>>
  /\ ended' = IF parser.done THEN "clean" ELSE "error"
  /\ UNCHANGED <<messages, request, response, wire, buffer, reading, parser, pending, yielded>>

\* The connection closes early, or a read fails.
CloseEarly ==
  /\ Polled
  /\ wire # <<>>
  /\ ended' = IF parser.done THEN "clean" ELSE "error"
  /\ UNCHANGED <<messages, request, response, wire, buffer, reading, parser, pending, yielded>>

ReadFails ==
  /\ Polled
  /\ wire # <<>>
  /\ ended' = "error"
  /\ UNCHANGED <<messages, request, response, wire, buffer, reading, parser, pending, yielded>>

Init ==
  /\ messages \in Conversations \cup {Begun(history) : history \in Histories}
  /\ request = <<>>
  /\ \E r \in Responses : Started(r)

Next ==
  Send \/ Receive \/ ExtractFrame \/ BufferEmpty \/ Yield \/ EndOfBody \/ CloseEarly \/ ReadFails

Spec == Init /\ [][Next]_vars

--------------------------------------------------------------------------------
(* Properties *)

Contents(seq) == FlattenSeq([i \in DOMAIN seq |-> seq[i].content])

\* The messages with a block of an id.
Places(ms, type, id) ==
  {i \in DOMAIN ms : [type |-> type, id |-> id] \in ToSet(ms[i].content)}

\* Every result is behind a call, and every call has a result behind it.
Called(ms, id) ==
  \A i \in Places(ms, "tool_result", id) : \E k \in Places(ms, "tool_use", id) : k < i

Answered(ms, id) ==
  \A k \in Places(ms, "tool_use", id) : \E i \in Places(ms, "tool_result", id) : k < i

\* Whichever the provider, the model is told every text, call and result of the
\* conversation, each kind in order, a result behind its call and a call with its
\* result where the conversation has them so; and every call has a result that a
\* sub-agent finds still running in what it is handed.
RequestTellsAll ==
  request # <<>> =>
    /\ \A type \in Sendable :
         Of(type, Contents(request)) = Of(type, Contents(messages))
    /\ \A b \in ToSet(Contents(messages)) :
         /\ Called(request, b.id) <=> Called(messages, b.id)
         /\ Answered(request, b.id) <=> Answered(messages, b.id)
    /\ \A history \in Histories : messages = Begun(history) =>
         \A b \in ToSet(LastCalls(history)) : Answered(request, b.id)

\* What a frame says of the response: its texts and thoughts, and the tools it begins.
Says(f) ==
  CASE f.event = "content_block_delta" /\ f.kind = "text_delta"     -> <<TextDelta(f.id)>>
    [] f.event = "content_block_delta" /\ f.kind = "thinking_delta" -> <<ThinkingDelta(f.id)>>
    [] f.event = "chunk" /\ f.kind = "content"                      -> <<TextDelta(f.id)>>
    [] Opens(f)                                                     -> <<ToolUseStart(f.id)>>
    [] OTHER                                                        -> <<>>

\* What the loop hears of it in the events it takes.
Hears(e) == IF e.type \in {"text", "thinking", "tool_use_start"} THEN <<e>> ELSE <<>>

HeardIn(events)  == FlattenSeq([i \in DOMAIN events |-> Hears(events[i])])
SpokenIn(frames) == FlattenSeq([i \in DOMAIN frames |-> Says(frames[i])])

Heard  == HeardIn(yielded)
Spoken == SpokenIn(response.frames)

\* However the body is cut into chunks, the loop hears what the model said, in
\* order, and it takes a response for complete only if it has heard all of it.
ResponseIsWhole ==
  /\ IsPrefix(Heard, Spoken)
  /\ ended = "clean" => Heard = Spoken

At(event) == {i \in DOMAIN yielded : yielded[i] = event}

\* Every tool of a response begins, then has its arguments, then ends, once
\* and before the message does: the loop submits it with all of its input.
ToolsAreBracketed ==
  \A i \in DOMAIN yielded :
    LET id == yielded[i].id IN
    CASE yielded[i].type \in {"tool_input", "tool_use_end"} ->
           /\ \E j \in At(ToolUseStart(id)) : j < i
           /\ \A j \in At(ToolUseEnd(id)) : i <= j
      [] yielded[i].type = "message_end" ->
           \A j \in DOMAIN yielded : yielded[j].type = "tool_use_start"
             => At(ToolUseEnd(yielded[j].id)) # {}
      [] OTHER -> TRUE
================================================================================
