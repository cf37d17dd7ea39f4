----------------------------- MODULE MCModelStream -----------------------------
(* ModelStream for TLC: responses of both providers with text, thought and   *)
(* tools, cut into chunks anywhere, with frames that have no data; a         *)
(* conversation with tools and a follow-up, one with a call that was refused *)
(* and one whose result was lost, and two that were compressed.              *)
EXTENDS ModelStream

Frame(event, kind, id) == [event |-> event, kind |-> kind, id |-> id, index |-> 0]
Chunk(kind, id)        == Frame("chunk", kind, id)
Call(kind, index, id)  == [event |-> "chunk", kind |-> kind, id |-> id, index |-> index]

Comment  == Frame("comment", "", "")
Start    == Frame("message_start", "", "")
Stop     == <<Frame("message_stop", "", "")>>
Done     == <<Frame("[DONE]", "", "")>>

Block(kind, id, delta) ==
  <<Frame("content_block_start", kind, id), Frame("content_block_delta", delta, id),
    Frame("content_block_stop", "", "")>>

Message(role, content) == [role |-> role, content |-> content]
A(type, id)         == [type |-> type, id |-> id]

MCConversations ==
  {<<Message("user", <<A("text", "ask")>>),
     Message("assistant", <<A("thinking", "hm"), A("text", "look"), A("tool_use", "t1"),
                         A("tool_use", "t2")>>),
     Message("user", <<A("tool_result", "t1"), A("tool_result", "t2")>>),
     Message("user", <<A("text", "go on")>>)>>,
   <<Message("user", <<A("text", "ask")>>),
     Message("assistant", <<A("tool_use", "b1")>>),
     Message("user", <<A("tool_result", "b1")>>),
     Message("assistant", <<A("tool_use", "b1"), A("tool_use", "t1"), A("tool_use", "t2")>>),
     Message("user", <<A("tool_result", "t2")>>)>>,
   <<Message("system", <<A("compact_boundary", "")>>), Message("user", <<A("text", "ask")>>)>>,
   <<Message("system", <<A("collapsed", "")>>), Message("user", <<A("tool_result", "t0")>>),
     Message("assistant", <<A("text", "done")>>), Message("user", <<A("text", "ask")>>)>>}

\* Two calls, of which the second asks for the sub-agent; one that was refused
\* before it; a thread that a skill begins, and nothing.
MCHistories ==
  {<<Message("user", <<A("text", "ask")>>),
     Message("assistant", <<A("text", "look"), A("tool_use", "t1"), A("tool_use", "t2")>>)>>,
   <<Message("user", <<A("text", "ask")>>),
     Message("assistant", <<A("tool_use", "b1")>>),
     Message("user", <<A("tool_result", "b1")>>),
     Message("assistant", <<A("tool_use", "b1"), A("tool_use", "t1")>>)>>,
   <<Message("user", <<A("text", "/skill")>>)>>,
   <<>>}

MCResponses ==
  {[provider |-> "anthropic", frames |->
      <<Start>> \o Block("thinking", "hm", "thinking_delta") \o <<Comment>>
        \o Block("tool_use", "t1", "input_json_delta")
        \o Block("tool_use", "t2", "input_json_delta")
        \o <<Frame("message_delta", "", "tool_use")>> \o Stop],
   [provider |-> "anthropic", frames |->
      <<Start>> \o Block("text", "hel", "text_delta") \o <<Comment>>
        \o Block("server_tool_use", "x", "citations_delta")
        \o Block("text", "lo", "text_delta")
        \o <<Frame("message_delta", "", "end_turn")>> \o Stop],
   [provider |-> "anthropic", frames |->
      <<Start>> \o Block("text", "hel", "text_delta") \o <<Frame("error", "", "")>>],
   [provider |-> "openai", frames |->
      <<Chunk("content", "let me"), Call("tool_use", 0, "t1"), Call("arguments", 0, "t1"),
        Comment, Call("tool_use", 1, "t2"), Call("arguments", 1, "t2"),
        Chunk("finish", "tool_calls"), Chunk("usage", "")>> \o Done],
   [provider |-> "openai", frames |->
      <<Chunk("content", "hel"), Comment, Chunk("content", "lo"),
        Chunk("finish", "length"), Chunk("usage", "")>> \o Done]}
================================================================================
