------------------------------- MODULE MCDelivery -------------------------------
(* Delivery for TLC: a turn with a sub-agent, one with text, an event that is  *)
(* not shown and a pause; a stream, batch and channel shorter than they.       *)
EXTENDS Delivery

MCTurns ==
  {<<Named("tool_start", "a1"), Named("tool_result", "a1"),
     Named("turn_end", "completed")>>,
   <<Named("session_state_changed", "running"), Named("text", ""), Named("tool_use_start", "t1"),
     Named("hook_blocked", ""), Named("session_state_changed", "requires_action"),
     Named("control_request", "r1")>>}

MCSubEvents == <<Named("text", ""), Named("tool_start", "t1")>>
================================================================================
