-------------------------- MODULE MCContextCompression --------------------------
(* ContextCompression for TLC, and what the repository says of it. *)
EXTENDS ContextCompression

\* "Only these messages are sent to the LLM API -- everything before the boundary
\* has been summarized into the boundary's content" (kernel/context.rs:96-97):
\* what was not folded reaches the model, itself or in a summary.
SummaryIsTold ==
  pc = "calling" => 1 .. pushed \subseteq Told(Request) \cup folded
================================================================================
