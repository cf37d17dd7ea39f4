----------------------------- MODULE MCAgentControl -----------------------------
(* AgentControl for TLC: every call is made on the one thread.  Threads share *)
(* nothing: every action reads and writes one thread's entry and checkpoints. *)
EXTENDS AgentControl, TLC

CONSTANT t1

MCThreads == {t1}
MCThreadOf == [c \in Calls |-> t1]
MCKindOf == [c \in Calls |-> "plan_review"]

Symmetry == Permutations(Calls)
================================================================================
