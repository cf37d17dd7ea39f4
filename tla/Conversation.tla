------------------------------ MODULE Conversation ------------------------------
(***************************************************************************)
(* What the agent promises about a thread's history: the abstract          *)
(* specification that AgentControl implements while the calls on a thread  *)
(* do not overlap.                                                         *)
(*                                                                         *)
(* A thread is a sequence of turns that only grows.  A turn may end with a *)
(* control request, and a turn that answers a request comes directly after *)
(* the turn that asked: "continues where execution left off"               *)
(* (common/checkpoint.rs), at most once per request.                       *)
(***************************************************************************)
EXTENDS Naturals, Sequences

CONSTANTS
  Threads,    \* thread identifiers
  Calls,      \* SendMessage and ResumeRun calls; one turn each
  ThreadOf,   \* the thread each call is made on
  None        \* no call

VARIABLES
  history,    \* the turns of each thread, [call, answers]
  request     \* the call whose control request is pending, or None

vars == <<history, request>>

Init ==
  /\ history = [t \in Threads |-> <<>>]
  /\ request = [t \in Threads |-> None]

\* One more turn; it may end with a request of its own.
Add(c, answers) ==
  LET t == ThreadOf[c] IN
  /\ \A i \in 1 .. Len(history[t]) : history[t][i].call # c
  /\ history' = [history EXCEPT ![t] = Append(@, [call |-> c, answers |-> answers])]
  /\ \E q \in {c, None} : request' = [request EXCEPT ![t] = q]

\* A user message; a request that was pending is forgotten.
Say(c) == Add(c, None)

\* The answer to the pending request, which the last turn asked.
Answer(c) ==
  LET t == ThreadOf[c] IN
  /\ request[t] # None
  /\ history[t][Len(history[t])].call = request[t]
  /\ Add(c, request[t])

Next == \E c \in Calls : Say(c) \/ Answer(c)

Spec == Init /\ [][Next]_vars
================================================================================
