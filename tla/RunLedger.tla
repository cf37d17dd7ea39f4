------------------------------- MODULE RunLedger -------------------------------
(***************************************************************************)
(* What the session service promises about the database rows of its runs,  *)
(* whatever its process does in memory: the abstract specification that    *)
(* SessionRun implements.                                                  *)
(*                                                                         *)
(* A run's row climbs the ladder of domain/run.rs and stays where it ends. *)
(* A row may skip the rung "completing", because a failed write of that    *)
(* status is logged and ignored, but it may not be completed before its    *)
(* assistant message is stored, and a run stores at most one of those.     *)
(***************************************************************************)
EXTENDS Naturals

CONSTANTS
  Runs,      \* run identifiers
  Threads,   \* thread identifiers
  ThreadOf   \* the thread each run belongs to

VARIABLES
  status,    \* runs.status of each run; "absent" before, "deleted" after the row
  answers    \* how many assistant messages the run has stored

vars == <<status, answers>>

Active == {"running", "completing"}

Init ==
  /\ status = [r \in Runs |-> "absent"]
  /\ answers = [r \in Runs |-> 0]

\* The row moves from one of the statuses in `from` to `to`.
Move(r, from, to) ==
  /\ status[r] \in from
  /\ status' = [status EXCEPT ![r] = to]

Open(r)     == Move(r, {"absent"}, "pending") /\ UNCHANGED answers
Start(r)    == Move(r, {"pending"}, "running") /\ UNCHANGED answers
Complete(r) == Move(r, {"running"}, "completing") /\ UNCHANGED answers
Fail(r)     == Move(r, {"running"}, "failed") /\ UNCHANGED answers

Finalize(r) ==
  /\ answers[r] = 1
  /\ Move(r, Active, "completed")
  /\ UNCHANGED answers

\* The assistant message is stored before the run is marked completed.
Answer(r) ==
  /\ status[r] \in Active
  /\ answers[r] = 0
  /\ answers' = [answers EXCEPT ![r] = 1]
  /\ UNCHANGED status

\* A restart gives up on any set of active runs at once.
Interrupt(S) ==
  /\ \A r \in S : status[r] \in Active
  /\ status' = [r \in Runs |-> IF r \in S THEN "interrupted" ELSE status[r]]
  /\ UNCHANGED answers

\* Deleting a thread takes the rows of its runs and its messages with it.
Delete(t) ==
  /\ status' = [r \in Runs |-> IF ThreadOf[r] = t THEN "deleted" ELSE status[r]]
  /\ answers' = [r \in Runs |-> IF ThreadOf[r] = t THEN 0 ELSE answers[r]]

Next ==
  \/ \E r \in Runs : \/ Open(r) \/ Start(r) \/ Complete(r) \/ Fail(r)
                     \/ Finalize(r) \/ Answer(r)
  \/ \E S \in SUBSET Runs : Interrupt(S)
  \/ \E t \in Threads : Delete(t)

Spec == Init /\ [][Next]_vars
================================================================================
