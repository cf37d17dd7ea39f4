-------------------------- MODULE SessionRunInduction --------------------------
(***************************************************************************)
(* The inductive invariant behind the safety properties of SessionRun.     *)
(*                                                                         *)
(* The properties relate the database to the stream and are not inductive: *)
(* what a task writes into the database is the Run value it has in memory, *)
(* and what that value may say depends on where the task stands and on     *)
(* what it has read.  The invariant spells that dependency out, run by     *)
(* run; SessionProofs shows that every step keeps it.                      *)
(***************************************************************************)
EXTENDS SessionRun

\* The only rows that say "deleted" are those of deleted threads, and they
\* keep no message.
DeletionFits(r) ==
  /\ rows[r].status = "deleted" <=> ThreadOf[r] \notin threads
  /\ rows[r].status = "deleted" => replies[r] = <<>>

\* The row each place of the task implies, unless it has been deleted.
RowFits(r) ==
  rows[r].status # "deleted" =>
    /\ task[r] \in {"new", "asked"} => rows[r].status = "absent"
    /\ task[r] \in {"inserted", "dispatched"} => rows[r].status = "pending"
    /\ task[r] \in {"started", "spawned", "streaming", "completing", "failing"}
         => rows[r].status = "running"
    /\ task[r] \in {"finalizing", "replied"} => rows[r].status \in Active
    /\ task[r] = "notifying" =>
         \/ rows[r].status = "completed"
         \/ rows[r].status \in Active /\ faults[r] > 0

\* The message is not there before InsertReply, and is there after it.
RepliesFit(r) ==
  /\ task[r] \in {"new", "spawned", "streaming", "completing", "finalizing",
                  "failing"} \cup Executing => replies[r] = <<>>
  /\ task[r] \in {"replied", "notifying"} =>
       Len(replies[r]) = 1 \/ rows[r].status = "deleted"

\* The Run value in the task's memory.
MemoryFits(r) ==
  /\ task[r] \in {"inserted", "dispatched"} => mem[r] = Blank("pending")
  /\ task[r] \in {"started", "spawned", "streaming"} => mem[r] = Blank("running")
  /\ task[r] \in {"completing", "finalizing"} => mem[r] = Blank("completing")
  /\ task[r] \in {"replied", "notifying"} =>
       mem[r].status = "completed" /\ mem[r].result = 1
  /\ task[r] = "failing" => mem[r].status = "failed"

\* What the lifecycle task has read of the stream, and kept of it.
StreamFits(r) ==
  /\ task[r] \in {"new", "spawned"} \cup Executing => pos[r] = 0 /\ buf[r] = <<>>
  /\ task[r] = "streaming" =>
       /\ pos[r] <= Len(stream[r])
       /\ \A p \in 1 .. pos[r] : stream[r][p] \notin Verdicts
       /\ Transcribes(buf[r], stream[r], pos[r])
  /\ task[r] \in {"completing", "finalizing"} =>
       /\ FirstVerdict(stream[r], pos[r], "completed")
       /\ Transcribes(buf[r], stream[r], pos[r])
  /\ task[r] = "failing" /\ mem[r].reason = "agent" =>
       FirstVerdict(stream[r], pos[r], "failed")

\* The completion data is sent by a task that ends; no task survives a crash.
LifeFits(r) ==
  /\ chan[r] = "sent" => task[r] = "done"
  /\ ~up => task[r] \notin Executing \cup InLifecycle

\* The safety properties of SessionRun, for one run.
RunIsSafe(r) ==
  /\ \A k \in 1 .. Len(replies[r]) : \E n \in 1 .. Len(stream[r]) :
       FirstVerdict(stream[r], n, "completed") /\ Transcribes(replies[r][k], stream[r], n)
  /\ rows[r].status = "completed" => Len(replies[r]) = 1 /\ rows[r].result = 1
  /\ rows[r].status = "failed" /\ rows[r].reason = "agent" =>
       \E n \in 1 .. Len(stream[r]) : FirstVerdict(stream[r], n, "failed")
  /\ up /\ rows[r].status \in Active =>
       \/ task[r] \in InLifecycle \cup {"started", "abandoned"}
       \/ faults[r] > 0
  /\ chan[r] = "sent" /\ faults[r] = 0 =>
       rows[r].status \in {"completed", "deleted"}

RunInv(r) ==
  /\ DeletionFits(r)
  /\ RowFits(r)
  /\ RepliesFit(r)
  /\ MemoryFits(r)
  /\ StreamFits(r)
  /\ LifeFits(r)
  /\ RunIsSafe(r)

\* The inductive invariant: it says for every place of a run's task what the
\* task's memory, the stream it reads and the database rows may hold.
IInv == TypeOK /\ \A r \in Runs : RunInv(r)
================================================================================
