------------------------------ MODULE SessionRun -------------------------------
(***************************************************************************)
(* The session service's run lifecycle: one SendMessage call from the      *)
(* user's message to the stored answer.                                    *)
(*                                                                         *)
(*   app/send_message.rs    execute, run_lifecycle, finalize_run, fail_run *)
(*   domain/run.rs          the Run state machine, kept in task memory     *)
(*   infra/pg/*_repo.rs     the rows of threads, runs and messages         *)
(*   infra/grpc/...         dispatch to the agent, resume, delete thread   *)
(*   main.rs                crash recovery before the service listens      *)
(*                                                                         *)
(* A run is handled by one task at a time: the gRPC handler that runs      *)
(* execute(), then the spawned run_lifecycle().  Each action is the code   *)
(* between two awaits, so a crash, a dropped request or a failing database *)
(* call can come between any two of them.  The agent service is the        *)
(* environment: it appends events to the run's Redis Stream.  What the     *)
(* user wrote and what the agent says is abstracted to positions in that   *)
(* stream.                                                                 *)
(***************************************************************************)
EXTENDS Integers, Sequences, FiniteSets

CONSTANTS
  Threads,     \* thread identifiers
  Runs,        \* run identifiers; one SendMessage call each
  ThreadOf,    \* the thread each run belongs to
  MaxEvents,   \* bound: events in a run's stream
  MaxTurns,    \* bound: agent turns executing one run at the same time
  MaxFaults,   \* bound: failing database calls per run
  MaxCrashes   \* bound: crashes of the session process

ASSUME SessionRunAssumption ==
  /\ ThreadOf \in [Runs -> Threads]
  /\ MaxEvents \in Nat
  /\ MaxTurns \in Nat
  /\ MaxFaults \in Nat
  /\ MaxCrashes \in Nat

VARIABLES
  threads,   \* thread rows that exist
  rows,      \* row of each run in table runs
  asked,     \* is the user's message stored?
  replies,   \* assistant messages stored for each run, oldest first
  up,        \* is the session process serving?
  task,      \* where the task that handles the run stands
  mem,       \* the Run value that task holds
  buf,       \* Run.accumulated_content: the stream positions it was built from
  pos,       \* entries of the stream the lifecycle task has consumed
  chan,      \* the completion channel, as its sender left it
  registry,  \* runs with a receiver in the CompletionRegistry
  stream,    \* Redis Stream results:{run_id}
  rpc,       \* the spawned SendMessage call to the agent
  turns,     \* agent turns executing the run
  paused,    \* does the agent hold a pending control request for the run?
  faults,    \* failing database calls so far, per run
  crashes    \* crashes so far

dbVars    == <<threads, rows, asked, replies>>
taskVars  == <<task, mem, buf, pos, chan, registry>>
agentVars == <<stream, rpc, turns, paused>>
envVars   == <<up, faults, crashes>>
vars      == <<dbVars, taskVars, agentVars, envVars>>

--------------------------------------------------------------------------------
(* domain/run.rs *)

Statuses == {"pending", "running", "completing", "completed", "failed", "interrupted"}

\* A row or Run value.  "absent": not created yet; "deleted": cascaded away.
Run == [status : Statuses \cup {"absent", "deleted"},
        result : Nat,                            \* result_message_id, 0 for NULL
        reason : {"none", "subscribe", "agent"}] \* failure_reason

Blank(s) == [status |-> s, result |-> 0, reason |-> "none"]

Active == {"running", "completing"}

\* Mutants: a status RunStatus does not know, a forgotten message id,
\* one reason for every failure, an overwritten buffer.
CompleteMisspelt(run)     == [run EXCEPT !.status = "finalizing"]
FinalizeDetached(run, id) == [run EXCEPT !.status = "completed"]
FailForAgent(run, why)    == [run EXCEPT !.status = "failed", !.reason = "agent"]
AccumulateLast(buffer, n) == <<n>>

Start(run)            == [run EXCEPT !.status = "running"]
Accumulate(buffer, n) == Append(buffer, n)
Complete(run)         == [run EXCEPT !.status = "completing"]
Finalize(run, id)     == [run EXCEPT !.status = "completed", !.result = id]
Fail(run, why)        == [run EXCEPT !.status = "failed", !.reason = why]
Interrupt(run)        == [run EXCEPT !.status = "interrupted"]

--------------------------------------------------------------------------------
(* Where a task stands.  execute() holds the run while Executing, the      *)
(* spawned run_lifecycle() while InLifecycle.                              *)

Executing   == {"asked", "inserted", "dispatched", "started"}
InLifecycle == {"spawned", "streaming", "completing", "finalizing", "replied",
                "notifying", "failing"}
Over        == {"refused", "abandoned", "dead", "done"}
TaskStates  == {"new"} \cup Executing \cup InLifecycle \cup Over

Events   == {"text", "other", "completed", "failed"}
Verdicts == {"completed", "failed"}
Pauses   == {"text", "other"}

At(r, here, there) ==
  /\ up
  /\ task[r] = here
  /\ task' = [task EXCEPT ![r] = there]

\* A database call: ok is what the caller sees, applied whether the statement
\* took effect.  A call may fail after it was applied (the connection is lost).
Called(r, ok, applied) ==
  /\ ok => applied
  /\ IF ok THEN UNCHANGED faults
           ELSE /\ faults[r] < MaxFaults
                /\ faults' = [faults EXCEPT ![r] = @ + 1]

\* Mutant: the update is refused once the row has left running.
UpdateIfRunning(r, run, applied) ==
  rows' = [rows EXCEPT ![r] =
             IF applied /\ @.status \in {"pending", "running"} THEN run ELSE @]

\* UPDATE runs SET ... WHERE id = run.id: every column, and no row is no error.
Update(r, run, applied) ==
  rows' = [rows EXCEPT ![r] = IF applied /\ @.status # "deleted" THEN run ELSE @]

--------------------------------------------------------------------------------
Init ==
  /\ threads = Threads
  /\ rows = [r \in Runs |-> Blank("absent")]
  /\ asked = [r \in Runs |-> FALSE]
  /\ replies = [r \in Runs |-> <<>>]
  /\ up = TRUE
  /\ task = [r \in Runs |-> "new"]
  /\ mem = [r \in Runs |-> Blank("absent")]
  /\ buf = [r \in Runs |-> <<>>]
  /\ pos = [r \in Runs |-> 0]
  /\ chan = [r \in Runs |-> "none"]
  /\ registry = {}
  /\ stream = [r \in Runs |-> <<>>]
  /\ rpc = [r \in Runs |-> "none"]
  /\ turns = [r \in Runs |-> 0]
  /\ paused = [r \in Runs |-> FALSE]
  /\ faults = [r \in Runs |-> 0]
  /\ crashes = 0

--------------------------------------------------------------------------------
(* execute() *)

\* 1. Persist the user message.
InsertUserMessage(r) ==
  /\ ThreadOf[r] \in threads
  /\ \E ok, applied \in BOOLEAN :
       /\ Called(r, ok, applied)
       /\ At(r, "new", IF ok THEN "asked" ELSE "refused")
       /\ asked' = [asked EXCEPT ![r] = applied]
  /\ UNCHANGED <<threads, rows, replies, mem, buf, pos, chan, registry,
                 agentVars, up, crashes>>

\* 2. Create the run, pending.
InsertRun(r) ==
  /\ ThreadOf[r] \in threads
  /\ \E ok, applied \in BOOLEAN :
       /\ Called(r, ok, applied)
       /\ At(r, "asked", IF ok THEN "inserted" ELSE "refused")
       /\ rows' = [rows EXCEPT ![r] = IF applied THEN Blank("pending") ELSE @]
  /\ mem' = [mem EXCEPT ![r] = Blank("pending")]
  /\ UNCHANGED <<threads, asked, replies, buf, pos, chan, registry,
                 agentVars, up, crashes>>

\* Either insert breaks its foreign key once the thread is deleted.
InsertOrphan(r) ==
  /\ ThreadOf[r] \notin threads
  /\ At(r, "new", "refused") \/ At(r, "asked", "refused")
  /\ UNCHANGED <<dbVars, mem, buf, pos, chan, registry, agentVars, envVars>>

\* 3. Dispatch: spawn the agent call and return at once.
Dispatch(r) ==
  /\ At(r, "inserted", "dispatched")
  /\ rpc' = [rpc EXCEPT ![r] = "sent"]
  /\ UNCHANGED <<dbVars, mem, buf, pos, chan, registry, stream, turns, paused,
                 envVars>>

\* 4. Transition to running and persist.
StartRun(r) ==
  /\ \E ok, applied \in BOOLEAN :
       /\ Called(r, ok, applied)
       /\ At(r, "dispatched", IF ok THEN "started" ELSE "refused")
       /\ Update(r, Start(mem[r]), applied)
  /\ mem' = [mem EXCEPT ![r] = Start(@)]
  /\ UNCHANGED <<threads, asked, replies, buf, pos, chan, registry,
                 agentVars, up, crashes>>

\* 5, 6. Register the completion receiver, spawn the lifecycle task, return.
Spawn(r) ==
  /\ At(r, "started", "spawned")
  /\ chan' = [chan EXCEPT ![r] = "open"]
  /\ registry' = registry \cup {r}
  /\ UNCHANGED <<dbVars, mem, buf, pos, agentVars, envVars>>

\* The caller goes away: the server drops the handler at its current await.
Abandon(r) ==
  /\ up
  /\ task[r] \in Executing
  /\ task' = [task EXCEPT ![r] = "abandoned"]
  /\ UNCHANGED <<dbVars, mem, buf, pos, chan, registry, agentVars, envVars>>

--------------------------------------------------------------------------------
(* run_lifecycle() *)

\* Subscribe from the start of the stream; Redis may refuse the connection.
Subscribe(r) ==
  \/ /\ At(r, "spawned", "streaming")
     /\ UNCHANGED <<dbVars, mem, buf, pos, chan, registry, agentVars, envVars>>
  \/ /\ At(r, "spawned", "failing")
     /\ mem' = [mem EXCEPT ![r] = Fail(@, "subscribe")]
     /\ UNCHANGED <<dbVars, buf, pos, chan, registry, agentVars, envVars>>

\* One event from the subscription: a text delta is accumulated, the first
\* verdict ends the loop, anything else is skipped.
Consume(r) ==
  /\ pos[r] < Len(stream[r])
  /\ pos' = [pos EXCEPT ![r] = @ + 1]
  /\ LET event == stream[r][pos[r] + 1] IN
       \/ /\ event = "text"
          /\ At(r, "streaming", "streaming")
          /\ buf' = [buf EXCEPT ![r] = Accumulate(@, pos[r] + 1)]
          /\ UNCHANGED mem
       \/ /\ event = "other"
          /\ At(r, "streaming", "streaming")
          /\ UNCHANGED <<buf, mem>>
       \/ /\ event = "completed"
          /\ At(r, "streaming", "completing")
          /\ mem' = [mem EXCEPT ![r] = Complete(@)]
          /\ UNCHANGED buf
       \/ /\ event = "failed"
          /\ At(r, "streaming", "failing")
          /\ mem' = [mem EXCEPT ![r] = Fail(@, "agent")]
          /\ UNCHANGED buf
  /\ UNCHANGED <<dbVars, chan, registry, agentVars, envVars>>

\* Persist the completing status; an error is logged and ignored.
SaveCompleting(r) ==
  /\ At(r, "completing", "finalizing")
  /\ \E ok, applied \in BOOLEAN :
       /\ Called(r, ok, applied)
       /\ Update(r, mem[r], applied)
  /\ UNCHANGED <<threads, asked, replies, mem, buf, pos, chan, registry,
                 agentVars, up, crashes>>

\* finalize_run: write the assistant message, then finalize the run in memory.
\* On an error the task returns, which drops the completion sender.
InsertReply(r) ==
  /\ ThreadOf[r] \in threads
  /\ \E ok, applied \in BOOLEAN :
       /\ Called(r, ok, applied)
       /\ At(r, "finalizing", IF ok THEN "replied" ELSE "done")
       /\ replies' = [replies EXCEPT ![r] = IF applied THEN Append(@, buf[r]) ELSE @]
       /\ mem' = [mem EXCEPT ![r] =
                    IF ok THEN Finalize(@, Len(replies[r]) + 1) ELSE @]
       /\ chan' = [chan EXCEPT ![r] = IF ok THEN @ ELSE "dropped"]
  /\ UNCHANGED <<threads, rows, asked, buf, pos, registry, agentVars, up, crashes>>

\* The same insert once the thread is deleted.
InsertOrphanReply(r) ==
  /\ ThreadOf[r] \notin threads
  /\ At(r, "finalizing", "done")
  /\ chan' = [chan EXCEPT ![r] = "dropped"]
  /\ UNCHANGED <<dbVars, mem, buf, pos, registry, agentVars, envVars>>

\* Persist the completed run; an error is logged and ignored.
SaveCompleted(r) ==
  /\ At(r, "replied", "notifying")
  /\ \E ok, applied \in BOOLEAN :
       /\ Called(r, ok, applied)
       /\ Update(r, mem[r], applied)
  /\ UNCHANGED <<threads, asked, replies, mem, buf, pos, chan, registry,
                 agentVars, up, crashes>>

\* Send the completion data to whoever holds the receiver.
Notify(r) ==
  /\ At(r, "notifying", "done")
  /\ chan' = [chan EXCEPT ![r] = "sent"]
  /\ UNCHANGED <<dbVars, mem, buf, pos, registry, agentVars, envVars>>

\* fail_run: persist the failure, ignore an error, drop the completion sender.
SaveFailed(r) ==
  /\ At(r, "failing", "done")
  /\ \E ok, applied \in BOOLEAN :
       /\ Called(r, ok, applied)
       /\ Update(r, mem[r], applied)
  /\ chan' = [chan EXCEPT ![r] = "dropped"]
  /\ UNCHANGED <<threads, asked, replies, mem, buf, pos, registry,
                 agentVars, up, crashes>>

--------------------------------------------------------------------------------
(* Thread deletion, crash and recovery *)

\* DELETE FROM threads cascades to the thread's runs and messages.
DeleteThread(t) ==
  /\ up
  /\ t \in threads
  /\ threads' = threads \ {t}
  /\ rows' = [r \in Runs |-> IF ThreadOf[r] = t THEN Blank("deleted") ELSE rows[r]]
  /\ asked' = [r \in Runs |-> asked[r] /\ ThreadOf[r] # t]
  /\ replies' = [r \in Runs |-> IF ThreadOf[r] = t THEN <<>> ELSE replies[r]]
  /\ UNCHANGED <<taskVars, agentVars, envVars>>

\* The process dies: its tasks, their memory and the registry are gone.
Crash ==
  /\ up
  /\ crashes < MaxCrashes
  /\ crashes' = crashes + 1
  /\ up' = FALSE
  /\ task' = [r \in Runs |-> IF task[r] \in Executing \cup InLifecycle
                             THEN "dead" ELSE task[r]]
  /\ mem' = [r \in Runs |-> Blank("absent")]
  /\ buf' = [r \in Runs |-> <<>>]
  /\ pos' = [r \in Runs |-> 0]
  /\ chan' = [r \in Runs |-> "none"]
  /\ registry' = {}
  /\ UNCHANGED <<dbVars, agentVars, faults>>

\* Mutants: recovery forgets completing runs, or takes finished ones too.
OrphansRunning == {r \in Runs : rows[r].status = "running"}
OrphansAll     == {r \in Runs : rows[r].status \notin {"absent", "deleted"}}

\* find_by_status for both statuses an active run can have.
Orphans == {r \in Runs : rows[r].status \in Active}

\* main(): interrupt the runs left active, then serve.  A query or an update
\* that fails is logged, and the runs it concerned stay as they are.
Restart ==
  /\ ~up
  /\ up' = TRUE
  /\ \E done \in SUBSET Orphans :
       /\ \A r \in Orphans \ done : faults[r] < MaxFaults
       /\ rows' = [r \in Runs |-> IF r \in done THEN Interrupt(rows[r]) ELSE rows[r]]
       /\ faults' = [r \in Runs |-> IF r \in Orphans \ done
                                    THEN faults[r] + 1 ELSE faults[r]]
  /\ UNCHANGED <<threads, asked, replies, taskVars, agentVars, crashes>>

--------------------------------------------------------------------------------
(* The agent service, as the session sees it *)

Emit(r, event) ==
  /\ Len(stream[r]) < MaxEvents
  /\ stream' = [stream EXCEPT ![r] = Append(@, event)]

\* The dispatched call reaches the agent, or fails and is only logged.
AgentReceive(r) ==
  /\ rpc[r] = "sent"
  /\ \/ /\ rpc' = [rpc EXCEPT ![r] = "received"]
        /\ turns' = [turns EXCEPT ![r] = @ + 1]
     \/ /\ rpc' = [rpc EXCEPT ![r] = "lost"]
        /\ UNCHANGED turns
  /\ UNCHANGED <<stream, paused, dbVars, taskVars, envVars>>

AgentEmit(r) ==
  /\ turns[r] > 0
  /\ \E event \in Pauses : Emit(r, event)
  /\ UNCHANGED <<rpc, turns, paused, dbVars, taskVars, envVars>>

\* The turn ends; its checkpoint, saved or not, says whether a control request
\* is pending.
EndTurn(r, pending) ==
  /\ turns[r] > 0
  /\ turns' = [turns EXCEPT ![r] = @ - 1]
  /\ \E saved \in BOOLEAN :
       paused' = [paused EXCEPT ![r] = IF saved THEN pending ELSE @]
  /\ UNCHANGED <<rpc, dbVars, taskVars, envVars>>

\* TurnEnd with Completed or Error(..).
AgentFinish(r) ==
  /\ EndTurn(r, FALSE)
  /\ \E event \in Verdicts : Emit(r, event)

\* The turn pauses for a control response: no verdict in the stream.
AgentPause(r) == EndTurn(r, TRUE) /\ Emit(r, "other")

\* The turn ends without a verdict in the stream: cancelled, out of iterations,
\* a context overflow, an error before the loop, or an event Redis refused.
AgentStop(r) == EndTurn(r, FALSE) /\ UNCHANGED stream

\* resume_run: forwarded whatever the run's row says; the agent accepts it as
\* long as its checkpoint still holds the pending request.
ResumeRun(r) ==
  /\ up
  /\ paused[r]
  /\ turns[r] < MaxTurns
  /\ turns' = [turns EXCEPT ![r] = @ + 1]
  /\ UNCHANGED <<stream, rpc, paused, dbVars, taskVars, envVars>>

--------------------------------------------------------------------------------
Request(r) ==
  \/ InsertUserMessage(r) \/ InsertRun(r) \/ InsertOrphan(r) \/ Dispatch(r)
  \/ StartRun(r) \/ Spawn(r)

Lifecycle(r) ==
  \/ Subscribe(r) \/ Consume(r) \/ SaveCompleting(r) \/ InsertReply(r)
  \/ InsertOrphanReply(r) \/ SaveCompleted(r) \/ Notify(r) \/ SaveFailed(r)

Agent(r) ==
  \/ AgentReceive(r) \/ AgentEmit(r) \/ AgentFinish(r) \/ AgentPause(r)
  \/ AgentStop(r)

Next ==
  \/ \E r \in Runs : \/ Request(r) \/ Abandon(r) \/ Lifecycle(r)
                     \/ Agent(r) \/ ResumeRun(r)
  \/ \E t \in Threads : DeleteThread(t)
  \/ Crash
  \/ Restart

Spec == Init /\ [][Next]_vars

\* The runtime polls a lifecycle task that can make progress.  Nothing is
\* assumed of the agent, the users or the process's restarts.
FairSpec == Spec /\ \A r \in Runs : WF_vars(Lifecycle(r))

--------------------------------------------------------------------------------
(* Properties *)

TypeOK ==
  /\ threads \subseteq Threads
  /\ rows \in [Runs -> Run]
  /\ asked \in [Runs -> BOOLEAN]
  /\ replies \in [Runs -> Seq(Seq(Nat))]
  /\ up \in BOOLEAN
  /\ task \in [Runs -> TaskStates]
  /\ mem \in [Runs -> Run]
  /\ buf \in [Runs -> Seq(Nat)]
  /\ pos \in [Runs -> Nat]
  /\ chan \in [Runs -> {"none", "open", "sent", "dropped"}]
  /\ registry \subseteq Runs
  /\ stream \in [Runs -> Seq(Events)]
  /\ rpc \in [Runs -> {"none", "sent", "received", "lost"}]
  /\ turns \in [Runs -> Nat]
  /\ paused \in [Runs -> BOOLEAN]
  /\ faults \in [Runs -> Nat]
  /\ crashes \in Nat

\* Event n of stream s is its first verdict, and that verdict is v.
FirstVerdict(s, n, v) ==
  /\ n \in 1 .. Len(s)
  /\ s[n] = v
  /\ \A p \in 1 .. Len(s) : s[p] \in Verdicts => n <= p

\* The content lists, in order, each text delta among the first n events of s.
Transcribes(content, s, n) ==
  /\ \A i \in 1 .. Len(content) : content[i] \in 1 .. n /\ s[content[i]] = "text"
  /\ \A i, j \in 1 .. Len(content) : i < j => content[i] < content[j]
  /\ \A p \in 1 .. n : s[p] = "text" => \E i \in 1 .. Len(content) : content[i] = p

\* An assistant message that is stored, whatever became of its run since, is
\* the text the agent streamed before its first verdict, complete and in
\* order, and that verdict was "completed" (run_lifecycle, finalize_run): also
\* when a duplicate resume puts more text and verdicts behind it.
ReplyIsTranscript ==
  \A r \in Runs : \A k \in 1 .. Len(replies[r]) :
    \E n \in 1 .. Len(stream[r]) :
      /\ FirstVerdict(stream[r], n, "completed")
      /\ Transcribes(replies[r][k], stream[r], n)

\* A completed row points at the run's one assistant message: the status is
\* never written before the message is (finalize_run's order), and no crash,
\* lost write or second verdict leaves two messages.
CompletedIsAnswered ==
  \A r \in Runs : rows[r].status = "completed" =>
    /\ Len(replies[r]) = 1
    /\ rows[r].result = 1

\* A row failed for the agent's reason had an error as its first verdict: a
\* failure that follows a completed turn in the stream never reaches the row.
FailedIsReported ==
  \A r \in Runs : rows[r].status = "failed" /\ rows[r].reason = "agent" =>
    \E n \in 1 .. Len(stream[r]) : FirstVerdict(stream[r], n, "failed")

\* While the service is up, a row that says running or completing has a task
\* working on it, unless a database call failed for that run or its request
\* was dropped: recovery (main.rs) overlooks no run a crash left behind.
NoOrphanRow ==
  up => \A r \in Runs :
    rows[r].status \in Active =>
      \/ task[r] \in InLifecycle \cup {"started"}
      \/ task[r] = "abandoned"
      \/ faults[r] > 0

\* When the completion data goes out to the waiting stream handler, the row
\* says completed, unless a write of this run failed.
NotifiedIsCompleted ==
  \A r \in Runs : chan[r] = "sent" /\ faults[r] = 0 =>
    rows[r].status \in {"completed", "deleted"}

\* The rows and messages of SessionRun move as RunLedger allows: no status is
\* left once it is final, and no message is stored twice or too late.
rowStatus  == [r \in Runs |-> rows[r].status]
replyCount == [r \in Runs |-> Len(replies[r])]

Ledger == INSTANCE RunLedger WITH status <- rowStatus, answers <- replyCount

ImplementsLedger == Ledger!Spec

Reported(r) == \E n \in 1 .. Len(stream[r]) : stream[r][n] \in Verdicts

\* Once the agent's verdict is in the stream of a run that is followed, the
\* row reaches that verdict, unless the process or a write fails first.
ReportIsSettled ==
  \A r \in Runs :
    task[r] = "streaming" /\ Reported(r) ~>
      \/ rows[r].status \in {"completed", "failed", "deleted"}
      \/ faults[r] > 0
      \/ ~up
================================================================================
