----------------------------- MODULE SessionProofs -----------------------------
(***************************************************************************)
(* Proofs about the session, for any runs, threads, clients and bounds.    *)
(*                                                                         *)
(* Of SessionRun: the type invariant; that IInv is an invariant, and with  *)
(* it the safety properties that relate the database, the stream and the   *)
(* waiting client; and that the service implements RunLedger.  An action   *)
(* moves the task of one run; Untouched disposes of every other run, so    *)
(* what is left is one argument per action about one run.                  *)
(*                                                                         *)
(* Of SessionStream: all of that again with stream handlers beside the     *)
(* lifecycle tasks, and that what a client is shown as the answer is what  *)
(* is stored.  A handler answers from the buffer of the lifecycle task,    *)
(* not from the table; StoredInv says that the two agree from the moment   *)
(* the message is written to the end of the task, and Keeps that nothing   *)
(* moves the stored message afterwards.                                    *)
(***************************************************************************)
EXTENDS SessionStream, SessionRunInduction, TLAPS, SequenceTheorems

--------------------------------------------------------------------------------
(* Type correctness *)

\* The state machine of domain/run.rs maps Run values to Run values, and each
\* transition changes the fields it names.
LEMMA RunTransitions ==
  ASSUME NEW run \in Run
  PROVE  /\ Start(run) \in Run
         /\ Complete(run) \in Run
         /\ Interrupt(run) \in Run
         /\ \A id \in Nat : Finalize(run, id) \in Run
         /\ \A why \in {"subscribe", "agent"} : Fail(run, why) \in Run
BY DEF Run, Statuses, Start, Complete, Interrupt, Finalize, Fail

LEMMA BlankIsRun ==
  \A s \in Statuses \cup {"absent", "deleted"} : Blank(s) \in Run
BY DEF Blank, Run

\* UPDATE keeps the table well typed.
LEMMA UpdateType ==
  ASSUME NEW r \in Runs, NEW run \in Run, NEW applied \in BOOLEAN,
         rows \in [Runs -> Run], Update(r, run, applied)
  PROVE  rows' \in [Runs -> Run]
BY DEF Update

LEMMA CalledType ==
  ASSUME NEW r \in Runs, NEW ok \in BOOLEAN, NEW applied \in BOOLEAN,
         faults \in [Runs -> Nat], Called(r, ok, applied)
  PROVE  faults' \in [Runs -> Nat]
BY DEF Called

\* Every variable keeps its type (the states of SessionRun are the states the
\* service, its database and the run's stream can be in).
LEMMA TypeStep == TypeOK /\ [Next]_vars => TypeOK'
<1> SUFFICES ASSUME TypeOK, [Next]_vars PROVE TypeOK'
  OBVIOUS
<1> USE DEF TypeOK, TaskStates, Executing, InLifecycle, Over, Events, At,
            dbVars, taskVars, agentVars, envVars
<1>1. ASSUME NEW r \in Runs, Request(r) PROVE TypeOK'
  <2>1. CASE InsertUserMessage(r)
    BY <2>1, CalledType DEF InsertUserMessage
  <2>2. CASE InsertRun(r)
    BY <2>2, CalledType, BlankIsRun DEF InsertRun, Statuses
  <2>3. CASE InsertOrphan(r)
    BY <2>3 DEF InsertOrphan
  <2>4. CASE Dispatch(r)
    BY <2>4 DEF Dispatch
  <2>5. CASE StartRun(r)
    <3>1. PICK ok, applied \in BOOLEAN :
            /\ Called(r, ok, applied)
            /\ At(r, "dispatched", IF ok THEN "started" ELSE "refused")
            /\ Update(r, Start(mem[r]), applied)
      BY <2>5 DEF StartRun
    <3>2. Start(mem[r]) \in Run
      BY RunTransitions
    <3>3. rows' \in [Runs -> Run]
      BY <3>1, <3>2, UpdateType
    <3>4. mem' \in [Runs -> Run]
      BY <2>5, <3>2 DEF StartRun
    <3>5. faults' \in [Runs -> Nat]
      BY <3>1, CalledType
    <3>6. task' \in [Runs -> TaskStates]
      BY <3>1
    <3>7. UNCHANGED <<threads, asked, replies, buf, pos, chan, registry,
                      agentVars, up, crashes>>
      BY <2>5 DEF StartRun
    <3> QED
      BY <3>3, <3>4, <3>5, <3>6, <3>7
  <2>6. CASE Spawn(r)
    BY <2>6 DEF Spawn
  <2> QED
    BY <1>1, <2>1, <2>2, <2>3, <2>4, <2>5, <2>6 DEF Request
<1>2. ASSUME NEW r \in Runs, Abandon(r) PROVE TypeOK'
  BY <1>2 DEF Abandon
<1>3. ASSUME NEW r \in Runs, Lifecycle(r) PROVE TypeOK'
  <2>1. CASE Subscribe(r)
    <3>1. Fail(mem[r], "subscribe") \in Run
      BY RunTransitions
    <3>2. task' \in [Runs -> TaskStates]
      <4>1. PICK there \in {"streaming", "failing"} :
              task' = [task EXCEPT ![r] = there]
        BY <2>1 DEF Subscribe
      <4> QED
        BY <4>1
    <3>3. mem' \in [Runs -> Run]
      <4>1. mem' = mem \/ mem' = [mem EXCEPT ![r] = Fail(@, "subscribe")]
        BY <2>1 DEF Subscribe
      <4> QED
        BY <3>1, <4>1
    <3>4. UNCHANGED <<dbVars, buf, pos, chan, registry, agentVars, envVars>>
      BY <2>1 DEF Subscribe
    <3> QED
      BY <3>2, <3>3, <3>4
  <2>2. CASE Consume(r)
    <3>1. Fail(mem[r], "agent") \in Run /\ Complete(mem[r]) \in Run
      BY RunTransitions
    <3>2. pos[r] + 1 \in Nat
      OBVIOUS
    <3>3. Accumulate(buf[r], pos[r] + 1) \in Seq(Nat)
      BY DEF Accumulate
    <3>4. task' \in [Runs -> TaskStates]
      <4>1. PICK there \in {"streaming", "completing", "failing"} :
              task' = [task EXCEPT ![r] = there]
        BY <2>2 DEF Consume
      <4> QED
        BY <4>1
    <3>5. mem' \in [Runs -> Run]
      <4>1. \/ mem' = mem
            \/ mem' = [mem EXCEPT ![r] = Complete(@)]
            \/ mem' = [mem EXCEPT ![r] = Fail(@, "agent")]
        BY <2>2 DEF Consume
      <4> QED
        BY <3>1, <4>1
    <3>6. buf' \in [Runs -> Seq(Nat)]
      <4>1. buf' = buf \/ buf' = [buf EXCEPT ![r] = Accumulate(@, pos[r] + 1)]
        BY <2>2 DEF Consume
      <4> QED
        BY <3>3, <4>1
    <3>7. pos' \in [Runs -> Nat]
      BY <2>2, <3>2 DEF Consume
    <3>8. UNCHANGED <<dbVars, chan, registry, agentVars, envVars>>
      BY <2>2 DEF Consume
    <3> QED
      BY <3>4, <3>5, <3>6, <3>7, <3>8
  <2>3. CASE SaveCompleting(r)
    BY <2>3, CalledType, UpdateType DEF SaveCompleting
  <2>4. CASE InsertReply(r)
    <3>1. PICK ok, applied \in BOOLEAN :
            /\ Called(r, ok, applied)
            /\ At(r, "finalizing", IF ok THEN "replied" ELSE "done")
            /\ replies' = [replies EXCEPT ![r] = IF applied THEN Append(@, buf[r]) ELSE @]
            /\ mem' = [mem EXCEPT ![r] =
                         IF ok THEN Finalize(@, Len(replies[r]) + 1) ELSE @]
            /\ chan' = [chan EXCEPT ![r] = IF ok THEN @ ELSE "dropped"]
      BY <2>4 DEF InsertReply
    <3>2. Finalize(mem[r], Len(replies[r]) + 1) \in Run
      <4>1. Len(replies[r]) + 1 \in Nat
        OBVIOUS
      <4> QED
        BY <4>1, RunTransitions
    <3>3. Append(replies[r], buf[r]) \in Seq(Seq(Nat))
      OBVIOUS
    <3>4. replies' \in [Runs -> Seq(Seq(Nat))]
      BY <3>1, <3>3
    <3>5. mem' \in [Runs -> Run]
      BY <3>1, <3>2
    <3>6. faults' \in [Runs -> Nat]
      BY <3>1, CalledType
    <3>7. chan' \in [Runs -> {"none", "open", "sent", "dropped"}]
      BY <3>1
    <3>8. task' \in [Runs -> TaskStates]
      BY <3>1
    <3> QED
      BY <2>4, <3>4, <3>5, <3>6, <3>7, <3>8 DEF InsertReply
  <2>5. CASE InsertOrphanReply(r)
    BY <2>5 DEF InsertOrphanReply
  <2>6. CASE SaveCompleted(r)
    BY <2>6, CalledType, UpdateType DEF SaveCompleted
  <2>7. CASE Notify(r)
    BY <2>7 DEF Notify
  <2>8. CASE SaveFailed(r)
    BY <2>8, CalledType, UpdateType DEF SaveFailed
  <2> QED
    BY <1>3, <2>1, <2>2, <2>3, <2>4, <2>5, <2>6, <2>7, <2>8 DEF Lifecycle
<1>4. ASSUME NEW r \in Runs, Agent(r) \/ ResumeRun(r) PROVE TypeOK'
  <2>1. ASSUME NEW event \in Events, Emit(r, event)
        PROVE  stream' \in [Runs -> Seq(Events)]
    <3>1. Append(stream[r], event) \in Seq(Events)
      BY <2>1
    <3> QED
      BY <2>1, <3>1 DEF Emit
  <2>2. CASE AgentReceive(r)
    <3>1. rpc' \in [Runs -> {"none", "sent", "received", "lost"}]
      <4>1. PICK fate \in {"received", "lost"} : rpc' = [rpc EXCEPT ![r] = fate]
        BY <2>2 DEF AgentReceive
      <4> QED
        BY <4>1
    <3>2. turns' \in [Runs -> Nat]
      <4>1. turns' = [turns EXCEPT ![r] = @ + 1] \/ turns' = turns
        BY <2>2 DEF AgentReceive
      <4>2. CASE turns' = [turns EXCEPT ![r] = @ + 1]
        BY <4>2
      <4> QED
        BY <4>1, <4>2
    <3>3. UNCHANGED <<stream, paused, dbVars, taskVars, envVars>>
      BY <2>2 DEF AgentReceive
    <3> QED
      BY <3>1, <3>2, <3>3
  <2>3. CASE AgentEmit(r)
    BY <2>1, <2>3 DEF AgentEmit, Pauses
  <2>8. ASSUME NEW pending \in BOOLEAN, EndTurn(r, pending)
        PROVE  turns' \in [Runs -> Nat] /\ paused' \in [Runs -> BOOLEAN]
    <3>1. turns[r] > 0 /\ turns' = [turns EXCEPT ![r] = @ - 1]
      BY <2>8 DEF EndTurn
    <3>2. paused' = [paused EXCEPT ![r] = pending] \/ paused' = [paused EXCEPT ![r] = @]
      BY <2>8 DEF EndTurn
    <3>3. paused' \in [Runs -> BOOLEAN]
      <4>1. CASE paused' = [paused EXCEPT ![r] = pending]
        BY <2>8, <4>1
      <4>2. CASE paused' = [paused EXCEPT ![r] = @]
        BY <4>2
      <4> QED
        BY <3>2, <4>1, <4>2
    <3>4. turns' \in [Runs -> Nat]
      BY <3>1
    <3> QED
      BY <3>3, <3>4
  <2>4. CASE AgentFinish(r)
    BY <2>1, <2>4, <2>8 DEF AgentFinish, EndTurn, Verdicts
  <2>5. CASE AgentPause(r)
    BY <2>1, <2>5, <2>8 DEF AgentPause, EndTurn
  <2>6. CASE AgentStop(r)
    BY <2>6, <2>8 DEF AgentStop, EndTurn
  <2>7. CASE ResumeRun(r)
    BY <2>7 DEF ResumeRun
  <2> QED
    BY <1>4, <2>2, <2>3, <2>4, <2>5, <2>6, <2>7 DEF Agent
<1>5. ASSUME NEW t \in Threads, DeleteThread(t) PROVE TypeOK'
  BY <1>5, BlankIsRun DEF DeleteThread
<1>6. CASE Crash
  <2>1. task' \in [Runs -> TaskStates]
    BY <1>6 DEF Crash
  <2>2. mem' \in [Runs -> Run]
    BY <1>6, BlankIsRun DEF Crash
  <2>3. buf' \in [Runs -> Seq(Nat)]
    <3>1. <<>> \in Seq(Nat)
      OBVIOUS
    <3> QED
      BY <1>6, <3>1 DEF Crash
  <2>4. pos' \in [Runs -> Nat] /\ crashes' \in Nat
    <3>1. pos' = [r \in Runs |-> 0] /\ crashes' = crashes + 1
      BY <1>6 DEF Crash
    <3> QED
      BY <3>1
  <2>7. up' \in BOOLEAN
    BY <1>6 DEF Crash
  <2>5. chan' \in [Runs -> {"none", "open", "sent", "dropped"}] /\ registry' \subseteq Runs
    BY <1>6 DEF Crash
  <2>6. UNCHANGED <<dbVars, agentVars, faults>>
    BY <1>6 DEF Crash
  <2> QED
    BY <2>1, <2>2, <2>3, <2>4, <2>5, <2>6, <2>7
<1>7. CASE Restart
  BY <1>7, RunTransitions DEF Restart, Orphans
<1>8. CASE UNCHANGED vars
  BY <1>8 DEF vars
<1> QED
  BY <1>1, <1>2, <1>3, <1>4, <1>5, <1>6, <1>7, <1>8 DEF Next

LEMMA TypeInit == Init => TypeOK
BY BlankIsRun DEF Init, TypeOK, TaskStates

\* The types of SessionRun's variables hold in every state of the service.
THEOREM TypeCorrect == Spec => []TypeOK
BY TypeInit, TypeStep, PTL DEF Spec

--------------------------------------------------------------------------------
(* The operators of SessionRun *)

\* The fields each transition of domain/run.rs leaves in a Run value.
LEMMA TransitionFields ==
  ASSUME NEW run \in Run
  PROVE  /\ Interrupt(run).status = "interrupted"
         /\ \A id \in Nat : Finalize(run, id).status = "completed" /\ Finalize(run, id).result = id
         /\ \A why : Fail(run, why).status = "failed" /\ Fail(run, why).reason = why
BY DEF Run, Interrupt, Finalize, Fail

LEMMA BlankFields ==
  /\ \A s : Blank(s).status = s /\ Blank(s).reason = "none" /\ Blank(s).result = 0
  /\ Start(Blank("pending")) = Blank("running")
  /\ Complete(Blank("running")) = Blank("completing")
BY DEF Blank, Start, Complete

\* A database call counts as a fault of its run exactly when it fails.
LEMMA CalledEffect ==
  ASSUME NEW r \in Runs, NEW ok \in BOOLEAN, NEW applied \in BOOLEAN,
         faults \in [Runs -> Nat], Called(r, ok, applied)
  PROVE  /\ ok => applied
         /\ \A q \in Runs : q # r => faults'[q] = faults[q]
         /\ ok => faults'[r] = faults[r]
         /\ ~ok => faults'[r] > 0
<1>1. CASE ok
  BY <1>1 DEF Called
<1>2. CASE ~ok
  BY <1>2 DEF Called
<1> QED
  BY <1>1, <1>2

\* UPDATE writes one row, and a deleted row stays deleted.
LEMMA UpdateEffect ==
  ASSUME NEW r \in Runs, NEW run \in Run, NEW applied \in BOOLEAN,
         rows \in [Runs -> Run], Update(r, run, applied)
  PROVE  /\ \A q \in Runs : q # r => rows'[q] = rows[q]
         /\ rows'[r] = IF applied /\ rows[r].status # "deleted" THEN run ELSE rows[r]
BY DEF Update

--------------------------------------------------------------------------------
(* Streams and transcripts *)

\* The first verdict of a stream stays the first one as the stream grows.
LEMMA FirstVerdictIsStable ==
  ASSUME NEW s \in Seq(Events), NEW e \in Events, NEW v \in Verdicts,
         NEW n \in Nat, FirstVerdict(s, n, v)
  PROVE  FirstVerdict(Append(s, e), n, v)
<1>1. /\ Len(Append(s, e)) = Len(s) + 1
      /\ \A i \in 1 .. Len(s) : Append(s, e)[i] = s[i]
      /\ Len(s) \in Nat
  OBVIOUS
<1> QED
  BY <1>1 DEF FirstVerdict

\* The first verdict a reader meets is the first verdict of the stream.
LEMMA FirstVerdictRead ==
  ASSUME NEW s \in Seq(Events), NEW n \in Nat, n < Len(s), s[n + 1] \in Verdicts,
         \A p \in 1 .. n : s[p] \notin Verdicts
  PROVE  FirstVerdict(s, n + 1, s[n + 1])
BY DEF FirstVerdict

\* A transcript of a prefix stays one as the stream grows.
LEMMA TranscriptIsStable ==
  ASSUME NEW s \in Seq(Events), NEW e \in Events, NEW c \in Seq(Nat),
         NEW n \in Nat, n <= Len(s), Transcribes(c, s, n)
  PROVE  Transcribes(c, Append(s, e), n)
<1>1. \A i \in 1 .. Len(s) : Append(s, e)[i] = s[i]
  OBVIOUS
<1>2. \A i \in 1 .. n : Append(s, e)[i] = s[i]
  BY <1>1
<1> QED
  BY <1>2 DEF Transcribes

\* accumulate() extends the transcript by the delta that was read.
LEMMA TranscriptOfText ==
  ASSUME NEW s \in Seq(Events), NEW c \in Seq(Nat), NEW n \in Nat, n < Len(s),
         Transcribes(c, s, n), s[n + 1] = "text"
  PROVE  Transcribes(Append(c, n + 1), s, n + 1)
<1> DEFINE d == Append(c, n + 1)
<1>1. /\ Len(c) \in Nat
      /\ Len(d) = Len(c) + 1
      /\ d[Len(c) + 1] = n + 1
      /\ \A i \in 1 .. Len(c) : d[i] = c[i]
      /\ \A i \in 1 .. Len(c) : c[i] \in Nat
  OBVIOUS
<1> HIDE DEF d
<1>2. \A i \in 1 .. Len(d) : d[i] \in 1 .. n + 1 /\ s[d[i]] = "text"
  BY <1>1 DEF Transcribes
<1>3. ASSUME NEW i \in 1 .. Len(d), NEW j \in 1 .. Len(d), i < j
      PROVE  d[i] < d[j]
  <2>1. i \in 1 .. Len(c) /\ d[i] = c[i]
    BY <1>1, <1>3
  <2>2. CASE j \in 1 .. Len(c)
    BY <1>1, <1>3, <2>1, <2>2 DEF Transcribes
  <2>3. CASE j = Len(c) + 1
    <3>1. c[i] \in 1 .. n
      BY <2>1 DEF Transcribes
    <3> QED
      BY <1>1, <2>1, <2>3, <3>1
  <2> QED
    BY <1>1, <2>2, <2>3
<1>4. ASSUME NEW p \in 1 .. n + 1, s[p] = "text"
      PROVE  \E i \in 1 .. Len(d) : d[i] = p
  <2>1. CASE p = n + 1
    BY <1>1, <2>1
  <2>2. CASE p \in 1 .. n
    <3>1. PICK i \in 1 .. Len(c) : c[i] = p
      BY <1>4, <2>2 DEF Transcribes
    <3>2. i \in 1 .. Len(d) /\ d[i] = p
      BY <1>1, <3>1
    <3> QED
      BY <3>2
  <2> QED
    BY <2>1, <2>2
<1>5. \A i, j \in 1 .. Len(d) : i < j => d[i] < d[j]
  BY <1>3
<1>6. Transcribes(d, s, n + 1)
  BY <1>2, <1>4, <1>5 DEF Transcribes
<1> QED
  BY <1>6 DEF d

\* Reading an event that is no text leaves the transcript complete.
LEMMA TranscriptOfOther ==
  ASSUME NEW s \in Seq(Events), NEW c \in Seq(Nat), NEW n \in Nat, n < Len(s),
         Transcribes(c, s, n), s[n + 1] # "text"
  PROVE  Transcribes(c, s, n + 1)
<1>1. \A i \in 1 .. Len(c) : c[i] \in 1 .. n + 1 /\ s[c[i]] = "text"
  BY DEF Transcribes
<1>2. ASSUME NEW p \in 1 .. n + 1, s[p] = "text"
      PROVE  \E i \in 1 .. Len(c) : c[i] = p
  <2>1. p \in 1 .. n
    BY <1>2
  <2> QED
    BY <1>2, <2>1 DEF Transcribes
<1>3. \A i, j \in 1 .. Len(c) : i < j => c[i] < c[j]
  BY DEF Transcribes
<1> QED
  BY <1>1, <1>2, <1>3 DEF Transcribes

--------------------------------------------------------------------------------
(* Runs an action does not touch *)

Same(q) ==
  /\ rows'[q] = rows[q]
  /\ replies'[q] = replies[q]
  /\ task'[q] = task[q]
  /\ mem'[q] = mem[q]
  /\ buf'[q] = buf[q]
  /\ pos'[q] = pos[q]
  /\ chan'[q] = chan[q]
  /\ stream'[q] = stream[q]
  /\ faults'[q] = faults[q]
  /\ up' = up
  /\ ThreadOf[q] \in threads' <=> ThreadOf[q] \in threads

LEMMA Untouched ==
  ASSUME NEW q \in Runs, RunInv(q), Same(q)
  PROVE  RunInv(q)'
<1>1. DeletionFits(q)'
  BY DEF RunInv, Same, DeletionFits
<1>2. RowFits(q)'
  BY DEF RunInv, Same, RowFits
<1>3. RepliesFit(q)'
  BY DEF RunInv, Same, RepliesFit
<1>4. MemoryFits(q)'
  BY DEF RunInv, Same, MemoryFits
<1>5. StreamFits(q)'
  BY DEF RunInv, Same, StreamFits
<1>6. LifeFits(q)'
  BY DEF RunInv, Same, LifeFits
<1>7. RunIsSafe(q)'
  BY DEF RunInv, Same, RunIsSafe
<1> QED
  BY <1>1, <1>2, <1>3, <1>4, <1>5, <1>6, <1>7 DEF RunInv

--------------------------------------------------------------------------------
(* Induction: execute() *)

\* Every step of the gRPC handler keeps the invariant of every run: it writes
\* the row it holds in memory, and it stops at the first failing call.
LEMMA RequestStep ==
  ASSUME IInv, NEW r \in Runs, Request(r)
  PROVE  \A q \in Runs : RunInv(q)'
<1> USE DEF IInv, TypeOK, At, dbVars, taskVars, agentVars, envVars
<1> SUFFICES /\ \A q \in Runs \ {r} : Same(q)
             /\ RunInv(r)'
  BY Untouched
<1> USE DEF Executing, InLifecycle, Active
<1>1. CASE InsertUserMessage(r)
  <2>1. PICK ok, applied \in BOOLEAN :
          Called(r, ok, applied) /\ At(r, "new", IF ok THEN "asked" ELSE "refused")
    BY <1>1 DEF InsertUserMessage
  <2>2. UNCHANGED <<threads, rows, replies, mem, buf, pos, chan, registry,
                    agentVars, up, crashes>>
    BY <1>1 DEF InsertUserMessage
  <2>3. \A q \in Runs \ {r} : Same(q)
    BY <2>1, <2>2, CalledEffect DEF Same
  <2>4. RunInv(r)'
    BY <2>1, <2>2, CalledEffect
       DEF RunInv, DeletionFits, RowFits, RepliesFit, MemoryFits, StreamFits, LifeFits, RunIsSafe
  <2> QED
    BY <2>3, <2>4
<1>2. CASE InsertRun(r)
  <2>1. PICK ok, applied \in BOOLEAN :
          /\ Called(r, ok, applied)
          /\ At(r, "asked", IF ok THEN "inserted" ELSE "refused")
          /\ rows' = [rows EXCEPT ![r] = IF applied THEN Blank("pending") ELSE @]
    BY <1>2 DEF InsertRun
  <2>2. /\ UNCHANGED <<threads, asked, replies, buf, pos, chan, registry,
                       agentVars, up, crashes>>
        /\ mem' = [mem EXCEPT ![r] = Blank("pending")]
        /\ ThreadOf[r] \in threads
    BY <1>2 DEF InsertRun
  <2>3. \A q \in Runs \ {r} : Same(q)
    BY <2>1, <2>2, CalledEffect DEF Same
  <2>4. /\ rows'[r].status \in {"absent", "pending"}
        /\ ok => rows'[r].status = "pending"
    BY <2>1, <2>2, CalledEffect, BlankFields DEF RunInv, DeletionFits, RowFits
  <2>5. RunInv(r)'
    BY <2>1, <2>2, <2>4, CalledEffect
       DEF RunInv, DeletionFits, RowFits, RepliesFit, MemoryFits, StreamFits, LifeFits, RunIsSafe
  <2> QED
    BY <2>3, <2>5
<1>3. CASE InsertOrphan(r)
  <2>1. /\ up
        /\ task[r] \in {"new", "asked"}
        /\ task' = [task EXCEPT ![r] = "refused"]
    BY <1>3 DEF InsertOrphan
  <2>2. UNCHANGED <<dbVars, mem, buf, pos, chan, registry, agentVars, envVars>>
    BY <1>3 DEF InsertOrphan
  <2>3. \A q \in Runs \ {r} : Same(q)
    BY <2>1, <2>2 DEF Same
  <2>4. RunInv(r)'
    BY <2>1, <2>2
       DEF RunInv, DeletionFits, RowFits, RepliesFit, MemoryFits, StreamFits, LifeFits, RunIsSafe
  <2> QED
    BY <2>3, <2>4
<1>4. CASE Dispatch(r)
  <2>1. \A q \in Runs \ {r} : Same(q)
    BY <1>4 DEF Dispatch, Same
  <2>2. RunInv(r)'
    BY <1>4
       DEF Dispatch, RunInv, DeletionFits, RowFits, RepliesFit, MemoryFits, StreamFits, LifeFits, RunIsSafe
  <2> QED
    BY <2>1, <2>2
<1>5. CASE StartRun(r)
  <2>1. PICK ok, applied \in BOOLEAN :
          /\ Called(r, ok, applied)
          /\ At(r, "dispatched", IF ok THEN "started" ELSE "refused")
          /\ Update(r, Start(mem[r]), applied)
    BY <1>5 DEF StartRun
  <2>2. /\ UNCHANGED <<threads, asked, replies, buf, pos, chan, registry,
                       agentVars, up, crashes>>
        /\ mem' = [mem EXCEPT ![r] = Start(@)]
    BY <1>5 DEF StartRun
  <2>3. Start(mem[r]) = Blank("running")
    BY <2>1, BlankFields DEF RunInv, MemoryFits
  <2>4. Blank("running") \in Run
    BY BlankIsRun DEF Statuses
  <2>5. /\ \A q \in Runs : q # r => rows'[q] = rows[q]
        /\ rows'[r] = IF applied /\ rows[r].status # "deleted" THEN Blank("running") ELSE rows[r]
    BY <2>1, <2>3, <2>4, UpdateEffect
  <2>6. \A q \in Runs \ {r} : Same(q)
    BY <2>1, <2>2, <2>5, CalledEffect DEF Same
  <2>7. /\ rows[r].status = "deleted" => rows'[r].status = "deleted"
        /\ rows[r].status # "deleted" => rows'[r].status \in {"pending", "running"}
        /\ rows[r].status # "deleted" /\ ok => rows'[r].status = "running"
    BY <2>1, <2>5, CalledEffect, BlankFields DEF RunInv, RowFits
  <2>8. RunInv(r)'
    BY <2>1, <2>2, <2>3, <2>7, CalledEffect
       DEF RunInv, DeletionFits, RowFits, RepliesFit, MemoryFits, StreamFits, LifeFits, RunIsSafe
  <2> QED
    BY <2>6, <2>8
<1>6. CASE Spawn(r)
  <2>1. \A q \in Runs \ {r} : Same(q)
    BY <1>6 DEF Spawn, Same
  <2>2. RunInv(r)'
    BY <1>6
       DEF Spawn, RunInv, DeletionFits, RowFits, RepliesFit, MemoryFits, StreamFits, LifeFits, RunIsSafe
  <2> QED
    BY <2>1, <2>2
<1> QED
  BY <1>1, <1>2, <1>3, <1>4, <1>5, <1>6 DEF Request

--------------------------------------------------------------------------------
(* Induction: run_lifecycle() *)

\* Reading one event keeps the invariant: the transcript grows by each delta,
\* and the verdict that ends the loop is the first one of the stream.
LEMMA ConsumeStep ==
  ASSUME IInv, NEW r \in Runs, Consume(r)
  PROVE  \A q \in Runs : RunInv(q)'
<1> USE DEF IInv, TypeOK, dbVars, agentVars, envVars
<1> DEFINE event == stream[r][pos[r] + 1]
<1>1. /\ up /\ task[r] = "streaming"
      /\ pos[r] < Len(stream[r])
      /\ pos' = [pos EXCEPT ![r] = @ + 1]
      /\ UNCHANGED <<dbVars, chan, registry, agentVars, envVars>>
  BY DEF Consume, At
<1>2. /\ \/ event = "text" /\ task'[r] = "streaming" /\ buf'[r] = Append(buf[r], pos[r] + 1)
              /\ mem'[r] = mem[r]
         \/ event = "other" /\ task'[r] = "streaming" /\ buf'[r] = buf[r] /\ mem'[r] = mem[r]
         \/ event = "completed" /\ task'[r] = "completing" /\ buf'[r] = buf[r]
              /\ mem'[r] = Complete(mem[r])
         \/ event = "failed" /\ task'[r] = "failing" /\ buf'[r] = buf[r]
              /\ mem'[r] = Fail(mem[r], "agent")
      /\ \A q \in Runs : q # r => task'[q] = task[q] /\ buf'[q] = buf[q] /\ mem'[q] = mem[q]
  BY DEF Consume, At, Accumulate
<1>3. \A q \in Runs \ {r} : Same(q)
  BY <1>1, <1>2 DEF Same
<1>4. /\ pos'[r] = pos[r] + 1 /\ stream'[r] = stream[r]
      /\ stream[r] \in Seq(Events) /\ buf[r] \in Seq(Nat) /\ pos[r] \in Nat
      /\ pos[r] + 1 \in Nat
  BY <1>1
<1>5. /\ \A p \in 1 .. pos[r] : stream[r][p] \notin Verdicts
      /\ Transcribes(buf[r], stream[r], pos[r])
  BY <1>1 DEF RunInv, StreamFits
<1>6. mem[r] = Blank("running")
  BY <1>1 DEF RunInv, MemoryFits
<1>7. StreamFits(r)' /\ MemoryFits(r)'
  <2>1. CASE event = "text"
    <3>1. Transcribes(Append(buf[r], pos[r] + 1), stream[r], pos[r] + 1)
      BY <1>1, <1>4, <1>5, <2>1, TranscriptOfText
    <3>2. task'[r] = "streaming" /\ buf'[r] = Append(buf[r], pos[r] + 1) /\ mem'[r] = mem[r]
      BY <1>2, <2>1
    <3>3. \A p \in 1 .. pos[r] + 1 : stream[r][p] \notin Verdicts
      BY <1>4, <1>5, <2>1 DEF Verdicts
    <3> QED
      BY <1>1, <1>4, <1>6, <3>1, <3>2, <3>3 DEF StreamFits, MemoryFits, Executing
  <2>2. CASE event = "other"
    <3>1. Transcribes(buf[r], stream[r], pos[r] + 1)
      BY <1>1, <1>4, <1>5, <2>2, TranscriptOfOther
    <3>2. task'[r] = "streaming" /\ buf'[r] = buf[r] /\ mem'[r] = mem[r]
      BY <1>2, <2>2
    <3>3. \A p \in 1 .. pos[r] + 1 : stream[r][p] \notin Verdicts
      BY <1>4, <1>5, <2>2 DEF Verdicts
    <3> QED
      BY <1>1, <1>4, <1>6, <3>1, <3>2, <3>3 DEF StreamFits, MemoryFits, Executing
  <2>3. CASE event = "completed"
    <3>1. Transcribes(buf[r], stream[r], pos[r] + 1)
      BY <1>1, <1>4, <1>5, <2>3, TranscriptOfOther
    <3>2. FirstVerdict(stream[r], pos[r] + 1, "completed")
      BY <1>1, <1>4, <1>5, <2>3, FirstVerdictRead DEF Verdicts
    <3>3. task'[r] = "completing" /\ buf'[r] = buf[r] /\ mem'[r] = Blank("completing")
      BY <1>2, <1>6, <2>3, BlankFields
    <3> QED
      BY <1>4, <3>1, <3>2, <3>3 DEF StreamFits, MemoryFits, Executing
  <2>4. CASE event = "failed"
    <3>1. FirstVerdict(stream[r], pos[r] + 1, "failed")
      BY <1>1, <1>4, <1>5, <2>4, FirstVerdictRead DEF Verdicts
    <3>2. task'[r] = "failing" /\ mem'[r] = Fail(mem[r], "agent")
      BY <1>2, <2>4
    <3>3. mem'[r].status = "failed"
      BY <3>2, TransitionFields
    <3> QED
      BY <1>4, <3>1, <3>2, <3>3 DEF StreamFits, MemoryFits, Executing
  <2> QED
    BY <1>2, <2>1, <2>2, <2>3, <2>4
<1>8. task'[r] \in {"streaming", "completing", "failing"}
  BY <1>2
<1>9. DeletionFits(r)' /\ RowFits(r)' /\ RepliesFit(r)' /\ LifeFits(r)'
  BY <1>1, <1>8 DEF RunInv, DeletionFits, RowFits, RepliesFit, LifeFits, Executing,
                    InLifecycle
<1>10. RunIsSafe(r)'
  BY <1>1, <1>8 DEF RunInv, RunIsSafe, InLifecycle
<1> QED
  BY <1>3, <1>7, <1>9, <1>10, Untouched DEF RunInv

\* The other steps keep it too: the message is stored before the row is
\* completed, the completion is sent after, and every early return leaves the
\* row as a failed call left it.
LEMMA LifecycleStep ==
  ASSUME IInv, NEW r \in Runs, Lifecycle(r)
  PROVE  \A q \in Runs : RunInv(q)'
<1> USE DEF IInv, TypeOK, At, dbVars, agentVars, envVars
<1> DEFINE Goal == (\A q \in Runs \ {r} : Same(q)) /\ RunInv(r)'
<1>0. SUFFICES ASSUME ~ Consume(r) PROVE Goal
  BY ConsumeStep, Untouched
<1> USE DEF Executing, InLifecycle, Active
<1>1. CASE Subscribe(r)
  <2>1. /\ up /\ task[r] = "spawned"
        /\ UNCHANGED <<dbVars, buf, pos, chan, registry, agentVars, envVars>>
        /\ \/ task'[r] = "streaming" /\ mem'[r] = mem[r]
           \/ task'[r] = "failing" /\ mem'[r] = Fail(mem[r], "subscribe")
        /\ \A q \in Runs : q # r => task'[q] = task[q] /\ mem'[q] = mem[q]
    BY <1>1 DEF Subscribe
  <2>2. \A q \in Runs \ {r} : Same(q)
    BY <2>1 DEF Same
  <2>3. Transcribes(<<>>, stream[r], 0)
    BY DEF Transcribes
  <2>4. StreamFits(r)' /\ MemoryFits(r)'
    <3>1. pos[r] = 0 /\ buf[r] = <<>> /\ mem[r] = Blank("running") /\ mem[r] \in Run
      BY <2>1 DEF RunInv, StreamFits, MemoryFits
    <3>2. CASE task'[r] = "streaming" /\ mem'[r] = mem[r]
      BY <2>1, <2>3, <3>1, <3>2 DEF StreamFits, MemoryFits
    <3>3. CASE task'[r] = "failing" /\ mem'[r] = Fail(mem[r], "subscribe")
      BY <2>1, <3>1, <3>3, TransitionFields DEF StreamFits, MemoryFits
    <3> QED
      BY <2>1, <3>2, <3>3
  <2>5. DeletionFits(r)' /\ RowFits(r)' /\ RepliesFit(r)' /\ LifeFits(r)' /\ RunIsSafe(r)'
    BY <2>1 DEF RunInv, DeletionFits, RowFits, RepliesFit, LifeFits, RunIsSafe
  <2> QED
    BY <2>2, <2>4, <2>5 DEF RunInv
<1>2. CASE SaveCompleting(r)
  <2>1. PICK ok, applied \in BOOLEAN : Called(r, ok, applied) /\ Update(r, mem[r], applied)
    BY <1>2 DEF SaveCompleting
  <2>2. /\ At(r, "completing", "finalizing")
        /\ UNCHANGED <<threads, asked, replies, mem, buf, pos, chan, registry,
                       agentVars, up, crashes>>
    BY <1>2 DEF SaveCompleting
  <2>3. mem[r].status = "completing"
    BY <2>2, BlankFields DEF RunInv, MemoryFits
  <2>4. /\ \A q \in Runs : q # r => rows'[q] = rows[q]
        /\ rows'[r] = IF applied /\ rows[r].status # "deleted" THEN mem[r] ELSE rows[r]
    BY <2>1, UpdateEffect
  <2>5. \A q \in Runs \ {r} : Same(q)
    BY <2>1, <2>2, <2>4, CalledEffect DEF Same
  <2>6. /\ rows[r].status = "deleted" => rows'[r].status = "deleted"
        /\ rows[r].status # "deleted" => rows'[r].status \in {"running", "completing"}
    BY <2>2, <2>3, <2>4 DEF RunInv, RowFits
  <2>7. RunInv(r)'
    BY <2>2, <2>6 DEF RunInv, DeletionFits, RowFits, RepliesFit, MemoryFits, StreamFits,
                      LifeFits, RunIsSafe
  <2> QED
    BY <2>5, <2>7
<1>3. CASE InsertReply(r)
  <2>1. PICK ok, applied \in BOOLEAN :
          /\ Called(r, ok, applied)
          /\ At(r, "finalizing", IF ok THEN "replied" ELSE "done")
          /\ replies' = [replies EXCEPT ![r] = IF applied THEN Append(@, buf[r]) ELSE @]
          /\ mem' = [mem EXCEPT ![r] = IF ok THEN Finalize(@, Len(replies[r]) + 1) ELSE @]
          /\ chan' = [chan EXCEPT ![r] = IF ok THEN @ ELSE "dropped"]
    BY <1>3 DEF InsertReply
  <2>2. /\ UNCHANGED <<threads, rows, asked, buf, pos, registry, agentVars, up, crashes>>
        /\ ThreadOf[r] \in threads
    BY <1>3 DEF InsertReply
  <2>3. \A q \in Runs \ {r} : Same(q)
    BY <2>1, <2>2, CalledEffect DEF Same
  <2>4. /\ replies[r] = <<>>
        /\ rows[r].status \in Active
        /\ FirstVerdict(stream[r], pos[r], "completed")
        /\ Transcribes(buf[r], stream[r], pos[r])
        /\ chan[r] # "sent"
    BY <2>1, <2>2 DEF RunInv, DeletionFits, RowFits, RepliesFit, StreamFits, LifeFits
  <2>5. replies'[r] = <<>> \/ replies'[r] = <<buf[r]>>
    <3>1. Append(<<>>, buf[r]) = <<buf[r]>>
      OBVIOUS
    <3> QED
      BY <2>1, <2>4, <3>1
  <2>6. ok => /\ replies'[r] = <<buf[r]>>
              /\ mem'[r].status = "completed" /\ mem'[r].result = 1
    <3>1. Append(<<>>, buf[r]) = <<buf[r]>> /\ Len(replies[r]) + 1 = 1
      BY <2>4
    <3>2. Finalize(mem[r], 1).status = "completed" /\ Finalize(mem[r], 1).result = 1
      BY TransitionFields
    <3>3. SUFFICES ASSUME ok PROVE replies'[r] = <<buf[r]>> /\ mem'[r] = Finalize(mem[r], 1)
      BY <3>2
    <3> QED
      BY <2>1, <2>4, <3>1, <3>3, CalledEffect
  <2>7. \A k \in 1 .. Len(replies'[r]) : replies'[r][k] = buf[r]
    BY <2>5
  <2>8. RunIsSafe(r)'
    <3>1. pos[r] \in 1 .. Len(stream[r])
      BY <2>4 DEF FirstVerdict
    <3>2. \A k \in 1 .. Len(replies'[r]) : \E n \in 1 .. Len(stream[r]) :
            FirstVerdict(stream[r], n, "completed") /\ Transcribes(replies'[r][k], stream[r], n)
      BY <2>4, <2>7, <3>1
    <3>3. ~ ok => faults'[r] > 0
      BY <2>1, CalledEffect
    <3>4. chan'[r] # "sent"
      BY <2>1, <2>4
    <3>5. task'[r] = "replied" \/ ~ ok
      BY <2>1
    <3> QED
      BY <2>2, <2>4, <3>2, <3>3, <3>4, <3>5 DEF RunIsSafe
  <2>9. LifeFits(r)' /\ DeletionFits(r)'
    BY <2>1, <2>2, <2>4 DEF RunInv, LifeFits, DeletionFits
  <2>10. task'[r] = IF ok THEN "replied" ELSE "done"
    BY <2>1
  <2>11. RowFits(r)' /\ StreamFits(r)'
    BY <2>2, <2>4, <2>10 DEF RowFits, StreamFits
  <2>12. RepliesFit(r)' /\ MemoryFits(r)'
    <3>1. ok => Len(replies'[r]) = 1
      BY <2>6
    <3> QED
      BY <2>6, <2>10, <3>1 DEF RepliesFit, MemoryFits
  <2> QED
    BY <2>3, <2>8, <2>9, <2>11, <2>12 DEF RunInv
<1>4. CASE InsertOrphanReply(r)
  <2>1. \A q \in Runs \ {r} : Same(q)
    BY <1>4 DEF InsertOrphanReply, Same
  <2>2. RunInv(r)'
    BY <1>4 DEF InsertOrphanReply, RunInv, DeletionFits, RowFits, RepliesFit, MemoryFits,
                StreamFits, LifeFits, RunIsSafe
  <2> QED
    BY <2>1, <2>2
<1>5. CASE SaveCompleted(r)
  <2>1. PICK ok, applied \in BOOLEAN : Called(r, ok, applied) /\ Update(r, mem[r], applied)
    BY <1>5 DEF SaveCompleted
  <2>2. /\ At(r, "replied", "notifying")
        /\ UNCHANGED <<threads, asked, replies, mem, buf, pos, chan, registry,
                       agentVars, up, crashes>>
    BY <1>5 DEF SaveCompleted
  <2>3. mem[r].status = "completed" /\ mem[r].result = 1
    BY <2>2 DEF RunInv, MemoryFits
  <2>4. /\ \A q \in Runs : q # r => rows'[q] = rows[q]
        /\ rows'[r] = IF applied /\ rows[r].status # "deleted" THEN mem[r] ELSE rows[r]
    BY <2>1, UpdateEffect
  <2>5. \A q \in Runs \ {r} : Same(q)
    BY <2>1, <2>2, <2>4, CalledEffect DEF Same
  <2>6. /\ rows[r].status = "deleted" => rows'[r].status = "deleted"
        /\ rows[r].status # "deleted" =>
             \/ rows'[r].status = "completed" /\ rows'[r].result = 1 /\ Len(replies[r]) = 1
             \/ rows'[r].status \in Active /\ faults'[r] > 0
    BY <2>1, <2>2, <2>3, <2>4, CalledEffect DEF RunInv, RowFits, RepliesFit
  <2>7. DeletionFits(r)' /\ RowFits(r)' /\ RepliesFit(r)' /\ LifeFits(r)'
    BY <2>2, <2>6 DEF RunInv, DeletionFits, RowFits, RepliesFit, LifeFits
  <2>8. MemoryFits(r)' /\ StreamFits(r)'
    BY <2>2 DEF RunInv, MemoryFits, StreamFits
  <2>9. RunIsSafe(r)'
    BY <2>2, <2>6 DEF RunInv, RunIsSafe, LifeFits
  <2> QED
    BY <2>5, <2>7, <2>8, <2>9 DEF RunInv
<1>6. CASE Notify(r)
  <2>1. /\ At(r, "notifying", "done")
        /\ chan'[r] = "sent"
        /\ \A q \in Runs : q # r => chan'[q] = chan[q]
        /\ UNCHANGED <<dbVars, mem, buf, pos, registry, agentVars, envVars>>
    BY <1>6 DEF Notify
  <2>2. \A q \in Runs \ {r} : Same(q)
    BY <2>1 DEF Same
  <2>3. RunInv(r)'
    BY <2>1 DEF RunInv, DeletionFits, RowFits, RepliesFit, MemoryFits, StreamFits,
                LifeFits, RunIsSafe
  <2> QED
    BY <2>2, <2>3
<1>7. CASE SaveFailed(r)
  <2>1. PICK ok, applied \in BOOLEAN : Called(r, ok, applied) /\ Update(r, mem[r], applied)
    BY <1>7 DEF SaveFailed
  <2>2. /\ At(r, "failing", "done")
        /\ chan'[r] = "dropped"
        /\ \A q \in Runs : q # r => chan'[q] = chan[q]
        /\ UNCHANGED <<threads, asked, replies, mem, buf, pos, registry,
                       agentVars, up, crashes>>
    BY <1>7 DEF SaveFailed
  <2>3. /\ mem[r].status = "failed"
        /\ mem[r].reason = "agent" => FirstVerdict(stream[r], pos[r], "failed")
    BY <2>2 DEF RunInv, MemoryFits, StreamFits
  <2>4. /\ \A q \in Runs : q # r => rows'[q] = rows[q]
        /\ rows'[r] = IF applied /\ rows[r].status # "deleted" THEN mem[r] ELSE rows[r]
    BY <2>1, UpdateEffect
  <2>5. \A q \in Runs \ {r} : Same(q)
    BY <2>1, <2>2, <2>4, CalledEffect DEF Same
  <2>6. /\ rows[r].status = "deleted" => rows'[r].status = "deleted"
        /\ rows[r].status # "deleted" =>
             \/ rows'[r].status = "failed" /\ rows'[r].reason = mem[r].reason
             \/ rows'[r].status = "running" /\ faults'[r] > 0
    BY <2>1, <2>2, <2>3, <2>4, CalledEffect DEF RunInv, RowFits
  <2>7. DeletionFits(r)' /\ RowFits(r)' /\ RepliesFit(r)' /\ LifeFits(r)'
    BY <2>2, <2>6 DEF RunInv, DeletionFits, RowFits, RepliesFit, LifeFits
  <2>8. MemoryFits(r)' /\ StreamFits(r)'
    BY <2>2 DEF RunInv, MemoryFits, StreamFits
  <2>9. RunIsSafe(r)'
    <3>1. mem[r].reason = "agent" => pos[r] \in 1 .. Len(stream[r])
      BY <2>3 DEF FirstVerdict
    <3> QED
      BY <2>2, <2>3, <2>6, <3>1 DEF RunInv, RunIsSafe
  <2> QED
    BY <2>5, <2>7, <2>8, <2>9 DEF RunInv
<1> QED
  BY <1>0, <1>1, <1>2, <1>3, <1>4, <1>5, <1>6, <1>7 DEF Lifecycle

--------------------------------------------------------------------------------
(* Induction: the other steps *)

\* An event appended by the agent changes nothing that was read before: not
\* the transcripts, and not which verdict comes first.
LEMMA EmitStep ==
  ASSUME IInv, NEW r \in Runs, NEW event \in Events, Emit(r, event),
         UNCHANGED <<dbVars, taskVars, envVars>>
  PROVE  \A q \in Runs : RunInv(q)'
<1> USE DEF IInv, TypeOK, dbVars, taskVars, envVars
<1>1. stream'[r] = Append(stream[r], event) /\ \A q \in Runs : q # r => stream'[q] = stream[q]
  BY DEF Emit
<1>2. \A q \in Runs \ {r} : Same(q)
  BY <1>1 DEF Same
<1> DEFINE s == stream[r]
           t == Append(s, event)
<1>3. /\ s \in Seq(Events) /\ Len(s) \in Nat
      /\ Len(t) = Len(s) + 1
      /\ \A i \in 1 .. Len(s) : t[i] = s[i]
  OBVIOUS
<1>4. \A n \in Nat : \A v \in Verdicts : FirstVerdict(s, n, v) => FirstVerdict(t, n, v)
  BY <1>3, FirstVerdictIsStable
<1>5. \A c \in Seq(Nat) : \A n \in Nat :
        n <= Len(s) /\ Transcribes(c, s, n) => Transcribes(c, t, n)
  BY <1>3, TranscriptIsStable
<1>6. \A n, v : FirstVerdict(s, n, v) => n \in 1 .. Len(s)
  BY DEF FirstVerdict
<1>7. /\ pos[r] \in Nat /\ buf[r] \in Seq(Nat)
      /\ replies[r] \in Seq(Seq(Nat))
      /\ "completed" \in Verdicts /\ "failed" \in Verdicts
  BY DEF Verdicts
<1>8. stream'[r] = t
  BY <1>1
<1> HIDE DEF s, t
<1>9. StreamFits(r)'
  <2>1. StreamFits(r)
    BY DEF RunInv
  <2>2. CASE task[r] = "streaming"
    <3>1. /\ pos[r] <= Len(s)
          /\ \A p \in 1 .. pos[r] : s[p] \notin Verdicts
          /\ Transcribes(buf[r], s, pos[r])
      BY <2>1, <2>2 DEF StreamFits, s
    <3>2. pos[r] <= Len(t) /\ Transcribes(buf[r], t, pos[r])
      BY <1>3, <1>5, <1>7, <3>1
    <3>3. ASSUME NEW p \in 1 .. pos[r]
          PROVE  t[p] \notin Verdicts
      <4>1. p \in 1 .. Len(s)
        BY <1>3, <1>7, <3>1
      <4> QED
        BY <1>3, <3>1, <4>1
    <3> QED
      BY <1>8, <2>2, <3>2, <3>3 DEF StreamFits, Executing
  <2>3. CASE task[r] \in {"completing", "finalizing"}
    <3>1. FirstVerdict(s, pos[r], "completed") /\ Transcribes(buf[r], s, pos[r])
      BY <2>1, <2>3 DEF StreamFits, s
    <3>2. FirstVerdict(t, pos[r], "completed") /\ Transcribes(buf[r], t, pos[r])
      BY <1>3, <1>4, <1>5, <1>6, <1>7, <3>1
    <3> QED
      BY <1>8, <2>3, <3>2 DEF StreamFits, Executing
  <2>4. CASE task[r] = "failing"
    <3>1. mem[r].reason = "agent" => FirstVerdict(s, pos[r], "failed")
      BY <2>1, <2>4 DEF StreamFits, s
    <3>2. mem[r].reason = "agent" => FirstVerdict(t, pos[r], "failed")
      BY <1>4, <1>7, <3>1
    <3> QED
      BY <1>8, <2>4, <3>2 DEF StreamFits, Executing
  <2>5. CASE task[r] \notin {"streaming", "completing", "finalizing", "failing"}
    BY <2>1, <2>5 DEF StreamFits
  <2> QED
    BY <2>2, <2>3, <2>4, <2>5
<1>10. RunIsSafe(r)'
  <2>1. RunIsSafe(r)
    BY DEF RunInv
  <2>2. ASSUME NEW k \in 1 .. Len(replies[r])
        PROVE  \E n \in 1 .. Len(t) : FirstVerdict(t, n, "completed")
                                        /\ Transcribes(replies[r][k], t, n)
    <3>1. PICK n \in 1 .. Len(s) : FirstVerdict(s, n, "completed")
                                    /\ Transcribes(replies[r][k], s, n)
      BY <2>1 DEF RunIsSafe, s
    <3>2. replies[r][k] \in Seq(Nat)
      BY <1>7
    <3>3. n \in Nat /\ n <= Len(s) /\ n \in 1 .. Len(t)
      BY <1>3
    <3> QED
      BY <1>4, <1>5, <1>7, <3>1, <3>2, <3>3
  <2>3. ASSUME rows[r].status = "failed", rows[r].reason = "agent"
        PROVE  \E n \in 1 .. Len(t) : FirstVerdict(t, n, "failed")
    <3>1. PICK n \in 1 .. Len(s) : FirstVerdict(s, n, "failed")
      BY <2>1, <2>3 DEF RunIsSafe, s
    <3>2. n \in Nat /\ n \in 1 .. Len(t)
      BY <1>3
    <3> QED
      BY <1>4, <1>7, <3>1, <3>2
  <2> QED
    BY <1>8, <2>1, <2>2, <2>3 DEF RunIsSafe
<1>11. DeletionFits(r)' /\ RowFits(r)' /\ RepliesFit(r)' /\ MemoryFits(r)' /\ LifeFits(r)'
  BY DEF RunInv, DeletionFits, RowFits, RepliesFit, MemoryFits, LifeFits
<1> QED
  BY <1>2, <1>9, <1>10, <1>11, Untouched DEF RunInv

\* So the agent, and a duplicate resume, can do what they like.
LEMMA AgentStep ==
  ASSUME IInv, NEW r \in Runs, Agent(r) \/ ResumeRun(r)
  PROVE  \A q \in Runs : RunInv(q)'
<1>1. CASE UNCHANGED <<stream, dbVars, taskVars, envVars>>
  <2>1. \A q \in Runs : Same(q)
    BY <1>1 DEF Same, dbVars, taskVars, envVars
  <2> QED
    BY <2>1, Untouched DEF IInv
<1>2. CASE /\ UNCHANGED <<dbVars, taskVars, envVars>>
           /\ \E event \in Events : Emit(r, event)
  BY <1>2, EmitStep
<1>3. CASE AgentReceive(r)
  BY <1>1, <1>3 DEF AgentReceive
<1>4. CASE AgentEmit(r)
  BY <1>2, <1>4 DEF AgentEmit, Pauses, Events
<1>5. CASE AgentFinish(r)
  BY <1>2, <1>5 DEF AgentFinish, EndTurn, Verdicts, Events
<1>6. CASE AgentPause(r)
  BY <1>2, <1>6 DEF AgentPause, EndTurn, Events
<1>7. CASE AgentStop(r)
  BY <1>1, <1>7 DEF AgentStop, EndTurn
<1>8. CASE ResumeRun(r)
  BY <1>1, <1>8 DEF ResumeRun
<1> QED
  BY <1>3, <1>4, <1>5, <1>6, <1>7, <1>8 DEF Agent

\* A caller that goes away leaves the row where it is and is not waited for.
LEMMA AbandonStep ==
  ASSUME IInv, NEW r \in Runs, Abandon(r)
  PROVE  \A q \in Runs : RunInv(q)'
<1> USE DEF IInv, TypeOK, dbVars, agentVars, envVars, Executing, InLifecycle, Active
<1>1. \A q \in Runs \ {r} : Same(q)
  BY DEF Abandon, Same
<1>2. RunInv(r)'
  BY DEF Abandon, RunInv, DeletionFits, RowFits, RepliesFit, MemoryFits, StreamFits,
         LifeFits, RunIsSafe
<1> QED
  BY <1>1, <1>2, Untouched

\* The cascade takes a run's row and message together.
LEMMA DeleteStep ==
  ASSUME IInv, NEW t \in Threads, DeleteThread(t)
  PROVE  \A q \in Runs : RunInv(q)'
<1> USE DEF IInv, TypeOK, taskVars, agentVars, envVars
<1> SUFFICES ASSUME NEW q \in Runs PROVE RunInv(q)'
  OBVIOUS
<1>1. CASE ThreadOf[q] # t
  <2>1. Same(q)
    BY <1>1 DEF DeleteThread, Same
  <2> QED
    BY <2>1, Untouched
<1>2. CASE ThreadOf[q] = t
  <2>1. /\ threads' = threads \ {t}
        /\ rows'[q] = Blank("deleted") /\ replies'[q] = <<>>
        /\ UNCHANGED <<taskVars, agentVars, envVars>>
    BY <1>2 DEF DeleteThread
  <2>2. rows'[q].status = "deleted"
    BY <2>1, BlankFields
  <2> QED
    BY <1>2, <2>1, <2>2 DEF RunInv, DeletionFits, RowFits, RepliesFit, MemoryFits,
                            StreamFits, LifeFits, RunIsSafe, Active
<1> QED
  BY <1>1, <1>2

\* A crash takes every task; the database and the stream stay.
LEMMA CrashStep ==
  ASSUME IInv, Crash
  PROVE  \A q \in Runs : RunInv(q)'
<1> USE DEF IInv, TypeOK, dbVars, agentVars
<1> SUFFICES ASSUME NEW q \in Runs PROVE RunInv(q)'
  OBVIOUS
<1>1. /\ up' = FALSE
      /\ task'[q] \notin Executing \cup InLifecycle
      /\ task[q] \notin Executing \cup InLifecycle => task'[q] = task[q]
      /\ task'[q] = "new" => task[q] = "new"
      /\ buf'[q] = <<>> /\ pos'[q] = 0 /\ chan'[q] = "none"
      /\ UNCHANGED <<dbVars, agentVars, faults>>
  BY DEF Crash, Executing, InLifecycle
<1>2. DeletionFits(q)' /\ RowFits(q)' /\ RepliesFit(q)'
  BY <1>1 DEF RunInv, DeletionFits, RowFits, RepliesFit, Executing, InLifecycle
<1>3. MemoryFits(q)' /\ StreamFits(q)' /\ LifeFits(q)'
  BY <1>1 DEF MemoryFits, StreamFits, LifeFits, Executing, InLifecycle
<1>4. RunIsSafe(q)'
  BY <1>1 DEF RunInv, RunIsSafe
<1> QED
  BY <1>2, <1>3, <1>4 DEF RunInv

\* Recovery interrupts every run a crash left active, or counts a failed call
\* for it; no task is left that would mind.
LEMMA RestartStep ==
  ASSUME IInv, Restart
  PROVE  \A q \in Runs : RunInv(q)'
<1> USE DEF IInv, TypeOK, taskVars, agentVars
<1>1. PICK done \in SUBSET Orphans :
        /\ rows' = [r \in Runs |-> IF r \in done THEN Interrupt(rows[r]) ELSE rows[r]]
        /\ faults' = [r \in Runs |-> IF r \in Orphans \ done
                                     THEN faults[r] + 1 ELSE faults[r]]
  BY DEF Restart
<1>2. /\ ~ up /\ up' = TRUE
      /\ UNCHANGED <<threads, asked, replies, taskVars, agentVars, crashes>>
  BY DEF Restart
<1> SUFFICES ASSUME NEW q \in Runs PROVE RunInv(q)'
  OBVIOUS
<1>3. task[q] \notin Executing \cup InLifecycle
  BY <1>2 DEF RunInv, LifeFits
<1>4. \/ /\ rows[q].status \in Active
         /\ \/ rows'[q].status = "interrupted" /\ faults'[q] = faults[q]
            \/ rows'[q] = rows[q] /\ faults'[q] > 0
      \/ rows[q].status \notin Active /\ rows'[q] = rows[q] /\ faults'[q] = faults[q]
  <2>1. CASE q \in done
    BY <1>1, <2>1, TransitionFields DEF Orphans
  <2>2. CASE q \in Orphans \ done
    <3>1. rows'[q] = rows[q] /\ faults'[q] = faults[q] + 1
      BY <1>1, <2>2
    <3>2. faults'[q] > 0
      BY <3>1
    <3> QED
      BY <2>2, <3>1, <3>2 DEF Orphans
  <2>3. CASE q \notin Orphans
    BY <1>1, <2>3 DEF Orphans
  <2> QED
    BY <2>1, <2>2, <2>3
<1>5. DeletionFits(q)' /\ RowFits(q)' /\ RepliesFit(q)'
  BY <1>2, <1>3, <1>4 DEF RunInv, DeletionFits, RowFits, RepliesFit, Executing,
                          InLifecycle, Active
<1>6. MemoryFits(q)' /\ StreamFits(q)' /\ LifeFits(q)'
  BY <1>2, <1>3 DEF RunInv, MemoryFits, StreamFits, LifeFits, Executing, InLifecycle
<1>7. RunIsSafe(q)'
  BY <1>2, <1>4 DEF RunInv, RunIsSafe, Active
<1> QED
  BY <1>5, <1>6, <1>7 DEF RunInv

--------------------------------------------------------------------------------
(* The invariant and what follows from it *)

LEMMA InitInv == Init => IInv
<1> SUFFICES ASSUME Init PROVE IInv
  OBVIOUS
<1>1. TypeOK
  BY TypeInit
<1>2. ASSUME NEW r \in Runs PROVE RunInv(r)
  <2>1. /\ rows[r] = Blank("absent") /\ replies[r] = <<>> /\ up = TRUE
        /\ task[r] = "new" /\ mem[r] = Blank("absent") /\ buf[r] = <<>>
        /\ pos[r] = 0 /\ chan[r] = "none" /\ faults[r] = 0 /\ threads = Threads
    BY DEF Init
  <2>2. rows[r].status = "absent" /\ ThreadOf[r] \in threads
    BY <2>1, BlankFields, SessionRunAssumption
  <2> QED
    BY <2>1, <2>2 DEF RunInv, DeletionFits, RowFits, RepliesFit, MemoryFits, StreamFits,
                      LifeFits, RunIsSafe, Active, Executing, InLifecycle
<1> QED
  BY <1>1, <1>2 DEF IInv

LEMMA StepInv == IInv /\ [Next]_vars => IInv'
<1> SUFFICES ASSUME IInv, [Next]_vars PROVE IInv'
  OBVIOUS
<1>1. TypeOK'
  BY TypeStep DEF IInv
<1>2. \A q \in Runs : RunInv(q)'
  <2>1. ASSUME NEW r \in Runs, Request(r) \/ Abandon(r) \/ Lifecycle(r) \/ Agent(r)
                                 \/ ResumeRun(r)
        PROVE  \A q \in Runs : RunInv(q)'
    BY <2>1, RequestStep, AbandonStep, LifecycleStep, AgentStep
  <2>2. ASSUME NEW t \in Threads, DeleteThread(t) PROVE \A q \in Runs : RunInv(q)'
    BY <2>2, DeleteStep
  <2>3. CASE Crash
    BY <2>3, CrashStep
  <2>4. CASE Restart
    BY <2>4, RestartStep
  <2>5. CASE UNCHANGED vars
    <3>1. \A q \in Runs : Same(q)
      BY <2>5 DEF Same, vars, dbVars, taskVars, agentVars, envVars
    <3> QED
      BY <3>1, Untouched DEF IInv
  <2> QED
    BY <2>1, <2>2, <2>3, <2>4, <2>5 DEF Next
<1> QED
  BY <1>1, <1>2 DEF IInv

\* IInv is an invariant of the run lifecycle for any number of runs, events,
\* resumed turns, failing calls and crashes.
THEOREM Inductive == Spec => []IInv
BY InitInv, StepInv, PTL DEF Spec

\* A stored assistant message is the whole text that the agent streamed before
\* its first verdict, and that verdict was "completed".
THEOREM RepliesAreTranscripts == Spec => []ReplyIsTranscript
<1>1. IInv => ReplyIsTranscript
  BY DEF IInv, RunInv, RunIsSafe, ReplyIsTranscript
<1> QED
  BY <1>1, Inductive, PTL

\* A completed row has exactly its one message, and points at it.
THEOREM CompletedRunsAreAnswered == Spec => []CompletedIsAnswered
<1>1. IInv => CompletedIsAnswered
  BY DEF IInv, RunInv, RunIsSafe, CompletedIsAnswered
<1> QED
  BY <1>1, Inductive, PTL

\* A row failed by the agent had an error as the first verdict of its stream.
THEOREM FailuresAreReported == Spec => []FailedIsReported
<1>1. IInv => FailedIsReported
  BY DEF IInv, RunInv, RunIsSafe, FailedIsReported
<1> QED
  BY <1>1, Inductive, PTL

\* Recovery leaves no active row without a task, failed calls and dropped
\* requests aside.
THEOREM NoRowIsOrphaned == Spec => []NoOrphanRow
<1>1. IInv => NoOrphanRow
  BY DEF IInv, RunInv, RunIsSafe, NoOrphanRow
<1> QED
  BY <1>1, Inductive, PTL

\* Completion data goes out after the row is completed, failed calls aside.
THEOREM NotifiedRunsAreCompleted == Spec => []NotifiedIsCompleted
<1>1. IInv => NotifiedIsCompleted
  BY DEF IInv, RunInv, RunIsSafe, NotifiedIsCompleted
<1> QED
  BY <1>1, Inductive, PTL

--------------------------------------------------------------------------------
(* The refinement of RunLedger *)

\* A step that changes at most one run's row, as the ledger sees it.
LEMMA RowMoves ==
  ASSUME NEW r \in Runs, rows \in [Runs -> Run], rows' \in [Runs -> Run],
         \A q \in Runs : q # r => rows'[q] = rows[q]
  PROVE  /\ rowStatus' = [rowStatus EXCEPT ![r] = rows'[r].status]
         /\ rowStatus[r] = rows[r].status
         /\ rows'[r].status = rows[r].status => rowStatus' = rowStatus
BY DEF rowStatus

LEMMA RowsStay ==
  /\ UNCHANGED rows => UNCHANGED rowStatus
  /\ UNCHANGED replies => UNCHANGED replyCount
BY DEF rowStatus, replyCount

\* The steps of execute() open and start the row, or leave it.
LEMMA RequestRefines ==
  ASSUME IInv, TypeOK', NEW r \in Runs, Request(r)
  PROVE  [Ledger!Next]_(Ledger!vars)
<1> USE DEF IInv, TypeOK, At, dbVars, Ledger!vars
<1>1. CASE InsertUserMessage(r) \/ InsertOrphan(r) \/ Dispatch(r) \/ Spawn(r)
  BY <1>1, RowsStay DEF InsertUserMessage, InsertOrphan, Dispatch, Spawn
<1>2. CASE InsertRun(r)
  <2>1. PICK applied \in BOOLEAN :
          rows' = [rows EXCEPT ![r] = IF applied THEN Blank("pending") ELSE @]
    BY <1>2 DEF InsertRun
  <2>2. task[r] = "asked" /\ ThreadOf[r] \in threads /\ UNCHANGED replies
    BY <1>2 DEF InsertRun
  <2>3. rows[r].status = "absent"
    BY <2>2 DEF RunInv, DeletionFits, RowFits
  <2>4. CASE applied
    <3>1. rows'[r].status = "pending"
      BY <2>1, <2>4, BlankFields
    <3>2. Ledger!Open(r)
      BY <2>1, <2>2, <2>3, <3>1, RowMoves, RowsStay DEF Ledger!Open, Ledger!Move
    <3> QED
      BY <3>2 DEF Ledger!Next
  <2>5. CASE ~ applied
    BY <2>1, <2>2, <2>5, RowsStay
  <2> QED
    BY <2>4, <2>5
<1>3. CASE StartRun(r)
  <2>1. PICK applied \in BOOLEAN : Update(r, Start(mem[r]), applied)
    BY <1>3 DEF StartRun
  <2>2. task[r] = "dispatched" /\ UNCHANGED replies
    BY <1>3 DEF StartRun
  <2>3. Start(mem[r]) = Blank("running") /\ Blank("running") \in Run
    BY <2>2, BlankFields, BlankIsRun DEF RunInv, MemoryFits, Statuses
  <2>4. /\ \A q \in Runs : q # r => rows'[q] = rows[q]
        /\ rows'[r] = IF applied /\ rows[r].status # "deleted" THEN Blank("running") ELSE rows[r]
    BY <2>1, <2>3, UpdateEffect
  <2>5. CASE applied /\ rows[r].status # "deleted"
    <3>1. rows[r].status = "pending" /\ rows'[r].status = "running"
      BY <2>2, <2>4, <2>5, BlankFields DEF RunInv, RowFits
    <3>2. Ledger!Start(r)
      BY <2>2, <2>4, <3>1, RowMoves, RowsStay DEF Ledger!Start, Ledger!Move
    <3> QED
      BY <3>2 DEF Ledger!Next
  <2>6. CASE ~ (applied /\ rows[r].status # "deleted")
    BY <2>2, <2>4, <2>6, RowMoves, RowsStay
  <2> QED
    BY <2>5, <2>6
<1> QED
  BY <1>1, <1>2, <1>3 DEF Request

\* The steps of run_lifecycle() that touch the database.
LEMMA LifecycleRefines ==
  ASSUME IInv, TypeOK', NEW r \in Runs, Lifecycle(r)
  PROVE  [Ledger!Next]_(Ledger!vars)
<1> USE DEF IInv, TypeOK, At, dbVars, Ledger!vars
<1>1. CASE Subscribe(r) \/ Consume(r) \/ InsertOrphanReply(r) \/ Notify(r)
  BY <1>1, RowsStay DEF Subscribe, Consume, InsertOrphanReply, Notify
<1>2. ASSUME NEW applied \in BOOLEAN, Update(r, mem[r], applied), UNCHANGED replies,
             \/ task[r] = "completing" \/ task[r] = "replied" \/ task[r] = "failing"
      PROVE  [Ledger!Next]_(Ledger!vars)
  <2>1. /\ \A q \in Runs : q # r => rows'[q] = rows[q]
        /\ rows'[r] = IF applied /\ rows[r].status # "deleted" THEN mem[r] ELSE rows[r]
    BY <1>2, UpdateEffect
  <2>2. CASE ~ (applied /\ rows[r].status # "deleted")
    BY <1>2, <2>1, <2>2, RowMoves, RowsStay
  <2>3. CASE task[r] = "completing" /\ applied /\ rows[r].status # "deleted"
    <3>1. rows[r].status = "running" /\ rows'[r].status = "completing"
      BY <2>1, <2>3, BlankFields DEF RunInv, RowFits, MemoryFits
    <3>2. Ledger!Complete(r)
      BY <1>2, <2>1, <3>1, RowMoves, RowsStay DEF Ledger!Complete, Ledger!Move
    <3> QED
      BY <3>2 DEF Ledger!Next
  <2>4. CASE task[r] = "replied" /\ applied /\ rows[r].status # "deleted"
    <3>1. rows[r].status \in Active /\ rows'[r].status = "completed" /\ replyCount[r] = 1
      BY <2>1, <2>4 DEF RunInv, RowFits, MemoryFits, RepliesFit, replyCount
    <3>2. Ledger!Finalize(r)
      BY <1>2, <2>1, <3>1, RowMoves, RowsStay
         DEF Ledger!Finalize, Ledger!Move, Ledger!Active, Active
    <3> QED
      BY <3>2 DEF Ledger!Next
  <2>5. CASE task[r] = "failing" /\ applied /\ rows[r].status # "deleted"
    <3>1. rows[r].status = "running" /\ rows'[r].status = "failed"
      BY <2>1, <2>5 DEF RunInv, RowFits, MemoryFits
    <3>2. Ledger!Fail(r)
      BY <1>2, <2>1, <3>1, RowMoves, RowsStay DEF Ledger!Fail, Ledger!Move
    <3> QED
      BY <3>2 DEF Ledger!Next
  <2> QED
    BY <1>2, <2>2, <2>3, <2>4, <2>5
<1>3. CASE SaveCompleting(r) \/ SaveCompleted(r) \/ SaveFailed(r)
  BY <1>2, <1>3 DEF SaveCompleting, SaveCompleted, SaveFailed
<1>4. CASE InsertReply(r)
  <2>1. PICK applied \in BOOLEAN :
          replies' = [replies EXCEPT ![r] = IF applied THEN Append(@, buf[r]) ELSE @]
    BY <1>4 DEF InsertReply
  <2>2. task[r] = "finalizing" /\ ThreadOf[r] \in threads /\ UNCHANGED rows
    BY <1>4 DEF InsertReply
  <2>3. replies[r] = <<>> /\ rows[r].status \in Active
    BY <2>2 DEF RunInv, RepliesFit, RowFits, DeletionFits
  <2>4. CASE applied
    <3>1. Len(Append(<<>>, buf[r])) = 1
      OBVIOUS
    <3>2. replyCount' = [replyCount EXCEPT ![r] = 1]
      BY <2>1, <2>3, <2>4, <3>1 DEF replyCount
    <3>3. replyCount[r] = 0 /\ rowStatus[r] \in Active
      BY <2>3 DEF replyCount, rowStatus
    <3>4. Ledger!Answer(r)
      BY <2>2, <3>2, <3>3, RowsStay DEF Ledger!Answer, Ledger!Active, Active
    <3> QED
      BY <3>4 DEF Ledger!Next
  <2>5. CASE ~ applied
    BY <2>1, <2>2, <2>5, RowsStay
  <2> QED
    BY <2>4, <2>5
<1> QED
  BY <1>1, <1>3, <1>4 DEF Lifecycle

\* Deleting a thread is the ledger's Delete, recovery its Interrupt.
LEMMA DeleteRefines ==
  ASSUME TypeOK, NEW t \in Threads, DeleteThread(t)
  PROVE  Ledger!Delete(t)
<1>1. rowStatus' = [r \in Runs |-> IF ThreadOf[r] = t THEN "deleted" ELSE rowStatus[r]]
  BY BlankFields DEF DeleteThread, rowStatus
<1>2. replyCount' = [r \in Runs |-> IF ThreadOf[r] = t THEN 0 ELSE replyCount[r]]
  <2>1. Len(<<>>) = 0
    OBVIOUS
  <2> QED
    BY <2>1 DEF DeleteThread, replyCount
<1> QED
  BY <1>1, <1>2 DEF Ledger!Delete

LEMMA RestartRefines ==
  ASSUME TypeOK, Restart
  PROVE  \E S \in SUBSET Runs : Ledger!Interrupt(S)
<1>1. PICK done \in SUBSET Orphans :
        rows' = [r \in Runs |-> IF r \in done THEN Interrupt(rows[r]) ELSE rows[r]]
  BY DEF Restart
<1>2. UNCHANGED replyCount
  BY RowsStay DEF Restart
<1>3. done \in SUBSET Runs /\ \A r \in done : rowStatus[r] \in Active
  BY DEF Orphans, rowStatus
<1>4. \A r \in Runs : Interrupt(rows[r]).status = "interrupted"
  BY TransitionFields DEF TypeOK
<1>5. rowStatus' = [r \in Runs |-> IF r \in done THEN "interrupted" ELSE rowStatus[r]]
  BY <1>1, <1>3, <1>4 DEF rowStatus
<1> QED
  BY <1>2, <1>3, <1>5 DEF Ledger!Interrupt, Ledger!Active, Active

LEMMA InitRefines == Init => Ledger!Init
<1>1. Len(<<>>) = 0
  OBVIOUS
<1> QED
  BY <1>1, BlankFields DEF Init, Ledger!Init, rowStatus, replyCount

LEMMA StepRefines == IInv /\ TypeOK' /\ [Next]_vars => [Ledger!Next]_(Ledger!vars)
<1> SUFFICES ASSUME IInv, TypeOK', [Next]_vars PROVE [Ledger!Next]_(Ledger!vars)
  OBVIOUS
<1>1. ASSUME NEW r \in Runs, Request(r) \/ Lifecycle(r)
      PROVE  [Ledger!Next]_(Ledger!vars)
  BY <1>1, RequestRefines, LifecycleRefines
<1>2. ASSUME UNCHANGED dbVars PROVE UNCHANGED Ledger!vars
  BY <1>2, RowsStay DEF dbVars, Ledger!vars
<1>3. ASSUME NEW r \in Runs, Abandon(r) \/ Agent(r) \/ ResumeRun(r)
      PROVE  UNCHANGED dbVars
  BY <1>3 DEF Abandon, Agent, AgentReceive, AgentEmit, AgentFinish, AgentPause,
              AgentStop, EndTurn, ResumeRun, dbVars
<1>4. Crash => UNCHANGED dbVars
  BY DEF Crash, dbVars
<1>5. ASSUME NEW t \in Threads, DeleteThread(t) PROVE Ledger!Next
  BY <1>5, DeleteRefines DEF Ledger!Next, IInv
<1>6. Restart => Ledger!Next
  BY RestartRefines DEF Ledger!Next, IInv
<1>7. UNCHANGED vars => UNCHANGED dbVars
  BY DEF vars
<1> QED
  BY <1>1, <1>2, <1>3, <1>4, <1>5, <1>6, <1>7 DEF Next

\* Every behaviour of the session service, as its database rows and messages
\* show it, is a behaviour of the ledger: no final status is left, nothing is
\* completed before it is answered, and no run is answered twice.
THEOREM LedgerIsImplemented == Spec => ImplementsLedger
<1>1. IInv => TypeOK
  BY DEF IInv
<1> QED
  BY <1>1, InitRefines, StepRefines, Inductive, PTL DEF Spec, ImplementsLedger, Ledger!Spec

--------------------------------------------------------------------------------
(* The session with its clients *)

Deleted(r) == rows[r].status = "deleted"

\* The message of run r is written, and its data is sent or about to be.
Written(r) == task[r] \in {"replied", "notifying"} \/ chan[r] = "sent"

\* A message that is written is what the task holds in its buffer.
SentFits(r) == Written(r) => Deleted(r) \/ replies[r] = <<buf[r]>>

\* What a handler holds; one that is closed has shown nothing.
ViewType ==
  [state : {"off", "reading", "waiting"}, run : Runs \cup {Off.run}, pos : Nat,
   frame : Frames, data : Seq(Nat)]

ViewsTyped ==
  /\ view \in [Clients -> ViewType]
  /\ \A c \in Clients :
       /\ view[c].state # "off" => view[c].run \in Runs
       /\ view[c].state = "off" => view[c].frame = "none"

StoredInv ==
  /\ IInv
  /\ ViewsTyped
  /\ \A r \in Runs : SentFits(r)
  /\ CompletedFrameIsStored

--------------------------------------------------------------------------------
(* The steps of the session and the agent *)

\* A deleted row stays deleted, and a stored message is only deleted with it.
Keeps(q) ==
  /\ Deleted(q) => Deleted(q)'
  /\ replies[q] # <<>> => replies'[q] = replies[q] \/ Deleted(q)'

Fine(q) == Keeps(q) /\ (SentFits(q) => SentFits(q)')

\* Steps that leave the message and the buffer of a run alone.
LEMMA QuietIsFine ==
  ASSUME NEW q, replies'[q] = replies[q], buf'[q] = buf[q],
         Deleted(q) => Deleted(q)', Written(q)' => Written(q)
  PROVE  Fine(q)
BY DEF Fine, Keeps, SentFits

\* UPDATE and the agent's steps never revive a row.
LEMMA UpdateKeepsDeleted ==
  ASSUME TypeOK, NEW r \in Runs, NEW run, NEW applied, Update(r, run, applied)
  PROVE  \A q \in Runs : Deleted(q) => Deleted(q)'
BY DEF Update, Deleted, TypeOK

\* execute() runs before anything is stored or sent.
LEMMA RequestFine ==
  ASSUME IInv, NEW r \in Runs, Request(r) \/ Abandon(r)
  PROVE  \A q \in Runs : Fine(q)
<1> USE DEF IInv, TypeOK, At, dbVars, taskVars, agentVars, envVars
<1>1. replies' = replies /\ buf' = buf
  BY DEF Request, InsertUserMessage, InsertRun, InsertOrphan, Dispatch, StartRun, Spawn,
         Abandon
<1>2. \A q \in Runs : Written(q)' => Written(q)
  BY DEF Request, InsertUserMessage, InsertRun, InsertOrphan, Dispatch, StartRun, Spawn,
         Abandon, Written
<1>3. \A q \in Runs : Deleted(q) => Deleted(q)'
  <2>1. CASE InsertRun(r)
    BY <2>1 DEF InsertRun, RunInv, DeletionFits, Deleted
  <2>2. CASE StartRun(r)
    BY <2>2, UpdateKeepsDeleted DEF StartRun
  <2>3. CASE ~ (InsertRun(r) \/ StartRun(r))
    BY <2>3 DEF Request, InsertUserMessage, InsertOrphan, Dispatch, Spawn, Abandon, Deleted
  <2> QED
    BY <2>1, <2>2, <2>3
<1> QED
  BY <1>1, <1>2, <1>3, QuietIsFine

\* run_lifecycle() writes the buffer it holds as the run's one message.
LEMMA InsertReplyFine ==
  ASSUME IInv, NEW r \in Runs, InsertReply(r)
  PROVE  \A q \in Runs : Fine(q)
<1> USE DEF IInv, TypeOK, At, agentVars
<1>1. PICK ok, applied \in BOOLEAN :
        /\ Called(r, ok, applied)
        /\ At(r, "finalizing", IF ok THEN "replied" ELSE "done")
        /\ replies' = [replies EXCEPT ![r] = IF applied THEN Append(@, buf[r]) ELSE @]
        /\ chan' = [chan EXCEPT ![r] = IF ok THEN @ ELSE "dropped"]
  BY DEF InsertReply
<1>2. rows' = rows /\ buf' = buf
  BY DEF InsertReply
<1>3. replies[r] = <<>> /\ chan[r] # "sent"
  BY <1>1 DEF RunInv, RepliesFit, LifeFits
<1>4. ok => replies'[r] = <<buf[r]>>
  <2>1. ok => applied
    BY <1>1 DEF Called
  <2>2. Append(<<>>, buf[r]) = <<buf[r]>>
    OBVIOUS
  <2> QED
    BY <1>1, <1>3, <2>1, <2>2
<1>5. Fine(r)
  BY <1>1, <1>2, <1>3, <1>4 DEF Fine, Keeps, SentFits, Written, Deleted
<1>6. ASSUME NEW q \in Runs \ {r} PROVE Fine(q)
  BY <1>1, <1>2, QuietIsFine DEF Written, Deleted
<1> QED
  BY <1>5, <1>6

\* It changes its buffer only while nothing is written yet.
LEMMA LifecycleFine ==
  ASSUME IInv, NEW r \in Runs, Lifecycle(r)
  PROVE  \A q \in Runs : Fine(q)
<1> USE DEF IInv, TypeOK, At, dbVars, taskVars, agentVars, envVars
<1>1. CASE Subscribe(r) \/ InsertOrphanReply(r) \/ Notify(r)
  <2>1. replies' = replies /\ buf' = buf /\ rows' = rows
    BY <1>1 DEF Subscribe, InsertOrphanReply, Notify
  <2>2. \A q \in Runs : Written(q)' => Written(q)
    BY <1>1 DEF Subscribe, InsertOrphanReply, Notify, Written
  <2> QED
    BY <2>1, <2>2, QuietIsFine DEF Deleted
<1>2. CASE SaveCompleting(r) \/ SaveCompleted(r) \/ SaveFailed(r)
  <2>1. replies' = replies /\ buf' = buf
    BY <1>2 DEF SaveCompleting, SaveCompleted, SaveFailed
  <2>2. \A q \in Runs : Written(q)' => Written(q)
    BY <1>2 DEF SaveCompleting, SaveCompleted, SaveFailed, Written
  <2>3. \A q \in Runs : Deleted(q) => Deleted(q)'
    BY <1>2, UpdateKeepsDeleted DEF SaveCompleting, SaveCompleted, SaveFailed
  <2> QED
    BY <2>1, <2>2, <2>3, QuietIsFine
<1>3. CASE Consume(r)
  <2>1. replies' = replies /\ rows' = rows /\ chan' = chan
    BY <1>3 DEF Consume
  <2>2. /\ task[r] = "streaming"
        /\ \E there \in {"streaming", "completing", "failing"} :
             task' = [task EXCEPT ![r] = there]
    BY <1>3 DEF Consume
  <2>3. \A q \in Runs \ {r} : buf'[q] = buf[q]
    BY <1>3 DEF Consume
  <2>4. ~Written(r) /\ ~Written(r)'
    BY <2>1, <2>2 DEF Written, RunInv, LifeFits
  <2>5. Fine(r)
    BY <2>1, <2>4 DEF Fine, Keeps, SentFits, Deleted
  <2>6. ASSUME NEW q \in Runs \ {r} PROVE Fine(q)
    BY <2>1, <2>2, <2>3, QuietIsFine DEF Written, Deleted
  <2> QED
    BY <2>5, <2>6
<1> QED
  BY <1>1, <1>2, <1>3, InsertReplyFine DEF Lifecycle

\* Neither the agent nor the end of the process touches a stored message.
LEMMA SessionFine ==
  ASSUME IInv, [Next]_vars
  PROVE  \A q \in Runs : Fine(q)
<1> USE DEF IInv, TypeOK, dbVars, taskVars, agentVars, envVars
<1>1. ASSUME NEW r \in Runs, Agent(r) \/ ResumeRun(r) PROVE \A q \in Runs : Fine(q)
  <2>1. UNCHANGED <<dbVars, taskVars>>
    BY <1>1 DEF Agent, AgentReceive, AgentEmit, AgentFinish, AgentPause, AgentStop,
                EndTurn, ResumeRun
  <2> QED
    BY <2>1, QuietIsFine DEF Written, Deleted
<1>2. ASSUME NEW t \in Threads, DeleteThread(t) PROVE \A q \in Runs : Fine(q)
  BY <1>2, BlankFields DEF DeleteThread, Fine, Keeps, SentFits, Written, Deleted
<1>3. CASE Crash
  <2>1. UNCHANGED dbVars
    BY <1>3 DEF Crash
  <2>2. \A q \in Runs : ~Written(q)'
    BY <1>3 DEF Crash, Written, Executing, InLifecycle
  <2> QED
    BY <2>1, <2>2 DEF Fine, Keeps, SentFits, Deleted
<1>4. CASE Restart
  <2>1. UNCHANGED <<replies, taskVars>>
    BY <1>4 DEF Restart
  <2>2. \A q \in Runs : Deleted(q) => Deleted(q)'
    BY <1>4 DEF Restart, Orphans, Active, Deleted
  <2> QED
    BY <2>1, <2>2, QuietIsFine DEF Written
<1>5. CASE UNCHANGED vars
  BY <1>5, QuietIsFine DEF vars, Written, Deleted
<1> QED
  BY <1>1, <1>2, <1>3, <1>4, <1>5, RequestFine, LifecycleFine DEF Next

--------------------------------------------------------------------------------
(* The steps of the stream handlers *)

\* The handlers touch no more of the session's state than the registry, which
\* says nothing about a stored message.
LEMMA HandlerStep ==
  ASSUME IInv, \A r \in Runs : SentFits(r),
         UNCHANGED <<dbVars, task, mem, buf, pos, chan, agentVars, envVars>>,
         registry' \subseteq registry
  PROVE  /\ IInv'
         /\ \A q \in Runs : Fine(q)
<1> USE DEF IInv, dbVars, agentVars, envVars
<1>1. TypeOK'
  BY DEF TypeOK
<1>2. \A q \in Runs : Same(q)
  BY DEF Same
<1>3. \A q \in Runs : RunInv(q)'
  BY <1>2, Untouched
<1>4. \A q \in Runs : Fine(q)
  BY QuietIsFine DEF Written, Deleted
<1> QED
  BY <1>1, <1>3, <1>4

\* A frame that was stored stays stored, whatever the session does next.
LEMMA FramesStay ==
  ASSUME StoredInv, \A q \in Runs : Fine(q), NEW c \in Clients,
         view[c].frame = "completed"
  PROVE  \/ replies'[view[c].run] = <<view[c].data>>
         \/ rows'[view[c].run].status = "deleted"
<1>1. view[c].run \in Runs
  BY DEF StoredInv, ViewsTyped, ViewType
<1>2. replies[view[c].run] = <<view[c].data>> \/ Deleted(view[c].run)
  BY DEF StoredInv, CompletedFrameIsStored, Deleted
<1>3. <<view[c].data>> # <<>>
  OBVIOUS
<1> QED
  BY <1>1, <1>2, <1>3 DEF Fine, Keeps, Deleted

\* A step of the session leaves every frame that is still shown as it was.
LEMMA SessionStepStores ==
  ASSUME StoredInv, [Next]_vars, view' = view \/ view' = [c \in Clients |-> Off]
  PROVE  StoredInv'
<1>1. IInv'
  BY StepInv DEF StoredInv
<1>2. \A q \in Runs : Fine(q)
  BY SessionFine DEF StoredInv
<1>3. \A q \in Runs : SentFits(q)'
  BY <1>2 DEF StoredInv, Fine
<1>4. CASE view' = view
  <2>1. ViewsTyped'
    BY <1>4 DEF StoredInv, ViewsTyped
  <2>2. CompletedFrameIsStored'
    BY <1>2, <1>4, FramesStay DEF CompletedFrameIsStored
  <2> QED
    BY <1>1, <1>3, <2>1, <2>2 DEF StoredInv
<1>5. CASE view' = [c \in Clients |-> Off]
  <2>1. Off \in ViewType /\ Off.frame = "none" /\ Off.state = "off"
    <3>1. <<>> \in Seq(Nat)
      OBVIOUS
    <3> QED
      BY <3>1 DEF Off, ViewType, Frames, Unavailable
  <2>2. ViewsTyped'
    BY <1>5, <2>1 DEF ViewsTyped
  <2>3. CompletedFrameIsStored'
    BY <1>5, <2>1 DEF CompletedFrameIsStored
  <2> QED
    BY <1>1, <1>3, <2>2, <2>3 DEF StoredInv
<1> QED
  BY <1>4, <1>5

\* What is left to show of a handler's step: the handler it moves is well typed
\* and shows what is stored.
Shows(v) ==
  /\ v \in ViewType
  /\ v.state # "off" => v.run \in Runs
  /\ v.state = "off" => v.frame = "none"
  /\ v.frame = "completed" => replies[v.run] = <<v.data>> \/ Deleted(v.run)

LEMMA HandlerStores ==
  ASSUME StoredInv, NEW c \in Clients, NEW v, Shows(v),
         view' = [view EXCEPT ![c] = v],
         UNCHANGED <<dbVars, task, mem, buf, pos, chan, agentVars, envVars>>,
         registry' \subseteq registry
  PROVE  StoredInv'
<1>1. IInv' /\ \A q \in Runs : Fine(q)
  BY HandlerStep DEF StoredInv
<1>2. \A q \in Runs : SentFits(q)'
  BY <1>1 DEF StoredInv, Fine
<1>3. ViewsTyped'
  BY DEF StoredInv, ViewsTyped, Shows
<1>4. \A d \in Clients : view'[d] = IF d = c THEN v ELSE view[d]
  BY DEF StoredInv, ViewsTyped
<1>5. replies' = replies /\ rows' = rows
  BY DEF dbVars
<1>6. CompletedFrameIsStored'
  BY <1>4, <1>5 DEF StoredInv, CompletedFrameIsStored, Shows, Deleted
<1> QED
  BY <1>1, <1>2, <1>3, <1>6 DEF StoredInv

\* stream_events from its subscription to its last frame.
LEMMA ClientStep ==
  ASSUME StoredInv, NEW c \in Clients,
         \/ \E r \in Runs : StreamEvents(c, r)
         \/ Client(c) \/ TimerFires(c) \/ Disconnect(c)
  PROVE  StoredInv'
<1> USE DEF vars, taskVars
<1> DEFINE w == view[c]
<1>1. Shows(w)
  BY DEF Shows, StoredInv, ViewsTyped, CompletedFrameIsStored, Deleted
<1>2. Off.frame = "none" /\ Off.pos = 0 /\ Off.data = <<>> /\ Shows(Off)
  <2>1. <<>> \in Seq(Nat)
    OBVIOUS
  <2> QED
    BY <2>1 DEF Off, Shows, ViewType, Frames, Unavailable
<1>3. ASSUME NEW r \in Runs, StreamEvents(c, r) PROVE StoredInv'
  <2> DEFINE v == [Off EXCEPT !.state = "reading", !.run = r]
  <2>1. Shows(v)
    BY <1>2 DEF Off, Shows, ViewType
  <2> HIDE DEF v
  <2>2. view' = [view EXCEPT ![c] = v] /\ UNCHANGED vars
    BY <1>3 DEF StreamEvents, v
  <2> QED
    BY <2>1, <2>2, HandlerStores
<1>4. CASE NextFrame(c)
  <2>1. PICK v \in {[w EXCEPT !.pos = w.pos + 1],
                    [w EXCEPT !.pos = w.pos + 1, !.frame = "failed"],
                    [w EXCEPT !.pos = w.pos + 1, !.state = "waiting"],
                    [w EXCEPT !.pos = w.pos + 1, !.frame = "absent"]} :
          view' = [view EXCEPT ![c] = v]
    BY <1>4 DEF NextFrame
  <2>2. w.state = "reading" /\ w.pos + 1 \in Nat
    BY <1>1, <1>4 DEF NextFrame, Shows, ViewType
  <2>3. Shows(v)
    BY <1>1, <2>2 DEF Shows, ViewType, Frames, Unavailable
  <2>4. /\ UNCHANGED <<dbVars, task, mem, buf, pos, chan, agentVars, envVars>>
        /\ registry' \subseteq registry
    BY <1>4 DEF NextFrame, Taken
  <2> QED
    BY <2>1, <2>3, <2>4, HandlerStores
<1>5. CASE DataArrives(c)
  <2> DEFINE v == [w EXCEPT !.state = "reading", !.frame = "completed",
                            !.data = buf[w.run]]
  <2>1. w.state = "waiting" /\ chan[w.run] = "sent"
    BY <1>5 DEF DataArrives, Answer
  <2>2. w.run \in Runs
    BY <1>1, <2>1 DEF Shows
  <2>3. buf[w.run] \in Seq(Nat)
    BY <2>2 DEF StoredInv, IInv, TypeOK
  <2>4. replies[w.run] = <<buf[w.run]>> \/ Deleted(w.run)
    BY <2>1, <2>2 DEF StoredInv, SentFits, Written
  <2>5. Shows(v)
    BY <1>1, <2>2, <2>3, <2>4 DEF Shows, ViewType, Frames
  <2>6. view' = [view EXCEPT ![c] = v] /\ UNCHANGED vars
    BY <1>5 DEF DataArrives, Answer
  <2> QED
    BY <2>5, <2>6, HandlerStores
<1>6. CASE SenderGone(c) \/ TimerFires(c)
  <2>1. PICK f \in {"dropped", "timeout"} : Answer(c, f, <<>>)
    BY <1>6 DEF SenderGone, TimerFires
  <2> DEFINE v == [w EXCEPT !.state = "reading", !.frame = f, !.data = <<>>]
  <2>2. w.run \in Runs
    BY <1>1, <2>1 DEF Shows, Answer
  <2>3. Shows(v)
    <3>1. <<>> \in Seq(Nat)
      OBVIOUS
    <3> QED
      BY <1>1, <2>2, <3>1 DEF Shows, ViewType, Frames, Unavailable
  <2>4. view' = [view EXCEPT ![c] = v] /\ UNCHANGED vars
    BY <2>1 DEF Answer
  <2> QED
    BY <2>3, <2>4, HandlerStores
<1>7. CASE Disconnect(c)
  BY <1>2, <1>7, HandlerStores DEF Disconnect
<1> QED
  BY <1>3, <1>4, <1>5, <1>6, <1>7 DEF Client

LEMMA StreamStepInv == StoredInv /\ [StreamNext]_allVars => StoredInv'
<1> SUFFICES ASSUME StoredInv, [StreamNext]_allVars PROVE StoredInv'
  OBVIOUS
<1>1. CASE SessionStep
  BY <1>1, SessionStepStores DEF SessionStep
<1>2. CASE UNCHANGED allVars
  BY <1>2, SessionStepStores DEF allVars
<1> QED
  BY <1>1, <1>2, ClientStep DEF StreamNext

LEMMA StreamInitInv == StreamInit => StoredInv
<1> SUFFICES ASSUME StreamInit PROVE StoredInv
  OBVIOUS
<1>1. IInv
  BY InitInv DEF StreamInit
<1>2. \A r \in Runs : SentFits(r)
  BY DEF StreamInit, Init, SentFits, Written
<1>3. Off \in ViewType /\ Off.frame = "none" /\ Off.state = "off"
  <2>1. <<>> \in Seq(Nat)
    OBVIOUS
  <2> QED
    BY <2>1 DEF Off, ViewType, Frames, Unavailable
<1>4. ViewsTyped /\ CompletedFrameIsStored
  BY <1>3 DEF StreamInit, ViewsTyped, CompletedFrameIsStored
<1> QED
  BY <1>1, <1>2, <1>4 DEF StoredInv

--------------------------------------------------------------------------------
(* Theorems *)

\* StoredInv is an invariant of the session with any number of clients, also
\* of clients that wait out their timers, reconnect, or watch one run together.
THEOREM StreamInductive == StreamSpec => []StoredInv
BY StreamInitInv, StreamStepInv, PTL DEF StreamSpec

\* A client is told run.completed only with the content of the message that is
\* stored for its run, or that went away with its thread.
THEOREM CompletedFramesAreStored == StreamSpec => []CompletedFrameIsStored
<1>1. StoredInv => CompletedFrameIsStored
  BY DEF StoredInv
<1> QED
  BY <1>1, StreamInductive, PTL

\* The clients do not disturb the run lifecycle: its safety properties hold
\* with stream handlers that take receivers out of the registry.
THEOREM WatchedRunsAreSafe ==
  StreamSpec => [](/\ TypeOK
                   /\ ReplyIsTranscript
                   /\ CompletedIsAnswered
                   /\ FailedIsReported
                   /\ NoOrphanRow
                   /\ NotifiedIsCompleted)
<1>1. StoredInv => /\ TypeOK
                   /\ ReplyIsTranscript
                   /\ CompletedIsAnswered
                   /\ FailedIsReported
                   /\ NoOrphanRow
                   /\ NotifiedIsCompleted
  BY DEF StoredInv, IInv, RunInv, RunIsSafe, ReplyIsTranscript, CompletedIsAnswered,
         FailedIsReported, NoOrphanRow, NotifiedIsCompleted
<1> QED
  BY <1>1, StreamInductive, PTL

\* Nor do they write: with clients, too, the rows and messages of the service
\* move only as RunLedger allows.
THEOREM WatchedLedgerIsImplemented == StreamSpec => ImplementsLedger
<1>1. StreamInit => Ledger!Init
  BY InitRefines DEF StreamInit
<1>2. StoredInv => IInv
  BY DEF StoredInv
<1>3. IInv /\ IInv' /\ [StreamNext]_allVars => [Ledger!Next]_(Ledger!vars)
  <2> SUFFICES ASSUME IInv, IInv', [StreamNext]_allVars
               PROVE  [Ledger!Next]_(Ledger!vars)
    OBVIOUS
  <2>1. CASE [Next]_vars
    BY <2>1, StepRefines DEF IInv
  <2>2. CASE UNCHANGED dbVars
    BY <2>2, RowsStay DEF dbVars, Ledger!vars
  <2>3. ASSUME NEW c \in Clients,
               \/ \E r \in Runs : StreamEvents(c, r)
               \/ Client(c) \/ TimerFires(c) \/ Disconnect(c)
        PROVE  UNCHANGED dbVars
    BY <2>3 DEF StreamEvents, Client, NextFrame, DataArrives, SenderGone, TimerFires,
                Answer, Disconnect, vars
  <2> QED
    BY <2>1, <2>2, <2>3 DEF StreamNext, SessionStep, allVars
<1> QED
  BY <1>1, <1>2, <1>3, StreamInductive, PTL
     DEF StreamSpec, ImplementsLedger, Ledger!Spec
================================================================================
