------------------------------ MODULE AgentControl ------------------------------
(***************************************************************************)
(* The agent service's control plane: the calls that start, resume, cancel *)
(* and inspect turns, the RunRegistry they share and the checkpoints they  *)
(* load and save.                                                          *)
(*                                                                         *)
(*   adapters/grpc/mod.rs       the gRPC handlers                          *)
(*   runtime/state.rs           RunRegistry, one entry per thread          *)
(*   runtime/assembler.rs       execute_with_cancel, from load to save     *)
(*   kernel/control.rs          what a control response must look like     *)
(*   adapters/store/{redis,pg}/checkpoint.rs   hot and warm checkpoint     *)
(*                                                                         *)
(* A call runs in its own handler; nothing keeps two calls on one thread   *)
(* apart.  Each action is the code between two awaits.  run_loop() is one  *)
(* action here: what it does inside is the matter of the agent loop.  A    *)
(* history is the sequence of turns it came from.                          *)
(***************************************************************************)
EXTENDS Integers, Sequences, FiniteSets

CONSTANTS
  Threads,       \* thread identifiers
  Calls,         \* SendMessage and ResumeRun calls
  ThreadOf,      \* the thread each call is made on
  KindOf,        \* PendingControl.kind of the request a call's turn may ask
  None,          \* no call
  MaxOverlap,    \* bound: calls in a turn on one thread at the same time
  MaxFaults,     \* bound: failing store calls and dropped handlers
  MaxEvictions,  \* bound: Redis checkpoints that expire
  MaxCrashes     \* bound: crashes of the agent process

ASSUME AgentControlAssumption ==
  /\ ThreadOf \in [Calls -> Threads]
  /\ KindOf \in [Calls -> {"permission", "plan_review"}]
  /\ None \notin Calls
  /\ MaxOverlap \in Nat
  /\ MaxFaults \in Nat
  /\ MaxEvictions \in Nat
  /\ MaxCrashes \in Nat

VARIABLES
  registry,   \* RunRegistry: the entry of each thread
  redis,      \* hot checkpoint of each thread
  pg,         \* warm checkpoint of each thread
  writes,     \* PostgreSQL writes that are spawned and not done
  calls,      \* each call: where its handler stands and what it holds
  asked,      \* control requests the clients have been sent
  faults,     \* faults so far
  evictions,  \* evictions so far
  crashes     \* crashes so far

stores == <<redis, pg, writes>>
bounds == <<faults, evictions, crashes>>
vars   == <<registry, stores, calls, asked, bounds>>

--------------------------------------------------------------------------------
(* Data *)

Decisions == {"permission", "plan_review", "unknown"}  \* ControlResponse.response

\* A control request is named by the call whose turn asked it.
Request == Calls \cup {None}

Turn == [call : Calls, answers : Request]

Checkpoint == [history : Seq(Turn), pending : Request]

\* No checkpoint: the same to every reader as one that was just created.
Fresh == [history |-> <<>>, pending |-> None]

Statuses == {"absent", "running", "requires_action", "cancelled", "idle"}
Entry    == [status : Statuses, request : Request, token : Request]

\* Mutant: mark_running forgets the token.
RunningUnarmed(c) == [status |-> "running", request |-> None, token |-> None]

Absent     == [status |-> "absent", request |-> None, token |-> None]
Running(c) == [status |-> "running", request |-> None, token |-> c]
Idle       == [status |-> "idle", request |-> None, token |-> None]

Outcomes == {"none", "completed", "paused", "cancelled"}

\* Before mark_running, and from there to the end of the handler.
InTurn  == {"marked", "loaded", "ran", "stored", "saved", "failing"}
States  == {"idle", "accepted"} \cup InTurn \cup {"refused", "dropped", "done"}

Call == [at      : States,
         answers : Request,      \* the request a ResumeRun call answers
         copy    : Checkpoint,   \* its own copy of the checkpoint
         outcome : Outcomes,
         cancel  : BOOLEAN]      \* is its CancellationToken cancelled?

NewCall == [at |-> "idle", answers |-> None, copy |-> Fresh, outcome |-> "none",
            cancel |-> FALSE]

Init ==
  /\ registry = [t \in Threads |-> Absent]
  /\ redis = [t \in Threads |-> Fresh]
  /\ pg = [t \in Threads |-> Fresh]
  /\ writes = {}
  /\ calls = [c \in Calls |-> NewCall]
  /\ asked = {}
  /\ faults = 0
  /\ evictions = 0
  /\ crashes = 0

--------------------------------------------------------------------------------
Active(t) == {c \in Calls : ThreadOf[c] = t /\ calls[c].at \in InTurn \cup {"accepted"}}

Room(c) == Cardinality(Active(ThreadOf[c])) < MaxOverlap

Goes(c, here, there) ==
  /\ calls[c].at = here
  /\ calls' = [calls EXCEPT ![c].at = there]

\* The handler is gone, and its locals with it.
Ended(how) == [NewCall EXCEPT !.at = how]

Ends(c, here) ==
  /\ calls[c].at = here
  /\ calls' = [calls EXCEPT ![c] = Ended("done")]

Fault == faults < MaxFaults /\ faults' = faults + 1

\* Mutant: PostgreSQL first.
LoadWarm(t) == IF pg[t] # Fresh THEN pg[t] ELSE redis[t]

\* Redis first, PostgreSQL on a miss.
Load(t) == IF redis[t] # Fresh THEN redis[t] ELSE pg[t]

--------------------------------------------------------------------------------
(* The handlers *)

\* send_message: mark_running replaces whatever entry the thread had.
SendMessage(c) ==
  /\ Room(c)
  /\ Goes(c, "idle", "marked")
  /\ registry' = [registry EXCEPT ![ThreadOf[c]] = Running(c)]
  /\ UNCHANGED <<stores, asked, bounds>>

\* resume_message: a decision has to fit the kind of the pending request.
Fits(q, decision) == decision = KindOf[q]

\* resume_run, up to mark_running: the checkpoint must hold the request.
ResumeRun(c, q, decision) ==
  /\ Room(c)
  /\ q \in asked
  /\ calls[c].at = "idle"
  /\ Load(ThreadOf[c]).pending = q
  /\ Fits(q, decision)
  /\ calls' = [calls EXCEPT ![c].at = "accepted", ![c].answers = q]
  /\ UNCHANGED <<registry, stores, asked, bounds>>

\* Any other response, or a store that fails: an error to the session, which
\* logs it and has long told the client that all is well.
RefuseResume(c, q, decision) ==
  /\ q \in asked
  /\ calls[c].at = "idle"
  /\ calls' = [calls EXCEPT ![c] = Ended("refused")]
  /\ \/ /\ Load(ThreadOf[c]).pending # q \/ ~ Fits(q, decision)
        /\ UNCHANGED faults
     \/ Fault
  /\ UNCHANGED <<registry, stores, asked, evictions, crashes>>

\* resume_run goes on: it waited for the registry's lock.
MarkRunning(c) ==
  /\ Goes(c, "accepted", "marked")
  /\ registry' = [registry EXCEPT ![ThreadOf[c]] = Running(c)]
  /\ UNCHANGED <<stores, asked, bounds>>

\* execute_with_cancel loads the checkpoint, for a resume a second time.
LoadCheckpoint(c) ==
  /\ calls[c].at = "marked"
  /\ \/ /\ calls' = [calls EXCEPT ![c].at = "loaded",
                                  ![c].copy = Load(ThreadOf[c])]
        /\ UNCHANGED faults
     \/ /\ Goes(c, "marked", "failing")
        /\ Fault
  /\ UNCHANGED <<registry, stores, asked, evictions, crashes>>

\* Mutant: a turn that does not pause keeps the request it was loaded with.
NextCheckpointKeeping(c, outcome) ==
  [history |-> Append(calls[c].copy.history,
                      [call |-> c, answers |-> calls[c].answers]),
   pending |-> IF outcome = "paused" THEN c ELSE calls[c].copy.pending]

\* The turn's messages are pushed; only a turn that pauses leaves a request.
NextCheckpoint(c, outcome) ==
  [history |-> Append(calls[c].copy.history,
                      [call |-> c, answers |-> calls[c].answers]),
   pending |-> IF outcome = "paused" THEN c ELSE None]

\* run_loop ends.  The request of a pause is on the stream before the loop
\* returns.  A cancelled token may also be noticed too late to matter.
RunLoop(c) ==
  /\ calls[c].at = "loaded"
  /\ \E outcome \in Outcomes \ {"none"} :
       /\ outcome = "cancelled" => calls[c].cancel
       /\ calls' = [calls EXCEPT ![c].at = "ran", ![c].outcome = outcome,
                                 ![c].copy = NextCheckpoint(c, outcome)]
       /\ asked' = IF outcome = "paused" THEN asked \cup {c} ELSE asked
  /\ UNCHANGED <<registry, stores, bounds>>

\* run_loop or a step before it returns an error.
RunLoopFails(c) ==
  /\ Goes(c, "loaded", "failing")
  /\ Fault
  /\ UNCHANGED <<registry, stores, asked, evictions, crashes>>

\* save_checkpoint: SET in Redis, applied or not when it reports an error.
SaveCheckpoint(c) ==
  /\ \E ok, applied \in BOOLEAN :
       /\ ok => applied
       /\ Goes(c, "ran", IF ok THEN "stored" ELSE "failing")
       /\ IF ok THEN UNCHANGED faults ELSE Fault
       /\ redis' = [redis EXCEPT ![ThreadOf[c]] = IF applied THEN calls[c].copy ELSE @]
  /\ UNCHANGED <<registry, pg, writes, asked, evictions, crashes>>

\* save_checkpoint goes on: spawn the PostgreSQL write and return.
SpawnWrite(c) ==
  /\ Goes(c, "stored", "saved")
  /\ writes' = writes \cup {[thread |-> ThreadOf[c], data |-> calls[c].copy]}
  /\ UNCHANGED <<registry, redis, pg, asked, bounds>>

\* Mutants: the entry keeps the token of the turn that is over, has a status
\* that RunStatus lacks, names the request that was answered.
OutputEntryArmed(c) ==
  CASE calls[c].outcome = "paused" ->
         [status |-> "requires_action", request |-> calls[c].copy.pending, token |-> c]
    [] calls[c].outcome = "cancelled" -> [Running(c) EXCEPT !.status = "cancelled"]
    [] OTHER -> [Running(c) EXCEPT !.status = "idle"]

OutputEntryPaused(c) ==
  IF calls[c].outcome = "paused"
  THEN [status |-> "paused", request |-> calls[c].copy.pending, token |-> None]
  ELSE Idle
OutputEntryAnswered(c) ==
  IF calls[c].outcome = "paused"
  THEN [status |-> "requires_action", request |-> calls[c].answers, token |-> None]
  ELSE Idle

\* RunRegistry::apply_output.
OutputEntry(c) ==
  CASE calls[c].outcome = "paused" ->
         [status |-> "requires_action", request |-> calls[c].copy.pending, token |-> None]
    [] calls[c].outcome = "cancelled" -> [Idle EXCEPT !.status = "cancelled"]
    [] OTHER -> Idle

ApplyOutput(c) ==
  /\ Ends(c, "saved")
  /\ registry' = [registry EXCEPT ![ThreadOf[c]] = OutputEntry(c)]
  /\ UNCHANGED <<stores, asked, bounds>>

MarkIdle(c) ==
  /\ Ends(c, "failing")
  /\ registry' = [registry EXCEPT ![ThreadOf[c]] = Idle]
  /\ UNCHANGED <<stores, asked, bounds>>

\* cancel_run: the entry says cancelled whether or not it has a token.
CancelRun(t) ==
  /\ registry[t].status # "absent"
  /\ registry' = [registry EXCEPT ![t].status = "cancelled"]
  /\ calls' = [c \in Calls |-> IF registry[t].token = c
                                THEN [calls[c] EXCEPT !.cancel = TRUE] ELSE calls[c]]
  /\ UNCHANGED <<stores, asked, bounds>>

\* get_run_status: what a thread is said to be, [status, request].
Reported(t) ==
  IF registry[t].status # "absent"
  THEN [status |-> registry[t].status, request |-> registry[t].request]
  ELSE IF Load(t).pending # None
       THEN [status |-> "requires_action", request |-> Load(t).pending]
       ELSE [status |-> "idle", request |-> None]

--------------------------------------------------------------------------------
(* The surroundings *)

\* A spawned write reaches PostgreSQL, in any order, or fails and is logged.
PgWrite(w) ==
  /\ writes' = writes \ {w}
  /\ \/ /\ pg' = [pg EXCEPT ![w.thread] = w.data]
        /\ UNCHANGED faults
     \/ /\ Fault
        /\ UNCHANGED pg
  /\ UNCHANGED <<registry, redis, calls, asked, evictions, crashes>>

\* The 24-hour TTL of a Redis checkpoint passes; no write takes that long.
Evict(t) ==
  /\ evictions < MaxEvictions
  /\ redis[t] # Fresh
  /\ \A w \in writes : w.thread # t
  /\ redis' = [redis EXCEPT ![t] = Fresh]
  /\ evictions' = evictions + 1
  /\ UNCHANGED <<registry, pg, writes, calls, asked, faults, crashes>>

\* The session's connection is lost: the server drops the handler at its await.
Drop(c) ==
  /\ calls[c].at \in InTurn \cup {"accepted"}
  /\ calls' = [calls EXCEPT ![c] = Ended("dropped")]
  /\ Fault
  /\ UNCHANGED <<registry, stores, asked, evictions, crashes>>

\* The process dies and comes back with an empty registry.
Crash ==
  /\ crashes < MaxCrashes
  /\ crashes' = crashes + 1
  /\ registry' = [t \in Threads |-> Absent]
  /\ writes' = {}
  /\ calls' = [c \in Calls |->
                 IF calls[c].at \in InTurn \cup {"accepted"}
                 THEN Ended("dropped") ELSE calls[c]]
  /\ UNCHANGED <<redis, pg, asked, faults, evictions>>

Handler(c) ==
  \/ MarkRunning(c) \/ LoadCheckpoint(c) \/ RunLoop(c) \/ RunLoopFails(c)
  \/ SaveCheckpoint(c) \/ SpawnWrite(c) \/ ApplyOutput(c) \/ MarkIdle(c)

Next ==
  \/ \E c \in Calls : \/ SendMessage(c) \/ Handler(c) \/ Drop(c)
                      \/ \E q \in Calls, decision \in Decisions :
                           ResumeRun(c, q, decision) \/ RefuseResume(c, q, decision)
  \/ \E t \in Threads : CancelRun(t) \/ Evict(t)
  \/ \E w \in writes : PgWrite(w)
  \/ Crash

Spec == Init /\ [][Next]_vars

--------------------------------------------------------------------------------
(* Properties *)

TypeOK ==
  /\ registry \in [Threads -> Entry]
  /\ redis \in [Threads -> Checkpoint]
  /\ pg \in [Threads -> Checkpoint]
  /\ writes \subseteq [thread : Threads, data : Checkpoint]
  /\ calls \in [Calls -> Call]
  /\ asked \subseteq Calls
  /\ faults \in Nat /\ evictions \in Nat /\ crashes \in Nat

\* A token in the registry belongs to a turn that can still hear it, or to a
\* handler that was dropped: no end of a turn (apply_output, mark_idle), in
\* whatever order two turns of a thread end, leaves the token of a turn that
\* is over, so cancel_run never answers true for a finished one.
TokenIsLive ==
  \A t \in Threads : registry[t].token # None =>
    /\ ThreadOf[registry[t].token] = t
    /\ calls[registry[t].token].at \in InTurn \cup {"dropped"}

\* The pending request of checkpoint k, if any, is that of its last turn.
AsksLast(k) ==
  k.pending # None =>
    /\ k.history # <<>>
    /\ k.history[Len(k.history)].call = k.pending
    /\ k.pending \in asked

\* The request a checkpoint holds was asked by its last turn and is known to
\* the client, in Redis, in PostgreSQL, in the writes between them and in the
\* copies of the turns: a response never resumes a history that has gone on without it, however the
\* writes of overlapping turns, evictions and crashes mix the checkpoints.
PendingIsLast ==
  /\ \A t \in Threads : AsksLast(redis[t]) /\ AsksLast(pg[t])
  /\ \A w \in writes : AsksLast(w.data)
  /\ \A c \in Calls : AsksLast(calls[c].copy)

\* While a turn runs, its token is the one cancel_run finds: "Returns `true` if
\* a run was running and was cancelled" (session, ports/agent_dispatcher.rs).
RunIsCancellable ==
  \A c \in Calls : calls[c].at \in InTurn => registry[ThreadOf[c]].token = c

\* The request that the registry reports for a paused thread is the one that
\* ResumeRun will accept: apply_output and save_checkpoint agree.
RequestIsPending ==
  \A t \in Threads : registry[t].status = "requires_action" =>
    Load(t).pending = registry[t].request

\* The histories in Redis are those of Conversation: no turn is lost, and a
\* response continues the very turn that asked, once.
hotHistory == [t \in Threads |-> redis[t].history]
hotRequest == [t \in Threads |-> redis[t].pending]

Talk == INSTANCE Conversation WITH history <- hotHistory, request <- hotRequest

ImplementsConversation == Talk!Spec
================================================================================
