--------------------------- MODULE AgentControlProofs ---------------------------
(***************************************************************************)
(* What TLAPS proves of AgentControl.  For any number of threads and       *)
(* overlapping calls: types, TokenIsLive and PendingIsLast, the two        *)
(* invariants inductive relative to the types.  When the calls of a thread *)
(* come one by one (OneByOne), also that a run can be cancelled; and when  *)
(* nothing leaves Redis besides (NoEviction), that what is pending can be  *)
(* answered and that the conversation is the one Conversation describes.   *)
(***************************************************************************)
EXTENDS AgentControl, TLAPS, FiniteSetTheorems

Heard == InTurn \cup {"dropped"}

\* Call c moves to `at`, with the copy and outcome given; no other call changes.
Moves(c, at, copy) ==
  /\ calls' \in [Calls -> Call]
  /\ \A d \in Calls \ {c} : calls'[d] = calls[d]
  /\ calls'[c].at = at
  /\ calls'[c].copy = copy

LEMMA FreshTypes == Fresh \in Checkpoint /\ NewCall \in Call
<1>1. <<>> \in Seq(Turn)
  OBVIOUS
<1>2. Fresh \in Checkpoint
  BY <1>1 DEF Fresh, Checkpoint, Request
<1> QED
  BY <1>2 DEF NewCall, Call, States, Request, Outcomes

LEMMA Replaced ==
  ASSUME NEW c \in Calls, NEW new \in Call,
         calls \in [Calls -> Call], calls' = [calls EXCEPT ![c] = new]
  PROVE  Moves(c, new.at, new.copy)
<1>1. /\ calls' \in [Calls -> Call]
      /\ \A d \in Calls \ {c} : calls'[d] = calls[d]
      /\ calls'[c] = new
  OBVIOUS
<1> QED
  BY <1>1 DEF Moves

LEMMA GoesMoves ==
  ASSUME TypeOK, NEW c \in Calls, NEW here, NEW there \in States, Goes(c, here, there)
  PROVE  Moves(c, there, calls[c].copy) /\ calls[c].at = here
BY DEF TypeOK, Goes, Moves, Call

LEMMA EndedMoves ==
  ASSUME TypeOK, NEW c \in Calls, NEW how \in States,
         calls' = [calls EXCEPT ![c] = Ended(how)]
  PROVE  Moves(c, how, Fresh)
<1>1. Ended(how) \in Call /\ Ended(how).at = how /\ Ended(how).copy = Fresh
  BY FreshTypes DEF Ended, Call, NewCall
<1> QED
  BY <1>1 DEF TypeOK, Moves

LEMMA LoadType ==
  ASSUME TypeOK, NEW t \in Threads
  PROVE  Load(t) \in Checkpoint
BY DEF Load, TypeOK

LEMMA EntryTypes ==
  /\ Absent \in Entry /\ Idle \in Entry
  /\ \A c \in Calls : Running(c) \in Entry /\ Running(c).token = c
  /\ Absent.token = None /\ Idle.token = None
BY DEF Absent, Idle, Running, Entry, Statuses, Request

LEMMA OutputType ==
  ASSUME TypeOK, NEW c \in Calls
  PROVE  OutputEntry(c) \in Entry /\ OutputEntry(c).token = None
<1>1. calls[c].copy.pending \in Request
  BY DEF TypeOK, Call, Checkpoint
<1>2. CASE calls[c].outcome = "paused"
  BY <1>1, <1>2 DEF OutputEntry, Entry, Statuses, Request
<1>3. CASE calls[c].outcome = "cancelled"
  BY <1>3 DEF OutputEntry, Idle, Entry, Statuses, Request
<1>4. CASE calls[c].outcome \notin {"paused", "cancelled"}
  BY <1>4 DEF OutputEntry, Idle, Entry, Statuses, Request
<1> QED
  BY <1>2, <1>3, <1>4

LEMMA NextCheckpointType ==
  ASSUME TypeOK, NEW c \in Calls, NEW outcome \in Outcomes
  PROVE  NextCheckpoint(c, outcome) \in Checkpoint
<1>1. calls[c].copy.history \in Seq(Turn) /\ calls[c].answers \in Request
  BY DEF TypeOK, Call, Checkpoint
<1>2. [call |-> c, answers |-> calls[c].answers] \in Turn
  BY <1>1 DEF Turn
<1>3. Append(calls[c].copy.history, [call |-> c, answers |-> calls[c].answers]) \in Seq(Turn)
  BY <1>1, <1>2
<1>4. (IF outcome = "paused" THEN c ELSE None) \in Request
  BY DEF Request
<1> QED
  BY <1>3, <1>4 DEF NextCheckpoint, Checkpoint

LEMMA ResumeMoves ==
  ASSUME TypeOK, NEW c \in Calls, NEW q \in Calls, NEW decision, ResumeRun(c, q, decision)
  PROVE  Moves(c, "accepted", calls[c].copy) /\ calls[c].at = "idle"
<1> DEFINE new == [calls[c] EXCEPT !.at = "accepted", !.answers = q]
<1>0. calls \in [Calls -> Call]
  BY DEF TypeOK
<1>1. calls' = [calls EXCEPT ![c] = new] /\ calls[c].at = "idle"
  BY DEF ResumeRun
<1>2. new \in Call /\ new.at = "accepted" /\ new.copy = calls[c].copy
  BY <1>0 DEF Call, States, Request
<1> HIDE DEF new
<1> QED
  BY <1>0, <1>1, <1>2, Replaced

LEMMA LoadMoves ==
  ASSUME TypeOK, NEW c \in Calls,
         calls' = [calls EXCEPT ![c].at = "loaded", ![c].copy = Load(ThreadOf[c])]
  PROVE  Moves(c, "loaded", Load(ThreadOf[c]))
<1> DEFINE copy == Load(ThreadOf[c])
           new == [calls[c] EXCEPT !.at = "loaded", !.copy = copy]
<1>0. calls \in [Calls -> Call]
  BY DEF TypeOK
<1>1. copy \in Checkpoint
  BY LoadType, AgentControlAssumption
<1>2. calls' = [calls EXCEPT ![c] = new]
  OBVIOUS
<1> HIDE DEF copy
<1>3. new \in Call /\ new.at = "loaded" /\ new.copy = copy
  BY <1>0, <1>1 DEF Call, States, InTurn
<1> HIDE DEF new
<1>4. Moves(c, new.at, new.copy)
  BY <1>0, <1>2, <1>3, Replaced
<1>5. Moves(c, "loaded", copy)
  BY <1>3, <1>4
<1> QED
  BY <1>5 DEF copy

LEMMA RunLoopMoves ==
  ASSUME TypeOK, NEW c \in Calls, NEW outcome \in Outcomes,
         calls' = [calls EXCEPT ![c].at = "ran", ![c].outcome = outcome,
                                ![c].copy = NextCheckpoint(c, outcome)]
  PROVE  Moves(c, "ran", NextCheckpoint(c, outcome))
<1> DEFINE copy == NextCheckpoint(c, outcome)
           new == [calls[c] EXCEPT !.at = "ran", !.outcome = outcome, !.copy = copy]
<1>0. calls \in [Calls -> Call]
  BY DEF TypeOK
<1>1. copy \in Checkpoint
  BY NextCheckpointType
<1>2. calls' = [calls EXCEPT ![c] = new]
  OBVIOUS
<1> HIDE DEF copy
<1>3. new \in Call /\ new.at = "ran" /\ new.copy = copy
  BY <1>0, <1>1 DEF Call, States, InTurn
<1> HIDE DEF new
<1>4. Moves(c, new.at, new.copy)
  BY <1>0, <1>2, <1>3, Replaced
<1>5. Moves(c, "ran", copy)
  BY <1>3, <1>4
<1> QED
  BY <1>5 DEF copy

\* A call in any state keeps its copy and its place; its token may be cancelled.
LEMMA CancelMoves ==
  ASSUME TypeOK, NEW t \in Threads, CancelRun(t)
  PROVE  /\ calls' \in [Calls -> Call]
         /\ \A c \in Calls : calls'[c].at = calls[c].at /\ calls'[c].copy = calls[c].copy
BY DEF TypeOK, CancelRun, Call

LEMMA CrashMoves ==
  ASSUME TypeOK, Crash
  PROVE  /\ calls' \in [Calls -> Call]
         /\ \A c \in Calls : calls'[c].copy \in {calls[c].copy, Fresh}
<1>1. Ended("dropped") \in Call /\ Ended("dropped").copy = Fresh
  BY FreshTypes DEF Ended, NewCall, Call, States
<1> QED
  BY <1>1 DEF TypeOK, Crash
--------------------------------------------------------------------------------
(* Types *)

LEMMA TypeInit == Init => TypeOK
BY FreshTypes, EntryTypes DEF Init, TypeOK

\* Every handler, store and surrounding step keeps the types (AgentControl).
LEMMA TypeStep == TypeOK /\ [Next]_vars => TypeOK'
<1> SUFFICES ASSUME TypeOK, [Next]_vars PROVE TypeOK'
  OBVIOUS
<1> USE DEF stores, bounds
<1> USE AgentControlAssumption
<1>0. \A at \in {"accepted", "marked", "loaded", "ran", "stored", "saved", "failing",
                "refused", "dropped", "done"} : at \in States
  BY DEF States, InTurn
<1>F. Fault => faults' \in Nat
  BY DEF TypeOK, Fault
<1>1. ASSUME NEW c \in Calls, SendMessage(c) \/ MarkRunning(c) PROVE TypeOK'
  <2>1. calls' \in [Calls -> Call]
    BY <1>0, <1>1, GoesMoves DEF SendMessage, MarkRunning, Moves
  <2>2. registry' \in [Threads -> Entry]
    BY <1>1, EntryTypes DEF TypeOK, SendMessage, MarkRunning
  <2> QED
    BY <1>1, <2>1, <2>2 DEF TypeOK, SendMessage, MarkRunning
<1>2. ASSUME NEW c \in Calls, NEW q \in Calls, NEW decision \in Decisions,
             ResumeRun(c, q, decision) \/ RefuseResume(c, q, decision)
      PROVE  TypeOK'
  <2>1. calls' \in [Calls -> Call]
    BY <1>0, <1>2, ResumeMoves, EndedMoves DEF RefuseResume, Moves
  <2>2. faults' \in Nat
    BY <1>2, <1>F DEF TypeOK, ResumeRun, RefuseResume
  <2> QED
    BY <1>2, <2>1, <2>2 DEF TypeOK, ResumeRun, RefuseResume
<1>3. ASSUME NEW c \in Calls, LoadCheckpoint(c) PROVE TypeOK'
  <2>1. calls' \in [Calls -> Call]
    BY <1>0, <1>3, LoadMoves, GoesMoves DEF LoadCheckpoint, Moves
  <2>2. faults' \in Nat
    BY <1>3, <1>F DEF TypeOK, LoadCheckpoint
  <2> QED
    BY <1>3, <2>1, <2>2 DEF TypeOK, LoadCheckpoint
<1>4. ASSUME NEW c \in Calls, RunLoop(c) PROVE TypeOK'
  <2>1. PICK outcome \in Outcomes \ {"none"} :
          /\ calls' = [calls EXCEPT ![c].at = "ran", ![c].outcome = outcome,
                                    ![c].copy = NextCheckpoint(c, outcome)]
          /\ asked' = IF outcome = "paused" THEN asked \cup {c} ELSE asked
    BY <1>4 DEF RunLoop
  <2>2. calls' \in [Calls -> Call]
    BY <2>1, RunLoopMoves DEF Moves
  <2>3. asked' \subseteq Calls
    BY <2>1 DEF TypeOK
  <2> QED
    BY <1>4, <2>2, <2>3 DEF TypeOK, RunLoop
<1>5. ASSUME NEW c \in Calls, RunLoopFails(c) PROVE TypeOK'
  BY <1>0, <1>5, <1>F, GoesMoves DEF TypeOK, RunLoopFails, Moves
<1>6. ASSUME NEW c \in Calls, SaveCheckpoint(c) PROVE TypeOK'
  <2>1. PICK ok, applied \in BOOLEAN :
          /\ Goes(c, "ran", IF ok THEN "stored" ELSE "failing")
          /\ IF ok THEN UNCHANGED faults ELSE Fault
          /\ redis' = [redis EXCEPT ![ThreadOf[c]] = IF applied THEN calls[c].copy ELSE @]
    BY <1>6 DEF SaveCheckpoint
  <2>2. calls' \in [Calls -> Call]
    BY <1>0, <2>1, GoesMoves DEF Moves
  <2>3. redis' \in [Threads -> Checkpoint]
    <3>1. calls[c].copy \in Checkpoint
      BY DEF TypeOK, Call
    <3> QED
      BY <2>1, <3>1 DEF TypeOK
  <2>4. faults' \in Nat
    BY <2>1, <1>F DEF TypeOK
  <2> QED
    BY <1>6, <2>2, <2>3, <2>4 DEF TypeOK, SaveCheckpoint
<1>7. ASSUME NEW c \in Calls, SpawnWrite(c) PROVE TypeOK'
  <2>1. calls' \in [Calls -> Call]
    BY <1>0, <1>7, GoesMoves DEF SpawnWrite, Moves
  <2>2. calls[c].copy \in Checkpoint
    BY DEF TypeOK, Call
  <2>3. writes' \subseteq [thread : Threads, data : Checkpoint]
    BY <1>7, <2>2 DEF TypeOK, SpawnWrite
  <2> QED
    BY <1>7, <2>1, <2>3 DEF TypeOK, SpawnWrite
<1>8. ASSUME NEW c \in Calls, ApplyOutput(c) \/ MarkIdle(c) PROVE TypeOK'
  <2>1. calls' \in [Calls -> Call]
    BY <1>0, <1>8, EndedMoves DEF ApplyOutput, MarkIdle, Ends, Moves
  <2>2. registry' \in [Threads -> Entry]
    BY <1>8, OutputType, EntryTypes DEF TypeOK, ApplyOutput, MarkIdle
  <2> QED
    BY <1>8, <2>1, <2>2 DEF TypeOK, ApplyOutput, MarkIdle
<1>9. ASSUME NEW t \in Threads, CancelRun(t) PROVE TypeOK'
  <2>1. registry' \in [Threads -> Entry]
    BY <1>9 DEF TypeOK, CancelRun, Entry, Statuses
  <2> QED
    BY <1>9, <2>1, CancelMoves DEF TypeOK, CancelRun
<1>10. ASSUME NEW t \in Threads, Evict(t) PROVE TypeOK'
  BY <1>10, FreshTypes DEF TypeOK, Evict
<1>11. ASSUME NEW w \in writes, PgWrite(w) PROVE TypeOK'
  <2>1. w.thread \in Threads /\ w.data \in Checkpoint
    BY DEF TypeOK
  <2>2. pg' \in [Threads -> Checkpoint] /\ faults' \in Nat
    BY <1>11, <1>F, <2>1 DEF TypeOK, PgWrite
  <2> QED
    BY <1>11, <2>2 DEF TypeOK, PgWrite
<1>12. ASSUME NEW c \in Calls, Drop(c) PROVE TypeOK'
  BY <1>0, <1>12, <1>F, EndedMoves DEF TypeOK, Drop, Moves
<1>13. CASE Crash
  <2>1. registry' \in [Threads -> Entry] /\ crashes' \in Nat
    BY <1>13, EntryTypes DEF TypeOK, Crash
  <2> QED
    BY <1>13, <2>1, CrashMoves DEF TypeOK, Crash
<1>14. CASE UNCHANGED vars
  BY <1>14 DEF TypeOK, vars
<1> QED
  BY <1>1, <1>2, <1>3, <1>4, <1>5, <1>6, <1>7, <1>8, <1>9, <1>10, <1>11, <1>12,
     <1>13, <1>14 DEF Next, Handler

\* The types of AgentControl's variables hold in every reachable state.
THEOREM TypeCorrect == Spec => []TypeOK
BY TypeInit, TypeStep, PTL DEF Spec
--------------------------------------------------------------------------------
(* TokenIsLive *)

\* The registry does not change, and call c can still hear its token or had none.
LEMMA TokenKept ==
  ASSUME TypeOK, TokenIsLive, NEW c \in Calls,
         \A d \in Calls \ {c} : calls'[d] = calls[d],
         calls'[c].at \in Heard \/ calls[c].at \notin Heard,
         UNCHANGED registry
  PROVE  TokenIsLive'
BY DEF TokenIsLive, TypeOK, Entry, Request, Heard

\* A turn begins: its token replaces what the entry held.
LEMMA TokenTaken ==
  ASSUME TypeOK, TokenIsLive, NEW c \in Calls,
         \A d \in Calls \ {c} : calls'[d] = calls[d],
         calls[c].at \notin Heard, calls'[c].at \in Heard,
         registry' = [registry EXCEPT ![ThreadOf[c]] = Running(c)]
  PROVE  TokenIsLive'
<1>1. Running(c).token = c /\ ThreadOf[c] \in Threads
  BY AgentControlAssumption, EntryTypes
<1> QED
  BY <1>1 DEF TokenIsLive, TypeOK, Entry, Request, Heard

\* A turn ends: no entry of another thread has its token.
LEMMA TokenCleared ==
  ASSUME TypeOK, TokenIsLive, NEW c \in Calls, NEW entry \in Entry, entry.token = None,
         \A d \in Calls \ {c} : calls'[d] = calls[d],
         registry' = [registry EXCEPT ![ThreadOf[c]] = entry]
  PROVE  TokenIsLive'
<1>1. ThreadOf[c] \in Threads
  BY AgentControlAssumption
<1> QED
  BY <1>1 DEF TokenIsLive, TypeOK, Entry, Request, Heard

\* Each step of the control plane keeps the registry's tokens live.
LEMMA TokenStep == TypeOK /\ TokenIsLive /\ [Next]_vars => TokenIsLive'
<1> SUFFICES ASSUME TypeOK, TokenIsLive, [Next]_vars PROVE TokenIsLive'
  OBVIOUS
<1>0. \A at \in {"accepted", "marked", "loaded", "ran", "stored", "saved", "failing",
                "refused", "dropped", "done"} : at \in States
  BY DEF States, InTurn
<1>1. ASSUME NEW c \in Calls, SendMessage(c) \/ MarkRunning(c) PROVE TokenIsLive'
  <2>1. Moves(c, "marked", calls[c].copy) /\ calls[c].at \in {"idle", "accepted"}
    BY <1>0, <1>1, GoesMoves DEF SendMessage, MarkRunning
  <2>2. registry' = [registry EXCEPT ![ThreadOf[c]] = Running(c)]
    BY <1>1 DEF SendMessage, MarkRunning
  <2> QED
    BY <2>1, <2>2, TokenTaken DEF Moves, Heard, InTurn
<1>2. ASSUME NEW c \in Calls, NEW q \in Calls, NEW decision \in Decisions,
             ResumeRun(c, q, decision) \/ RefuseResume(c, q, decision)
      PROVE  TokenIsLive'
  <2>1. calls[c].at = "idle" /\ UNCHANGED registry
    BY <1>2 DEF ResumeRun, RefuseResume
  <2>2. \A d \in Calls \ {c} : calls'[d] = calls[d]
    BY <1>0, <1>2, ResumeMoves, EndedMoves DEF RefuseResume, Moves
  <2> QED
    BY <2>1, <2>2, TokenKept DEF Heard, InTurn
<1>3. ASSUME NEW c \in Calls, LoadCheckpoint(c) PROVE TokenIsLive'
  <2>1. Moves(c, "loaded", Load(ThreadOf[c])) \/ Moves(c, "failing", calls[c].copy)
    BY <1>0, <1>3, LoadMoves, GoesMoves DEF LoadCheckpoint
  <2> QED
    BY <1>3, <2>1, TokenKept DEF LoadCheckpoint, Moves, Heard, InTurn
<1>4. ASSUME NEW c \in Calls, RunLoop(c) PROVE TokenIsLive'
  <2>1. PICK outcome \in Outcomes : Moves(c, "ran", NextCheckpoint(c, outcome))
    BY <1>4, RunLoopMoves DEF RunLoop
  <2> QED
    BY <1>4, <2>1, TokenKept DEF RunLoop, Moves, Heard, InTurn
<1>5. ASSUME NEW c \in Calls, RunLoopFails(c) \/ SaveCheckpoint(c) \/ SpawnWrite(c)
      PROVE  TokenIsLive'
  <2>1. PICK at \in {"failing", "stored", "saved"} : Moves(c, at, calls[c].copy)
    BY <1>0, <1>5, GoesMoves DEF RunLoopFails, SaveCheckpoint, SpawnWrite
  <2>2. UNCHANGED registry
    BY <1>5 DEF RunLoopFails, SaveCheckpoint, SpawnWrite
  <2> QED
    BY <2>1, <2>2, TokenKept DEF Moves, Heard, InTurn
<1>6. ASSUME NEW c \in Calls, ApplyOutput(c) \/ MarkIdle(c) PROVE TokenIsLive'
  <2>1. Moves(c, "done", Fresh)
    BY <1>0, <1>6, EndedMoves DEF ApplyOutput, MarkIdle, Ends
  <2>2. PICK entry \in Entry :
          entry.token = None /\ registry' = [registry EXCEPT ![ThreadOf[c]] = entry]
    BY <1>6, OutputType, EntryTypes DEF ApplyOutput, MarkIdle
  <2> QED
    BY <2>1, <2>2, TokenCleared DEF Moves
<1>7. ASSUME NEW t \in Threads, CancelRun(t) PROVE TokenIsLive'
  <2>1. \A u \in Threads : registry'[u].token = registry[u].token
    BY <1>7 DEF TypeOK, CancelRun, Entry
  <2> QED
    BY <1>7, <2>1, CancelMoves DEF TokenIsLive, TypeOK, Entry, Request
<1>8. ASSUME NEW c \in Calls, Drop(c) PROVE TokenIsLive'
  <2>1. Moves(c, "dropped", Fresh)
    BY <1>0, <1>8, EndedMoves DEF Drop
  <2> QED
    BY <1>8, <2>1, TokenKept DEF Drop, Moves, Heard
<1>9. CASE Crash
  BY <1>9, EntryTypes DEF Crash, TokenIsLive
<1>10. CASE \/ \E t \in Threads : Evict(t)
            \/ \E w \in writes : PgWrite(w)
            \/ UNCHANGED vars
  <2>1. UNCHANGED <<registry, calls>>
    BY <1>10 DEF Evict, PgWrite, vars
  <2> QED
    BY <2>1 DEF TokenIsLive
<1> QED
  BY <1>1, <1>2, <1>3, <1>4, <1>5, <1>6, <1>7, <1>8, <1>9, <1>10 DEF Next, Handler

\* No end of a turn, in whatever order the turns of a thread end, leaves the
\* token of a finished one in the RunRegistry (runtime/state.rs).
THEOREM TokensAreLive == Spec => []TokenIsLive
<1>1. Init => TokenIsLive
  BY EntryTypes DEF Init, TokenIsLive
<1> QED
  BY <1>1, TypeCorrect, TokenStep, PTL DEF Spec

--------------------------------------------------------------------------------
(* PendingIsLast *)

\* What the clients were asked is never taken back.
LEMMA AskedGrows ==
  ASSUME [Next]_vars
  PROVE  asked \subseteq asked'
<1> USE DEF stores, bounds
<1>1. ASSUME NEW c \in Calls, RunLoop(c) PROVE asked \subseteq asked'
  BY <1>1 DEF RunLoop
<1>2. ASSUME NEW c \in Calls,
             \/ SendMessage(c) \/ MarkRunning(c) \/ LoadCheckpoint(c) \/ RunLoopFails(c)
             \/ SaveCheckpoint(c) \/ SpawnWrite(c) \/ ApplyOutput(c) \/ MarkIdle(c)
             \/ Drop(c)
      PROVE  UNCHANGED asked
  BY <1>2 DEF SendMessage, MarkRunning, LoadCheckpoint, RunLoopFails, SaveCheckpoint,
              SpawnWrite, ApplyOutput, MarkIdle, Drop
<1>3. ASSUME NEW c \in Calls, NEW q \in Calls, NEW decision \in Decisions,
             ResumeRun(c, q, decision) \/ RefuseResume(c, q, decision)
      PROVE  UNCHANGED asked
  BY <1>3 DEF ResumeRun, RefuseResume
<1>4. ASSUME \/ \E t \in Threads : CancelRun(t) \/ Evict(t)
             \/ \E w \in writes : PgWrite(w)
             \/ Crash
             \/ UNCHANGED vars
      PROVE  UNCHANGED asked
  BY <1>4 DEF CancelRun, Evict, PgWrite, Crash, vars
<1> QED
  BY <1>1, <1>2, <1>3, <1>4 DEF Next, Handler

\* AsksLast, with the requests the clients know as a parameter.
AsksIn(k, known) ==
  k.pending # None =>
    /\ k.history # <<>>
    /\ k.history[Len(k.history)].call = k.pending
    /\ k.pending \in known

LEMMA FreshAsksNothing == \A known : AsksIn(Fresh, known)
BY DEF AsksIn, Fresh

\* A turn that pauses is the last of the history it leaves.
LEMMA PauseIsLast ==
  ASSUME TypeOK, NEW c \in Calls, NEW outcome \in Outcomes,
         NextCheckpoint(c, outcome).pending # None
  PROVE  LET k == NextCheckpoint(c, outcome) IN
           /\ k.pending = c /\ outcome = "paused"
           /\ k.history # <<>>
           /\ k.history[Len(k.history)].call = c
<1> DEFINE old == calls[c].copy.history
           turn == [call |-> c, answers |-> calls[c].answers]
<1>1. old \in Seq(Turn) /\ calls[c].answers \in Request
  BY DEF TypeOK, Call, Checkpoint
<1>2. turn \in Turn /\ turn.call = c
  BY <1>1 DEF Turn
<1> HIDE DEF old, turn
<1>3. /\ Append(old, turn) # <<>>
      /\ Append(old, turn)[Len(Append(old, turn))] = turn
  BY <1>1, <1>2
<1>4. /\ NextCheckpoint(c, outcome).history = Append(old, turn)
      /\ NextCheckpoint(c, outcome).pending = IF outcome = "paused" THEN c ELSE None
  BY DEF NextCheckpoint, old, turn
<1> QED
  BY <1>2, <1>3, <1>4

\* Where the checkpoint a call holds after a step can have come from.
LEMMA CopyOrigin ==
  ASSUME TypeOK, [Next]_vars, NEW d \in Calls
  PROVE  \/ calls'[d].copy \in {calls[d].copy, Fresh}
         \/ \E t \in Threads : calls'[d].copy \in {redis[t], pg[t]}
         \/ \E outcome \in Outcomes :
              /\ calls'[d].copy = NextCheckpoint(d, outcome)
              /\ outcome = "paused" => d \in asked'
<1> DEFINE Origin == \/ calls'[d].copy \in {calls[d].copy, Fresh}
                     \/ \E t \in Threads : calls'[d].copy \in {redis[t], pg[t]}
                     \/ \E outcome \in Outcomes :
                          /\ calls'[d].copy = NextCheckpoint(d, outcome)
                          /\ outcome = "paused" => d \in asked'
<1>0. \A at \in {"accepted", "marked", "loaded", "ran", "stored", "saved", "failing",
                "refused", "dropped", "done"} : at \in States
  BY DEF States, InTurn
<1>1. ASSUME NEW c \in Calls, NEW at, NEW copy, Moves(c, at, copy),
             copy \in {calls[c].copy, Fresh}
      PROVE  Origin
  BY <1>1 DEF Moves
<1>2. ASSUME NEW c \in Calls, NEW q \in Calls, NEW decision \in Decisions,
             ResumeRun(c, q, decision) \/ RefuseResume(c, q, decision)
      PROVE  Origin
  BY <1>0, <1>1, <1>2, ResumeMoves, EndedMoves DEF RefuseResume
<1>3. ASSUME NEW c \in Calls, LoadCheckpoint(c) PROVE Origin
  <2>1. CASE Moves(c, "failing", calls[c].copy)
    BY <1>1, <2>1
  <2>2. CASE Moves(c, "loaded", Load(ThreadOf[c]))
    <3>1. Load(ThreadOf[c]) \in {redis[ThreadOf[c]], pg[ThreadOf[c]]}
      BY DEF Load
    <3>2. ThreadOf[c] \in Threads
      BY AgentControlAssumption
    <3> QED
      BY <2>2, <3>1, <3>2 DEF Moves
  <2> QED
    BY <1>0, <1>3, <2>1, <2>2, LoadMoves, GoesMoves DEF LoadCheckpoint
<1>4. ASSUME NEW c \in Calls, RunLoop(c) PROVE Origin
  <2>1. PICK outcome \in Outcomes :
          /\ Moves(c, "ran", NextCheckpoint(c, outcome))
          /\ asked' = IF outcome = "paused" THEN asked \cup {c} ELSE asked
    BY <1>4, RunLoopMoves DEF RunLoop
  <2>2. CASE d = c
    BY <2>1, <2>2 DEF Moves
  <2>3. CASE d # c
    BY <2>1, <2>3 DEF Moves
  <2> QED
    BY <2>2, <2>3
<1>5. ASSUME NEW c \in Calls,
             \/ SendMessage(c) \/ MarkRunning(c) \/ RunLoopFails(c)
             \/ SaveCheckpoint(c) \/ SpawnWrite(c)
      PROVE  Origin
  <2>1. PICK at : Moves(c, at, calls[c].copy)
    BY <1>0, <1>5, GoesMoves
       DEF SendMessage, MarkRunning, RunLoopFails, SaveCheckpoint, SpawnWrite
  <2> QED
    BY <1>1, <2>1
<1>6. ASSUME NEW c \in Calls, ApplyOutput(c) \/ MarkIdle(c) \/ Drop(c) PROVE Origin
  <2>1. PICK at : Moves(c, at, Fresh)
    BY <1>0, <1>6, EndedMoves DEF ApplyOutput, MarkIdle, Ends, Drop
  <2> QED
    BY <1>1, <2>1
<1>7. ASSUME NEW t \in Threads, CancelRun(t) PROVE Origin
  BY <1>7, CancelMoves
<1>8. CASE Crash
  BY <1>8, CrashMoves
<1>9. CASE \/ \E t \in Threads : Evict(t)
           \/ \E w \in writes : PgWrite(w)
           \/ UNCHANGED vars
  BY <1>9 DEF Evict, PgWrite, vars
<1> QED
  BY <1>2, <1>3, <1>4, <1>5, <1>6, <1>7, <1>8, <1>9 DEF Next, Handler

\* Where the checkpoints in the stores, and between them, can have come from.
LEMMA StoreOrigin ==
  ASSUME TypeOK, [Next]_vars
  PROVE  /\ \A t \in Threads : \/ redis'[t] \in {redis[t], Fresh}
                              \/ \E c \in Calls : redis'[t] = calls[c].copy
         /\ \A t \in Threads : \/ pg'[t] = pg[t]
                              \/ \E w \in writes : pg'[t] = w.data
         /\ \A w \in writes' : \/ w \in writes
                              \/ \E c \in Calls : w.data = calls[c].copy
<1> DEFINE Redis == \A t \in Threads : \/ redis'[t] \in {redis[t], Fresh}
                                       \/ \E c \in Calls : redis'[t] = calls[c].copy
           Pg == \A t \in Threads : \/ pg'[t] = pg[t]
                                    \/ \E w \in writes : pg'[t] = w.data
           Writes == \A w \in writes' : \/ w \in writes
                                       \/ \E c \in Calls : w.data = calls[c].copy
           Origins == Redis /\ Pg /\ Writes
<1>1. ASSUME NEW c \in Calls, SaveCheckpoint(c) PROVE Origins
  <2>1. PICK applied \in BOOLEAN :
          redis' = [redis EXCEPT ![ThreadOf[c]] = IF applied THEN calls[c].copy ELSE @]
    BY <1>1 DEF SaveCheckpoint
  <2>2. Redis
    BY <2>1 DEF TypeOK
  <2> QED
    BY <1>1, <2>2 DEF SaveCheckpoint
<1>2. ASSUME NEW c \in Calls, SpawnWrite(c) PROVE Origins
  BY <1>2 DEF SpawnWrite
<1>3. ASSUME NEW w \in writes, PgWrite(w) PROVE Origins
  <2>1. Pg
    BY <1>3 DEF PgWrite, TypeOK
  <2> QED
    BY <1>3, <2>1 DEF PgWrite
<1>4. ASSUME NEW t \in Threads, Evict(t) PROVE Origins
  BY <1>4 DEF Evict, TypeOK
<1>5. ASSUME Crash PROVE Origins
  BY <1>5 DEF Crash
<1>6. ASSUME UNCHANGED <<redis, pg, writes>> PROVE Origins
  BY <1>6
<1>7. ASSUME NEW c \in Calls,
             \/ SendMessage(c) \/ MarkRunning(c) \/ LoadCheckpoint(c) \/ RunLoop(c)
             \/ RunLoopFails(c) \/ ApplyOutput(c) \/ MarkIdle(c) \/ Drop(c)
      PROVE  Origins
  <2>1. UNCHANGED <<redis, pg, writes>>
    BY <1>7 DEF SendMessage, MarkRunning, LoadCheckpoint, RunLoop, RunLoopFails,
                ApplyOutput, MarkIdle, Drop, stores
  <2> QED
    BY <1>6, <2>1
<1>8. ASSUME NEW c \in Calls, NEW q \in Calls, NEW decision \in Decisions,
             ResumeRun(c, q, decision) \/ RefuseResume(c, q, decision)
      PROVE  Origins
  <2>1. UNCHANGED <<redis, pg, writes>>
    BY <1>8 DEF ResumeRun, RefuseResume, stores
  <2> QED
    BY <1>6, <2>1
<1>9. ASSUME (\E t \in Threads : CancelRun(t)) \/ UNCHANGED vars PROVE Origins
  <2>1. UNCHANGED <<redis, pg, writes>>
    BY <1>9 DEF CancelRun, vars, stores
  <2> QED
    BY <1>6, <2>1
<1> HIDE DEF Origins
<1>10. Origins
  BY <1>1, <1>2, <1>3, <1>4, <1>5, <1>7, <1>8, <1>9 DEF Next, Handler
<1> QED
  BY <1>10 DEF Origins

\* Each step keeps the pending request that of the last turn, in every copy.
LEMMA AsksStep == TypeOK /\ PendingIsLast /\ [Next]_vars => PendingIsLast'
<1> SUFFICES ASSUME TypeOK, PendingIsLast, [Next]_vars PROVE PendingIsLast'
  OBVIOUS
<1>1. /\ \A t \in Threads : AsksIn(redis[t], asked') /\ AsksIn(pg[t], asked')
      /\ \A w \in writes : AsksIn(w.data, asked')
      /\ \A c \in Calls : AsksIn(calls[c].copy, asked')
  BY AskedGrows DEF PendingIsLast, AsksLast, AsksIn
<1>2. \A t \in Threads : AsksIn(redis'[t], asked') /\ AsksIn(pg'[t], asked')
  BY <1>1, StoreOrigin, FreshAsksNothing
<1>3. \A w \in writes' : AsksIn(w.data, asked')
  BY <1>1, StoreOrigin
<1>4. ASSUME NEW d \in Calls PROVE AsksIn(calls'[d].copy, asked')
  <2>1. ASSUME NEW outcome \in Outcomes, outcome = "paused" => d \in asked'
        PROVE  AsksIn(NextCheckpoint(d, outcome), asked')
    BY <2>1, PauseIsLast DEF AsksIn
  <2> QED
    BY <1>1, <2>1, CopyOrigin, FreshAsksNothing
<1> QED
  BY <1>2, <1>3, <1>4 DEF PendingIsLast, AsksLast, AsksIn

\* A response never resumes a history that has gone on without it: however the
\* writes of overlapping turns, evictions and crashes mix the checkpoints, the
\* request that one holds is its last turn's (NextCheckpoint, save_checkpoint).
THEOREM PendingAreLast == Spec => []PendingIsLast
<1>1. Init => PendingIsLast
  BY DEF Init, PendingIsLast, AsksLast, Fresh, NewCall
<1> QED
  BY <1>1, TypeCorrect, AsksStep, PTL DEF Spec

--------------------------------------------------------------------------------
(* Calls that do not overlap: the run of MCAgentControlSerial.cfg.  The       *)
(* hypotheses are the bounds of that run, and the other runs show that the    *)
(* properties fail without them.                                              *)

OneByOne == MaxOverlap = 1

\* No checkpoint is evicted from Redis.
NoEviction == MaxEvictions = 0

Busy(c) == calls[c].at \in InTurn \cup {"accepted"}

\* The calls of a thread are served one after the other.
Alone ==
  \A c, d \in Calls : ThreadOf[c] = ThreadOf[d] /\ Busy(c) /\ Busy(d) => c = d

\* Before a turn saves its checkpoint, and what it knows of the thread by then.
Unsaved == {"idle", "accepted", "marked", "loaded", "ran"}

NotYet(c) ==
  \A i \in 1 .. Len(redis[ThreadOf[c]].history) :
    redis[ThreadOf[c]].history[i].call # c

CallFits(c) ==
  LET k   == calls[c]
      hot == redis[ThreadOf[c]]
  IN
  /\ k.at \in InTurn => registry[ThreadOf[c]].status # "requires_action"
  /\ k.at = "idle" => k.answers = None
  /\ k.at \in Unsaved => NotYet(c) /\ k.answers \in {None, hot.pending}
  /\ k.at \in {"loaded", "stored", "saved"} => k.copy = hot
  /\ k.at \in {"stored", "saved"} => hot # Fresh
  /\ k.at = "ran" =>
       /\ k.copy.history = Append(hot.history, [call |-> c, answers |-> k.answers])
       /\ k.copy.pending \in {c, None}

\* What is in Redis is what was saved last, and what the registry reports.
ThreadFits(t) ==
  /\ registry[t].status = "requires_action" => redis[t].pending = registry[t].request
  /\ redis[t] = Fresh => pg[t] = Fresh /\ \A w \in writes : w.thread # t

SerialInv ==
  /\ TypeOK
  /\ PendingIsLast
  /\ Alone
  /\ \A c \in Calls : CallFits(c)
  /\ \A t \in Threads : ThreadFits(t)

--------------------------------------------------------------------------------
(* One call at a time *)

\* Call c becomes k; no other call changes.
Becomes(c, k) ==
  /\ calls'[c] = k
  /\ \A d \in Calls \ {c} : calls'[d] = calls[d]

\* What each action makes of its call.
LEMMA CallSteps ==
  ASSUME TypeOK, NEW c \in Calls
  PROVE  /\ SendMessage(c) => calls[c].at = "idle" /\ Becomes(c, [calls[c] EXCEPT !.at = "marked"])
         /\ MarkRunning(c) => calls[c].at = "accepted" /\ Becomes(c, [calls[c] EXCEPT !.at = "marked"])
         /\ \A q \in Calls : \A decision : ResumeRun(c, q, decision) =>
              calls[c].at = "idle" /\ Becomes(c, [calls[c] EXCEPT !.at = "accepted", !.answers = q])
         /\ \A q \in Calls : \A decision : RefuseResume(c, q, decision) =>
              calls[c].at = "idle" /\ Becomes(c, Ended("refused"))
         /\ Drop(c) => Becomes(c, Ended("dropped"))
         /\ LoadCheckpoint(c) => calls[c].at = "marked" /\
              \/ Becomes(c, [calls[c] EXCEPT !.at = "loaded", !.copy = Load(ThreadOf[c])])
              \/ Becomes(c, [calls[c] EXCEPT !.at = "failing"])
         /\ RunLoop(c) => calls[c].at = "loaded" /\ \E outcome \in Outcomes :
              Becomes(c, [calls[c] EXCEPT !.at = "ran", !.outcome = outcome,
                                          !.copy = NextCheckpoint(c, outcome)])
         /\ RunLoopFails(c) => calls[c].at = "loaded" /\ Becomes(c, [calls[c] EXCEPT !.at = "failing"])
         /\ SpawnWrite(c) => calls[c].at = "stored" /\ Becomes(c, [calls[c] EXCEPT !.at = "saved"])
         /\ ApplyOutput(c) => calls[c].at = "saved" /\ Becomes(c, Ended("done"))
         /\ MarkIdle(c) => calls[c].at = "failing" /\ Becomes(c, Ended("done"))
<1> USE DEF TypeOK, Becomes
<1>1. SendMessage(c) => calls[c].at = "idle" /\ Becomes(c, [calls[c] EXCEPT !.at = "marked"])
  BY DEF SendMessage, Goes
<1>2. MarkRunning(c) => calls[c].at = "accepted" /\ Becomes(c, [calls[c] EXCEPT !.at = "marked"])
  BY DEF MarkRunning, Goes
<1>3. ASSUME NEW q \in Calls, NEW decision, ResumeRun(c, q, decision)
      PROVE  calls[c].at = "idle" /\ Becomes(c, [calls[c] EXCEPT !.at = "accepted", !.answers = q])
  <2> DEFINE new == [calls[c] EXCEPT !.at = "accepted", !.answers = q]
  <2>1. calls' = [calls EXCEPT ![c] = new] /\ calls[c].at = "idle"
    BY <1>3 DEF ResumeRun
  <2> HIDE DEF new
  <2>2. Becomes(c, new)
    BY <2>1
  <2> QED
    BY <2>1, <2>2 DEF new
<1>4. ASSUME NEW q \in Calls, NEW decision, RefuseResume(c, q, decision)
      PROVE  calls[c].at = "idle" /\ Becomes(c, Ended("refused"))
  BY <1>4 DEF RefuseResume
<1>5. Drop(c) => Becomes(c, Ended("dropped"))
  BY DEF Drop
<1>6. ASSUME LoadCheckpoint(c)
      PROVE  calls[c].at = "marked" /\
               \/ Becomes(c, [calls[c] EXCEPT !.at = "loaded", !.copy = Load(ThreadOf[c])])
               \/ Becomes(c, [calls[c] EXCEPT !.at = "failing"])
  <2> DEFINE new == [calls[c] EXCEPT !.at = "loaded", !.copy = Load(ThreadOf[c])]
  <2>1. calls' = [calls EXCEPT ![c] = new] \/ Goes(c, "marked", "failing")
    BY <1>6 DEF LoadCheckpoint
  <2> HIDE DEF new
  <2>2. Becomes(c, new) \/ Becomes(c, [calls[c] EXCEPT !.at = "failing"])
    BY <2>1 DEF Goes
  <2> QED
    BY <1>6, <2>2 DEF LoadCheckpoint, new
<1>7. ASSUME RunLoop(c)
      PROVE  calls[c].at = "loaded" /\ \E outcome \in Outcomes :
               Becomes(c, [calls[c] EXCEPT !.at = "ran", !.outcome = outcome,
                                           !.copy = NextCheckpoint(c, outcome)])
  <2>1. PICK outcome \in Outcomes :
          calls' = [calls EXCEPT ![c].at = "ran", ![c].outcome = outcome,
                                 ![c].copy = NextCheckpoint(c, outcome)]
    BY <1>7 DEF RunLoop
  <2> DEFINE new == [calls[c] EXCEPT !.at = "ran", !.outcome = outcome,
                                     !.copy = NextCheckpoint(c, outcome)]
  <2>2. calls' = [calls EXCEPT ![c] = new]
    BY <2>1
  <2> HIDE DEF new
  <2>3. Becomes(c, new)
    BY <2>2
  <2> QED
    BY <1>7, <2>3 DEF RunLoop, new
<1>8. RunLoopFails(c) => calls[c].at = "loaded" /\ Becomes(c, [calls[c] EXCEPT !.at = "failing"])
  BY DEF RunLoopFails, Goes
<1>9. SpawnWrite(c) => calls[c].at = "stored" /\ Becomes(c, [calls[c] EXCEPT !.at = "saved"])
  BY DEF SpawnWrite, Goes
<1>10. ApplyOutput(c) => calls[c].at = "saved" /\ Becomes(c, Ended("done"))
  BY DEF ApplyOutput, Ends
<1>11. MarkIdle(c) => calls[c].at = "failing" /\ Becomes(c, Ended("done"))
  BY DEF MarkIdle, Ends
<1> QED
  BY <1>1, <1>2, <1>3, <1>4, <1>5, <1>6, <1>7, <1>8, <1>9, <1>10, <1>11

\* save_checkpoint, its SET applied or not when it reports an error.
Saves(c, ok, applied) ==
  /\ calls[c].at = "ran"
  /\ ok => applied
  /\ Becomes(c, [calls[c] EXCEPT !.at = IF ok THEN "stored" ELSE "failing"])
  /\ redis' = [redis EXCEPT ![ThreadOf[c]] = IF applied THEN calls[c].copy ELSE @]

LEMMA SaveSteps ==
  ASSUME TypeOK, NEW c \in Calls, SaveCheckpoint(c)
  PROVE  \E ok, applied \in BOOLEAN : Saves(c, ok, applied)
<1>1. PICK ok, applied \in BOOLEAN :
        /\ ok => applied
        /\ Goes(c, "ran", IF ok THEN "stored" ELSE "failing")
        /\ redis' = [redis EXCEPT ![ThreadOf[c]] = IF applied THEN calls[c].copy ELSE @]
  BY DEF SaveCheckpoint
<1>2. Saves(c, ok, applied)
  BY <1>1 DEF Saves, Goes, Becomes, TypeOK
<1> QED
  BY <1>2

\* With one call at a time, a call that finds room is alone on its thread.
LEMMA NobodyElse ==
  ASSUME OneByOne, Alone, NEW c \in Calls, Room(c)
  PROVE  \A d \in Calls : ThreadOf[d] = ThreadOf[c] => ~Busy(d)
<1> SUFFICES ASSUME NEW d \in Calls, ThreadOf[d] = ThreadOf[c], Busy(d) PROVE FALSE
  OBVIOUS
<1>1. Active(ThreadOf[c]) = {d}
  BY DEF Active, Alone, Busy
<1>2. Cardinality({d}) = 1
  BY FS_Singleton
<1> QED
  BY <1>1, <1>2 DEF Room, OneByOne

\* Nothing but a call that finds room makes a call busy.
LEMMA BusyOrigin ==
  ASSUME TypeOK, [Next]_vars, NEW d \in Calls, Busy(d)', ~Busy(d)
  PROVE  Room(d) /\ \A e \in Calls \ {d} : calls'[e] = calls[e]
<1> USE DEF Busy
<1>0. calls[d] \in Call
  BY DEF TypeOK
<1>1. \A how : Ended(how).at = how
  BY DEF Ended, NewCall
<1>2. ASSUME NEW c \in Calls, SendMessage(c) PROVE c = d /\ Room(d)
  BY <1>2, CallSteps DEF SendMessage, Becomes
<1>3. ASSUME NEW c \in Calls, NEW q \in Calls, NEW decision \in Decisions,
             ResumeRun(c, q, decision)
      PROVE  c = d /\ Room(d)
  BY <1>3, CallSteps DEF ResumeRun, Becomes
<1>4. ASSUME NEW c \in Calls, NEW k, Becomes(c, k),
             calls[c].at \in InTurn \cup {"accepted"} \/ k.at \notin InTurn \cup {"accepted"}
      PROVE  FALSE
  BY <1>4 DEF Becomes
<1>5. ASSUME NEW c \in Calls,
             \/ \E q \in Calls, decision \in Decisions : RefuseResume(c, q, decision)
             \/ Drop(c) \/ ApplyOutput(c) \/ MarkIdle(c)
      PROVE  FALSE
  <2>1. PICK how \in {"refused", "dropped", "done"} : Becomes(c, Ended(how))
    BY <1>5, CallSteps
  <2> QED
    BY <1>1, <1>4, <2>1 DEF InTurn
<1>6. ASSUME NEW c \in Calls,
             \/ MarkRunning(c) \/ LoadCheckpoint(c) \/ RunLoop(c) \/ RunLoopFails(c)
             \/ SaveCheckpoint(c) \/ SpawnWrite(c)
      PROVE  FALSE
  <2>1. calls[c].at \in InTurn \cup {"accepted"}
    BY <1>6, CallSteps, SaveSteps DEF InTurn, Saves
  <2>2. \E k : Becomes(c, k)
    BY <1>6, CallSteps, SaveSteps DEF Saves
  <2> QED
    BY <1>4, <2>1, <2>2
<1>7. ASSUME NEW t \in Threads, CancelRun(t) PROVE FALSE
  BY <1>7, CancelMoves
<1>8. ASSUME Crash PROVE FALSE
  BY <1>1, <1>8 DEF Crash, InTurn, TypeOK
<1>9. ASSUME UNCHANGED calls PROVE FALSE
  BY <1>9
<1>10. \/ \E c \in Calls : SendMessage(c)
       \/ \E c \in Calls, q \in Calls, decision \in Decisions : ResumeRun(c, q, decision)
  BY <1>5, <1>6, <1>7, <1>8, <1>9 DEF Next, Handler, Evict, PgWrite, vars
<1> QED
  BY <1>2, <1>3, <1>10, CallSteps DEF Becomes

LEMMA AloneStep ==
  ASSUME OneByOne, TypeOK, Alone, [Next]_vars
  PROVE  Alone'
<1> SUFFICES ASSUME NEW c \in Calls, NEW d \in Calls,
                    ThreadOf[c] = ThreadOf[d], Busy(c)', Busy(d)', c # d
             PROVE  FALSE
  BY DEF Alone
<1>1. Busy(c) \/ Busy(d)
  <2>1. ASSUME ~Busy(c), ~Busy(d) PROVE FALSE
    BY <2>1, BusyOrigin DEF Busy
  <2> QED
    BY <2>1
<1>2. CASE Busy(c) /\ Busy(d)
  BY <1>2 DEF Alone
<1>3. CASE ~Busy(c)
  BY <1>1, <1>3, BusyOrigin, NobodyElse
<1>4. CASE ~Busy(d)
  BY <1>1, <1>4, BusyOrigin, NobodyElse
<1> QED
  BY <1>2, <1>3, <1>4

\* A turn that begins finds no other in its way, and none ends but its own.
LEMMA CancellableStep ==
  ASSUME OneByOne, TypeOK, Alone, RunIsCancellable, [Next]_vars
  PROVE  RunIsCancellable'
<1> USE DEF TypeOK
<1>0. \A how : Ended(how).at = how
  BY DEF Ended, NewCall
<1>1. ASSUME NEW c \in Calls, SendMessage(c) \/ MarkRunning(c) PROVE RunIsCancellable'
  <2>1. \A d \in Calls \ {c} : ThreadOf[d] = ThreadOf[c] => calls[d].at \notin InTurn
    <3>1. CASE SendMessage(c)
      BY <3>1, NobodyElse DEF SendMessage, Busy
    <3>2. CASE MarkRunning(c)
      BY <3>2, CallSteps DEF Alone, Busy
    <3> QED
      BY <1>1, <3>1, <3>2
  <2>2. registry' = [registry EXCEPT ![ThreadOf[c]] = Running(c)]
    BY <1>1 DEF SendMessage, MarkRunning
  <2>3. \A d \in Calls \ {c} : calls'[d] = calls[d]
    BY <1>1, CallSteps DEF Becomes
  <2>4. \A d \in Calls : ThreadOf[d] \in Threads
    BY AgentControlAssumption
  <2>5. registry'[ThreadOf[c]].token = c
    BY <2>2, <2>4, EntryTypes
  <2> QED
    BY <2>1, <2>2, <2>3, <2>4, <2>5 DEF RunIsCancellable
<1>2. ASSUME NEW c \in Calls, ApplyOutput(c) \/ MarkIdle(c) PROVE RunIsCancellable'
  <2>1. calls[c].at \in InTurn /\ Becomes(c, Ended("done"))
    BY <1>2, CallSteps DEF InTurn
  <2>2. \A d \in Calls \ {c} : calls[d].at \in InTurn => ThreadOf[d] # ThreadOf[c]
    BY <2>1 DEF Alone, Busy
  <2>3. \A t \in Threads : t # ThreadOf[c] => registry'[t] = registry[t]
    BY <1>2 DEF ApplyOutput, MarkIdle
  <2>4. calls'[c].at \notin InTurn /\ \A d \in Calls \ {c} : calls'[d] = calls[d]
    BY <1>0, <2>1 DEF Becomes, InTurn
  <2> QED
    BY <2>2, <2>3, <2>4, AgentControlAssumption DEF RunIsCancellable
<1>3. ASSUME NEW t \in Threads, CancelRun(t) PROVE RunIsCancellable'
  <2>1. \A u \in Threads : registry'[u].token = registry[u].token
    BY <1>3 DEF CancelRun, Entry
  <2> QED
    BY <1>3, <2>1, CancelMoves, AgentControlAssumption DEF RunIsCancellable
<1>4. ASSUME Crash PROVE RunIsCancellable'
  BY <1>0, <1>4 DEF Crash, RunIsCancellable, InTurn
<1>5. ASSUME UNCHANGED registry, \A d \in Calls : calls'[d].at \in InTurn => calls[d].at \in InTurn
      PROVE  RunIsCancellable'
  BY <1>5 DEF RunIsCancellable
<1>6. ASSUME NEW c \in Calls,
             \/ \E q \in Calls, decision \in Decisions :
                  ResumeRun(c, q, decision) \/ RefuseResume(c, q, decision)
             \/ Drop(c)
      PROVE  RunIsCancellable'
  <2>1. PICK k : Becomes(c, k) /\ k.at \notin InTurn
    <3>1. CASE \E how \in {"refused", "dropped"} : Becomes(c, Ended(how))
      BY <1>0, <3>1 DEF InTurn
    <3>2. ASSUME NEW q \in Calls, Becomes(c, [calls[c] EXCEPT !.at = "accepted", !.answers = q])
          PROVE  \E k : Becomes(c, k) /\ k.at \notin InTurn
      <4>1. [calls[c] EXCEPT !.at = "accepted", !.answers = q].at \notin InTurn
        BY DEF Call, InTurn
      <4> QED
        BY <3>2, <4>1
    <3> QED
      BY <1>6, <3>1, <3>2, CallSteps
  <2>2. UNCHANGED registry
    BY <1>6 DEF ResumeRun, RefuseResume, Drop
  <2> QED
    BY <1>5, <2>1, <2>2 DEF Becomes
<1>7. ASSUME NEW c \in Calls,
             \/ LoadCheckpoint(c) \/ RunLoop(c) \/ RunLoopFails(c)
             \/ SaveCheckpoint(c) \/ SpawnWrite(c)
      PROVE  RunIsCancellable'
  <2>1. calls[c].at \in InTurn /\ \E k : Becomes(c, k)
    BY <1>7, CallSteps, SaveSteps DEF InTurn, Saves
  <2>2. UNCHANGED registry
    BY <1>7 DEF LoadCheckpoint, RunLoop, RunLoopFails, SaveCheckpoint, SpawnWrite
  <2> QED
    BY <1>5, <2>1, <2>2 DEF Becomes
<1>8. ASSUME UNCHANGED <<registry, calls>> PROVE RunIsCancellable'
  BY <1>8 DEF RunIsCancellable
<1> QED
  BY <1>1, <1>2, <1>3, <1>4, <1>6, <1>7, <1>8 DEF Next, Handler, Evict, PgWrite, vars

\* While the calls on a thread do not overlap, cancel_run finds the token of the
\* turn that runs, whatever fails, is dropped, evicted or crashes.
THEOREM RunsAreCancellable ==
  ASSUME OneByOne
  PROVE  Spec => []RunIsCancellable
<1>1. Init => Alone /\ RunIsCancellable
  BY DEF Init, Alone, RunIsCancellable, Busy, NewCall, InTurn
<1>2. TypeOK /\ Alone /\ RunIsCancellable /\ [Next]_vars => Alone' /\ RunIsCancellable'
  BY AloneStep, CancellableStep
<1> QED
  BY <1>1, <1>2, TypeCorrect, PTL DEF Spec

--------------------------------------------------------------------------------
(* What a call knows of its thread *)

\* A fact with the value of an entry, a checkpoint or a call as it is.
LEMMA Known ==
  ASSUME TypeOK, NEW c \in Calls
  PROVE  /\ ThreadOf[c] \in Threads
         /\ calls[c] \in Call /\ calls[c].copy \in Checkpoint
         /\ redis[ThreadOf[c]] \in Checkpoint
         /\ \A at : [calls[c] EXCEPT !.at = at].at = at
         /\ \A at : [calls[c] EXCEPT !.at = at].copy = calls[c].copy
         /\ \A at : [calls[c] EXCEPT !.at = at].answers = calls[c].answers
         /\ \A how : Ended(how).at = how
BY AgentControlAssumption DEF TypeOK, Call, Ended, NewCall

\* Redis has what was saved last: a load finds it there.
LEMMA LoadIsHot ==
  ASSUME NEW t \in Threads, ThreadFits(t)
  PROVE  Load(t) = redis[t]
BY DEF ThreadFits, Load

\* The step of call c shows at most on its own thread.
Elsewhere(c) ==
  /\ \A d \in Calls \ {c} : calls'[d] = calls[d]
  /\ \A t \in Threads \ {ThreadOf[c]} : registry'[t] = registry[t] /\ redis'[t] = redis[t]

\* Calls that are not busy know only that they have not been served.
LEMMA OthersFit ==
  ASSUME TypeOK, \A d \in Calls : CallFits(d), NEW c \in Calls, Elsewhere(c),
         \A d \in Calls \ {c} : ThreadOf[d] = ThreadOf[c] => ~Busy(d),
         NEW a,
         redis'[ThreadOf[c]].history \in
           {redis[ThreadOf[c]].history,
            Append(redis[ThreadOf[c]].history, [call |-> c, answers |-> a])}
  PROVE  \A d \in Calls \ {c} : CallFits(d)'
<1> SUFFICES ASSUME NEW d \in Calls \ {c} PROVE CallFits(d)'
  OBVIOUS
<1>1. calls'[d] = calls[d] /\ ThreadOf[d] \in Threads
  BY Known DEF Elsewhere
<1>2. CASE ThreadOf[d] # ThreadOf[c]
  <2>1. /\ registry'[ThreadOf[d]] = registry[ThreadOf[d]]
        /\ redis'[ThreadOf[d]] = redis[ThreadOf[d]]
    BY <1>1, <1>2 DEF Elsewhere
  <2> QED
    BY <1>1, <2>1 DEF CallFits, NotYet
<1>3. CASE ThreadOf[d] = ThreadOf[c]
  <2> DEFINE old == redis[ThreadOf[c]].history
  <2>1. calls[d].at \notin InTurn \cup {"accepted"}
    BY <1>3 DEF Busy
  <2>2. NotYet(d) => NotYet(d)'
    <3>1. old \in Seq(Turn)
      BY Known DEF Checkpoint
    <3>2. ASSUME NotYet(d) PROVE \A i \in 1 .. Len(old) : old[i].call # d
      BY <1>3, <3>2 DEF NotYet
    <3>3. ASSUME NotYet(d), redis'[ThreadOf[c]].history = old PROVE NotYet(d)'
      BY <1>3, <3>2, <3>3 DEF NotYet
    <3>4. ASSUME NotYet(d),
                 redis'[ThreadOf[c]].history = Append(old, [call |-> c, answers |-> a])
          PROVE  NotYet(d)'
      <4> DEFINE turn == [call |-> c, answers |-> a]
                 new == Append(old, turn)
      <4>1. turn.call = c
        OBVIOUS
      <4> HIDE DEF turn
      <4>2. /\ Len(new) = Len(old) + 1 /\ Len(old) \in Nat
            /\ \A i \in 1 .. Len(old) : new[i] = old[i]
            /\ new[Len(old) + 1] = turn
        BY <3>1
      <4>3. \A i \in 1 .. Len(new) : new[i].call # d
        BY <3>2, <3>4, <4>1, <4>2
      <4>4. redis'[ThreadOf[d]].history = new
        BY <1>3, <3>4 DEF turn
      <4> HIDE DEF new
      <4> QED
        BY <4>3, <4>4 DEF NotYet
    <3> QED
      BY <3>3, <3>4
  <2>3. calls[d].at \in Unsaved => calls[d].at = "idle"
    BY <2>1 DEF Unsaved, InTurn
  <2>4. calls[d].at \notin {"loaded", "stored", "saved", "ran"}
    BY <2>1 DEF InTurn
  <2> QED
    BY <1>1, <2>1, <2>2, <2>3, <2>4 DEF CallFits, Unsaved
<1> QED
  BY <1>2, <1>3

\* A step that leaves the registry and Redis alone disturbs no other call.
LEMMA QuietFits ==
  ASSUME \A d \in Calls : CallFits(d), NEW c \in Calls, UNCHANGED <<registry, redis>>,
         \A d \in Calls \ {c} : calls'[d] = calls[d]
  PROVE  \A d \in Calls \ {c} : CallFits(d)'
<1> SUFFICES ASSUME NEW d \in Calls \ {c} PROVE CallFits(d)'
  OBVIOUS
<1>1. registry' = registry /\ redis' = redis /\ calls'[d] = calls[d]
  OBVIOUS
<1>2. CallFits(d)
  OBVIOUS
<1> QED
  BY <1>1, <1>2 DEF CallFits, NotYet

\* Nor does it disturb what a thread's stores have in common.
LEMMA ThreadKept ==
  ASSUME NEW t \in Threads, ThreadFits(t), redis'[t] = redis[t], pg'[t] = pg[t],
         registry'[t] = registry[t] \/ registry'[t].status # "requires_action",
         \A w \in writes' : w.thread = t => w \in writes
  PROVE  ThreadFits(t)'
BY DEF ThreadFits

Fit == (\A c \in Calls : CallFits(c)) /\ (\A t \in Threads : ThreadFits(t))

\* What a handler leaves after an action that touches neither registry nor Redis.
LEMMA QuietStep ==
  ASSUME Fit, NEW c \in Calls, NEW k, Becomes(c, k), UNCHANGED <<registry, redis, pg>>,
         \A w \in writes' : w \in writes \/ (w.thread = ThreadOf[c] /\ redis[ThreadOf[c]] # Fresh),
         CallFits(c)'
  PROVE  Fit'
<1>1. \A d \in Calls : CallFits(d)'
  BY QuietFits DEF Fit, Becomes
<1>2. \A t \in Threads : ThreadFits(t)'
  BY DEF Fit, ThreadFits
<1> QED
  BY <1>1, <1>2 DEF Fit

--------------------------------------------------------------------------------
(* The handlers, one call at a time *)

LEMMA BeginFits ==
  ASSUME OneByOne, TypeOK, Alone, Fit, NEW c \in Calls, SendMessage(c) \/ MarkRunning(c)
  PROVE  Fit'
<1>1. \A d \in Calls \ {c} : ThreadOf[d] = ThreadOf[c] => ~Busy(d)
  <2>1. CASE SendMessage(c)
    BY <2>1, NobodyElse DEF SendMessage
  <2>2. CASE MarkRunning(c)
    BY <2>2, CallSteps DEF Alone, Busy
  <2> QED
    BY <2>1, <2>2
<1>2. /\ calls[c].at \in {"idle", "accepted"}
      /\ Becomes(c, [calls[c] EXCEPT !.at = "marked"])
  BY CallSteps
<1>3. /\ registry' = [registry EXCEPT ![ThreadOf[c]] = Running(c)]
      /\ UNCHANGED stores
  BY DEF SendMessage, MarkRunning
<1>4. /\ registry'[ThreadOf[c]].status = "running"
      /\ \A t \in Threads \ {ThreadOf[c]} : registry'[t] = registry[t]
  BY <1>3, Known DEF TypeOK, Running
<1>5. Elsewhere(c)
  BY <1>2, <1>3, <1>4 DEF Elsewhere, Becomes, stores
<1>6. \A d \in Calls \ {c} : CallFits(d)'
  BY <1>1, <1>3, <1>5, OthersFit DEF Fit, stores
<1>7. CallFits(c)'
  <2>1. CallFits(c)
    BY DEF Fit
  <2>2. calls'[c].at = "marked" /\ calls'[c].answers = calls[c].answers
    BY <1>2, Known DEF Becomes
  <2> QED
    BY <1>2, <1>3, <1>4, <2>1, <2>2 DEF CallFits, NotYet, Unsaved, stores
<1>8. \A t \in Threads : ThreadFits(t)'
  BY <1>3, <1>4, ThreadKept DEF Fit, stores
<1> QED
  BY <1>6, <1>7, <1>8 DEF Fit

LEMMA RespondFits ==
  ASSUME TypeOK, Fit, NEW c \in Calls, NEW q \in Calls, NEW decision,
         ResumeRun(c, q, decision) \/ RefuseResume(c, q, decision)
  PROVE  Fit'
<1> USE DEF stores
<1>1. UNCHANGED <<registry, redis, pg, writes>>
  BY DEF ResumeRun, RefuseResume
<1>2. CASE ResumeRun(c, q, decision)
  <2> DEFINE k == [calls[c] EXCEPT !.at = "accepted", !.answers = q]
  <2>1. calls[c].at = "idle" /\ Becomes(c, k)
    BY <1>2, CallSteps
  <2>2. k.at = "accepted" /\ k.answers = q
    BY Known DEF Call
  <2>3. redis[ThreadOf[c]].pending = q
    BY <1>2, Known, LoadIsHot DEF Fit, ResumeRun
  <2>4. CallFits(c)
    BY DEF Fit
  <2> HIDE DEF k
  <2>5. CallFits(c)'
    BY <1>1, <2>1, <2>2, <2>3, <2>4 DEF CallFits, NotYet, Becomes, Unsaved, InTurn
  <2> QED
    BY <1>1, <2>1, <2>5, QuietStep
<1>3. CASE RefuseResume(c, q, decision)
  <2>1. Becomes(c, Ended("refused"))
    BY <1>3, CallSteps
  <2>2. CallFits(c)'
    BY <2>1, Known DEF CallFits, Becomes, Unsaved, InTurn
  <2> QED
    BY <1>1, <2>1, <2>2, QuietStep
<1> QED
  BY <1>2, <1>3

LEMMA TurnFits ==
  ASSUME TypeOK, Fit, NEW c \in Calls,
         \/ LoadCheckpoint(c) \/ RunLoop(c) \/ RunLoopFails(c) \/ SpawnWrite(c) \/ Drop(c)
  PROVE  Fit'
<1> USE DEF stores
<1>0. CallFits(c)
  BY DEF Fit
<1>1. CASE LoadCheckpoint(c)
  <2>1. UNCHANGED <<registry, redis, pg, writes>> /\ calls[c].at = "marked"
    BY <1>1, CallSteps DEF LoadCheckpoint
  <2>2. CASE Becomes(c, [calls[c] EXCEPT !.at = "failing"])
    <3>1. CallFits(c)'
      BY <1>0, <2>1, <2>2, Known DEF CallFits, Becomes, Unsaved, InTurn
    <3> QED
      BY <2>1, <2>2, <3>1, QuietStep
  <2>3. CASE Becomes(c, [calls[c] EXCEPT !.at = "loaded", !.copy = Load(ThreadOf[c])])
    <3> DEFINE k == [calls[c] EXCEPT !.at = "loaded", !.copy = Load(ThreadOf[c])]
    <3>1. k.at = "loaded" /\ k.copy = redis[ThreadOf[c]] /\ k.answers = calls[c].answers
      BY Known, LoadIsHot DEF Fit, Call
    <3> HIDE DEF k
    <3>2. Becomes(c, k)
      BY <2>3 DEF k
    <3>3. CallFits(c)'
      BY <1>0, <2>1, <3>1, <3>2 DEF CallFits, NotYet, Becomes, Unsaved, InTurn
    <3> QED
      BY <2>1, <3>2, <3>3, QuietStep
  <2> QED
    BY <1>1, <2>2, <2>3, CallSteps
<1>2. CASE RunLoop(c)
  <2>1. UNCHANGED <<registry, redis, pg, writes>> /\ calls[c].at = "loaded"
    BY <1>2, CallSteps DEF RunLoop
  <2>2. PICK outcome \in Outcomes :
          Becomes(c, [calls[c] EXCEPT !.at = "ran", !.outcome = outcome,
                                      !.copy = NextCheckpoint(c, outcome)])
    BY <1>2, CallSteps
  <2> DEFINE k == [calls[c] EXCEPT !.at = "ran", !.outcome = outcome,
                                   !.copy = NextCheckpoint(c, outcome)]
  <2>3. k.at = "ran" /\ k.copy = NextCheckpoint(c, outcome) /\ k.answers = calls[c].answers
    BY Known DEF Call
  <2> HIDE DEF k
  <2>4. Becomes(c, k)
    BY <2>2 DEF k
  <2>5. calls[c].copy = redis[ThreadOf[c]]
    BY <1>0, <2>1 DEF CallFits
  <2>6. /\ k.copy.history = Append(redis[ThreadOf[c]].history,
                                   [call |-> c, answers |-> calls[c].answers])
        /\ k.copy.pending \in {c, None}
    BY <2>3, <2>5 DEF NextCheckpoint
  <2>7. CallFits(c)'
    BY <1>0, <2>1, <2>3, <2>4, <2>6 DEF CallFits, NotYet, Becomes, Unsaved, InTurn
  <2> QED
    BY <2>1, <2>4, <2>7, QuietStep
<1>3. CASE RunLoopFails(c)
  <2>1. UNCHANGED <<registry, redis, pg, writes>>
    BY <1>3 DEF RunLoopFails
  <2>2. calls[c].at = "loaded" /\ Becomes(c, [calls[c] EXCEPT !.at = "failing"])
    BY <1>3, CallSteps
  <2>3. CallFits(c)'
    BY <1>0, <2>1, <2>2, Known DEF CallFits, Becomes, Unsaved, InTurn
  <2> QED
    BY <2>1, <2>2, <2>3, QuietStep
<1>4. CASE SpawnWrite(c)
  <2>1. /\ UNCHANGED <<registry, redis, pg>>
        /\ writes' = writes \cup {[thread |-> ThreadOf[c], data |-> calls[c].copy]}
    BY <1>4 DEF SpawnWrite
  <2>2. calls[c].at = "stored" /\ Becomes(c, [calls[c] EXCEPT !.at = "saved"])
    BY <1>4, CallSteps
  <2>3. redis[ThreadOf[c]] # Fresh
    BY <1>0, <2>2 DEF CallFits
  <2>4. CallFits(c)'
    BY <1>0, <2>1, <2>2, Known DEF CallFits, Becomes, Unsaved, InTurn
  <2>5. \A w \in writes' : w \in writes \/ (w.thread = ThreadOf[c] /\ redis[ThreadOf[c]] # Fresh)
    BY <2>1, <2>3
  <2> QED
    BY <2>1, <2>2, <2>4, <2>5, QuietStep
<1>5. CASE Drop(c)
  <2>1. UNCHANGED <<registry, redis, pg, writes>> /\ Becomes(c, Ended("dropped"))
    BY <1>5, CallSteps DEF Drop
  <2>2. CallFits(c)'
    BY <2>1, Known DEF CallFits, Becomes, Unsaved, InTurn
  <2> QED
    BY <2>1, <2>2, QuietStep
<1> QED
  BY <1>1, <1>2, <1>3, <1>4, <1>5

\* The turn is added to the history it was loaded with, which nobody changed.
LEMMA SaveFits ==
  ASSUME TypeOK, Alone, Fit, NEW c \in Calls, SaveCheckpoint(c)
  PROVE  Fit'
<1>1. PICK ok, applied \in BOOLEAN : Saves(c, ok, applied)
  BY SaveSteps
<1>2. UNCHANGED <<registry, pg, writes>>
  BY DEF SaveCheckpoint
<1>3. \A d \in Calls \ {c} : ThreadOf[d] = ThreadOf[c] => ~Busy(d)
  BY <1>1 DEF Saves, Alone, Busy, InTurn
<1> DEFINE t == ThreadOf[c]
           turn == [call |-> c, answers |-> calls[c].answers]
<1>4. /\ redis'[t] = IF applied THEN calls[c].copy ELSE redis[t]
      /\ \A u \in Threads \ {t} : redis'[u] = redis[u]
  BY <1>1, Known DEF Saves, TypeOK
<1>5. /\ registry[t].status # "requires_action"
      /\ calls[c].copy.history = Append(redis[t].history, turn)
  BY <1>1 DEF Fit, CallFits, Saves, InTurn
<1>6. calls[c].copy # Fresh
  <2>1. redis[t].history \in Seq(Turn) /\ turn \in Turn
    BY Known DEF Checkpoint, Call, Turn
  <2> HIDE DEF turn
  <2>2. Append(redis[t].history, turn) # <<>>
    BY <2>1
  <2> QED
    BY <1>5, <2>2 DEF Fresh
<1>7. Elsewhere(c)
  BY <1>1, <1>2, <1>4 DEF Elsewhere, Saves, Becomes
<1>8. \A d \in Calls \ {c} : CallFits(d)'
  <2>1. redis'[ThreadOf[c]].history \in
          {redis[ThreadOf[c]].history,
           Append(redis[ThreadOf[c]].history,
                  [call |-> c, answers |-> calls[c].answers])}
    BY <1>4, <1>5
  <2>2. \A d \in Calls : CallFits(d)
    BY DEF Fit
  <2> HIDE DEF t, turn
  <2> QED
    BY <1>3, <1>7, <2>1, <2>2, OthersFit
<1>9. CallFits(c)'
  <2>1. calls'[c].at \in {"stored", "failing"} /\ calls'[c].copy = calls[c].copy
    BY <1>1, Known DEF Saves, Becomes
  <2>2. calls'[c].at = "stored" => applied
    BY <1>1, Known DEF Saves, Becomes
  <2>3. calls'[c].at \notin Unsaved /\ calls'[c].at \notin {"idle", "loaded", "saved", "ran"}
    BY <2>1 DEF Unsaved
  <2>4. registry'[t].status # "requires_action"
    BY <1>2, <1>5
  <2> QED
    BY <1>4, <1>6, <2>1, <2>2, <2>3, <2>4 DEF CallFits
<1>10. ThreadFits(t)'
  <2>1. registry'[t].status # "requires_action"
    BY <1>2, <1>5
  <2>2. CASE applied
    BY <1>4, <1>6, <2>1, <2>2 DEF ThreadFits
  <2>3. CASE ~applied
    <3>1. ThreadFits(t)
      BY Known DEF Fit
    <3> QED
      BY <1>2, <1>4, <2>3, <3>1, Known, ThreadKept
  <2> QED
    BY <2>2, <2>3
<1>11. \A u \in Threads \ {t} : ThreadFits(u)'
  BY <1>2, <1>4, ThreadKept DEF Fit
<1> QED
  BY <1>8, <1>9, <1>10, <1>11 DEF Fit

\* The entry reports what is in Redis.
LEMMA EndFits ==
  ASSUME TypeOK, Alone, Fit, NEW c \in Calls, ApplyOutput(c) \/ MarkIdle(c)
  PROVE  Fit'
<1> DEFINE t == ThreadOf[c]
<1>1. /\ calls[c].at \in {"saved", "failing"} /\ Becomes(c, Ended("done"))
      /\ UNCHANGED <<redis, pg, writes>>
  BY CallSteps DEF ApplyOutput, MarkIdle, stores
<1>2. \A d \in Calls \ {c} : ThreadOf[d] = ThreadOf[c] => ~Busy(d)
  BY <1>1 DEF Alone, Busy, InTurn
<1>3. /\ \A u \in Threads \ {t} : registry'[u] = registry[u]
      /\ registry'[t].status = "requires_action" => registry'[t].request = redis[t].pending
  <2>1. CASE ApplyOutput(c)
    <3>1. calls[c].copy = redis[t]
      BY <2>1, CallSteps DEF Fit, CallFits
    <3>2. registry' = [registry EXCEPT ![t] = OutputEntry(c)]
      BY <2>1 DEF ApplyOutput
    <3>3. OutputEntry(c).status = "requires_action" => OutputEntry(c).request = redis[t].pending
      <4>1. CASE calls[c].outcome = "paused"
        BY <3>1, <4>1 DEF OutputEntry
      <4>2. CASE calls[c].outcome = "cancelled"
        BY <4>2 DEF OutputEntry, Idle
      <4>3. CASE calls[c].outcome \notin {"paused", "cancelled"}
        BY <4>3 DEF OutputEntry, Idle
      <4> QED
        BY <4>1, <4>2, <4>3
    <3> QED
      BY <3>2, <3>3, Known DEF TypeOK
  <2>2. CASE MarkIdle(c)
    BY <2>2, Known DEF MarkIdle, Idle, TypeOK
  <2> QED
    BY <2>1, <2>2
<1>4. Elsewhere(c)
  BY <1>1, <1>3 DEF Elsewhere, Becomes
<1>5. \A d \in Calls \ {c} : CallFits(d)'
  BY <1>1, <1>2, <1>4, OthersFit DEF Fit
<1>6. CallFits(c)'
  BY <1>1, Known DEF CallFits, Becomes, Unsaved, InTurn
<1>7. ThreadFits(t)'
  <2>1. ThreadFits(t)
    BY Known DEF Fit
  <2> QED
    BY <1>1, <1>3, <2>1 DEF ThreadFits
<1>8. \A u \in Threads \ {t} : ThreadFits(u)'
  BY <1>1, <1>3, ThreadKept DEF Fit
<1> QED
  BY <1>5, <1>6, <1>7, <1>8 DEF Fit

\* The surroundings: no checkpoint leaves Redis.
LEMMA SurroundingsFit ==
  ASSUME NoEviction, TypeOK, Fit,
         \/ \E t \in Threads : CancelRun(t) \/ Evict(t)
         \/ \E w \in writes : PgWrite(w)
         \/ Crash
         \/ UNCHANGED vars
  PROVE  Fit'
<1> USE DEF stores
<1>1. ASSUME NEW t \in Threads, CancelRun(t) PROVE Fit'
  <2>1. /\ \A u \in Threads : registry'[u] = registry[u] \/ registry'[u].status = "cancelled"
        /\ UNCHANGED <<redis, pg, writes>>
    BY <1>1 DEF CancelRun, TypeOK, Entry
  <2>2. \A c \in Calls : /\ calls'[c].at = calls[c].at /\ calls'[c].copy = calls[c].copy
                         /\ calls'[c].answers = calls[c].answers
    BY <1>1 DEF CancelRun, TypeOK, Call
  <2>3. ASSUME NEW c \in Calls PROVE CallFits(c)'
    <3>1. CallFits(c) /\ ThreadOf[c] \in Threads
      BY Known DEF Fit
    <3> QED
      BY <2>1, <2>2, <3>1 DEF CallFits, NotYet
  <2>4. \A u \in Threads : ThreadFits(u)'
    BY <2>1, ThreadKept DEF Fit
  <2> QED
    BY <2>3, <2>4 DEF Fit
<1>2. ASSUME NEW t \in Threads, Evict(t) PROVE FALSE
  BY <1>2 DEF Evict, NoEviction, TypeOK
<1>3. ASSUME NEW w \in writes, PgWrite(w) PROVE Fit'
  <2>1. /\ UNCHANGED <<registry, redis, calls>> /\ writes' \subseteq writes
        /\ \A t \in Threads : pg'[t] = pg[t] \/ t = w.thread
    BY <1>3 DEF PgWrite, TypeOK
  <2>2. \A c \in Calls : CallFits(c)'
    BY <2>1 DEF Fit, CallFits, NotYet
  <2>3. ASSUME NEW t \in Threads PROVE ThreadFits(t)'
    BY <2>1 DEF Fit, ThreadFits
  <2> QED
    BY <2>2, <2>3 DEF Fit
<1>4. ASSUME Crash PROVE Fit'
  <2>1. /\ UNCHANGED <<redis, pg>> /\ writes' = {}
        /\ \A t \in Threads : registry'[t].status = "absent"
    BY <1>4 DEF Crash, Absent
  <2>2. \A t \in Threads : ThreadFits(t)'
    BY <2>1 DEF Fit, ThreadFits
  <2>3. ASSUME NEW c \in Calls PROVE CallFits(c)'
    <3>1. CallFits(c) /\ ThreadOf[c] \in Threads
      BY Known DEF Fit
    <3>2. CASE calls'[c] = Ended("dropped")
      BY <3>2, Known DEF CallFits, Unsaved, InTurn
    <3>3. CASE calls'[c] = calls[c]
      BY <2>1, <3>1, <3>3 DEF CallFits, NotYet
    <3> QED
      BY <1>4, <3>2, <3>3 DEF Crash
  <2> QED
    BY <2>2, <2>3 DEF Fit
<1>5. ASSUME UNCHANGED vars PROVE Fit'
  BY <1>5 DEF vars, Fit, CallFits, NotYet, ThreadFits
<1> QED
  BY <1>1, <1>2, <1>3, <1>4, <1>5

LEMMA SerialStep == OneByOne /\ NoEviction /\ SerialInv /\ [Next]_vars => SerialInv'
<1> SUFFICES ASSUME OneByOne, NoEviction, SerialInv, [Next]_vars PROVE SerialInv'
  OBVIOUS
<1>1. TypeOK /\ PendingIsLast /\ Alone /\ Fit
  BY DEF SerialInv, Fit
<1>2. TypeOK' /\ PendingIsLast' /\ Alone'
  BY <1>1, TypeStep, AsksStep, AloneStep
<1>3. Fit'
  <2>1. ASSUME NEW c \in Calls,
               \/ SendMessage(c) \/ MarkRunning(c)
               \/ LoadCheckpoint(c) \/ RunLoop(c) \/ RunLoopFails(c) \/ SpawnWrite(c)
               \/ Drop(c)
               \/ SaveCheckpoint(c)
               \/ ApplyOutput(c) \/ MarkIdle(c)
        PROVE  Fit'
    BY <1>1, <2>1, BeginFits, TurnFits, SaveFits, EndFits
  <2>2. ASSUME NEW c \in Calls, NEW q \in Calls, NEW decision \in Decisions,
               ResumeRun(c, q, decision) \/ RefuseResume(c, q, decision)
        PROVE  Fit'
    BY <1>1, <2>2, RespondFits
  <2>3. CASE \/ \E t \in Threads : CancelRun(t) \/ Evict(t)
             \/ \E w \in writes : PgWrite(w)
             \/ Crash
             \/ UNCHANGED vars
    BY <1>1, <2>3, SurroundingsFit
  <2> QED
    BY <2>1, <2>2, <2>3 DEF Next, Handler
<1> QED
  BY <1>2, <1>3 DEF SerialInv, Fit

LEMMA SerialInit == Init => SerialInv
<1> SUFFICES ASSUME Init PROVE SerialInv
  OBVIOUS
<1>1. TypeOK
  BY TypeInit
<1>2. PendingIsLast
  BY DEF Init, PendingIsLast, AsksLast, Fresh, NewCall
<1>3. Alone
  BY DEF Init, Alone, Busy, NewCall, InTurn
<1>4. ASSUME NEW c \in Calls PROVE CallFits(c)
  <2>1. calls[c] = NewCall /\ redis[ThreadOf[c]] = Fresh
    BY Known, <1>1 DEF Init
  <2>2. Len(Fresh.history) = 0
    BY DEF Fresh
  <2> QED
    BY <2>1, <2>2 DEF CallFits, NotYet, NewCall, InTurn, Unsaved
<1>5. ASSUME NEW t \in Threads PROVE ThreadFits(t)
  BY DEF Init, ThreadFits, Absent
<1> QED
  BY <1>1, <1>2, <1>3, <1>4, <1>5 DEF SerialInv

\* SerialInv is an invariant of the control plane for calls that come one after
\* the other, with failing stores, dropped handlers and crashes in between.
THEOREM SerialInductive ==
  ASSUME OneByOne, NoEviction
  PROVE  Spec => []SerialInv
BY SerialInit, SerialStep, PTL DEF Spec

\* The request that the registry reports for a paused thread is the one that
\* resume_run accepts.
THEOREM RequestsArePending ==
  ASSUME OneByOne, NoEviction
  PROVE  Spec => []RequestIsPending
<1>1. SerialInv => RequestIsPending
  BY LoadIsHot DEF SerialInv, ThreadFits, RequestIsPending
<1> QED
  BY <1>1, SerialInductive, PTL

--------------------------------------------------------------------------------
(* The refinement of Conversation *)

\* A step that leaves Redis alone is a stutter of the conversation.
LEMMA HotStays == UNCHANGED redis => UNCHANGED Talk!vars
BY DEF Talk!vars, hotHistory, hotRequest

LEMMA InitTalks == Init => Talk!Init
BY DEF Init, Talk!Init, hotHistory, hotRequest, Fresh

\* A checkpoint that reaches Redis adds its turn to the conversation.
LEMMA SaveTalks ==
  ASSUME SerialInv, NEW c \in Calls, SaveCheckpoint(c)
  PROVE  [Talk!Next]_(Talk!vars)
<1>1. PICK ok, applied \in BOOLEAN : Saves(c, ok, applied)
  BY SaveSteps DEF SerialInv
<1> DEFINE t == ThreadOf[c]
           a == calls[c].answers
<1>2. t \in Threads /\ redis \in [Threads -> Checkpoint]
  BY Known DEF SerialInv, TypeOK
<1>3. CASE ~applied
  <2>1. redis' = redis
    BY <1>1, <1>2, <1>3 DEF Saves
  <2> QED
    BY <2>1, HotStays
<1>4. CASE applied
  <2>1. redis' = [redis EXCEPT ![t] = calls[c].copy]
    BY <1>1, <1>4 DEF Saves
  <2>2. /\ calls[c].copy.history = Append(redis[t].history, [call |-> c, answers |-> a])
        /\ calls[c].copy.pending \in {c, None}
        /\ NotYet(c) /\ a \in {None, redis[t].pending}
    BY <1>1 DEF SerialInv, CallFits, Saves, Unsaved
  <2>3. hotHistory[t] = redis[t].history /\ hotRequest[t] = redis[t].pending
    BY <1>2 DEF hotHistory, hotRequest
  <2>4. hotHistory' = [hotHistory EXCEPT ![t] = Append(@, [call |-> c, answers |-> a])]
    BY <1>2, <2>1, <2>2 DEF hotHistory
  <2>5. hotRequest' = [hotRequest EXCEPT ![t] = calls[c].copy.pending]
    BY <1>2, <2>1 DEF hotRequest
  <2>6. Talk!Add(c, a)
    BY <2>2, <2>3, <2>4, <2>5 DEF Talk!Add, NotYet
  <2>7. CASE a = None
    BY <2>6, <2>7 DEF Talk!Next, Talk!Say
  <2>8. CASE a # None
    <3>1. a = redis[t].pending
      BY <2>2, <2>8
    <3>2. redis[t].history[Len(redis[t].history)].call = redis[t].pending
      BY <1>2, <2>8, <3>1 DEF SerialInv, PendingIsLast, AsksLast
    <3>3. Talk!Answer(c)
      BY <2>3, <2>6, <2>8, <3>1, <3>2 DEF Talk!Answer
    <3> QED
      BY <3>3 DEF Talk!Next
  <2> QED
    BY <2>7, <2>8
<1> QED
  BY <1>3, <1>4

LEMMA StepTalks ==
  NoEviction /\ SerialInv /\ [Next]_vars => [Talk!Next]_(Talk!vars)
<1> SUFFICES ASSUME NoEviction, SerialInv, [Next]_vars PROVE [Talk!Next]_(Talk!vars)
  OBVIOUS
<1>1. ASSUME NEW t \in Threads, Evict(t) PROVE FALSE
  BY <1>1 DEF Evict, NoEviction, SerialInv, TypeOK
<1>2. ASSUME NEW c \in Calls,
             \/ SendMessage(c) \/ MarkRunning(c) \/ LoadCheckpoint(c) \/ RunLoop(c)
             \/ RunLoopFails(c) \/ SpawnWrite(c) \/ ApplyOutput(c) \/ MarkIdle(c)
             \/ Drop(c)
      PROVE  UNCHANGED redis
  BY <1>2 DEF SendMessage, MarkRunning, LoadCheckpoint, RunLoop, RunLoopFails, SpawnWrite,
              ApplyOutput, MarkIdle, Drop, stores
<1>3. ASSUME NEW c \in Calls, NEW q \in Calls, NEW decision \in Decisions,
             ResumeRun(c, q, decision) \/ RefuseResume(c, q, decision)
      PROVE  UNCHANGED redis
  BY <1>3 DEF ResumeRun, RefuseResume, stores
<1>4. ASSUME \/ \E t \in Threads : CancelRun(t)
             \/ \E w \in writes : PgWrite(w)
             \/ Crash
             \/ UNCHANGED vars
      PROVE  UNCHANGED redis
  BY <1>4 DEF CancelRun, PgWrite, Crash, vars, stores
<1> QED
  BY <1>1, <1>2, <1>3, <1>4, SaveTalks, HotStays DEF Next, Handler

\* While calls do not overlap, what Redis keeps of a thread is a conversation:
\* no turn is lost or repeated, and an answer directly follows its question.
THEOREM ConversationIsKept ==
  ASSUME OneByOne, NoEviction
  PROVE  Spec => ImplementsConversation
BY InitTalks, StepTalks, SerialInductive, PTL
   DEF Spec, ImplementsConversation, Talk!Spec
================================================================================
