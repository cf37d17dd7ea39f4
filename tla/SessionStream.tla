----------------------------- MODULE SessionStream -----------------------------
(***************************************************************************)
(* SessionRun with the clients that watch its runs: the stream_events      *)
(* handler of infra/grpc/execution_service.rs.                             *)
(*                                                                         *)
(* Every handler reads the run's stream on its own.  A completed verdict   *)
(* is not forwarded as it is: the handler takes the run's receiver out of  *)
(* the CompletionRegistry and waits for the lifecycle task to send the     *)
(* stored message.  There is one receiver per run, so handlers compete.    *)
(***************************************************************************)
EXTENDS SessionRun

CONSTANT Clients   \* stream_events connections

VARIABLE view      \* what each client's handler has done, see Views

allVars == <<vars, view>>

\* The last frame that ends a turn for the client.  "absent", "dropped" and
\* "timeout" all go out as run.failed, "run finalization unavailable": no
\* receiver in the registry, sender dropped, COMPLETION_WAIT_TIMEOUT expired.
Unavailable == {"absent", "dropped", "timeout"}
Frames      == {"none", "completed", "failed"} \cup Unavailable

Views == [state : {"off", "reading", "waiting"},
          run   : Runs,
          pos   : Nat,        \* entries of the stream this handler has read
          frame : Frames,
          data  : Seq(Nat)]   \* content of the run.completed frame

Off == [state |-> "off", run |-> CHOOSE r \in Runs : TRUE, pos |-> 0,
        frame |-> "none", data |-> <<>>]

StreamInit == Init /\ view = [c \in Clients |-> Off]

\* A client knows the ids of the runs execute() has returned to it.
Returned(r) ==
  /\ task[r] \in InLifecycle \cup {"done", "dead"}
  /\ rows[r].status \notin {"absent", "pending", "deleted"}

\* find_by_id, then subscribe from the start of the stream.
StreamEvents(c, r) ==
  /\ up
  /\ view[c].state = "off"
  /\ Returned(r)
  /\ view' = [view EXCEPT ![c] = [Off EXCEPT !.state = "reading", !.run = r]]
  /\ UNCHANGED vars

\* completion_registry.remove(run_id).
Taken(r) == registry \ {r}

\* Handle the next event of the client's own subscription.
NextFrame(c) ==
  LET r == view[c].run
      p == view[c].pos + 1 IN
  /\ view[c].state = "reading"
  /\ p <= Len(stream[r])
  /\ \/ /\ stream[r][p] \in Pauses
        /\ view' = [view EXCEPT ![c].pos = p]
        /\ UNCHANGED registry
     \/ /\ stream[r][p] = "failed"
        /\ view' = [view EXCEPT ![c].pos = p, ![c].frame = "failed"]
        /\ UNCHANGED registry
     \/ /\ stream[r][p] = "completed"
        /\ r \in registry
        /\ registry' = Taken(r)
        /\ view' = [view EXCEPT ![c].pos = p, ![c].state = "waiting"]
     \/ /\ stream[r][p] = "completed"
        /\ r \notin registry
        /\ view' = [view EXCEPT ![c].pos = p, ![c].frame = "absent"]
        /\ UNCHANGED registry
  /\ UNCHANGED <<dbVars, task, mem, buf, pos, chan, agentVars, envVars>>

\* Mutant: no frame goes out.
AnswerSilently(c, frame, data) ==
  /\ view[c].state = "waiting"
  /\ view' = [view EXCEPT ![c].state = "reading"]
  /\ UNCHANGED vars

\* The wait for the completion data ends: with the data, with the sender
\* dropped, or with the timer while the sender is still open.
Answer(c, frame, data) ==
  /\ view[c].state = "waiting"
  /\ view' = [view EXCEPT ![c].state = "reading", ![c].frame = frame,
                          ![c].data = data]
  /\ UNCHANGED vars

\* Mutant: the data is read before the lifecycle task has sent it.
DataTaken(c)    == chan[view[c].run] \in {"open", "sent"} /\ Answer(c, "completed", buf[view[c].run])

DataArrives(c) == chan[view[c].run] = "sent" /\ Answer(c, "completed", buf[view[c].run])
SenderGone(c)  == chan[view[c].run] = "dropped" /\ Answer(c, "dropped", <<>>)
TimerFires(c)  == chan[view[c].run] = "open" /\ Answer(c, "timeout", <<>>)

\* The client goes away: its handler, and a receiver it may hold, are dropped.
Disconnect(c) ==
  /\ view[c].state # "off"
  /\ view' = [view EXCEPT ![c] = Off]
  /\ UNCHANGED vars

Client(c) == NextFrame(c) \/ DataArrives(c) \/ SenderGone(c)

\* A step of the session or the agent; a crash closes every connection.
SessionStep ==
  /\ Next
  /\ view' = IF up' THEN view ELSE [c \in Clients |-> Off]

StreamNext ==
  \/ SessionStep
  \/ \E c \in Clients : \/ \E r \in Runs : StreamEvents(c, r)
                        \/ Client(c) \/ TimerFires(c) \/ Disconnect(c)

StreamSpec == StreamInit /\ [][StreamNext]_allVars

\* The runtime also polls a handler that has something to do.  The ten-second
\* timer is left unfair: nothing below may depend on it.
StreamFairSpec ==
  /\ StreamSpec
  /\ \A r \in Runs : WF_allVars(Lifecycle(r) /\ UNCHANGED view)
  /\ \A c \in Clients : WF_allVars(Client(c))

--------------------------------------------------------------------------------
(* Properties *)

\* A client is told run.completed only with the content of the assistant
\* message that is stored for the run, so a client that re-fetches the thread
\* finds what it was shown; the thread may have been deleted meanwhile.
CompletedFrameIsStored ==
  \A c \in Clients : view[c].frame = "completed" =>
    \/ replies[view[c].run] = <<view[c].data>>
    \/ rows[view[c].run].status = "deleted"

\* A client that stays connected to a run whose verdict is in the stream gets
\* a frame that tells it so, also when it waits for the completion data: every
\* path through finalize_run releases it, without its ten-second timer.
VerdictIsShown ==
  \A c \in Clients, r \in Runs :
    view[c].state # "off" /\ view[c].run = r /\ Reported(r)
      ~> view[c].frame # "none" \/ view[c].state = "off"
================================================================================
