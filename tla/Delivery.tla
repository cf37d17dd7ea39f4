-------------------------------- MODULE Delivery --------------------------------
(***************************************************************************)
(* From the loops of a turn to the screen: the events of the turn's own     *)
(* loop and of its sub-agents, on their way through the event bus and the   *)
(* Redis stream of the run to the connections that watch it.               *)
(*                                                                         *)
(*   kernel/loop.rs, kernel/event_bus.rs, subagents/spawn.rs    emitting   *)
(*   runtime/assembler.rs, store/redis/event.rs                 writing    *)
(*   session: infra/redis/event_stream.rs                       reading    *)
(*   session: infra/grpc/{execution_service,event_projection}.rs           *)
(*   gateway: handlers/session/events.rs                        showing    *)
(*                                                                         *)
(* Which events a loop emits is AgentLoop's, what a completed run is shown  *)
(* as SessionStream's.  The stream is kept here as all that was ever written *)
(* and a count of what was trimmed.                                        *)
(***************************************************************************)
EXTENDS Naturals, Sequences, FiniteSets

CONSTANTS
  Turns,        \* what the loop of a turn emits: sequences of [type, id]
  Agents,       \* ids of the tool uses that call the Agent tool
  SubEvents,    \* what the loop of a sub-agent emits
  Clients,
  MaxLen,       \* MAXLEN of XADD
  ReadCount,    \* READ_COUNT
  ChannelSize,  \* of the subscription's channel
  FirstId,      \* id of the first entry: Redis counts milliseconds
  MaxFaults,    \* bound: failing writes
  MaxConnects   \* bound: connections of a client

ASSUME DeliveryAssumption ==
  /\ \A events \in Turns \cup {SubEvents} : events \in Seq([type : STRING, id : STRING])
  /\ MaxLen \in Nat /\ FirstId \in Nat /\ MaxFaults \in Nat /\ MaxConnects \in Nat
  /\ ReadCount \in Nat \ {0} /\ ChannelSize \in Nat \ {0}
  /\ {"loop", "spawn"} \cap Agents = {}

VARIABLES
  format,     \* in which the agent's pod writes
  turn,       \* what the turn's loop has still to emit
  sub,        \* state of each sub-agent
  emitted,    \* per source, how many events it has emitted
  bus,        \* the turn's EventBus
  child,      \* the bus of each sub-agent
  written,    \* history: the entries written to the stream
  trimmed,    \* how many of them are gone
  faults,
  conn        \* the connections

agentVars  == <<format, turn, sub, emitted, bus, child>>
streamed   == <<written, trimmed, faults>>
vars       == <<agentVars, streamed, conn>>

Loop    == "loop"
Spawns  == "spawn"
Sources == {Loop, Spawns} \cup Agents

--------------------------------------------------------------------------------
(* The agent *)

\* The n-th event of a source.
Event(source, n, e) == [source |-> source, n |-> n, type |-> e.type, id |-> e.id]

\* EventBus::emit.
Emit(source, e) ==
  /\ emitted' = [emitted EXCEPT ![source] = @ + 1]
  /\ bus' = Append(bus, Event(source, emitted[source] + 1, e))

Named(type, id) == [type |-> type, id |-> id]

\* The turn's loop.  The answer of an Agent tool is that of its sub-agent.
EmitNext ==
  /\ turn # <<>>
  /\ Head(turn).type = "tool_result" /\ Head(turn).id \in Agents => sub[Head(turn).id] = "done"
  /\ turn' = Tail(turn)
  /\ Emit(Loop, Head(turn))
  /\ UNCHANGED <<format, sub, child, streamed, conn>>

\* An error ends the turn, with the event that says so or, before a response and
\* at its limits, without; the calls that run are aborted.
Fail ==
  /\ turn # <<>>
  /\ turn' = <<>>
  /\ Emit(Loop, Named("turn_end", "error"))
  /\ UNCHANGED <<format, sub, child, streamed, conn>>

Stop ==
  /\ turn # <<>>
  /\ turn' = <<>>
  /\ UNCHANGED <<format, sub, emitted, bus, child, streamed, conn>>

\* The call of a sub-agent that the turn waits for.
Called(id) == Named("tool_result", id) \in {turn[i] : i \in DOMAIN turn}

\* spawn_sub_agent tells the caller's bus of its beginning and end directly.
SpawnSub(id) ==
  /\ Called(id)
  /\ Named("tool_start", id) \notin {turn[i] : i \in DOMAIN turn}
  /\ sub[id] = "none"
  /\ sub' = [sub EXCEPT ![id] = "running"]
  /\ Emit(Spawns, Named("tool_start", id))
  /\ UNCHANGED <<format, turn, child, streamed, conn>>

\* The loop of the sub-agent emits on a bus of its own.
SubEmit(id) ==
  /\ sub[id] = "running"
  /\ emitted[id] < Len(SubEvents)
  /\ emitted' = [emitted EXCEPT ![id] = @ + 1]
  /\ child' = [child EXCEPT ![id] =
       Append(@, Event(id, emitted[id] + 1, SubEvents[emitted[id] + 1]))]
  /\ UNCHANGED <<format, turn, sub, bus, streamed, conn>>

\* It has ended; if its call was aborted meanwhile, nobody says so.
SubEnds(id) ==
  /\ sub[id] = "running"
  /\ emitted[id] = Len(SubEvents)
  /\ sub' = [sub EXCEPT ![id] = "done"]
  /\ IF Called(id) THEN Emit(Spawns, Named("tool_result", id))
                   ELSE UNCHANGED <<emitted, bus>>
  /\ UNCHANGED <<format, turn, child, streamed, conn>>

\* What child_bus sends on.
Forwarded == {"tool_start", "tool_result", "hook_blocked", "compacted", "collapsed"}

\* The task of child_bus, on its own.
Forward(id) ==
  /\ child[id] # <<>>
  /\ child' = [child EXCEPT ![id] = Tail(@)]
  /\ bus' = IF Head(child[id]).type \in Forwarded THEN Append(bus, Head(child[id])) ELSE bus
  /\ UNCHANGED <<format, turn, sub, emitted, streamed, conn>>

--------------------------------------------------------------------------------
(* The stream of the run *)

\* loop_event_to_redis_payload has none for these.  What an older pod left out,
\* during a rolling deploy, is not known: it may have written them all.
Internal ==
  IF format = "proto"
  THEN {"tool_use_start", "tool_input", "tool_use_end", "message_end", "error"}
  ELSE {}

\* XADD with MAXLEN ~: what is beyond it goes at once or later.  Ids are times:
\* a stream has had fewer entries than its first id.
Write ==
  /\ bus # <<>>
  /\ Len(written) < FirstId
  /\ bus' = Tail(bus)
  /\ IF Head(bus).type \in Internal THEN UNCHANGED streamed
     ELSE \/ /\ written' = Append(written, Head(bus))
             /\ \E n \in trimmed .. Len(written') :
                  /\ n = trimmed \/ n = Len(written') - MaxLen
                  /\ trimmed' = n
             /\ UNCHANGED faults
          \/ /\ faults < MaxFaults
             /\ faults' = faults + 1
             /\ UNCHANGED <<written, trimmed>>
  /\ UNCHANGED <<format, turn, sub, emitted, child, conn>>

\* expire_event_stream, when the turn has ended and its hour is over.
Expire ==
  /\ turn = <<>>
  /\ trimmed < Len(written)
  /\ trimmed' = Len(written)
  /\ UNCHANGED <<agentVars, written, faults, conn>>

IdOf(i) == FirstId + i

Min(m, n) == IF m <= n THEN m ELSE n

First(S) == CHOOSE i \in S : \A j \in S : i <= j

Items(seq) == {seq[i] : i \in DOMAIN seq}

\* XREAD: the entries behind an id.
Behind(id) == {i \in trimmed + 1 .. Len(written) : IdOf(i) > id}

--------------------------------------------------------------------------------
(* A connection *)

\*   last      last_id of the subscription's task
\*   batch     entries of an XREAD that are not handled
\*   channel   entries on their way to stream_events
\*   shown     entries that were shown to the client over this connection
\*   cursor    the client's Last-Event-ID
Closed == [open |-> FALSE, last |-> 0, batch |-> <<>>, channel |-> <<>>,
           shown |-> <<>>, cursor |-> 0, count |-> 0]

\* parse_proto_entry.
ParseProtoEntry(e) ==
  CASE e.type = "session_state_changed" -> e.id = "running"
    [] e.type = "turn_end" -> e.id \in {"completed", "error"}
    [] OTHER -> e.type \notin {"hook_blocked", "collapsed", "plan_mode_changed"}

\* The types whose data legacy_data finds in the fields of an entry.
LegacyTypes ==
  {"session_state_changed", "text", "thinking", "tool_use_start", "tool_input", "tool_use_end",
   "message_end", "error", "turn_end", "tool_start", "tool_result", "control_request", "compacted"}

\* EventEnvelope::from_entry: an entry without data is none.
Envelope(e) == format = "proto" \/ e.type \in LegacyTypes

\* parse_legacy_entry.
ParseLegacyEntry(e) ==
  CASE e.type = "session_state_changed" -> e.id = "running"
    [] e.type = "turn_end" -> e.id \in {"completed", "error"}
    [] OTHER -> e.type \in {"text", "thinking", "tool_use_start", "tool_start", "tool_result",
                            "control_request", "compacted"}

\* parse_entry: what becomes an event of the session.
Projected(i) ==
  /\ Envelope(written[i])
  /\ IF format = "proto" THEN ParseProtoEntry(written[i]) ELSE ParseLegacyEntry(written[i])

\* stream_events and subscribe: the cursor is taken for an id of the stream.
Connect(c) ==
  /\ ~conn[c].open
  /\ conn[c].count < MaxConnects
  /\ conn' = [conn EXCEPT ![c] =
       [Closed EXCEPT !.open = TRUE, !.last = conn[c].cursor, !.cursor = conn[c].cursor,
                      !.count = conn[c].count + 1]]
  /\ UNCHANGED <<agentVars, streamed>>

\* Mutant: XREAD waits for as many entries as it may return.
ReadFull(c) ==
  /\ conn[c].open
  /\ conn[c].batch = <<>>
  /\ Cardinality(Behind(conn[c].last)) >= ReadCount
  /\ conn' = [conn EXCEPT ![c].batch =
       [k \in 1 .. ReadCount |-> First(Behind(conn[c].last)) + k - 1]]
  /\ UNCHANGED <<agentVars, streamed>>

Read(c) ==
  /\ conn[c].open
  /\ conn[c].batch = <<>>
  /\ Behind(conn[c].last) # {}
  /\ LET behind == Behind(conn[c].last)
     IN conn' = [conn EXCEPT ![c].batch =
          [k \in 1 .. Min(ReadCount, Cardinality(behind)) |-> First(behind) + k - 1]]
  /\ UNCHANGED <<agentVars, streamed>>

\* Mutant: an entry that does not fit is dropped.
PushOrDrop(c) ==
  /\ conn[c].open
  /\ conn[c].batch # <<>>
  /\ LET i == Head(conn[c].batch)
         fits == Projected(i) /\ Len(conn[c].channel) < ChannelSize
     IN conn' = [conn EXCEPT ![c].batch = Tail(@), ![c].last = IdOf(i),
                             ![c].channel = IF fits THEN Append(@, i) ELSE @]
  /\ UNCHANGED <<agentVars, streamed>>

\* Mutant: an entry is sent though the channel is full.
PushBeyond(c) ==
  /\ conn[c].open
  /\ conn[c].batch # <<>>
  /\ LET i == Head(conn[c].batch)
     IN conn' = [conn EXCEPT ![c].batch = Tail(@), ![c].last = IdOf(i),
                             ![c].channel = IF Projected(i) THEN Append(@, i) ELSE @]
  /\ UNCHANGED <<agentVars, streamed>>

\* Mutant: last_id is kept for entries that are sent.
PushAgain(c) ==
  /\ conn[c].open
  /\ conn[c].batch # <<>>
  /\ LET i == Head(conn[c].batch) IN
       /\ Projected(i) => Len(conn[c].channel) < ChannelSize
       /\ conn' = [conn EXCEPT ![c].batch = Tail(@),
                               ![c].last = IF Projected(i) THEN @ ELSE IdOf(i),
                               ![c].channel = IF Projected(i) THEN Append(@, i) ELSE @]
  /\ UNCHANGED <<agentVars, streamed>>

\* The subscription's task handles an entry; it waits while the channel is full.
Push(c) ==
  /\ conn[c].open
  /\ conn[c].batch # <<>>
  /\ LET i == Head(conn[c].batch) IN
       /\ Projected(i) => Len(conn[c].channel) < ChannelSize
       /\ conn' = [conn EXCEPT ![c].batch = Tail(@), ![c].last = IdOf(i),
                               ![c].channel = IF Projected(i) THEN Append(@, i) ELSE @]
  /\ UNCHANGED <<agentVars, streamed>>

\* stream_events numbers what it sends; the gateway sends the number as the id.
Show(c) ==
  /\ conn[c].open
  /\ conn[c].channel # <<>>
  /\ conn' = [conn EXCEPT ![c].channel = Tail(@),
                          ![c].shown = Append(@, Head(conn[c].channel)),
                          ![c].cursor = Len(conn[c].shown) + 1]
  /\ UNCHANGED <<agentVars, streamed>>

Disconnect(c) ==
  /\ conn[c].open
  /\ conn' = [conn EXCEPT ![c] =
       [conn[c] EXCEPT !.open = FALSE, !.last = 0, !.batch = <<>>, !.channel = <<>>]]
  /\ UNCHANGED <<agentVars, streamed>>

--------------------------------------------------------------------------------

Init ==
  /\ format \in {"proto", "legacy"}
  /\ turn \in Turns /\ sub = [a \in Agents |-> "none"]
  /\ emitted = [s \in Sources |-> 0] /\ bus = <<>> /\ child = [a \in Agents |-> <<>>]
  /\ written = <<>> /\ trimmed = 0 /\ faults = 0
  /\ conn = [c \in Clients |-> Closed]

Sub(id) == SpawnSub(id) \/ SubEmit(id) \/ SubEnds(id) \/ Forward(id)

Connection(c) == Read(c) \/ Push(c) \/ Show(c)

Next ==
  \/ EmitNext \/ Fail \/ Stop
  \/ \E id \in Agents : Sub(id)
  \/ Write \/ Expire
  \/ \E c \in Clients : Connect(c) \/ Connection(c) \/ Disconnect(c)

\* The session's tasks are polled, and XREAD is tried again until it answers.
Fairness == \A c \in Clients : WF_vars(Read(c)) /\ WF_vars(Push(c)) /\ WF_vars(Show(c))

Spec == Init /\ [][Next]_vars /\ Fairness

--------------------------------------------------------------------------------
(* Properties *)

\* What is on its way has its shape and its bounds: a channel is never longer
\* than it may be, an id that was read is that of an entry.
DeliveryTypeOK ==
  /\ format \in {"proto", "legacy"}
  /\ sub \in [Agents -> {"none", "running", "done"}]
  /\ emitted \in [Sources -> Nat]
  /\ trimmed \in 0 .. Len(written)
  /\ \A c \in Clients :
       /\ Items(conn[c].batch \o conn[c].channel \o conn[c].shown) \subseteq DOMAIN written
       /\ Len(conn[c].channel) <= ChannelSize
       /\ Len(conn[c].batch) <= ReadCount

\* A connection is shown the events of the loop, and those of each sub-agent, in
\* the order they were emitted and none twice.
ShownInOrder ==
  \A c \in Clients : \A i, j \in DOMAIN conn[c].shown :
    LET e == written[conn[c].shown[i]]
        f == written[conn[c].shown[j]]
    IN i < j /\ e.source = f.source => e.n < f.n

\* And it misses nothing that was written before the last thing it was shown,
\* but what the stream had lost by then; also not between two connections.
OnlyLostIsMissed ==
  \A c \in Clients : \A i \in DOMAIN conn[c].shown :
    \A k \in trimmed + 1 .. conn[c].shown[i] :
      Projected(k) => k \in Items(conn[c].shown)

\* A client that stays is shown all that is kept of the run, however fast it is
\* written and however slowly the client takes it.
EverythingIsShown ==
  \A c \in Clients :
    conn[c].open ~>
      \/ ~conn[c].open
      \/ {i \in trimmed + 1 .. Len(written) : Projected(i)} \subseteq Items(conn[c].shown)
================================================================================
