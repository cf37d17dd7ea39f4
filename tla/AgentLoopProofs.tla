----------------------------- MODULE AgentLoopProofs -----------------------------
(***************************************************************************)
(* What TLAPS proves of AgentLoop, for any tools, permissions, retry       *)
(* limits and numbers of iterations and tool uses: its types and its five  *)
(* safety properties, from one inductive invariant.                        *)
(*                                                                         *)
(* The properties speak of different variables but lean on each other: a   *)
(* result that is pushed answers a use of the response because collected   *)
(* uses are uses of the response, that response has been pushed before its *)
(* tools are collected, and no tool of another response is in the executor.*)
(***************************************************************************)
EXTENDS AgentLoop, TLAPS

Busy == {"streaming", "finalizing", "joining", "exclusive"}

AnsweredIn(ms, i) == \E n \in DOMAIN ms : ms[n].kind = "results" /\ i \in ms[n].uses
ToldIn(ms, i)     == \E n \in DOMAIN ms : ms[n].kind = "assistant" /\ i \in ms[n].uses

PairedIn(ms) ==
  \A n \in DOMAIN ms : ms[n].kind = "results" =>
    \A i \in ms[n].uses :
      /\ \E m \in 1 .. n - 1 : ms[m].kind = "assistant" /\ i \in ms[m].uses
      /\ \A m \in DOMAIN ms : ms[m].kind = "results" /\ i \in ms[m].uses => m = n

\* The place each state of a use allows the loop, and what the user has seen.
UseFits(i) ==
  /\ uses[i].at = "running" => uses[i].tool \notin Exclusive
  /\ uses[i].at = "exclusive" => pc = "exclusive"
  /\ uses[i].shown = IF uses[i].at = "reported" THEN 1 ELSE 0
  /\ uses[i].at \in Live => i \in content /\ pc \in Busy
  /\ uses[i].at = "collected" => i \in content /\ pc \in {"joining", "exclusive", "dropped"}
  /\ uses[i].at = "blocked" => AnsweredIn(messages, i)

\* While an exclusive tool runs nothing else is in the executor's JoinSet.
AloneFits ==
  \A i, j \in DOMAIN uses :
    i # j /\ uses[i].at = "exclusive" => uses[j].at \notin InSet \cup {"exclusive"}

\* Only uses that are through with are answered, and every result is paired.
HistoryFits ==
  /\ PairedIn(messages)
  /\ \A n \in DOMAIN messages : messages[n].kind = "results" =>
       \A i \in messages[n].uses :
         i \in DOMAIN uses /\ uses[i].at \in {"blocked", "reported"}

\* The response is pushed before its tools are collected.
ContentFits ==
  /\ content \subseteq DOMAIN uses
  /\ pc \in {"finalizing", "joining", "exclusive"} => \A i \in content : ToldIn(messages, i)

\* Nothing is announced before the loop returns.
EndFits ==
  /\ pc # "returned" => slot = "none" /\ events = <<>>
  /\ EndIsAnnounced

UsesFit == \A i \in DOMAIN uses : UseFits(i)

IInv == TypeOK /\ UsesFit /\ AloneFits /\ HistoryFits /\ ContentFits /\ EndFits

--------------------------------------------------------------------------------
(* Lists of messages and of uses *)

\* The three kinds of message.
LEMMA MessageTypes ==
  /\ User \in Message /\ User.kind = "user"
  /\ \A S \in SUBSET Nat :
       /\ Assistant(S) \in Message /\ Assistant(S).kind = "assistant" /\ Assistant(S).uses = S
       /\ Results(S) \in Message /\ Results(S).kind = "results" /\ Results(S).uses = S
BY DEF User, Assistant, Results, Message

\* Append, position by position.
LEMMA Pushed ==
  ASSUME NEW ms \in Seq(Message), NEW m \in Message
  PROVE  /\ Append(ms, m) \in Seq(Message)
         /\ DOMAIN ms = 1 .. Len(ms) /\ Len(ms) \in Nat
         /\ DOMAIN Append(ms, m) = 1 .. (Len(ms) + 1)
         /\ \A n \in 1 .. Len(ms) : Append(ms, m)[n] = ms[n]
         /\ Append(ms, m)[Len(ms) + 1] = m
OBVIOUS

\* What a history tells after one more message.
LEMMA PushTells ==
  ASSUME NEW ms \in Seq(Message), NEW m \in Message, NEW i
  PROVE  /\ AnsweredIn(Append(ms, m), i) <=>
              AnsweredIn(ms, i) \/ (m.kind = "results" /\ i \in m.uses)
         /\ ToldIn(Append(ms, m), i) <=>
              ToldIn(ms, i) \/ (m.kind = "assistant" /\ i \in m.uses)
BY Pushed DEF AnsweredIn, ToldIn

\* A push keeps results paired if they answer uses told and not yet answered.
LEMMA PushPairs ==
  ASSUME NEW ms \in Seq(Message), NEW m \in Message, PairedIn(ms),
         m.kind = "results" => \A i \in m.uses : ToldIn(ms, i) /\ ~ AnsweredIn(ms, i)
  PROVE  PairedIn(Append(ms, m))
<1> DEFINE new == Append(ms, m)
<1>1. /\ DOMAIN ms = 1 .. Len(ms) /\ Len(ms) \in Nat
      /\ DOMAIN new = 1 .. (Len(ms) + 1)
      /\ \A n \in 1 .. Len(ms) : new[n] = ms[n]
      /\ new[Len(ms) + 1] = m
  BY Pushed
<1> HIDE DEF new
<1> SUFFICES ASSUME NEW n \in DOMAIN new, new[n].kind = "results", NEW i \in new[n].uses
             PROVE  /\ \E k \in 1 .. n - 1 : new[k].kind = "assistant" /\ i \in new[k].uses
                    /\ \A k \in DOMAIN new : new[k].kind = "results" /\ i \in new[k].uses => k = n
  BY DEF PairedIn, new
<1>2. CASE n = Len(ms) + 1
  BY <1>1, <1>2 DEF ToldIn, AnsweredIn
<1>3. CASE n \in 1 .. Len(ms)
  <2>1. ms[n].kind = "results" /\ i \in ms[n].uses /\ n \in DOMAIN ms
    BY <1>1, <1>3
  <2>2. \E k \in 1 .. n - 1 : ms[k].kind = "assistant" /\ i \in ms[k].uses
    BY <2>1 DEF PairedIn
  <2>3. \E k \in 1 .. n - 1 : new[k].kind = "assistant" /\ i \in new[k].uses
    BY <2>2, <1>1, <1>3
  <2>4. AnsweredIn(ms, i)
    BY <2>1 DEF AnsweredIn
  <2>5. ASSUME NEW k \in DOMAIN new, new[k].kind = "results", i \in new[k].uses
        PROVE  k = n
    <3>1. k # Len(ms) + 1
      BY <2>4, <2>5, <1>1
    <3>2. k \in DOMAIN ms /\ ms[k].kind = "results" /\ i \in ms[k].uses
      BY <3>1, <2>5, <1>1
    <3> QED
      BY <3>2, <2>1 DEF PairedIn
  <2> QED
    BY <2>3, <2>5
<1> QED
  BY <1>1, <1>2, <1>3

\* New uses are uses.
LEMMA UseTypes ==
  ASSUME NEW tool \in Tools
  PROVE  /\ \A valid \in BOOLEAN : Submitted(tool, valid) \in Use
         /\ Denied(tool) \in Use /\ AskedFor(tool) \in Use
BY DEF Submitted, Denied, AskedFor, Use, UseState, Live, InSet

\* Append of a use, position by position.
LEMMA Added ==
  ASSUME NEW us \in Seq(Use), NEW u \in Use
  PROVE  /\ Append(us, u) \in Seq(Use)
         /\ DOMAIN us = 1 .. Len(us) /\ Len(us) \in Nat
         /\ DOMAIN Append(us, u) = 1 .. (Len(us) + 1)
         /\ \A i \in 1 .. Len(us) : Append(us, u)[i] = us[i]
         /\ Append(us, u)[Len(us) + 1] = u
OBVIOUS

\* A result that is shown.
LEMMA ShownUse ==
  ASSUME NEW u \in Use
  PROVE  /\ Shown(u) \in Use
         /\ Shown(u).tool = u.tool
         /\ Shown(u).at = "reported"
         /\ Shown(u).shown = u.shown + 1
BY DEF Shown, Use, UseState

\* What poll_completed does to each use.
LEMMA Harvests ==
  ASSUME NEW us \in Seq(Use)
  PROVE  /\ Harvested(us) \in Seq(Use)
         /\ DOMAIN Harvested(us) = DOMAIN us
         /\ \A i \in DOMAIN us :
              /\ Harvested(us)[i].tool = us[i].tool
              /\ us[i].at = "finished" =>
                   Harvested(us)[i].at = "reported" /\ Harvested(us)[i].shown = us[i].shown + 1
              /\ us[i].at = "panicked" =>
                   Harvested(us)[i].at = "lost" /\ Harvested(us)[i].shown = us[i].shown
              /\ us[i].at \notin {"finished", "panicked"} => Harvested(us)[i] = us[i]
<1>1. DOMAIN us = 1 .. Len(us) /\ Len(us) \in Nat
  OBVIOUS
<1>2. ASSUME NEW i \in DOMAIN us
      PROVE  /\ Harvested(us)[i] \in Use
             /\ Harvested(us)[i].tool = us[i].tool
             /\ us[i].at = "finished" =>
                  Harvested(us)[i].at = "reported" /\ Harvested(us)[i].shown = us[i].shown + 1
             /\ us[i].at = "panicked" =>
                  Harvested(us)[i].at = "lost" /\ Harvested(us)[i].shown = us[i].shown
             /\ us[i].at \notin {"finished", "panicked"} => Harvested(us)[i] = us[i]
  <2>1. us[i] \in Use
    OBVIOUS
  <2>2. Harvested(us)[i] = IF us[i].at = "finished" THEN Shown(us[i])
                           ELSE [us[i] EXCEPT !.at = Joined(us[i], "reported")]
    BY DEF Harvested
  <2>3. CASE us[i].at = "finished"
    BY <2>1, <2>2, <2>3, ShownUse
  <2>4. CASE us[i].at = "panicked"
    <3>1. Joined(us[i], "reported") = "lost"
      BY <2>4 DEF Joined
    <3> QED
      BY <2>1, <2>2, <2>4, <3>1 DEF Use, UseState
  <2>5. CASE us[i].at \notin {"finished", "panicked"}
    <3>1. Joined(us[i], "reported") = us[i].at
      BY <2>5 DEF Joined
    <3> QED
      BY <2>1, <2>2, <2>5, <3>1 DEF Use
  <2> QED
    BY <2>3, <2>4, <2>5
<1>3. DOMAIN Harvested(us) = DOMAIN us
  BY DEF Harvested
<1>4. Harvested(us) \in Seq(Use)
  <2>1. Harvested(us) = [i \in 1 .. Len(us) |-> Harvested(us)[i]]
    BY <1>1 DEF Harvested
  <2> QED
    BY <1>1, <1>2, <2>1
<1> QED
  BY <1>2, <1>3, <1>4

\* What dropping the executor does to each use.
LEMMA Aborts ==
  ASSUME NEW us \in Seq(Use)
  PROVE  /\ Aborted(us) \in Seq(Use)
         /\ DOMAIN Aborted(us) = DOMAIN us
         /\ \A i \in DOMAIN us :
              /\ Aborted(us)[i].tool = us[i].tool
              /\ Aborted(us)[i].shown = us[i].shown
              /\ Aborted(us)[i].at = IF us[i].at \in Live THEN "aborted" ELSE us[i].at
<1>1. DOMAIN us = 1 .. Len(us) /\ Len(us) \in Nat
  OBVIOUS
<1>2. ASSUME NEW i \in DOMAIN us
      PROVE  /\ Aborted(us)[i] \in Use
             /\ Aborted(us)[i].tool = us[i].tool
             /\ Aborted(us)[i].shown = us[i].shown
             /\ Aborted(us)[i].at = IF us[i].at \in Live THEN "aborted" ELSE us[i].at
  <2>1. us[i] \in Use
    OBVIOUS
  <2>2. Aborted(us)[i] = IF us[i].at \in Live THEN [us[i] EXCEPT !.at = "aborted"] ELSE us[i]
    BY DEF Aborted
  <2> QED
    BY <2>1, <2>2 DEF Use, UseState
<1>3. DOMAIN Aborted(us) = DOMAIN us
  BY DEF Aborted
<1>4. Aborted(us) \in Seq(Use)
  <2>1. Aborted(us) = [i \in 1 .. Len(us) |-> Aborted(us)[i]]
    BY <1>1 DEF Aborted
  <2> QED
    BY <1>1, <1>2, <2>1
<1> QED
  BY <1>2, <1>3, <1>4

\* One use moves to another state.
LEMMA Moves ==
  ASSUME NEW us \in Seq(Use), NEW i \in DOMAIN us, NEW at \in UseState
  PROVE  LET new == [us EXCEPT ![i].at = at] IN
           /\ new \in Seq(Use)
           /\ DOMAIN new = DOMAIN us
           /\ \A j \in DOMAIN us :
                /\ new[j].tool = us[j].tool
                /\ new[j].shown = us[j].shown
                /\ new[j].at = IF j = i THEN at ELSE us[j].at
<1> DEFINE u   == [us[i] EXCEPT !.at = at]
           new == [us EXCEPT ![i] = u]
<1>1. us[i] \in Use
  OBVIOUS
<1>2. u \in Use /\ u.tool = us[i].tool /\ u.shown = us[i].shown /\ u.at = at
  BY <1>1 DEF Use
<1>3. [us EXCEPT ![i].at = at] = new
  OBVIOUS
<1> HIDE DEF u
<1>4. new \in Seq(Use) /\ DOMAIN new = DOMAIN us
  BY <1>2
<1>5. new[i] = u /\ \A j \in DOMAIN us : j # i => new[j] = us[j]
  OBVIOUS
<1> HIDE DEF new
<1> QED
  BY <1>2, <1>3, <1>4, <1>5

\* The reply of a response that has not ended.
LEMMA NoReplyType == NoReply \in Reply
BY DEF NoReply, Reply

--------------------------------------------------------------------------------
(* Types *)

\* A turn begins within the invariant.
LEMMA InitInv == Init => IInv
<1> SUFFICES ASSUME Init PROVE IInv
  OBVIOUS
<1>1. TypeOK
  <2>1. recovery \in Recovery
    BY DEF Init, Recovery
  <2>2. messages \in Seq(Message) /\ uses \in Seq(Use) /\ content \subseteq Nat
    BY DEF Init
  <2>3. events \in Seq({"control_request", "turn_end"})
    BY DEF Init
  <2> QED
    BY <2>1, <2>2, <2>3, NoReplyType DEF Init, TypeOK, Modes, Places, Over, Stops
<1> QED
  BY <1>1 DEF Init, IInv, UsesFit, AloneFits, HistoryFits, PairedIn, ContentFits, EndFits,
     EndIsAnnounced

\* The facts of TypeOK that the pushes and the executor need.
LEMMA Shapes ==
  ASSUME TypeOK
  PROVE  /\ messages \in Seq(Message) /\ uses \in Seq(Use)
         /\ DOMAIN uses = 1 .. Len(uses) /\ Len(uses) \in Nat
         /\ \A i \in DOMAIN uses : uses[i] \in Use
         /\ content \in SUBSET Nat
         /\ recovery \in Recovery /\ reply \in Reply
BY DEF TypeOK

\* Counting a retry, an escalation or a short response.
LEMMA RecoveryCounts ==
  ASSUME NEW r \in Recovery
  PROVE  /\ [r EXCEPT !.escalations = @ + 1] \in Recovery
         /\ \A n \in Nat : [r EXCEPT !.streak = n] \in Recovery
         /\ r.streak + 1 \in Nat
         /\ \A kind \in {"rate", "server"} : [r EXCEPT ![kind] = @ + 1] \in Recovery
<1>1. [r EXCEPT !.escalations = @ + 1] \in Recovery
  BY DEF Recovery
<1>2. \A n \in Nat : [r EXCEPT !.streak = n] \in Recovery
  BY DEF Recovery
<1>3. r.streak + 1 \in Nat
  BY DEF Recovery
<1>4. ASSUME NEW kind \in {"rate", "server"}
      PROVE  [r EXCEPT ![kind] = @ + 1] \in Recovery
  <2>1. CASE kind = "rate"
    BY <2>1 DEF Recovery
  <2>2. CASE kind = "server"
    BY <2>2 DEF Recovery
  <2> QED
    BY <2>1, <2>2
<1> QED
  BY <1>1, <1>2, <1>3, <1>4

\* The loop's two ways to return.
LEMMA ReturnTypes ==
  ASSUME TypeOK, NEW reason \in Stops, Return(reason) \/ (Fatal(reason) /\ UNCHANGED slot)
  PROVE  /\ pc' \in Places /\ stop' \in Stops
         /\ slot' \in {"none", "permission", "plan_review"}
         /\ events' \in Seq({"control_request", "turn_end"})
BY DEF TypeOK, Return, Fatal, Places, Over

\* Every step keeps the types.
LEMMA TypeStep ==
  ASSUME TypeOK, Next
  PROVE  TypeOK'
<1> USE DEF history, verdict
<1>1. CASE Iterate
  BY <1>1, ReturnTypes DEF Iterate, TypeOK, Places, Over, Stops, Silent, Return
<1>2. CASE OpenStream
  <2>1. content' \subseteq Nat /\ reply' \in Reply
    BY <1>2, NoReplyType DEF OpenStream, TypeOK
  <2>2. /\ pc' \in Places /\ stop' \in Stops
        /\ slot' = slot /\ events' = events
    BY <1>2 DEF OpenStream, Return, Places, Over, Stops, TypeOK
  <2> QED
    BY <1>2, <2>1, <2>2 DEF OpenStream, TypeOK
<1>3. CASE Delta
  BY <1>3, Harvests DEF Delta, Streaming, TypeOK
<1>4. ASSUME NEW tool \in Tools, BlockTool(tool)
      PROVE  TypeOK'
  <2> DEFINE i == Len(uses) + 1
             S == content \cup {i}
  <2>1. Len(uses) \in Nat /\ S \in SUBSET Nat /\ {i} \in SUBSET Nat
    BY Shapes
  <2>2. Harvested(Append(uses, Denied(tool))) \in Seq(Use)
    BY Shapes, Added, UseTypes, Harvests
  <2>3. messages \o <<Assistant(S), Results({i})>> \in Seq(Message)
    <3> HIDE DEF S, i
    <3>1. <<Assistant(S), Results({i})>> \in Seq(Message)
      BY <2>1, MessageTypes
    <3> QED
      BY <3>1, Shapes
  <2> QED
    BY <1>4, <2>1, <2>2, <2>3 DEF BlockTool, Streaming, TypeOK
<1>5. ASSUME NEW tool \in Tools, AskForTool(tool)
      PROVE  TypeOK'
  <2>1. Aborted(Append(uses, AskedFor(tool))) \in Seq(Use)
    BY Shapes, Added, UseTypes, Aborts
  <2> QED
    BY <1>5, <2>1 DEF AskForTool, Streaming, TypeOK, Places, Over, Stops, Pauses
<1>6. ASSUME NEW tool \in Tools, NEW valid \in BOOLEAN, SubmitTool(tool, valid)
      PROVE  TypeOK'
  <2>1. Harvested(Append(uses, Submitted(tool, valid))) \in Seq(Use)
    BY Shapes, Added, UseTypes, Harvests
  <2> QED
    <3>1. content' \subseteq Nat
      BY <1>6, Shapes DEF SubmitTool
    <3> QED
      BY <1>6, <2>1, <3>1 DEF SubmitTool, Streaming, TypeOK
<1>7. ASSUME NEW reason \in StopReasons, NEW low \in BOOLEAN, MessageEnd(reason, low)
      PROVE  TypeOK'
  BY <1>7, Harvests DEF MessageEnd, Streaming, TypeOK, Reply
<1>8. ASSUME NEW kind \in {"rate", "server"}, RetryCall(kind)
      PROVE  TypeOK'
  <2>1. recovery' \in Recovery
    BY <1>8, Shapes, RecoveryCounts DEF RetryCall
  <2> QED
    BY <1>8, <2>1, Shapes, Aborts DEF RetryCall, Streaming, TypeOK, Places
<1>9. CASE StreamFails
  BY <1>9, Shapes, Aborts, ReturnTypes DEF StreamFails, Fatal, TypeOK, Stops, Places, Over
<1>10. CASE Truncated
  <2>1. recovery' \in Recovery
    BY <1>10, Shapes, RecoveryCounts DEF Truncated
  <2>2. Push(Assistant(content)) \in Seq(Message)
    BY Shapes, MessageTypes DEF Push
  <2>3. Push(Assistant(content)) \o <<User>> \in Seq(Message)
    BY <2>2, MessageTypes
  <2>4. messages' \in Seq(Message)
    BY <1>10, <2>2, <2>3 DEF Truncated
  <2>5. uses' \in Seq(Use)
    BY <1>10, Shapes, Aborts DEF Truncated
  <2>6. /\ pc' \in Places /\ stop' \in Stops
        /\ slot' = slot /\ events' = events
    BY <1>10 DEF Truncated, Return, Places, Over, Stops, TypeOK
  <2> QED
    BY <1>10, <2>1, <2>4, <2>5, <2>6 DEF Truncated, StreamEnds, TypeOK
<1>11. CASE Evaluated
  <2>1. recovery' \in Recovery
    BY <1>11, Shapes, RecoveryCounts DEF Evaluated
  <2>2. messages' \in Seq(Message)
    BY <1>11, Shapes, MessageTypes DEF Evaluated, Push
  <2>3. uses' \in Seq(Use)
    BY <1>11, Shapes, Aborts DEF Evaluated
  <2>4. /\ pc' \in Places /\ stop' \in Stops
        /\ slot' = slot /\ events' = events
    BY <1>11 DEF Evaluated, Return, Places, Over, Stops, Silent, TypeOK
  <2> QED
    BY <1>11, <2>1, <2>2, <2>3, <2>4 DEF Evaluated, StreamEnds, TypeOK
<1>12. CASE HookObjects
  BY <1>12, Shapes, Aborts, MessageTypes DEF HookObjects, Push, TypeOK, Places
<1>13. CASE FinalizeTurn
  <2>1. uses' \in Seq(Use)
    BY <1>13, Shapes, Aborts DEF FinalizeTurn
  <2>2. /\ pc' \in Places /\ stop' \in Stops
        /\ slot' \in {"none", "permission", "plan_review"}
    BY <1>13 DEF FinalizeTurn, Fatal, TypeOK, Places, Over, Stops, Pauses
  <2>3. events' \in Seq({"control_request", "turn_end"})
    <3>1. /\ events \o <<"control_request", "turn_end">> \in Seq({"control_request", "turn_end"})
          /\ Append(events, "turn_end") \in Seq({"control_request", "turn_end"})
      BY DEF TypeOK
    <3> QED
      BY <1>13, <3>1 DEF FinalizeTurn, Fatal
  <2> QED
    BY <1>13, <2>1, <2>2, <2>3 DEF FinalizeTurn, TypeOK
<1>14. CASE PushResults
  <2>1. uses' \in Seq(Use)
    <3>1. \A i \in DOMAIN uses :
            (IF uses[i].at = "collected" THEN Shown(uses[i]) ELSE uses[i]) \in Use
      BY Shapes, ShownUse
    <3> QED
      BY <1>14, <3>1, Shapes DEF PushResults
  <2>2. At({"collected"}) \in SUBSET Nat
    BY Shapes DEF At
  <2>3. messages' \in Seq(Message)
    BY <1>14, <2>2, Shapes, MessageTypes DEF PushResults, Push
  <2> QED
    BY <1>14, <2>1, <2>3 DEF PushResults, Collecting, TypeOK, Places
<1>15. ASSUME NEW i \in DOMAIN uses, Join(i)
       PROVE  TypeOK'
  <2>1. Joined(uses[i], "collected") \in UseState
    BY <1>15 DEF Join, Joined, UseState
  <2>2. uses' \in Seq(Use)
    BY <1>15, <2>1, Shapes, Moves DEF Join
  <2> QED
    BY <1>15, <2>2 DEF Join, Collecting, TypeOK, Places
<1>16. ASSUME NEW i \in DOMAIN uses, RunExclusive(i) \/ ExclusiveFinishes(i)
       PROVE  TypeOK'
  <2>1. uses' \in Seq(Use)
    <3>1. {"exclusive", "collected"} \subseteq UseState
      BY DEF UseState, Live
    <3>2. \A at \in UseState : [uses EXCEPT ![i].at = at] \in Seq(Use)
      BY Shapes, Moves
    <3> QED
      BY <1>16, <3>1, <3>2, Shapes DEF RunExclusive, ExclusiveFinishes
  <2> QED
    BY <1>16, <2>1 DEF RunExclusive, ExclusiveFinishes, Collecting, TypeOK, Places
<1>17. ASSUME NEW i \in DOMAIN uses, ToolFinishes(i) \/ ToolPanics(i)
       PROVE  TypeOK'
  <2>1. uses' \in Seq(Use)
    <3>1. {"finished", "panicked"} \subseteq UseState
      BY DEF UseState, Live, InSet
    <3>2. \A at \in UseState : [uses EXCEPT ![i].at = at] \in Seq(Use)
      BY Shapes, Moves
    <3> QED
      BY <1>17, <3>1, <3>2, Shapes DEF ToolFinishes, ToolPanics
  <2> QED
    BY <1>17, <2>1 DEF ToolFinishes, ToolPanics, TypeOK
<1>18. CASE Cancel
  BY <1>18 DEF Cancel, TypeOK
<1>19. CASE Drop
  BY <1>19, Shapes, Aborts DEF Drop, TypeOK, Places, Over
<1> QED
  BY <1>1, <1>2, <1>3, <1>4, <1>5, <1>6, <1>7, <1>8, <1>9, <1>10, <1>11, <1>12, <1>13, <1>14,
     <1>15, <1>16, <1>17, <1>18, <1>19 DEF Next, Loop, Stream

--------------------------------------------------------------------------------
(* What several steps share *)

\* Uses that are through with stay so.
Keeps ==
  /\ DOMAIN uses \subseteq DOMAIN uses'
  /\ \A i \in DOMAIN uses :
       uses[i].at \in {"blocked", "reported"} => uses'[i].at = uses[i].at

\* A step that pushes no result keeps the history's part of the invariant.
LEMMA HistoryKept ==
  ASSUME TypeOK, HistoryFits, Keeps,
         messages' = messages
         \/ \E m \in Message : m.kind # "results" /\ messages' = Append(messages, m)
  PROVE  /\ HistoryFits'
         /\ \A i : AnsweredIn(messages, i) => AnsweredIn(messages', i)
         /\ \A i : ToldIn(messages, i) => ToldIn(messages', i)
<1>1. CASE messages' = messages
  BY <1>1 DEF HistoryFits, Keeps, PairedIn, AnsweredIn, ToldIn
<1>2. ASSUME NEW m \in Message, m.kind # "results", messages' = Append(messages, m)
      PROVE  /\ HistoryFits'
             /\ \A i : AnsweredIn(messages, i) => AnsweredIn(messages', i)
             /\ \A i : ToldIn(messages, i) => ToldIn(messages', i)
  <2>1. messages \in Seq(Message)
    BY Shapes
  <2>2. PairedIn(messages')
    BY <1>2, <2>1, PushPairs DEF HistoryFits
  <2>3. \A i : /\ AnsweredIn(messages', i) <=> AnsweredIn(messages, i)
               /\ ToldIn(messages, i) => ToldIn(messages', i)
    BY <1>2, <2>1, PushTells
  <2>4. ASSUME NEW n \in DOMAIN messages', messages'[n].kind = "results",
               NEW i \in messages'[n].uses
        PROVE  i \in DOMAIN uses' /\ uses'[i].at \in {"blocked", "reported"}
    <3>1. AnsweredIn(messages, i)
      BY <2>3, <2>4 DEF AnsweredIn
    <3>2. i \in DOMAIN uses /\ uses[i].at \in {"blocked", "reported"}
      BY <3>1 DEF AnsweredIn, HistoryFits
    <3> QED
      BY <3>2 DEF Keeps
  <2> QED
    BY <2>2, <2>3, <2>4 DEF HistoryFits
<1> QED
  BY <1>1, <1>2

\* A step that announces nothing keeps the end's part of the invariant.
LEMMA EndKept ==
  ASSUME EndFits, pc # "returned", slot' = slot, events' = events,
         pc' = "returned" => stop' \in Silent \cup {"error"}
  PROVE  EndFits'
BY DEF EndFits, EndIsAnnounced, Silent, Pauses

\* The executor is dropped and the loop leaves the response.
LEMMA AbortedStep ==
  ASSUME IInv, uses' = Aborted(uses), content' = content,
         \A i : AnsweredIn(messages, i) => AnsweredIn(messages', i),
         \/ pc \in {"streaming", "finalizing"} /\ pc' \in {"top", "returned"}
         \/ pc' = "dropped"
  PROVE  Keeps /\ UsesFit' /\ AloneFits' /\ ContentFits'
<1> USE DEF IInv
<1>1. /\ DOMAIN uses' = DOMAIN uses
      /\ \A i \in DOMAIN uses :
           /\ uses'[i].tool = uses[i].tool
           /\ uses'[i].shown = uses[i].shown
           /\ uses'[i].at = IF uses[i].at \in Live THEN "aborted" ELSE uses[i].at
  BY Shapes, Aborts
<1>2. \A i \in DOMAIN uses : uses'[i].at \notin Live
  BY <1>1 DEF Live, InSet
<1>3. Keeps
  BY <1>1 DEF Keeps, Live, InSet
<1>4. UsesFit'
  <2> SUFFICES ASSUME NEW i \in DOMAIN uses PROVE UseFits(i)'
    BY <1>1 DEF UsesFit
  <2>1. UseFits(i)
    BY DEF UsesFit
  <2> QED
    BY <1>1, <1>2, <2>1 DEF UseFits, Live, InSet
<1>5. AloneFits'
  BY <1>1, <1>2 DEF AloneFits, Live
<1>6. ContentFits'
  BY <1>1 DEF ContentFits
<1> QED
  BY <1>3, <1>4, <1>5, <1>6

\* What poll_completed takes, in the middle of the stream.
LEMMA HarvestedStep ==
  ASSUME IInv, uses' = Harvested(uses), UNCHANGED <<pc, messages, content>>, pc = "streaming"
  PROVE  Keeps /\ UsesFit' /\ AloneFits' /\ ContentFits'
<1> USE DEF IInv
<1>1. /\ DOMAIN uses' = DOMAIN uses
      /\ \A i \in DOMAIN uses :
           /\ uses'[i].tool = uses[i].tool
           /\ uses[i].at = "finished" =>
                uses'[i].at = "reported" /\ uses'[i].shown = uses[i].shown + 1
           /\ uses[i].at = "panicked" => uses'[i].at = "lost" /\ uses'[i].shown = uses[i].shown
           /\ uses[i].at \notin {"finished", "panicked"} => uses'[i] = uses[i]
  BY Shapes, Harvests
<1>2. Keeps
  BY <1>1 DEF Keeps
<1>3. UsesFit'
  <2> SUFFICES ASSUME NEW i \in DOMAIN uses PROVE UseFits(i)'
    BY <1>1 DEF UsesFit
  <2>1. UseFits(i)
    BY DEF UsesFit
  <2>2. CASE uses[i].at = "finished"
    BY <1>1, <2>1, <2>2 DEF UseFits, Live, InSet
  <2>3. CASE uses[i].at = "panicked"
    BY <1>1, <2>1, <2>3 DEF UseFits, Live, InSet
  <2>4. CASE uses[i].at \notin {"finished", "panicked"}
    BY <1>1, <2>1, <2>4 DEF UseFits, Live, InSet
  <2> QED
    BY <2>2, <2>3, <2>4
<1>4. AloneFits'
  BY <1>1 DEF AloneFits, UsesFit, UseFits
<1>5. ContentFits'
  BY <1>1 DEF ContentFits
<1> QED
  BY <1>2, <1>3, <1>4, <1>5

\* A use moves on, and the loop stays with the response.
LEMMA MovedStep ==
  ASSUME IInv, NEW i \in DOMAIN uses, NEW at \in Live \cup {"collected", "lost"},
         uses' = [uses EXCEPT ![i].at = at], UNCHANGED <<messages, content>>,
         uses[i].at \in Live,
         pc' = pc \/ {pc, pc'} \subseteq {"joining", "exclusive"},
         at # "running",
         at = "collected" => pc' \in {"joining", "exclusive"},
         pc' = "exclusive"
           \/ \A j \in DOMAIN uses : uses[j].at = "exclusive" => j = i /\ at # "exclusive",
         at = "exclusive" => pc' = "exclusive" /\ At(InSet \cup {"exclusive"}) = {},
         at \in InSet => uses[i].at \in InSet
  PROVE  Keeps /\ UsesFit' /\ AloneFits' /\ ContentFits'
<1> USE DEF IInv
<1>1. /\ DOMAIN uses' = DOMAIN uses
      /\ \A j \in DOMAIN uses :
           /\ uses'[j].tool = uses[j].tool
           /\ uses'[j].shown = uses[j].shown
           /\ uses'[j].at = IF j = i THEN at ELSE uses[j].at
  <2>1. at \in UseState
    BY DEF UseState
  <2> QED
    BY <2>1, Shapes, Moves
<1>2. Keeps
  BY <1>1 DEF Keeps, Live, InSet
<1>3. UsesFit'
  <2> SUFFICES ASSUME NEW j \in DOMAIN uses PROVE UseFits(j)'
    BY <1>1 DEF UsesFit
  <2>1. UseFits(j) /\ UseFits(i)
    BY DEF UsesFit
  <2>2. CASE j = i
    BY <1>1, <2>1, <2>2 DEF UseFits, Live, InSet, Busy
  <2>3. CASE j # i
    BY <1>1, <2>1, <2>3 DEF UseFits, Live, InSet, Busy
  <2> QED
    BY <2>2, <2>3
<1>4. AloneFits'
  BY <1>1 DEF AloneFits, At, Live, InSet
<1>5. ContentFits'
  <2>1. UseFits(i)
    BY DEF UsesFit
  <2> QED
    BY <1>1, <2>1 DEF ContentFits, UseFits
<1> QED
  BY <1>2, <1>3, <1>4, <1>5

--------------------------------------------------------------------------------
(* Steps of the loop *)

\* The loop between responses, and a cancel.
LEMMA QuietStep ==
  ASSUME IInv, Iterate \/ OpenStream \/ Cancel \/ UNCHANGED vars
  PROVE  UsesFit' /\ AloneFits' /\ HistoryFits' /\ ContentFits' /\ EndFits'
<1> USE DEF IInv, history, verdict
<1>1. uses' = uses /\ messages' = messages
  BY DEF Iterate, OpenStream, Cancel, vars
<1>2. HistoryFits'
  BY <1>1 DEF HistoryFits, PairedIn
<1>3. AloneFits'
  BY <1>1 DEF AloneFits
<1>4. CASE Iterate \/ OpenStream
  <2>1. /\ pc \in {"top", "calling"}
        /\ pc' \in {"calling", "streaming", "returned"}
        /\ content' = content \/ content' = {}
    BY <1>4 DEF Iterate, OpenStream, Return
  <2>2. UsesFit'
    BY <1>1, <2>1 DEF UsesFit, UseFits, Busy, Live
  <2>3. ContentFits'
    BY <1>1, <2>1 DEF ContentFits
  <2>4. EndFits'
    BY <1>4, <2>1, EndKept DEF Iterate, OpenStream, Return, Silent
  <2> QED
    BY <1>2, <1>3, <2>2, <2>3, <2>4
<1>5. CASE Cancel \/ UNCHANGED vars
  <2>1. UNCHANGED <<pc, content, verdict>>
    BY <1>5 DEF Cancel, vars
  <2>2. UsesFit'
    BY <1>1, <2>1 DEF UsesFit, UseFits, AnsweredIn
  <2>3. ContentFits'
    BY <1>1, <2>1 DEF ContentFits, ToldIn
  <2>4. EndFits'
    BY <2>1 DEF EndFits, EndIsAnnounced
  <2> QED
    BY <1>2, <1>3, <2>2, <2>3, <2>4
<1> QED
  BY <1>4, <1>5

\* Stream events other than tool uses and errors.
LEMMA HarvestStep ==
  ASSUME IInv, Delta \/ \E reason \in StopReasons, low \in BOOLEAN : MessageEnd(reason, low)
  PROVE  UsesFit' /\ AloneFits' /\ HistoryFits' /\ ContentFits' /\ EndFits'
<1>1. /\ uses' = Harvested(uses) /\ pc = "streaming"
      /\ UNCHANGED <<pc, messages, content, verdict>>
  BY DEF Delta, MessageEnd, Streaming
<1>2. Keeps /\ UsesFit' /\ AloneFits' /\ ContentFits'
  BY <1>1, HarvestedStep
<1>3. HistoryFits'
  BY <1>1, <1>2, HistoryKept DEF IInv
<1>4. EndFits'
  BY <1>1, EndKept DEF IInv, verdict
<1> QED
  BY <1>2, <1>3, <1>4

\* Every way to leave a response whose message is not pushed anew.
LEMMA LeaveStep ==
  ASSUME IInv,
         \/ \E kind \in {"rate", "server"} : RetryCall(kind)
         \/ StreamFails \/ HookObjects \/ FinalizeTurn \/ Drop
  PROVE  UsesFit' /\ AloneFits' /\ HistoryFits' /\ ContentFits' /\ EndFits'
<1>1. /\ uses' = Aborted(uses) /\ content' = content
      /\ \/ pc \in {"streaming", "finalizing"} /\ pc' \in {"top", "returned"}
         \/ pc' = "dropped"
  BY DEF RetryCall, Streaming, StreamFails, Fatal, HookObjects, FinalizeTurn, Drop
<1>2. messages' = messages
      \/ \E m \in Message : m.kind # "results" /\ messages' = Append(messages, m)
  BY MessageTypes DEF RetryCall, StreamFails, HookObjects, Push, FinalizeTurn, Drop
<1>3. \A i : AnsweredIn(messages, i) => AnsweredIn(messages', i)
  <2>1. messages \in Seq(Message)
    BY Shapes DEF IInv
  <2>2. \A m \in Message : \A i :
          AnsweredIn(messages, i) => AnsweredIn(Append(messages, m), i)
    BY <2>1, PushTells
  <2> QED
    BY <1>2, <2>2
<1>4. Keeps /\ UsesFit' /\ AloneFits' /\ ContentFits'
  BY <1>1, <1>3, AbortedStep
<1>5. HistoryFits'
  BY <1>2, <1>4, HistoryKept DEF IInv
<1>6. EndFits'
  <2>1. pc # "returned"
    BY DEF RetryCall, Streaming, StreamFails, HookObjects, FinalizeTurn, Drop, Over
  <2>2. CASE StreamFails
    BY <2>1, <2>2 DEF IInv, EndFits, EndIsAnnounced, StreamFails, Fatal, Silent, Pauses
  <2>3. CASE FinalizeTurn
    BY <2>1, <2>3 DEF IInv, EndFits, EndIsAnnounced, FinalizeTurn, Fatal, Silent, Pauses
  <2>4. ASSUME \/ \E kind \in {"rate", "server"} : RetryCall(kind)
               \/ HookObjects \/ Drop
        PROVE  EndFits'
    <3>1. slot' = slot /\ events' = events /\ pc' # "returned"
      BY <2>4 DEF RetryCall, HookObjects, Drop, verdict
    <3> QED
      BY <2>1, <3>1, EndKept DEF IInv
  <2> QED
    BY <2>2, <2>3, <2>4
<1> QED
  BY <1>4, <1>5, <1>6

\* The response is pushed, then given up or gone on with.
LEMMA EvaluateStep ==
  ASSUME IInv, Truncated \/ Evaluated
  PROVE  UsesFit' /\ AloneFits' /\ HistoryFits' /\ ContentFits' /\ EndFits'
<1> DEFINE said == Append(messages, Assistant(content))
<1>1. /\ said \in Seq(Message) /\ messages \in Seq(Message)
      /\ \A i : /\ AnsweredIn(said, i) <=> AnsweredIn(messages, i)
                /\ ToldIn(said, i) <=> ToldIn(messages, i) \/ i \in content
      /\ PairedIn(said)
  <2>1. /\ messages \in Seq(Message) /\ Assistant(content) \in Message
        /\ Assistant(content).kind = "assistant" /\ Assistant(content).uses = content
    BY Shapes, MessageTypes DEF IInv
  <2> QED
    BY <2>1, Pushed, PushTells, PushPairs DEF IInv, HistoryFits
<1>2. /\ \A i : AnsweredIn(messages', i) <=> AnsweredIn(messages, i)
      /\ \A i : ToldIn(messages', i) <=> ToldIn(messages, i) \/ i \in content
      /\ PairedIn(messages')
  <2>1. messages' = said \/ messages' = Append(said, User)
    BY <1>1 DEF Truncated, Evaluated, Push
  <2> HIDE DEF said
  <2>2. /\ PairedIn(Append(said, User))
        /\ \A i : /\ AnsweredIn(Append(said, User), i) <=> AnsweredIn(said, i)
                  /\ ToldIn(Append(said, User), i) <=> ToldIn(said, i)
    BY <1>1, MessageTypes, PushPairs, PushTells
  <2> QED
    BY <1>1, <2>1, <2>2
<1>3. pc = "streaming" /\ content' = content
  BY DEF Truncated, Evaluated, StreamEnds
<1>4. Keeps /\ UsesFit' /\ AloneFits' /\ ContentFits'
  <2>1. CASE uses' = Aborted(uses) /\ pc' \in {"top", "returned"}
    BY <1>2, <1>3, <2>1, AbortedStep
  <2>2. CASE uses' = uses /\ pc' \in {"finalizing", "joining"}
    <3>1. Keeps /\ AloneFits'
      BY <2>2 DEF Keeps, AloneFits, IInv
    <3>2. UsesFit'
      BY <1>2, <1>3, <2>2 DEF IInv, UsesFit, UseFits, Busy, Live, InSet
    <3>3. ContentFits'
      BY <1>2, <1>3, <2>2 DEF IInv, ContentFits
    <3> QED
      BY <3>1, <3>2, <3>3
  <2> QED
    BY <2>1, <2>2 DEF Truncated, Evaluated, Return
<1>5. HistoryFits'
  <2>1. ASSUME NEW n \in DOMAIN messages', messages'[n].kind = "results",
               NEW i \in messages'[n].uses
        PROVE  i \in DOMAIN uses' /\ uses'[i].at \in {"blocked", "reported"}
    <3>1. AnsweredIn(messages, i)
      BY <1>2, <2>1 DEF AnsweredIn
    <3>2. i \in DOMAIN uses /\ uses[i].at \in {"blocked", "reported"}
      BY <3>1 DEF AnsweredIn, HistoryFits, IInv
    <3> QED
      BY <3>2, <1>4 DEF Keeps
  <2> QED
    BY <1>2, <2>1 DEF HistoryFits
<1>6. EndFits'
  <2>1. /\ slot' = slot /\ events' = events
        /\ pc' = "returned" => stop' \in Silent \cup {"error"}
    BY DEF Truncated, Evaluated, Return, verdict, Silent
  <2> QED
    BY <1>3, <2>1, EndKept DEF IInv
<1> QED
  BY <1>4, <1>5, <1>6

\* A use that is new and has run nothing yet is appended before the harvest.
LEMMA AppendedUses ==
  ASSUME IInv, NEW u \in Use, u.shown = 0, uses' = Harvested(Append(uses, u)),
         u.at \in {"running", "erring", "queued", "blocked"}
  PROVE  /\ DOMAIN uses' = 1 .. (Len(uses) + 1)
         /\ uses'[Len(uses) + 1] = u
         /\ \A i \in DOMAIN uses :
              /\ uses'[i].tool = uses[i].tool
              /\ uses[i].at = "finished" =>
                   uses'[i].at = "reported" /\ uses'[i].shown = uses[i].shown + 1
              /\ uses[i].at = "panicked" =>
                   uses'[i].at = "lost" /\ uses'[i].shown = uses[i].shown
              /\ uses[i].at \notin {"finished", "panicked"} => uses'[i] = uses[i]
         /\ Keeps
<1> DEFINE us == Append(uses, u)
<1>1. /\ us \in Seq(Use) /\ DOMAIN uses = 1 .. Len(uses) /\ Len(uses) \in Nat
      /\ DOMAIN us = 1 .. (Len(uses) + 1)
      /\ \A i \in 1 .. Len(uses) : us[i] = uses[i]
      /\ us[Len(uses) + 1] = u
  BY Shapes, Added DEF IInv
<1>2. uses' = Harvested(us)
  OBVIOUS
<1> HIDE DEF us
<1>3. /\ DOMAIN uses' = DOMAIN us
      /\ \A i \in DOMAIN us :
           /\ uses'[i].tool = us[i].tool
           /\ us[i].at = "finished" =>
                uses'[i].at = "reported" /\ uses'[i].shown = us[i].shown + 1
           /\ us[i].at = "panicked" => uses'[i].at = "lost" /\ uses'[i].shown = us[i].shown
           /\ us[i].at \notin {"finished", "panicked"} => uses'[i] = us[i]
  BY <1>1, <1>2, Harvests
<1>4. Keeps
  BY <1>1, <1>3 DEF Keeps
<1> QED
  BY <1>1, <1>3, <1>4

\* The uses of a response to which one is added; what it is told of may grow.
LEMMA AddedStep ==
  ASSUME IInv, NEW u \in Use, u.shown = 0, uses' = Harvested(Append(uses, u)),
         u.at \in {"running", "erring", "queued", "blocked"},
         u.at = "running" => u.tool \notin Exclusive,
         u.at = "blocked" => AnsweredIn(messages', Len(uses) + 1),
         content' = content \cup {Len(uses) + 1}, pc = "streaming", pc' = pc,
         \A i : AnsweredIn(messages, i) => AnsweredIn(messages', i)
  PROVE  UsesFit' /\ AloneFits' /\ ContentFits'
<1> DEFINE new == Len(uses) + 1
<1>1. /\ DOMAIN uses' = 1 .. new /\ uses'[new] = u
      /\ DOMAIN uses = 1 .. Len(uses) /\ Len(uses) \in Nat
      /\ \A i \in DOMAIN uses :
           /\ uses'[i].tool = uses[i].tool
           /\ uses[i].at = "finished" =>
                uses'[i].at = "reported" /\ uses'[i].shown = uses[i].shown + 1
           /\ uses[i].at = "panicked" =>
                uses'[i].at = "lost" /\ uses'[i].shown = uses[i].shown
           /\ uses[i].at \notin {"finished", "panicked"} => uses'[i] = uses[i]
  BY AppendedUses, Shapes DEF IInv
<1>2. DOMAIN uses' = DOMAIN uses \cup {new}
  BY <1>1
<1>3. content' = content \cup {new}
  OBVIOUS
<1>4. u.at = "blocked" => AnsweredIn(messages', new)
  OBVIOUS
<1> HIDE DEF new
<1>5. UsesFit'
  <2>1. ASSUME NEW i \in DOMAIN uses PROVE UseFits(i)'
    <3>1. UseFits(i)
      BY DEF IInv, UsesFit
    <3>2. CASE uses[i].at = "finished"
      BY <1>1, <3>1, <3>2 DEF UseFits, Live, InSet
    <3>3. CASE uses[i].at = "panicked"
      BY <1>1, <3>1, <3>3 DEF UseFits, Live, InSet
    <3>4. CASE uses[i].at \notin {"finished", "panicked"}
      BY <1>1, <1>3, <3>1, <3>4 DEF UseFits, Live, InSet
    <3> QED
      BY <3>2, <3>3, <3>4
  <2>2. ASSUME NEW i, i = new PROVE UseFits(i)'
    BY <1>1, <1>3, <1>4, <2>2 DEF UseFits, Busy, Live, InSet
  <2> QED
    BY <1>2, <2>1, <2>2 DEF UsesFit
<1>6. AloneFits'
  <2>1. \A i \in DOMAIN uses' : uses'[i].at # "exclusive"
    BY <1>5 DEF UsesFit, UseFits
  <2> QED
    BY <2>1 DEF AloneFits
<1>7. ContentFits'
  BY <1>2, <1>3 DEF IInv, ContentFits
<1> QED
  BY <1>5, <1>6, <1>7

\* Nothing has answered a use that is yet to come.
LEMMA NewIsUnanswered ==
  ASSUME IInv
  PROVE  ~ AnsweredIn(messages, Len(uses) + 1)
BY Shapes DEF IInv, HistoryFits, AnsweredIn

\* A tool is handed to the executor.
LEMMA SubmitStep ==
  ASSUME IInv, NEW tool \in Tools, NEW valid \in BOOLEAN, SubmitTool(tool, valid)
  PROVE  UsesFit' /\ AloneFits' /\ HistoryFits' /\ ContentFits' /\ EndFits'
<1> DEFINE u == Submitted(tool, valid)
<1>1. /\ u \in Use /\ u.shown = 0 /\ u.tool = tool
      /\ u.at \in {"running", "erring", "queued"}
      /\ u.at = "running" => u.tool \notin Exclusive
  BY UseTypes DEF Submitted
<1>2. /\ uses' = Harvested(Append(uses, u)) /\ content' = content \cup {Len(uses) + 1}
      /\ UNCHANGED <<pc, messages, verdict>> /\ pc = "streaming"
  BY DEF SubmitTool, Streaming
<1> HIDE DEF u
<1>3. Keeps /\ UsesFit' /\ AloneFits' /\ ContentFits'
  BY <1>1, <1>2, AddedStep, AppendedUses
<1>4. HistoryFits'
  BY <1>2, <1>3, HistoryKept DEF IInv
<1>5. EndFits'
  BY <1>2, EndKept DEF IInv, verdict
<1> QED
  BY <1>3, <1>4, <1>5

\* A blocked use is answered at once, after the response so far.
LEMMA BlockStep ==
  ASSUME IInv, NEW tool \in Tools, BlockTool(tool)
  PROVE  UsesFit' /\ AloneFits' /\ HistoryFits' /\ ContentFits' /\ EndFits'
<1> DEFINE u    == Denied(tool)
           i    == Len(uses) + 1
           S    == content \cup {i}
           said == Append(messages, Assistant(S))
           told == Append(said, Results({i}))
<1>1. u \in Use /\ u.shown = 0 /\ u.at = "blocked"
  BY UseTypes DEF Denied
<1>2. /\ uses' = Harvested(Append(uses, u)) /\ content' = S
      /\ UNCHANGED <<pc, verdict>> /\ pc = "streaming"
  BY DEF BlockTool, Streaming
<1>3. messages' = told
  <2>1. messages \in Seq(Message)
    BY Shapes DEF IInv
  <2>2. messages' = messages \o <<Assistant(S), Results({i})>>
    BY DEF BlockTool
  <2>3. messages \o <<Assistant(S), Results({i})>> = told
    <3>1. \A a, b : messages \o <<a, b>> = Append(Append(messages, a), b)
      BY <2>1
    <3> QED
      BY <3>1
  <2> QED
    BY <2>2, <2>3
<1>4. S \in SUBSET Nat /\ {i} \in SUBSET Nat /\ i \in S
  BY Shapes DEF IInv
<1> HIDE DEF u, S, told, said
<1>5. /\ said \in Seq(Message) /\ PairedIn(said)
      /\ \A k : /\ AnsweredIn(said, k) <=> AnsweredIn(messages, k)
                /\ ToldIn(said, k) <=> ToldIn(messages, k) \/ k \in S
  <2>1. /\ messages \in Seq(Message) /\ Assistant(S) \in Message
        /\ Assistant(S).kind = "assistant" /\ Assistant(S).uses = S
    BY <1>4, Shapes, MessageTypes DEF IInv
  <2> QED
    BY <2>1, Pushed, PushTells, PushPairs DEF IInv, HistoryFits, said
<1>6. /\ PairedIn(told)
      /\ \A k : AnsweredIn(told, k) <=> AnsweredIn(messages, k) \/ k = i
  <2>1. /\ Results({i}) \in Message
        /\ Results({i}).kind = "results" /\ Results({i}).uses = {i}
    BY <1>4, MessageTypes
  <2>2. ToldIn(said, i) /\ ~ AnsweredIn(said, i)
    BY <1>4, <1>5, NewIsUnanswered
  <2>3. PairedIn(told)
    BY <1>5, <2>1, <2>2, PushPairs DEF told
  <2>4. \A k : AnsweredIn(told, k) <=> AnsweredIn(said, k) \/ k = i
    BY <1>5, <2>1, PushTells DEF told
  <2> QED
    BY <1>5, <2>3, <2>4
<1>7. UsesFit' /\ AloneFits' /\ ContentFits'
  <2>1. content' = content \cup {Len(uses) + 1}
    BY <1>2 DEF S
  <2>2. AnsweredIn(messages', Len(uses) + 1)
    BY <1>3, <1>6
  <2>3. \A k : AnsweredIn(messages, k) => AnsweredIn(messages', k)
    BY <1>3, <1>6
  <2> QED
    BY <1>1, <1>2, <2>1, <2>2, <2>3, AddedStep
<1>8. HistoryFits'
  <2>1. /\ DOMAIN uses' = 1 .. i /\ uses'[i] = u /\ Keeps /\ i \in Nat \ {0}
    BY <1>1, <1>2, AppendedUses, Shapes DEF IInv
  <2>2. ASSUME NEW n \in DOMAIN messages', messages'[n].kind = "results",
               NEW k \in messages'[n].uses
        PROVE  k \in DOMAIN uses' /\ uses'[k].at \in {"blocked", "reported"}
    <3>1. AnsweredIn(messages', k)
      BY <2>2 DEF AnsweredIn
    <3>2. AnsweredIn(messages, k) \/ k = i
      BY <1>3, <1>6, <3>1
    <3>3. CASE k = i
      BY <1>1, <2>1, <3>3
    <3>4. CASE AnsweredIn(messages, k)
      BY <2>1, <3>4 DEF AnsweredIn, HistoryFits, IInv, Keeps
    <3> QED
      BY <3>2, <3>3, <3>4
  <2> QED
    BY <1>3, <1>6, <2>2 DEF HistoryFits
<1>9. EndFits'
  BY <1>2, EndKept DEF IInv, verdict
<1> QED
  BY <1>7, <1>8, <1>9

\* A permission request cuts the stream short.
LEMMA AskStep ==
  ASSUME IInv, NEW tool \in Tools, AskForTool(tool)
  PROVE  UsesFit' /\ AloneFits' /\ HistoryFits' /\ ContentFits' /\ EndFits'
<1> DEFINE u  == AskedFor(tool)
           us == Append(uses, u)
<1>1. u \in Use /\ u.shown = 0 /\ u.at = "asked"
  BY UseTypes DEF AskedFor
<1>2. /\ uses' = Aborted(us) /\ content' = content /\ messages' = messages
      /\ pc = "streaming" /\ pc' = "returned"
  BY DEF AskForTool, Streaming
<1> HIDE DEF u
<1>3. /\ us \in Seq(Use) /\ DOMAIN uses = 1 .. Len(uses) /\ Len(uses) \in Nat
      /\ DOMAIN us = 1 .. (Len(uses) + 1)
      /\ \A i \in DOMAIN uses : us[i] = uses[i]
      /\ us[Len(uses) + 1] = u
  BY <1>1, Shapes, Added DEF IInv
<1> HIDE DEF us
<1>4. /\ DOMAIN uses' = DOMAIN us
      /\ \A i \in DOMAIN us :
           /\ uses'[i].tool = us[i].tool
           /\ uses'[i].shown = us[i].shown
           /\ uses'[i].at = IF us[i].at \in Live THEN "aborted" ELSE us[i].at
  BY <1>2, <1>3, Aborts
<1>5. \A i \in DOMAIN uses' : uses'[i].at \notin Live
  BY <1>4 DEF Live, InSet
<1>6. Keeps
  BY <1>3, <1>4 DEF Keeps, Live, InSet
<1>7. UsesFit'
  <2> SUFFICES ASSUME NEW i \in DOMAIN us PROVE UseFits(i)'
    BY <1>4 DEF UsesFit
  <2>1. CASE i \in DOMAIN uses
    <3>1. UseFits(i)
      BY <2>1 DEF IInv, UsesFit
    <3> QED
      BY <1>2, <1>3, <1>4, <1>5, <2>1, <3>1 DEF UseFits, Live, InSet
  <2>2. CASE i = Len(uses) + 1
    <3>1. uses'[i].at = "asked" /\ uses'[i].shown = 0
      BY <1>1, <1>3, <1>4, <2>2 DEF Live, InSet
    <3> QED
      BY <3>1 DEF UseFits, Live, InSet
  <2> QED
    BY <1>3, <2>1, <2>2
<1>8. AloneFits'
  BY <1>5 DEF AloneFits, Live
<1>9. ContentFits'
  BY <1>2, <1>3, <1>4 DEF IInv, ContentFits
<1>10. HistoryFits'
  BY <1>2, <1>6, HistoryKept DEF IInv
<1>11. EndFits'
  <2>1. slot = "none" /\ events = <<>>
    BY <1>2 DEF IInv, EndFits
  <2>2. /\ slot' = "permission" /\ stop' = "requires_action"
        /\ events' = <<"control_request", "turn_end">>
    BY <2>1 DEF AskForTool
  <2> QED
    BY <1>2, <2>2 DEF EndFits, EndIsAnnounced, Pauses, Silent
<1> QED
  BY <1>7, <1>8, <1>9, <1>10, <1>11

\* A tool in the executor moves on.
LEMMA ToolStep ==
  ASSUME IInv, NEW i \in DOMAIN uses,
         ToolFinishes(i) \/ ToolPanics(i) \/ Join(i) \/ RunExclusive(i) \/ ExclusiveFinishes(i)
  PROVE  UsesFit' /\ AloneFits' /\ HistoryFits' /\ ContentFits' /\ EndFits'
<1> USE DEF Live, InSet
<1>1. UNCHANGED <<messages, content>> /\ UNCHANGED verdict
  BY DEF ToolFinishes, ToolPanics, Join, RunExclusive, ExclusiveFinishes, Collecting
<1>2. UseFits(i)
  BY DEF IInv, UsesFit
<1>3. ASSUME Keeps, UsesFit', AloneFits', ContentFits'
      PROVE  UsesFit' /\ AloneFits' /\ HistoryFits' /\ ContentFits' /\ EndFits'
  <2>1. HistoryFits'
    BY <1>1, <1>3, HistoryKept DEF IInv
  <2>2. pc # "returned" /\ pc' # "returned"
    BY <1>2 DEF ToolFinishes, ToolPanics, Join, RunExclusive, ExclusiveFinishes, Collecting,
       UseFits, Busy
  <2>3. EndFits'
    BY <1>1, <2>2, EndKept DEF IInv, verdict
  <2> QED
    BY <1>3, <2>1, <2>3
<1>4. ASSUME ToolFinishes(i) \/ ToolPanics(i)
      PROVE  Keeps /\ UsesFit' /\ AloneFits' /\ ContentFits'
  <2>1. PICK at \in {"finished", "panicked"} : uses' = [uses EXCEPT ![i].at = at]
    BY <1>4 DEF ToolFinishes, ToolPanics
  <2>2. pc' = pc /\ uses[i].at \in {"running", "erring"}
    BY <1>4 DEF ToolFinishes, ToolPanics
  <2>3. \A j \in DOMAIN uses : uses[j].at # "exclusive"
    BY <2>2 DEF IInv, AloneFits
  <2> QED
    BY <1>1, <2>1, <2>2, <2>3, MovedStep
<1>5. ASSUME Join(i)
      PROVE  Keeps /\ UsesFit' /\ AloneFits' /\ ContentFits'
  <2>1. /\ pc = "joining" /\ pc' = pc
        /\ uses[i].at \in {"finished", "panicked"}
    BY <1>5 DEF Join, Collecting
  <2>2. Joined(uses[i], "collected") \in {"collected", "lost"}
    BY <2>1 DEF Joined
  <2>3. PICK at \in {"collected", "lost"} : uses' = [uses EXCEPT ![i].at = at]
    BY <1>5, <2>2 DEF Join
  <2>4. \A j \in DOMAIN uses : uses[j].at # "exclusive"
    BY <2>1 DEF IInv, UsesFit, UseFits
  <2> QED
    BY <1>1, <2>1, <2>3, <2>4, MovedStep
<1>6. ASSUME RunExclusive(i)
      PROVE  Keeps /\ UsesFit' /\ AloneFits' /\ ContentFits'
  <2>1. /\ pc = "joining" /\ pc' = "exclusive" /\ uses[i].at = "queued"
        /\ uses' = [uses EXCEPT ![i].at = "exclusive"] /\ At(InSet) = {}
    BY <1>6 DEF RunExclusive, Collecting
  <2>2. At(InSet \cup {"exclusive"}) = {}
    BY <2>1 DEF IInv, UsesFit, UseFits, At
  <2> QED
    BY <1>1, <2>1, <2>2, MovedStep
<1>7. ASSUME ExclusiveFinishes(i)
      PROVE  Keeps /\ UsesFit' /\ AloneFits' /\ ContentFits'
  <2>1. pc = "exclusive" /\ pc' = "joining" /\ uses[i].at = "exclusive"
    BY <1>7 DEF ExclusiveFinishes, Collecting
  <2>2. \A j \in DOMAIN uses : uses[j].at = "exclusive" => j = i
    BY <2>1 DEF IInv, AloneFits
  <2>3. PICK at \in {"collected"} : uses' = [uses EXCEPT ![i].at = at]
    BY <1>7 DEF ExclusiveFinishes
  <2> QED
    BY <1>1, <2>1, <2>2, <2>3, MovedStep
<1> QED
  BY <1>3, <1>4, <1>5, <1>6, <1>7

\* What is pushed was collected: uses of this response, all told, none answered.
LEMMA PushStep ==
  ASSUME IInv, PushResults
  PROVE  UsesFit' /\ AloneFits' /\ HistoryFits' /\ ContentFits' /\ EndFits'
<1> DEFINE S == At({"collected"})
<1>1. /\ pc = "joining" /\ pc' = "top" /\ content' = content /\ UNCHANGED verdict
      /\ \A i \in DOMAIN uses : uses[i].at \notin Live
      /\ messages' = Append(messages, Results(S))
  BY DEF PushResults, Collecting, Push, At
<1>2. /\ DOMAIN uses' = DOMAIN uses
      /\ \A i \in DOMAIN uses :
           /\ uses[i].at = "collected" => /\ uses'[i].tool = uses[i].tool
                                          /\ uses'[i].at = "reported"
                                          /\ uses'[i].shown = uses[i].shown + 1
           /\ uses[i].at # "collected" => uses'[i] = uses[i]
  BY Shapes, ShownUse DEF PushResults, IInv
<1>3. /\ Results(S) \in Message /\ Results(S).kind = "results" /\ Results(S).uses = S
      /\ messages \in Seq(Message)
  <2>1. S \in SUBSET Nat
    BY Shapes DEF At, IInv
  <2> QED
    BY <2>1, Shapes, MessageTypes DEF IInv
<1>4. \A i \in S : ToldIn(messages, i) /\ ~ AnsweredIn(messages, i)
  <2> SUFFICES ASSUME NEW i \in S PROVE ToldIn(messages, i) /\ ~ AnsweredIn(messages, i)
    OBVIOUS
  <2>1. i \in DOMAIN uses /\ uses[i].at = "collected"
    BY DEF At
  <2>2. i \in content
    BY <2>1 DEF IInv, UsesFit, UseFits
  <2>3. ToldIn(messages, i)
    BY <1>1, <2>2 DEF IInv, ContentFits
  <2>4. ~ AnsweredIn(messages, i)
    BY <2>1 DEF IInv, HistoryFits, AnsweredIn
  <2> QED
    BY <2>3, <2>4
<1>5. /\ PairedIn(messages')
      /\ \A i : AnsweredIn(messages', i) <=> AnsweredIn(messages, i) \/ i \in S
  BY <1>1, <1>3, <1>4, PushPairs, PushTells DEF IInv, HistoryFits
<1>6. UsesFit'
  <2> SUFFICES ASSUME NEW i \in DOMAIN uses PROVE UseFits(i)'
    BY <1>2 DEF UsesFit
  <2>1. UseFits(i)
    BY DEF IInv, UsesFit
  <2>2. CASE uses[i].at = "collected"
    BY <1>2, <2>1, <2>2 DEF UseFits, Live, InSet
  <2>3. CASE uses[i].at # "collected"
    BY <1>1, <1>2, <1>5, <2>1, <2>3 DEF UseFits, Live, InSet
  <2> QED
    BY <2>2, <2>3
<1>7. AloneFits'
  <2>1. \A i \in DOMAIN uses' : uses'[i].at # "exclusive"
    BY <1>1, <1>6 DEF UsesFit, UseFits
  <2> QED
    BY <2>1 DEF AloneFits
<1>8. HistoryFits'
  <2>1. ASSUME NEW n \in DOMAIN messages', messages'[n].kind = "results",
               NEW i \in messages'[n].uses
        PROVE  i \in DOMAIN uses' /\ uses'[i].at \in {"blocked", "reported"}
    <3>1. AnsweredIn(messages, i) \/ i \in S
      BY <1>5, <2>1 DEF AnsweredIn
    <3>2. CASE i \in S
      BY <1>2, <3>2 DEF At
    <3>3. CASE AnsweredIn(messages, i)
      <4>1. i \in DOMAIN uses /\ uses[i].at \in {"blocked", "reported"}
        BY <3>3 DEF AnsweredIn, HistoryFits, IInv
      <4> QED
        BY <1>2, <4>1
    <3> QED
      BY <3>1, <3>2, <3>3
  <2> QED
    BY <1>5, <2>1 DEF HistoryFits
<1>9. ContentFits'
  BY <1>1, <1>2 DEF IInv, ContentFits
<1>10. EndFits'
  BY <1>1, EndKept DEF IInv, verdict
<1> QED
  BY <1>6, <1>7, <1>8, <1>9, <1>10

\* Every step keeps the invariant.
LEMMA StepInv == IInv /\ [Next]_vars => IInv'
<1> SUFFICES ASSUME IInv, [Next]_vars PROVE IInv'
  OBVIOUS
<1>1. TypeOK'
  <2>1. CASE Next
    BY <2>1, TypeStep DEF IInv
  <2>2. CASE UNCHANGED vars
    BY <2>2 DEF IInv, TypeOK, vars, history, verdict
  <2> QED
    BY <2>1, <2>2
<1>2. UsesFit' /\ AloneFits' /\ HistoryFits' /\ ContentFits' /\ EndFits'
  BY QuietStep, HarvestStep, LeaveStep, EvaluateStep, SubmitStep, BlockStep, AskStep, ToolStep,
     PushStep DEF Next, Loop, Stream
<1> QED
  BY <1>1, <1>2 DEF IInv

--------------------------------------------------------------------------------
(* Theorems *)

\* The variables of the loop keep their types.
THEOREM TypeCorrect == Spec => []TypeOK
<1>1. IInv => TypeOK
  BY DEF IInv
<1> QED
  BY <1>1, InitInv, StepInv, PTL DEF Spec

\* What the history, the executor and the announcements say of each other, in
\* every reachable state.
THEOREM Inductive == Spec => []IInv
BY InitInv, StepInv, PTL DEF Spec

\* A tool that is not concurrent never runs beside another one.
THEOREM ExclusiveAlone == Spec => []ExclusiveRunsAlone
<1>1. IInv => ExclusiveRunsAlone
  BY DEF IInv, UsesFit, UseFits, AloneFits, ExclusiveRunsAlone, Runs, InSet
<1> QED
  BY <1>1, Inductive, PTL

\* No task of the executor is left behind by the response it belongs to.
THEOREM NoStray == Spec => []NoStrayTool
<1>1. IInv => NoStrayTool
  BY DEF IInv, UsesFit, UseFits, Busy, NoStrayTool, At
<1> QED
  BY <1>1, Inductive, PTL

\* A result follows the use it answers, and a use has one result at most.
THEOREM Paired == Spec => []ResultAnswersUse
<1>1. IInv => ResultAnswersUse
  BY DEF IInv, HistoryFits, PairedIn, ResultAnswersUse
<1> QED
  BY <1>1, Inductive, PTL

\* The user and the model are told of the same results, each once.
THEOREM ShownOnce == Spec => []ResultIsShownOnce
<1>1. IInv => ResultIsShownOnce
  <2> SUFFICES ASSUME IInv, NEW i \in DOMAIN uses
               PROVE  /\ uses[i].shown <= 1
                      /\ uses[i].at # "blocked" /\ Answered(i) => uses[i].shown = 1
                      /\ uses[i].at = "blocked" => uses[i].shown = 0 /\ Answered(i)
    BY DEF ResultIsShownOnce
  <2>1. UseFits(i)
    BY DEF IInv, UsesFit
  <2>2. Answered(i) <=> AnsweredIn(messages, i)
    BY DEF Answered, AnsweredIn
  <2>3. Answered(i) => uses[i].at \in {"blocked", "reported"}
    BY DEF Answered, IInv, HistoryFits
  <2> QED
    BY <2>1, <2>2, <2>3 DEF UseFits
<1> QED
  BY <1>1, Inductive, PTL

\* How the turn ended is the same for its caller and for the stream's readers.
THEOREM Announced == Spec => []EndIsAnnounced
<1>1. IInv => EndIsAnnounced
  BY DEF IInv, EndFits
<1> QED
  BY <1>1, Inductive, PTL
================================================================================
