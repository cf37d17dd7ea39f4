------------------------ MODULE ContextCompressionProofs ------------------------
(***************************************************************************)
(* What TLAPS proves of ContextCompression, for histories of any length    *)
(* and any limits: types, HistoryIsWhole, RecentIsTold and LossIsFolding,  *)
(* in which lengths and tokens play no part, for what a compression keeps  *)
(* does not depend on why it was made; and CallNearlyFits, which is all    *)
(* about lengths.  Chars is a recursive function: CharsCounted shows that  *)
(* it is one, by induction over a set of numbers (AllNaturals).            *)
(***************************************************************************)
EXTENDS ContextCompression, TLAPS, WellFoundedInduction

\* Only the head is ever a placeholder or a boundary, and then the latest messages
\* that both levels leave alone are behind it.
HeadFits ==
  /\ messages = <<>> => pushed = 0
  /\ messages # <<>> /\ messages[1].kind \in Verbatim => Len(messages) = pushed
  /\ messages # <<>> /\ messages[1].kind \notin Verbatim =>
       Len(messages) > KeepRecent \/ Len(messages) > KeepRecentMessages

IInv == TypeOK /\ HistoryIsWhole /\ HeadFits /\ LossIsFolding

--------------------------------------------------------------------------------
(* Lists of messages *)

\* A list of messages, position by position.
LEMMA Positions ==
  ASSUME NEW ms \in Seq(Message)
  PROVE  /\ DOMAIN ms = 1 .. Len(ms) /\ Len(ms) \in Nat
         /\ \A i \in DOMAIN ms : ms[i] \in Message
         /\ ms = <<>> <=> Len(ms) = 0
OBVIOUS

\* The fields of a message.
LEMMA Fields ==
  ASSUME NEW m \in Message
  PROVE  /\ m.kind \in Verbatim \cup {"folded", "boundary"}
         /\ m.from \in Nat \ {0} /\ m.to \in Nat \ {0}
         /\ m.size \in Nat /\ m.given \in SUBSET Nat
BY DEF Message

\* Both parts of a history that is split.
LEMMA Splits ==
  ASSUME NEW ms \in Seq(Message), NEW keep \in Nat, Len(ms) > keep
  PROVE  /\ Earlier(ms, keep) \in Seq(Message)
         /\ Len(Earlier(ms, keep)) = Len(ms) - keep
         /\ \A i \in 1 .. Len(ms) - keep : Earlier(ms, keep)[i] = ms[i]
         /\ Last(Earlier(ms, keep)) = ms[Len(ms) - keep]
         /\ Latest(ms, keep) \in Seq(Message)
         /\ Len(Latest(ms, keep)) = keep
         /\ \A i \in 1 .. keep : Latest(ms, keep)[i] = ms[Len(ms) - keep + i]
<1>1. Len(ms) \in Nat
  OBVIOUS
<1>2. /\ Earlier(ms, keep) \in Seq(Message)
      /\ Len(Earlier(ms, keep)) = Len(ms) - keep
      /\ \A i \in 1 .. Len(ms) - keep : Earlier(ms, keep)[i] = ms[i]
  BY <1>1 DEF Earlier
<1>3. Last(Earlier(ms, keep)) = ms[Len(ms) - keep]
  BY <1>1, <1>2 DEF Last
<1>4. /\ Latest(ms, keep) \in Seq(Message)
      /\ Len(Latest(ms, keep)) = keep
      /\ \A i \in 1 .. keep : Latest(ms, keep)[i] = ms[Len(ms) - keep + i]
  BY <1>1 DEF Latest
<1> QED
  BY <1>2, <1>3, <1>4

\* A message put before a list of messages.
LEMMA Headed ==
  ASSUME NEW head \in Message, NEW tail \in Seq(Message)
  PROVE  /\ <<head>> \o tail \in Seq(Message)
         /\ Len(<<head>> \o tail) = 1 + Len(tail)
         /\ (<<head>> \o tail)[1] = head
         /\ \A i \in 1 .. Len(tail) : (<<head>> \o tail)[1 + i] = tail[i]
OBVIOUS

\* The budget changes nothing but lengths.
LEMMA Budgets ==
  ASSUME NEW ms \in Seq(Message)
  PROVE  /\ Budgeted(ms) \in Seq(Message)
         /\ DOMAIN Budgeted(ms) = DOMAIN ms /\ Len(Budgeted(ms)) = Len(ms)
         /\ \A i \in DOMAIN ms :
              /\ Budgeted(ms)[i].kind = ms[i].kind
              /\ Budgeted(ms)[i].from = ms[i].from
              /\ Budgeted(ms)[i].to = ms[i].to
              /\ Budgeted(ms)[i].given = ms[i].given
<1>1. DOMAIN ms = 1 .. Len(ms) /\ Len(ms) \in Nat
  OBVIOUS
<1>2. ASSUME NEW i \in DOMAIN ms
      PROVE  /\ Budgeted(ms)[i] \in Message
             /\ Budgeted(ms)[i].kind = ms[i].kind
             /\ Budgeted(ms)[i].from = ms[i].from
             /\ Budgeted(ms)[i].to = ms[i].to
             /\ Budgeted(ms)[i].given = ms[i].given
  <2>1. ms[i] \in Message
    OBVIOUS
  <2>2. ToolResultMaxChars + NoteSize \in Nat
    BY CompressionAssumption
  <2>3. \/ Budgeted(ms)[i] = ms[i]
        \/ Budgeted(ms)[i] = [ms[i] EXCEPT !.size = ToolResultMaxChars + NoteSize]
    BY DEF Budgeted
  <2> QED
    BY <2>1, <2>2, <2>3 DEF Message
<1>3. DOMAIN Budgeted(ms) = DOMAIN ms
  BY DEF Budgeted
<1>4. Budgeted(ms) = [i \in 1 .. Len(ms) |-> Budgeted(ms)[i]]
  BY <1>1 DEF Budgeted
<1>5. Budgeted(ms) \in Seq(Message)
  BY <1>1, <1>2, <1>4
<1> QED
  BY <1>1, <1>2, <1>3, <1>5

--------------------------------------------------------------------------------
(* Steps *)

\* A new thread.
LEMMA InitInv == Init => IInv
BY DEF Init, IInv, TypeOK, Places, HistoryIsWhole, HeadFits, LossIsFolding

\* A history that differs from a whole one in lengths is as whole.
LEMMA BudgetKeeps ==
  ASSUME TypeOK, HistoryIsWhole, HeadFits, NEW ms, ms = Budgeted(messages)
  PROVE  /\ ms \in Seq(Message) /\ Len(ms) = Len(messages) /\ Len(ms) \in Nat
         /\ DOMAIN ms = 1 .. Len(ms)
         /\ \A i \in 1 .. Len(ms) :
              /\ ms[i].kind = messages[i].kind
              /\ ms[i].to = pushed - Len(ms) + i
              /\ ms[i].from = IF i = 1 THEN 1 ELSE ms[i].to
              /\ ms[i].kind \in Verbatim => ms[i].given = {ms[i].to}
              /\ i > 1 => ms[i].kind \in Verbatim
         /\ Given(ms) = Given(messages)
<1>1. /\ messages \in Seq(Message)
      /\ DOMAIN messages = 1 .. Len(messages) /\ Len(messages) \in Nat
  BY Positions DEF TypeOK
<1>2. /\ ms \in Seq(Message) /\ DOMAIN ms = DOMAIN messages /\ Len(ms) = Len(messages)
      /\ \A i \in DOMAIN messages :
           /\ ms[i].kind = messages[i].kind
           /\ ms[i].from = messages[i].from
           /\ ms[i].to = messages[i].to
           /\ ms[i].given = messages[i].given
  BY <1>1, Budgets
<1>3. Given(ms) = Given(messages)
  BY <1>2 DEF Given
<1>4. \A i \in 1 .. Len(ms) :
        /\ ms[i].kind = messages[i].kind
        /\ ms[i].to = pushed - Len(ms) + i
        /\ ms[i].from = IF i = 1 THEN 1 ELSE ms[i].to
        /\ ms[i].kind \in Verbatim => ms[i].given = {ms[i].to}
        /\ i > 1 => ms[i].kind \in Verbatim
  BY <1>1, <1>2 DEF HistoryIsWhole
<1> QED
  BY <1>1, <1>2, <1>3, <1>4

\* All but the latest messages are replaced by one that stands for them.
LEMMA HeadStep ==
  ASSUME IInv, NEW ms, ms = Budgeted(messages), NEW keep \in {KeepRecent, KeepRecentMessages},
         Len(ms) > keep, NEW head \in Message, head.kind \notin Verbatim,
         head.from = ms[1].from, head.to = Last(Earlier(ms, keep)).to,
         messages' = <<head>> \o Latest(ms, keep), pushed' = pushed
  PROVE  /\ messages' \in Seq(Message) /\ HistoryIsWhole' /\ HeadFits'
         /\ Given(messages') = head.given \cup Given(Latest(ms, keep))
<1> DEFINE tail == Latest(ms, keep)
<1>1. /\ ms \in Seq(Message) /\ Len(ms) \in Nat /\ keep \in Nat /\ pushed \in Nat
      /\ \A i \in 1 .. Len(ms) :
           /\ ms[i].to = pushed - Len(ms) + i
           /\ ms[i].from = IF i = 1 THEN 1 ELSE ms[i].to
           /\ ms[i].kind \in Verbatim => ms[i].given = {ms[i].to}
           /\ i > 1 => ms[i].kind \in Verbatim
  BY BudgetKeeps, CompressionAssumption DEF IInv, TypeOK
<1>2. /\ tail \in Seq(Message) /\ Len(tail) = keep
      /\ \A i \in 1 .. keep : tail[i] = ms[Len(ms) - keep + i]
      /\ Last(Earlier(ms, keep)) = ms[Len(ms) - keep]
  <2>1. ms \in Seq(Message) /\ keep \in Nat
    BY <1>1
  <2> QED
    BY <2>1, Splits
<1> HIDE DEF tail
<1>3. /\ messages' \in Seq(Message)
      /\ Len(messages') = 1 + keep
      /\ messages'[1] = head
      /\ \A i \in 1 .. keep : messages'[1 + i] = tail[i]
      /\ DOMAIN messages' = 1 .. (1 + keep)
  <2>1. messages' = <<head>> \o tail
    BY DEF tail
  <2>2. tail \in Seq(Message)
    BY <1>2
  <2>3. /\ messages' \in Seq(Message) /\ Len(messages') = 1 + Len(tail)
        /\ messages'[1] = head
        /\ \A i \in 1 .. Len(tail) : messages'[1 + i] = tail[i]
    <3>1. /\ <<head>> \o tail \in Seq(Message) /\ Len(<<head>> \o tail) = 1 + Len(tail)
          /\ (<<head>> \o tail)[1] = head
          /\ \A i \in 1 .. Len(tail) : (<<head>> \o tail)[1 + i] = tail[i]
      BY <2>2, Headed, Zenon
    <3> QED
      BY <2>1, <3>1, Zenon
  <2> QED
    BY <1>2, <2>3, Positions
<1>4. \A i \in 2 .. 1 + keep : messages'[i] = ms[Len(ms) - keep + i - 1]
  <2> SUFFICES ASSUME NEW i \in 2 .. 1 + keep
               PROVE  messages'[i] = ms[Len(ms) - keep + i - 1]
    OBVIOUS
  <2>1. i - 1 \in 1 .. keep /\ 1 + (i - 1) = i
    BY <1>1
  <2>2. messages'[i] = tail[i - 1]
    BY <1>3, <2>1
  <2>3. tail[i - 1] = ms[Len(ms) - keep + (i - 1)]
    BY <1>2, <2>1
  <2> QED
    BY <1>1, <2>2, <2>3
<1>5. HistoryIsWhole'
  <2> SUFFICES ASSUME NEW i \in 1 .. (1 + keep)
               PROVE  /\ messages'[i].to = pushed - (1 + keep) + i
                      /\ messages'[i].from = IF i = 1 THEN 1 ELSE messages'[i].to
                      /\ messages'[i].kind \in Verbatim =>
                           messages'[i].given = {messages'[i].to}
                      /\ i > 1 => messages'[i].kind \in Verbatim
    <3>1. DOMAIN messages' = 1 .. (1 + keep) /\ Len(messages') = 1 + keep /\ pushed' = pushed
      BY <1>3
    <3> QED
      BY <3>1 DEF HistoryIsWhole
  <2>1. CASE i = 1
    <3>1. 1 \in 1 .. Len(ms) /\ Len(ms) - keep \in 1 .. Len(ms)
      BY <1>1
    <3>2. head.to = pushed - Len(ms) + (Len(ms) - keep) /\ head.from = 1
      <4>1. head.to = ms[Len(ms) - keep].to
        BY <1>2
      <4>2. ms[Len(ms) - keep].to = pushed - Len(ms) + (Len(ms) - keep)
        BY <1>1, <3>1, Zenon
      <4>3. ms[1].from = 1
        BY <1>1, <3>1
      <4> QED
        BY <4>1, <4>2, <4>3
    <3>3. head.to = pushed - (1 + keep) + 1
      BY <1>1, <3>2
    <3> QED
      BY <1>3, <2>1, <3>2, <3>3
  <2>2. CASE i \in 2 .. 1 + keep
    <3> DEFINE k == Len(ms) - keep + i - 1
    <3>1. k \in 1 .. Len(ms) /\ k > 1 /\ pushed - Len(ms) + k = pushed - (1 + keep) + i
      BY <1>1, <2>2
    <3>2. messages'[i] = ms[k]
      BY <1>4, <2>2
    <3> HIDE DEF k
    <3>3. /\ ms[k].to = pushed - (1 + keep) + i
          /\ ms[k].from = ms[k].to
          /\ ms[k].kind \in Verbatim /\ ms[k].given = {ms[k].to}
      BY <1>1, <3>1
    <3>4. i > 1 /\ i # 1
      BY <1>1, <2>2
    <3> QED
      BY <3>2, <3>3, <3>4
  <2>3. i = 1 \/ i \in 2 .. 1 + keep
    BY <1>1
  <2> QED
    BY <2>1, <2>2, <2>3
<1>6. HeadFits'
  BY <1>1, <1>3 DEF HeadFits
<1>7. Given(messages') = head.given \cup Given(tail)
  <2>1. DOMAIN tail = 1 .. keep
    BY <1>1, <1>2
  <2>2. \A i \in 1 .. (1 + keep) : i = 1 \/ \E j \in 1 .. keep : i = 1 + j
    <3> SUFFICES ASSUME NEW i \in 1 .. (1 + keep), i # 1
                 PROVE  \E j \in 1 .. keep : i = 1 + j
      OBVIOUS
    <3>1. i - 1 \in 1 .. keep /\ i = 1 + (i - 1)
      BY <1>1
    <3> QED
      BY <3>1
  <2>3. \A j \in 1 .. keep : 1 + j \in 1 .. (1 + keep)
    BY <1>1
  <2>4. 1 \in 1 .. (1 + keep)
    BY <1>1
  <2> QED
    <3>1. Given(messages') = UNION {messages'[i].given : i \in 1 .. (1 + keep)}
      BY <1>3 DEF Given
    <3>2. Given(tail) = UNION {tail[j].given : j \in 1 .. keep}
      BY <2>1 DEF Given
    <3>3. \A x : x \in Given(messages') <=> \E i \in 1 .. (1 + keep) : x \in messages'[i].given
      BY <3>1
    <3>4. \A x : x \in Given(tail) <=> \E j \in 1 .. keep : x \in tail[j].given
      BY <3>2
    <3>5. \A x : x \in Given(messages') <=> x \in head.given \/ x \in Given(tail)
      <4>1. ASSUME NEW x, x \in Given(messages')
            PROVE  x \in head.given \/ x \in Given(tail)
        <5>1. PICK i \in 1 .. (1 + keep) : x \in messages'[i].given
          BY <3>3, <4>1
        <5>2. CASE i = 1
          BY <1>3, <5>1, <5>2
        <5>3. ASSUME NEW j \in 1 .. keep, i = 1 + j
              PROVE  x \in Given(tail)
          <6>1. messages'[1 + j] = tail[j]
            BY <1>3
          <6> QED
            BY <3>4, <5>1, <5>3, <6>1
        <5> QED
          BY <2>2, <5>2, <5>3
      <4>2. ASSUME NEW x, x \in head.given
            PROVE  x \in Given(messages')
        BY <1>3, <2>4, <3>3, <4>2
      <4>3. ASSUME NEW x, x \in Given(tail)
            PROVE  x \in Given(messages')
        <5>1. PICK j \in 1 .. keep : x \in tail[j].given
          BY <3>4, <4>3
        <5>2. messages'[1 + j] = tail[j] /\ 1 + j \in 1 .. (1 + keep)
          BY <1>3, <2>3
        <5> QED
          BY <3>3, <5>1, <5>2
      <4> QED
        BY <4>1, <4>2, <4>3
    <3> QED
      BY <3>5
<1> QED
  BY <1>3, <1>5, <1>6, <1>7 DEF tail

\* A split history holds what it held.
LEMMA GivenSplits ==
  ASSUME NEW ms \in Seq(Message), NEW keep \in Nat, Len(ms) > keep
  PROVE  Given(ms) = Given(Earlier(ms, keep)) \cup Given(Latest(ms, keep))
<1> DEFINE old == Earlier(ms, keep)
           new == Latest(ms, keep)
<1>1. /\ DOMAIN ms = 1 .. Len(ms) /\ Len(ms) \in Nat
      /\ DOMAIN old = 1 .. Len(ms) - keep /\ DOMAIN new = 1 .. keep
      /\ \A i \in 1 .. Len(ms) - keep : old[i] = ms[i]
      /\ \A i \in 1 .. keep : new[i] = ms[Len(ms) - keep + i]
  BY Splits
<1> HIDE DEF old, new
<1>2. ASSUME NEW i \in DOMAIN ms
      PROVE  (\E j \in DOMAIN old : old[j] = ms[i]) \/ (\E j \in DOMAIN new : new[j] = ms[i])
  <2>1. CASE i <= Len(ms) - keep
    BY <1>1, <2>1
  <2>2. CASE i > Len(ms) - keep
    <3>1. i - (Len(ms) - keep) \in 1 .. keep /\ Len(ms) - keep + (i - (Len(ms) - keep)) = i
      BY <1>1, <2>2
    <3> QED
      BY <1>1, <3>1
  <2> QED
    BY <1>1, <2>1, <2>2
<1>3. \A j \in DOMAIN old : j \in DOMAIN ms /\ old[j] = ms[j]
  BY <1>1
<1>4. \A j \in DOMAIN new : Len(ms) - keep + j \in DOMAIN ms /\ new[j] = ms[Len(ms) - keep + j]
  BY <1>1
<1>5. Given(ms) \subseteq Given(old) \cup Given(new)
  BY <1>2 DEF Given
<1>6. Given(old) \subseteq Given(ms)
  BY <1>3 DEF Given
<1>7. Given(new) \subseteq Given(ms)
  BY <1>4 DEF Given
<1> QED
  BY <1>5, <1>6, <1>7 DEF old, new

\* L2 takes from the history what it counts as folded.
LEMMA CollapseStep == IInv /\ Collapse => IInv'
<1> SUFFICES ASSUME IInv, Collapse PROVE IInv'
  OBVIOUS
<1>1. PICK old : old = Budgeted(messages)
  OBVIOUS
<1>2. /\ old \in Seq(Message) /\ Len(old) \in Nat /\ pushed \in Nat /\ KeepRecent \in Nat
      /\ Len(old) > KeepRecent
      /\ \A i \in 1 .. Len(old) :
           /\ old[i].to = pushed - Len(old) + i
           /\ old[i].kind \in Verbatim => old[i].given = {old[i].to}
           /\ i > 1 => old[i].kind \in Verbatim
  BY <1>1, BudgetKeeps, CompressionAssumption DEF IInv, TypeOK, Collapse, Collapsible
<1>3. old[1].from = 1
  BY <1>1, <1>2, BudgetKeeps DEF IInv
<1>4. /\ Last(Earlier(old, KeepRecent)) = old[Len(old) - KeepRecent]
      /\ old[Len(old) - KeepRecent].to = pushed - KeepRecent
      /\ Latest(old, KeepRecent) \in Seq(Message)
      /\ \A i \in 1 .. KeepRecent : Latest(old, KeepRecent)[i] = old[Len(old) - KeepRecent + i]
      /\ DOMAIN Latest(old, KeepRecent) = 1 .. KeepRecent
  <2>1. old \in Seq(Message) /\ KeepRecent \in Nat /\ Len(old) > KeepRecent
    BY <1>2
  <2>2. /\ Last(Earlier(old, KeepRecent)) = old[Len(old) - KeepRecent]
        /\ Latest(old, KeepRecent) \in Seq(Message)
        /\ Len(Latest(old, KeepRecent)) = KeepRecent
        /\ \A i \in 1 .. KeepRecent :
             Latest(old, KeepRecent)[i] = old[Len(old) - KeepRecent + i]
    BY <2>1, Splits
  <2>3. Len(old) - KeepRecent \in 1 .. Len(old)
    BY <1>2
  <2>4. old[Len(old) - KeepRecent].to = pushed - Len(old) + (Len(old) - KeepRecent)
    BY <1>2, <2>3
  <2>5. old[Len(old) - KeepRecent].to = pushed - KeepRecent
    BY <1>2, <2>4
  <2> QED
    BY <2>2, <2>5, Positions
<1>5. PICK fold \in Message :
        /\ fold = [kind |-> "folded", from |-> old[1].from,
                   to |-> Last(Earlier(old, KeepRecent)).to,
                   size |-> PlaceholderSize, given |-> {}]
        /\ messages' = <<fold>> \o Latest(old, KeepRecent)
        /\ folded' = folded \cup (1 .. pushed - KeepRecent)
  <2> DEFINE fold == [kind |-> "folded", from |-> old[1].from,
                      to |-> Last(Earlier(old, KeepRecent)).to,
                      size |-> PlaceholderSize, given |-> {}]
  <2>2. fold \in Message
    <3>1. 1 \in 1 .. Len(old) /\ Len(old) - KeepRecent \in 1 .. Len(old)
      BY <1>2
    <3>2. old[1] \in Message /\ old[Len(old) - KeepRecent] \in Message
      BY <1>2, <3>1
    <3> QED
      BY <1>4, <3>2, CompressionAssumption DEF Message
  <2>3. messages' = <<fold>> \o Latest(old, KeepRecent)
    BY <1>1 DEF Collapse, Collapsed
  <2>4. folded' = folded \cup (1 .. pushed - KeepRecent)
    BY <1>1, <1>3, <1>4 DEF Collapse
  <2> QED
    BY <2>2, <2>3, <2>4
<1>6. fold.kind \notin Verbatim /\ fold.from = old[1].from /\ fold.given = {}
      /\ fold.to = Last(Earlier(old, KeepRecent)).to
  BY <1>5 DEF Verbatim
<1>7. pushed' = pushed /\ pressure' = pressure /\ pc' = "calling"
  BY DEF Collapse, Squeeze
<1>8. /\ messages' \in Seq(Message) /\ HistoryIsWhole' /\ HeadFits'
      /\ Given(messages') = {} \cup Given(Latest(old, KeepRecent))
  BY <1>1, <1>2, <1>5, <1>6, <1>7, HeadStep
<1>9. LossIsFolding'
  <2> SUFFICES ASSUME NEW i \in 1 .. pushed, i \notin folded'
               PROVE  i \in Given(Latest(old, KeepRecent))
    BY <1>7, <1>8 DEF LossIsFolding
  <2> DEFINE j == i - pushed + KeepRecent
             k == i - pushed + Len(old)
  <2>1. /\ j \in 1 .. KeepRecent /\ k \in 1 .. Len(old) /\ k > 1
        /\ k = Len(old) - KeepRecent + j /\ pushed - Len(old) + k = i
    BY <1>2, <1>5
  <2> HIDE DEF j, k
  <2>2. old[k].given = {i}
    BY <1>2, <2>1
  <2>3. Latest(old, KeepRecent)[j] = old[k]
    BY <1>4, <2>1
  <2> QED
    BY <1>4, <2>1, <2>2, <2>3 DEF Given
<1>10. TypeOK'
  BY <1>2, <1>5, <1>7, <1>8 DEF IInv, TypeOK, Places
<1> QED
  BY <1>8, <1>9, <1>10 DEF IInv

\* A summary holds what the messages it is made of held.
LEMMA CompactStep ==
  ASSUME IInv, NEW size \in SummarySizes, Compact(size)
  PROVE  IInv'
<1>1. PICK old : old = Budgeted(messages)
  OBVIOUS
<1>2. /\ old \in Seq(Message) /\ Len(old) \in Nat /\ KeepRecentMessages \in Nat
      /\ Len(old) > KeepRecentMessages /\ Given(old) = Given(messages)
  BY <1>1, BudgetKeeps, CompressionAssumption DEF IInv, Compact, Compactable
<1> DEFINE past == Earlier(old, KeepRecentMessages)
<1>3. /\ past \in Seq(Message) /\ Last(past) = old[Len(old) - KeepRecentMessages]
      /\ Given(old) = Given(past) \cup Given(Latest(old, KeepRecentMessages))
  <2>1. old \in Seq(Message) /\ KeepRecentMessages \in Nat /\ Len(old) > KeepRecentMessages
    BY <1>2
  <2> QED
    BY <2>1, Splits, GivenSplits
<1> HIDE DEF past
<1>4. PICK head \in Message :
        /\ head.kind \notin Verbatim /\ head.from = old[1].from /\ head.to = Last(past).to
        /\ head.given = Given(past)
        /\ messages' = <<head>> \o Latest(old, KeepRecentMessages)
  <2> DEFINE head == [kind |-> "boundary", from |-> old[1].from, to |-> Last(past).to,
                      size |-> size, given |-> Given(past)]
  <2>1. 1 \in 1 .. Len(old) /\ Len(old) - KeepRecentMessages \in 1 .. Len(old)
    BY <1>2
  <2>2. old[1] \in Message /\ Last(past) \in Message
    BY <1>2, <1>3, <2>1
  <2>3. Given(past) \in SUBSET Nat
    <3>1. \A i \in DOMAIN past : past[i].given \in SUBSET Nat
      BY <1>3, Positions, Fields
    <3> QED
      BY <3>1 DEF Given
  <2>4. head \in Message
    BY <2>2, <2>3, CompressionAssumption DEF Message
  <2>5. messages' = <<head>> \o Latest(old, KeepRecentMessages)
    BY <1>1 DEF Compact, Compacted, past
  <2>6. /\ head.kind \notin Verbatim /\ head.from = old[1].from /\ head.to = Last(past).to
        /\ head.given = Given(past)
    BY DEF Verbatim
  <2> QED
    BY <2>4, <2>5, <2>6
<1>5. pushed' = pushed /\ folded' = folded /\ pressure' = pressure /\ pc' = "calling"
  BY DEF Compact, Squeeze
<1>6. /\ messages' \in Seq(Message) /\ HistoryIsWhole' /\ HeadFits'
      /\ Given(messages') = Given(past) \cup Given(Latest(old, KeepRecentMessages))
  BY <1>1, <1>2, <1>4, <1>5, HeadStep DEF past
<1>7. LossIsFolding'
  BY <1>2, <1>3, <1>5, <1>6 DEF IInv, LossIsFolding
<1> QED
  BY <1>5, <1>6, <1>7 DEF IInv, TypeOK, Places

\* Steps that change no more than lengths.
LEMMA BudgetStep == IInv /\ (CheckPressure \/ PassThrough) => IInv'
<1> SUFFICES ASSUME IInv, CheckPressure \/ PassThrough PROVE IInv'
  OBVIOUS
<1>1. PICK ms : ms = Budgeted(messages)
  OBVIOUS
<1>2. messages' = ms /\ pushed' = pushed /\ folded' = folded
  BY <1>1 DEF CheckPressure, PassThrough, Squeeze
<1>3. /\ ms \in Seq(Message) /\ Len(ms) = Len(messages) /\ Len(ms) \in Nat
      /\ DOMAIN ms = 1 .. Len(ms)
      /\ \A i \in 1 .. Len(ms) :
           /\ ms[i].kind = messages[i].kind
           /\ ms[i].to = pushed - Len(ms) + i
           /\ ms[i].from = IF i = 1 THEN 1 ELSE ms[i].to
           /\ ms[i].kind \in Verbatim => ms[i].given = {ms[i].to}
           /\ i > 1 => ms[i].kind \in Verbatim
      /\ Given(ms) = Given(messages)
  BY <1>1, BudgetKeeps DEF IInv
<1>4. HistoryIsWhole'
  BY <1>2, <1>3 DEF HistoryIsWhole
<1>5. HeadFits'
  <2>1. ms = <<>> <=> messages = <<>>
    BY <1>3, Positions DEF IInv, TypeOK
  <2>2. ms # <<>> => ms[1].kind = messages[1].kind
    BY <1>3, Positions
  <2> QED
    BY <1>2, <1>3, <2>1, <2>2 DEF IInv, HeadFits
<1>6. LossIsFolding'
  BY <1>2, <1>3 DEF IInv, LossIsFolding
<1>7. pc' \in Places /\ pressure' \in {"normal", "compact", "overflow"}
  BY DEF CheckPressure, PassThrough, Squeeze, Places, Pressure, IInv, TypeOK
<1> QED
  BY <1>2, <1>3, <1>4, <1>5, <1>6, <1>7 DEF IInv, TypeOK

\* A message is pushed.
LEMMA PushStep ==
  ASSUME IInv, NEW kind \in Verbatim, NEW size \in MessageSizes, Push(kind, size),
         folded' = folded
  PROVE  /\ messages' \in Seq(Message) /\ pushed' \in Nat
         /\ HistoryIsWhole' /\ HeadFits' /\ LossIsFolding'
<1>1. /\ messages \in Seq(Message) /\ pushed \in Nat /\ pushed' = pushed + 1
      /\ DOMAIN messages = 1 .. Len(messages) /\ Len(messages) \in Nat
  BY Positions DEF IInv, TypeOK, Push
<1>2. PICK m \in Message :
        /\ m.kind = kind /\ m.from = pushed + 1 /\ m.to = pushed + 1 /\ m.given = {pushed + 1}
        /\ messages' = Append(messages, m)
  <2> DEFINE new == [kind |-> kind, from |-> pushed + 1, to |-> pushed + 1, size |-> size,
                     given |-> {pushed + 1}]
  <2>1. /\ kind \in Verbatim \cup {"folded", "boundary"} /\ size \in Nat
        /\ pushed + 1 \in Nat \ {0} /\ {pushed + 1} \in SUBSET Nat
    BY <1>1, CompressionAssumption
  <2>2. new \in Message
    BY <2>1 DEF Message
  <2>3. messages' = Append(messages, new)
    BY DEF Push, Fresh
  <2>4. /\ new.kind = kind /\ new.from = pushed + 1 /\ new.to = pushed + 1
        /\ new.given = {pushed + 1}
    OBVIOUS
  <2> HIDE DEF new
  <2> QED
    BY <2>2, <2>3, <2>4
<1>3. /\ messages' \in Seq(Message) /\ Len(messages') = Len(messages) + 1
      /\ DOMAIN messages' = 1 .. Len(messages) + 1
      /\ \A i \in 1 .. Len(messages) : messages'[i] = messages[i]
      /\ messages'[Len(messages) + 1] = m
  BY <1>1, <1>2
<1>4. messages = <<>> => pushed = 0
  BY DEF IInv, HeadFits
<1>5. HistoryIsWhole'
  <2> SUFFICES ASSUME NEW i \in 1 .. Len(messages) + 1
               PROVE  /\ messages'[i].to = pushed' - Len(messages') + i
                      /\ messages'[i].from = IF i = 1 THEN 1 ELSE messages'[i].to
                      /\ messages'[i].kind \in Verbatim =>
                           messages'[i].given = {messages'[i].to}
                      /\ i > 1 => messages'[i].kind \in Verbatim
    BY <1>3 DEF HistoryIsWhole
  <2>1. CASE i \in 1 .. Len(messages)
    <3>1. /\ messages[i].to = pushed - Len(messages) + i
          /\ messages[i].from = IF i = 1 THEN 1 ELSE messages[i].to
          /\ messages[i].kind \in Verbatim => messages[i].given = {messages[i].to}
          /\ i > 1 => messages[i].kind \in Verbatim
      BY <1>1, <2>1 DEF IInv, HistoryIsWhole
    <3>2. pushed' - Len(messages') + i = pushed - Len(messages) + i
      BY <1>1, <1>3
    <3> QED
      BY <1>3, <2>1, <3>1, <3>2
  <2>2. CASE i = Len(messages) + 1
    <3>1. pushed' - Len(messages') + i = pushed + 1
      BY <1>1, <1>3, <2>2
    <3>2. i = 1 => pushed = 0
      BY <1>1, <1>4, <2>2
    <3> QED
      BY <1>2, <1>3, <2>2, <3>1, <3>2
  <2> QED
    BY <1>1, <2>1, <2>2
<1>6. HeadFits'
  <2>1. CASE messages = <<>>
    BY <1>1, <1>2, <1>3, <1>4, <2>1 DEF HeadFits
  <2>2. CASE messages # <<>>
    <3>1. 1 \in 1 .. Len(messages)
      BY <1>1, <2>2, Positions
    <3>2. messages'[1] = messages[1] /\ Len(messages') = Len(messages) + 1
      BY <1>3, <3>1
    <3>3. messages' # <<>>
      BY <1>1, <1>3, Positions
    <3>4. KeepRecent \in Nat /\ KeepRecentMessages \in Nat
      BY CompressionAssumption
    <3>5. messages[1].kind \in Verbatim => Len(messages') = pushed'
      BY <1>1, <2>2, <3>2 DEF IInv, HeadFits
    <3>6. messages[1].kind \notin Verbatim =>
            Len(messages') > KeepRecent \/ Len(messages') > KeepRecentMessages
      <4>1. messages[1].kind \notin Verbatim =>
              Len(messages) > KeepRecent \/ Len(messages) > KeepRecentMessages
        BY <2>2 DEF IInv, HeadFits
      <4> QED
        BY <1>1, <3>2, <3>4, <4>1
    <3> QED
      BY <3>2, <3>3, <3>5, <3>6 DEF HeadFits
  <2> QED
    BY <2>1, <2>2
<1>7. LossIsFolding'
  <2>1. Given(messages) \subseteq Given(messages')
    BY <1>1, <1>3 DEF Given
  <2>2. pushed + 1 \in Given(messages')
    <3>1. Len(messages) + 1 \in DOMAIN messages' /\ pushed + 1 \in messages'[Len(messages) + 1].given
      BY <1>1, <1>2, <1>3
    <3> QED
      BY <3>1 DEF Given
  <2>3. 1 .. pushed' = (1 .. pushed) \cup {pushed + 1}
    BY <1>1
  <2> QED
    BY <2>1, <2>2, <2>3 DEF IInv, LossIsFolding
<1> QED
  BY <1>1, <1>3, <1>5, <1>6, <1>7

\* Every step keeps the invariant.
LEMMA StepInv == IInv /\ [Next]_vars => IInv'
<1> SUFFICES ASSUME IInv, [Next]_vars PROVE IInv'
  OBVIOUS
<1>1. ASSUME NEW size \in MessageSizes, Remind(size) \/ StartTurn(size)
      PROVE  IInv'
  BY <1>1, PushStep DEF Remind, StartTurn, IInv, TypeOK, Places, Verbatim
<1>2. ASSUME NEW size \in MessageSizes, NEW kind \in Verbatim, Respond(kind, size)
      PROVE  IInv'
  BY <1>2, PushStep DEF Respond, IInv, TypeOK
<1>3. CASE CheckPressure \/ PassThrough
  BY <1>3, BudgetStep
<1>4. CASE Collapse
  BY <1>4, CollapseStep
<1>5. ASSUME NEW size \in SummarySizes, Compact(size)
      PROVE  IInv'
  BY <1>5, CompactStep
<1>6. CASE Call \/ Again \/ EndTurn \/ UNCHANGED vars
  <2>1. UNCHANGED <<messages, pressure, pushed, folded>> /\ pc' \in Places
    BY <1>6 DEF Call, Again, EndTurn, vars, Places, IInv, TypeOK
  <2> QED
    BY <2>1 DEF IInv, TypeOK, HistoryIsWhole, HeadFits, LossIsFolding, Given
<1> QED
  BY <1>1, <1>2, <1>3, <1>4, <1>5, <1>6 DEF Next

\* messages_for_api leaves nothing out: a boundary is the head of the history.
LEMMA WholeIsSent ==
  ASSUME NEW ms \in Seq(Message), \A i \in DOMAIN ms : i > 1 => ms[i].kind \in Verbatim
  PROVE  MessagesForApi(ms) = ms
<1> DEFINE boundaries == {i \in DOMAIN ms : ms[i].kind = "boundary"}
<1>1. DOMAIN ms = 1 .. Len(ms) /\ Len(ms) \in Nat
  BY Positions
<1>2. boundaries \subseteq {1}
  BY <1>1 DEF Verbatim
<1>3. CASE boundaries = {}
  BY <1>3 DEF MessagesForApi
<1>4. CASE boundaries = {1}
  <2>1. Max(boundaries) = 1
    BY <1>4 DEF Max
  <2>2. SubSeq(ms, 1, Len(ms)) = ms
    BY <1>1
  <2> QED
    BY <1>4, <2>1, <2>2 DEF MessagesForApi
<1> QED
  BY <1>2, <1>3, <1>4

LEMMA RequestIsHistory == IInv => Request = messages
BY WholeIsSent DEF IInv, TypeOK, HistoryIsWhole, Request

--------------------------------------------------------------------------------
(* Lengths *)

\* Induction on the natural numbers, over a set.
LEMMA AllNaturals ==
  ASSUME NEW S, 0 \in S, \A n \in Nat : n \in S => n + 1 \in S
  PROVE  Nat \subseteq S
<1> SUFFICES ASSUME NEW m \in Nat, m \notin S PROVE FALSE
  OBVIOUS
<1> DEFINE R == Nat \ S
<1>1. R \subseteq Nat /\ R # {}
  OBVIOUS
<1>2. PICK n \in R : \A k \in R : n <= k
  <2>1. PICK n \in R : \A k \in R : <<k, n>> \notin OpToRel(<, Nat)
    BY <1>1, NatLessThanWellFounded, WFMin
  <2>2. \A k \in R : ~(k < n)
    BY <1>1, <2>1 DEF OpToRel
  <2> QED
    BY <1>1, <2>2
<1>3. n # 0 /\ n \in Nat
  BY <1>2
<1>4. n - 1 \in Nat /\ n - 1 \notin R
  BY <1>2, <1>3
<1> QED
  BY <1>2, <1>3, <1>4

\* f gives, for each position of ms, the characters up to there.
Counts(f, ms) ==
  f = [i \in 0 .. Len(ms) |-> IF i = 0 THEN 0 ELSE f[i - 1] + ms[i].size]

\* The same up to position n.
Partial(ms, n) ==
  \E f \in [0 .. n -> Nat] : f[0] = 0 /\ \A i \in 1 .. n : f[i] = f[i - 1] + ms[i].size

LEMMA CountsBy ==
  ASSUME NEW ms \in Seq(Message), NEW f, Counts(f, ms)
  PROVE  f[0] = 0 /\ \A i \in 1 .. Len(ms) : f[i] = f[i - 1] + ms[i].size
<1>1. Len(ms) \in Nat
  OBVIOUS
<1>2. 0 \in 0 .. Len(ms) /\ \A i \in 1 .. Len(ms) : i \in 0 .. Len(ms) /\ i # 0
  BY <1>1
<1>3. \A i \in 0 .. Len(ms) : f[i] = IF i = 0 THEN 0 ELSE f[i - 1] + ms[i].size
  BY DEF Counts
<1> QED
  BY <1>2, <1>3

\* There is such a function, its values are natural numbers, and Chars its last.
LEMMA CharsCounted ==
  ASSUME NEW ms \in Seq(Message)
  PROVE  \E f : /\ Counts(f, ms)
               /\ \A i \in 0 .. Len(ms) : f[i] \in Nat
               /\ Chars(ms) = f[Len(ms)]
<1>1. Len(ms) \in Nat /\ \A i \in 1 .. Len(ms) : ms[i].size \in Nat
  BY Positions, Fields
<1> DEFINE S == {n \in Nat : n <= Len(ms) => Partial(ms, n)}
<1>2. Partial(ms, 0)
  <2> DEFINE f == [i \in 0 .. 0 |-> 0]
  <2>1. f \in [0 .. 0 -> Nat] /\ f[0] = 0 /\ 1 .. 0 = {}
    OBVIOUS
  <2> HIDE DEF f
  <2> QED
    BY <2>1 DEF Partial
<1>3. ASSUME NEW n \in Nat, Partial(ms, n), n + 1 <= Len(ms)
      PROVE  Partial(ms, n + 1)
  <2>1. PICK f \in [0 .. n -> Nat] :
          f[0] = 0 /\ \A i \in 1 .. n : f[i] = f[i - 1] + ms[i].size
    BY <1>3 DEF Partial
  <2> DEFINE g == [i \in 0 .. n + 1 |-> IF i = n + 1 THEN f[n] + ms[n + 1].size ELSE f[i]]
  <2>2. f[n] \in Nat /\ ms[n + 1].size \in Nat /\ n + 1 \in 1 .. Len(ms)
    BY <1>1, <1>3, <2>1
  <2>3. g \in [0 .. n + 1 -> Nat]
    <3>1. ASSUME NEW i \in 0 .. n + 1, i # n + 1
          PROVE  f[i] \in Nat
      BY <1>3, <2>1, <3>1
    <3> QED
      BY <2>2, <3>1
  <2>4. g[0] = 0
    BY <1>3, <2>1
  <2>5. ASSUME NEW i \in 1 .. n + 1
        PROVE  g[i] = g[i - 1] + ms[i].size
    <3>1. i - 1 \in 0 .. n + 1 /\ i - 1 # n + 1 /\ i \in 0 .. n + 1
      BY <1>3
    <3>2. g[i - 1] = f[i - 1]
      BY <3>1
    <3>3. CASE i = n + 1
      BY <1>3, <3>1, <3>2, <3>3
    <3>4. CASE i # n + 1
      <4>1. i \in 1 .. n
        BY <1>3, <3>4
      <4> QED
        BY <2>1, <3>1, <3>2, <3>4, <4>1
    <3> QED
      BY <3>3, <3>4
  <2> HIDE DEF g
  <2> QED
    BY <2>3, <2>4, <2>5 DEF Partial
<1>4. Partial(ms, Len(ms))
  <2>1. 0 \in S /\ \A n \in Nat : n \in S => n + 1 \in S
    BY <1>1, <1>2, <1>3
  <2> HIDE DEF S
  <2>2. Nat \subseteq S
    BY <2>1, AllNaturals
  <2> QED
    BY <1>1, <2>2 DEF S
<1>5. PICK f \in [0 .. Len(ms) -> Nat] :
        f[0] = 0 /\ \A i \in 1 .. Len(ms) : f[i] = f[i - 1] + ms[i].size
  BY <1>4 DEF Partial
<1>6. Counts(f, ms)
  <2>1. \A i \in 0 .. Len(ms) : f[i] = IF i = 0 THEN 0 ELSE f[i - 1] + ms[i].size
    BY <1>1, <1>5
  <2> QED
    BY <2>1 DEF Counts
<1> DEFINE c == CHOOSE h : Counts(h, ms)
<1>7. Counts(c, ms)
  BY <1>6
<1>8. Chars(ms) = c[Len(ms)]
  BY DEF Chars, Counts
<1> HIDE DEF c
<1>9. \A i \in 0 .. Len(ms) : c[i] \in Nat
  <2> DEFINE T == {n \in Nat : n <= Len(ms) => c[n] \in Nat}
  <2>1. 0 \in T
    BY <1>7, CountsBy
  <2>2. \A n \in Nat : n \in T => n + 1 \in T
    <3> SUFFICES ASSUME NEW n \in Nat, n + 1 <= Len(ms), c[n] \in Nat
                 PROVE  c[n + 1] \in Nat
      BY <1>1
    <3>1. n + 1 \in 1 .. Len(ms) /\ (n + 1) - 1 = n
      BY <1>1
    <3>2. c[n + 1] = c[n] + ms[n + 1].size
      BY <1>7, <3>1, CountsBy
    <3> QED
      BY <1>1, <3>1, <3>2
  <2>3. Nat \subseteq T
    <3> HIDE DEF T
    <3> QED
      BY <2>1, <2>2, AllNaturals
  <2> QED
    BY <1>1, <2>3
<1> QED
  BY <1>7, <1>8, <1>9

\* A list whose latest messages are those of another is longer by no more than
\* what comes before them.
LEMMA CharsOfHeaded ==
  ASSUME NEW ms \in Seq(Message), NEW keep \in Nat, keep < Len(ms),
         NEW head \in Message
  PROVE  /\ Chars(<<head>> \o Latest(ms, keep)) <= head.size + Chars(ms)
         /\ Chars(<<head>> \o Latest(ms, keep)) \in Nat /\ Chars(ms) \in Nat
<1> DEFINE ns == <<head>> \o Latest(ms, keep)
           a  == Len(ms) - keep
<1>1. /\ ns \in Seq(Message) /\ Len(ns) = 1 + keep /\ ns[1] = head
      /\ \A j \in 1 .. keep : ns[1 + j] = ms[a + j]
      /\ a \in Nat /\ Len(ms) = a + keep /\ Len(ms) \in Nat
      /\ head.size \in Nat /\ \A i \in 1 .. Len(ms) : ms[i].size \in Nat
  BY Splits, Headed, Positions, Fields
<1> HIDE DEF ns, a
<1>2. PICK f : Counts(f, ms) /\ Chars(ms) = f[Len(ms)]
               /\ \A i \in 0 .. Len(ms) : f[i] \in Nat
  BY CharsCounted
<1>3. PICK g : Counts(g, ns) /\ Chars(ns) = g[Len(ns)]
               /\ \A i \in 0 .. Len(ns) : g[i] \in Nat
  BY <1>1, CharsCounted
<1>4. g[1] = head.size
  BY <1>1, <1>3 DEF Counts
<1> DEFINE S == {n \in Nat : n <= keep => g[1 + n] + f[a] = head.size + f[a + n]}
<1>5. 0 \in S
  BY <1>1, <1>2, <1>4
<1>6. ASSUME NEW n \in Nat, n + 1 <= keep, g[1 + n] + f[a] = head.size + f[a + n]
      PROVE  g[1 + (n + 1)] + f[a] = head.size + f[a + (n + 1)]
  <2>1. /\ n + 2 \in 1 .. Len(ns) /\ (n + 2) - 1 = n + 1 /\ n + 2 = 1 + (n + 1)
        /\ a + n + 1 \in 1 .. Len(ms) /\ (a + n + 1) - 1 = a + n
        /\ n + 1 \in 1 .. keep /\ a + (n + 1) = a + n + 1
        /\ a + n \in 0 .. Len(ms) /\ 1 + n \in 0 .. Len(ns) /\ a \in 0 .. Len(ms)
    BY <1>1, <1>6
  <2>2. g[n + 2] = g[n + 1] + ns[n + 2].size
    <3>1. \A i \in 1 .. Len(ns) : g[i] = g[i - 1] + ns[i].size
      BY <1>1, <1>3, CountsBy
    <3>2. g[n + 2] = g[(n + 2) - 1] + ns[n + 2].size
      BY <2>1, <3>1
    <3> QED
      BY <2>1, <3>2
  <2>3. f[a + n + 1] = f[a + n] + ms[a + n + 1].size
    BY <1>2, <2>1, CountsBy
  <2>4. ns[n + 2] = ms[a + n + 1]
    BY <1>1, <2>1
  <2>5. g[n + 1] + f[a] = head.size + f[a + n]
    <3>1. 1 + n = n + 1
      OBVIOUS
    <3> QED
      BY <1>6, <3>1
  <2>6. /\ f[a] \in Nat /\ f[a + n] \in Nat /\ g[n + 1] \in Nat
        /\ ms[a + n + 1].size \in Nat /\ head.size \in Nat
    <3>1. n + 1 \in 0 .. Len(ns)
      BY <1>1, <1>6
    <3> QED
      BY <1>1, <1>2, <1>3, <2>1, <3>1
  <2>7. g[n + 2] + f[a] = head.size + f[a + n + 1]
    <3> DEFINE x == f[a]
               y == f[a + n]
               z == g[n + 1]
               w == ms[a + n + 1].size
               h == head.size
    <3>1. g[n + 2] = z + w /\ f[a + n + 1] = y + w /\ z + x = h + y
      BY <2>2, <2>3, <2>4, <2>5
    <3>2. x \in Nat /\ y \in Nat /\ z \in Nat /\ w \in Nat /\ h \in Nat
      BY <2>6
    <3> HIDE DEF x, y, z, w, h
    <3>3. (z + w) + x = h + (y + w)
      BY <3>1, <3>2
    <3> QED
      BY <3>1, <3>3 DEF x, h
  <2> QED
    BY <2>1, <2>7
<1>7. keep \in S
  <2>1. \A n \in Nat : n \in S => n + 1 \in S
    BY <1>1, <1>6
  <2> HIDE DEF S
  <2> QED
    BY <1>5, <2>1, AllNaturals
<1>8. g[Len(ns)] + f[a] = head.size + f[Len(ms)]
  BY <1>1, <1>7
<1>9. f[a] \in Nat /\ f[Len(ms)] \in Nat /\ g[Len(ns)] \in Nat
  BY <1>1, <1>2, <1>3
<1>10. Chars(ns) <= head.size + Chars(ms) /\ Chars(ns) \in Nat /\ Chars(ms) \in Nat
  BY <1>1, <1>2, <1>3, <1>8, <1>9
<1> QED
  BY <1>10 DEF ns

\* What is added to the characters adds as many tokens, and one by rounding.
LEMMA TokensOfSum ==
  ASSUME NEW a \in Nat, NEW b \in Nat, NEW c \in Nat, c <= a + b
  PROVE  /\ c \div CharsPerToken <= (b \div CharsPerToken) + 1 + (a \div CharsPerToken)
         /\ c \div CharsPerToken \in Nat
<1> DEFINE d == CharsPerToken
<1>1. d \in Nat /\ d > 0
  BY CompressionAssumption
<1>2. ASSUME NEW n \in Nat
      PROVE  /\ n \div d \in Nat /\ n % d \in 0 .. d - 1
             /\ n = d * (n \div d) + (n % d)
  BY <1>1, <1>2
<1> DEFINE p == a \div d
           q == b \div d
           r == c \div d
<1>3. p \in Nat /\ q \in Nat /\ r \in Nat
  BY <1>2
<1>4. d * r <= a + b /\ a < d * p + d /\ b < d * q + d
  BY <1>1, <1>2
<1> HIDE DEF p, q, r, d
<1>5. d * r < d * (p + q + 2)
  BY <1>1, <1>3, <1>4
<1>6. r < p + q + 2
  BY <1>1, <1>3, <1>5
<1> QED
  BY <1>3, <1>6 DEF p, q, r, d

\* The budget applied again changes nothing.
LEMMA BudgetTwice ==
  ASSUME NEW ms \in Seq(Message)
  PROVE  Budgeted(Budgeted(ms)) = Budgeted(ms)
<1> DEFINE bs == Budgeted(ms)
<1>1. DOMAIN bs = DOMAIN ms
  BY DEF Budgeted
<1>2. ASSUME NEW i \in DOMAIN ms
      PROVE  Budgeted(bs)[i] = bs[i]
  <2>1. ms[i] \in Message /\ ToolResultMaxChars \in Nat /\ NoteSize \in Nat
    BY CompressionAssumption
  <2>2. CASE ms[i].kind = "results" /\ ms[i].size > ToolResultMaxChars
    <3>1. bs[i] = [ms[i] EXCEPT !.size = ToolResultMaxChars + NoteSize]
      BY <2>2 DEF Budgeted
    <3>2. [bs[i] EXCEPT !.size = ToolResultMaxChars + NoteSize] = bs[i]
      BY <2>1, <3>1 DEF Message
    <3> HIDE DEF bs
    <3> QED
      BY <1>1, <3>2 DEF Budgeted
  <2>3. CASE ~(ms[i].kind = "results" /\ ms[i].size > ToolResultMaxChars)
    <3>1. bs[i] = ms[i]
      BY <2>3 DEF Budgeted
    <3> HIDE DEF bs
    <3> QED
      BY <1>1, <2>3, <3>1 DEF Budgeted
  <2> QED
    BY <2>2, <2>3
<1> HIDE DEF bs
<1>3. Budgeted(bs) = [i \in DOMAIN ms |-> Budgeted(bs)[i]] /\ bs = [i \in DOMAIN ms |-> bs[i]]
  BY <1>1 DEF Budgeted, bs
<1> QED
  BY <1>2, <1>3 DEF bs

\* What is squeezed fits the window, and what is called with it nearly does.
PressureFits ==
  /\ pc = "squeezing" => /\ messages = Budgeted(messages)
                         /\ EstimateTokens(messages) <= MaxTokens
  /\ pc = "calling" => \E size \in SummarySizes \cup {PlaceholderSize} :
                         EstimateTokens(messages) <= MaxTokens + 1 + (size \div CharsPerToken)

\* Tokens are counted in natural numbers.
LEMMA TokenTypes ==
  ASSUME NEW ms \in Seq(Message)
  PROVE  Chars(ms) \in Nat /\ EstimateTokens(ms) \in Nat
<1>1. Chars(ms) \in Nat
  <2>1. PICK f : Chars(ms) = f[Len(ms)] /\ \A i \in 0 .. Len(ms) : f[i] \in Nat
    BY CharsCounted
  <2>2. Len(ms) \in 0 .. Len(ms)
    OBVIOUS
  <2> QED
    BY <2>1, <2>2
<1> QED
  BY <1>1, TokensOfSum DEF EstimateTokens

\* What fitted still does but for the head that a compression gives it.
LEMMA SqueezeFits ==
  ASSUME IInv, PressureFits, pc = "squeezing", messages' \in Seq(Message),
         NEW keep \in Nat, keep < Len(messages), NEW head \in Message,
         head.size \in SummarySizes \cup {PlaceholderSize},
         messages' = <<head>> \o Latest(messages, keep), pc' = "calling"
  PROVE  PressureFits'
<1>1. messages \in Seq(Message)
  BY DEF IInv, TypeOK
<1>2. head.size \in Nat
  BY Fields
<1>3. Chars(messages') <= head.size + Chars(messages)
      /\ Chars(messages') \in Nat /\ Chars(messages) \in Nat
  BY <1>1, CharsOfHeaded
<1>4. EstimateTokens(messages') <= EstimateTokens(messages) + 1 + (head.size \div CharsPerToken)
  BY <1>2, <1>3, TokensOfSum DEF EstimateTokens
<1>5. /\ EstimateTokens(messages) <= MaxTokens
      /\ EstimateTokens(messages) \in Nat /\ EstimateTokens(messages') \in Nat
      /\ head.size \div CharsPerToken \in Nat /\ MaxTokens \in Nat
  <2>1. EstimateTokens(messages) <= MaxTokens /\ MaxTokens \in Nat
    BY CompressionAssumption DEF PressureFits
  <2>2. EstimateTokens(messages) \in Nat /\ EstimateTokens(messages') \in Nat
    BY <1>1, TokenTypes
  <2>3. head.size \div CharsPerToken \in Nat
    <3>1. head.size <= head.size + head.size
      BY <1>2
    <3> QED
      BY <1>2, <3>1, TokensOfSum
  <2> QED
    BY <2>1, <2>2, <2>3
<1>6. EstimateTokens(messages') <= MaxTokens + 1 + (head.size \div CharsPerToken)
  BY <1>4, <1>5
<1> QED
  BY <1>6 DEF PressureFits

\* Nor does a step that leaves the history as it is make it longer.
LEMMA SameFits ==
  ASSUME EstimateTokens(messages') <= MaxTokens, messages' \in Seq(Message), pc' = "calling"
  PROVE  PressureFits'
<1>1. PlaceholderSize \div CharsPerToken \in Nat
  BY TokensOfSum, CompressionAssumption
<1>2. EstimateTokens(messages') <= MaxTokens + 1 + (PlaceholderSize \div CharsPerToken)
  BY <1>1, TokenTypes, CompressionAssumption
<1> QED
  BY <1>2 DEF PressureFits

LEMMA PressureStep == IInv /\ IInv' /\ PressureFits /\ [Next]_vars => PressureFits'
<1> SUFFICES ASSUME IInv, IInv', PressureFits, [Next]_vars PROVE PressureFits'
  OBVIOUS
<1>1. messages \in Seq(Message) /\ messages' \in Seq(Message) /\ pc \in Places
  BY DEF IInv, TypeOK
<1>2. CASE CheckPressure
  <2>1. messages' = Budgeted(messages) /\ MessagesForApi(messages') = messages'
    BY <1>1, <1>2, WholeIsSent DEF CheckPressure, IInv, HistoryIsWhole
  <2>2. messages' = Budgeted(messages')
    BY <1>1, <2>1, BudgetTwice
  <2>3. pressure' = Pressure(messages')
    BY <1>2, <2>1 DEF CheckPressure
  <2>4. pc' # "idle" => EstimateTokens(messages') <= MaxTokens
    BY <1>1, <1>2, <2>3, TokenTypes, CompressionAssumption DEF CheckPressure, Pressure
  <2>5. pc' \in {"idle", "squeezing", "calling"}
    BY <1>2, <2>3 DEF CheckPressure, Pressure
  <2>6. CASE pc' = "calling"
    BY <1>1, <2>4, <2>6, SameFits
  <2> QED
    BY <2>2, <2>4, <2>5, <2>6 DEF PressureFits
<1>3. CASE Squeeze /\ messages' = Budgeted(messages)
  BY <1>1, <1>3, SameFits DEF Squeeze, PressureFits
<1>4. CASE Collapse
  <2>1. /\ pc = "squeezing" /\ pc' = "calling" /\ messages = Budgeted(messages)
        /\ messages' = Collapsed(messages) /\ KeepRecent < Len(messages) /\ KeepRecent \in Nat
    BY <1>1, <1>4, CompressionAssumption, Positions
    DEF Collapse, Squeeze, PressureFits, Collapsible
  <2> DEFINE head == [kind |-> "folded", from |-> messages[1].from,
                      to |-> Last(Earlier(messages, KeepRecent)).to,
                      size |-> PlaceholderSize, given |-> {}]
  <2>2. messages' = <<head>> \o Latest(messages, KeepRecent) /\ head.size = PlaceholderSize
    BY <2>1 DEF Collapsed
  <2>3. head \in Message
    <3>1. 1 \in 1 .. Len(messages) /\ Len(messages) - KeepRecent \in 1 .. Len(messages)
      BY <1>1, <2>1, Positions
    <3>2. Last(Earlier(messages, KeepRecent)) = messages[Len(messages) - KeepRecent]
      BY <1>1, <2>1, Splits
    <3>3. messages[1] \in Message /\ Last(Earlier(messages, KeepRecent)) \in Message
      BY <1>1, <3>1, <3>2, Positions
    <3> QED
      BY <3>3, Fields, CompressionAssumption DEF Message
  <2> HIDE DEF head
  <2> QED
    BY <1>1, <2>1, <2>2, <2>3, SqueezeFits
<1>5. ASSUME NEW size \in SummarySizes, Compact(size)
      PROVE  PressureFits'
  <2>1. /\ pc = "squeezing" /\ pc' = "calling" /\ messages = Budgeted(messages)
        /\ messages' = Compacted(messages, size) /\ KeepRecentMessages < Len(messages)
        /\ KeepRecentMessages \in Nat
    BY <1>1, <1>5, CompressionAssumption, Positions
    DEF Compact, Squeeze, PressureFits, Compactable
  <2> DEFINE old  == Earlier(messages, KeepRecentMessages)
             head == [kind |-> "boundary", from |-> messages[1].from, to |-> Last(old).to,
                      size |-> size, given |-> Given(old)]
  <2>2. messages' = <<head>> \o Latest(messages, KeepRecentMessages) /\ head.size = size
    BY <2>1 DEF Compacted
  <2>3. head \in Message
    <3>1. 1 \in 1 .. Len(messages) /\ Len(messages) - KeepRecentMessages \in 1 .. Len(messages)
      BY <1>1, <2>1, Positions
    <3>2. /\ messages[1] \in Message /\ Last(old) \in Message /\ old \in Seq(Message)
      <4>1. Last(old) = messages[Len(messages) - KeepRecentMessages] /\ old \in Seq(Message)
        BY <1>1, <2>1, Splits
      <4> HIDE DEF old
      <4> QED
        BY <1>1, <3>1, <4>1, Positions
    <3>3. Given(old) \in SUBSET Nat
      BY <3>2, Positions, Fields DEF Given
    <3>4. size \in Nat
      BY CompressionAssumption
    <3> HIDE DEF old
    <3> QED
      BY <3>2, <3>3, <3>4, Fields DEF Message
  <2> HIDE DEF head, old
  <2> QED
    BY <1>1, <2>1, <2>2, <2>3, SqueezeFits
<1>6. CASE pc' \notin {"squeezing", "calling"}
  BY <1>6 DEF PressureFits
<1>7. CASE UNCHANGED vars
  BY <1>7 DEF PressureFits, vars, Budgeted, EstimateTokens, Chars
<1>8. CASE PassThrough
  BY <1>3, <1>8 DEF PassThrough
<1>9. ASSUME NEW size \in MessageSizes, Remind(size) \/ StartTurn(size)
      PROVE  pc' \in {"idle", "top"}
  BY <1>9 DEF Remind, StartTurn
<1>10. ASSUME NEW size \in MessageSizes, NEW kind \in Verbatim, Respond(kind, size)
       PROVE  pc' = "responding"
  BY <1>10 DEF Respond
<1>11. ASSUME Call \/ Again \/ EndTurn
       PROVE  pc' \in {"responding", "top", "idle"}
  BY <1>11 DEF Call, Again, EndTurn
<1> QED
  BY <1>2, <1>4, <1>5, <1>6, <1>7, <1>8, <1>9, <1>10, <1>11 DEF Next

--------------------------------------------------------------------------------
(* Theorems *)

\* The variables keep their types.
THEOREM TypeCorrect == Spec => []TypeOK
<1>1. IInv => TypeOK
  BY DEF IInv
<1> QED
  BY <1>1, InitInv, StepInv, PTL DEF Spec

\* The history stands for everything that was pushed, in order, nothing twice.
THEOREM Whole == Spec => []HistoryIsWhole
<1>1. IInv => HistoryIsWhole
  BY DEF IInv
<1> QED
  BY <1>1, InitInv, StepInv, PTL DEF Spec

\* Only folding loses what messages held.
THEOREM OnlyFoldsLose == Spec => []LossIsFolding
<1>1. IInv => LossIsFolding
  BY DEF IInv
<1> QED
  BY <1>1, InitInv, StepInv, PTL DEF Spec

\* The latest messages reach the model verbatim, whatever was compressed.
THEOREM RecentAreTold == Spec => []RecentIsTold
<1>1. IInv => RecentIsTold
  <2> SUFFICES ASSUME IInv, NEW i \in 1 .. pushed,
                      i > pushed - KeepRecent, i > pushed - KeepRecentMessages
               PROVE  i \in Told(messages)
    BY RequestIsHistory DEF RecentIsTold
  <2> DEFINE k == i - pushed + Len(messages)
  <2>1. /\ messages \in Seq(Message) /\ DOMAIN messages = 1 .. Len(messages)
        /\ Len(messages) \in Nat /\ pushed \in Nat
        /\ KeepRecent \in Nat /\ KeepRecentMessages \in Nat
    BY Positions, CompressionAssumption DEF IInv, TypeOK
  <2>2. messages # <<>>
    <3>1. pushed # 0
      BY <2>1
    <3> QED
      BY <3>1 DEF IInv, HeadFits
  <2>3. k \in DOMAIN messages /\ (k > 1 \/ messages[1].kind \in Verbatim)
    <3>1. CASE messages[1].kind \in Verbatim
      <4>1. Len(messages) = pushed
        BY <2>2, <3>1 DEF IInv, HeadFits
      <4>2. k = i
        BY <2>1, <4>1
      <4> QED
        BY <2>1, <3>1, <4>1, <4>2
    <3>2. CASE messages[1].kind \notin Verbatim
      <4>1. Len(messages) > KeepRecent \/ Len(messages) > KeepRecentMessages
        BY <2>2, <3>2 DEF IInv, HeadFits
      <4>2. k > 1 /\ k <= Len(messages) /\ k \in Int
        BY <2>1, <4>1
      <4> QED
        BY <2>1, <4>2
    <3> QED
      BY <3>1, <3>2
  <2>4. pushed - Len(messages) + k = i
    BY <2>1
  <2> HIDE DEF k
  <2>5. messages[k].kind \in Verbatim /\ messages[k].given = {i}
    BY <2>1, <2>3, <2>4 DEF IInv, HistoryIsWhole
  <2> QED
    BY <2>3, <2>5 DEF Told
<1> QED
  BY <1>1, InitInv, StepInv, PTL DEF Spec

\* A call is longer than the window by the rounding and one summary or
\* placeholder at most, though nothing is measured after a compression.
THEOREM CallsNearlyFit == Spec => []CallNearlyFits
<1>1. Init => PressureFits
  BY DEF Init, PressureFits
<1>2. IInv /\ PressureFits => CallNearlyFits
  BY RequestIsHistory DEF PressureFits, CallNearlyFits
<1> QED
  BY <1>1, <1>2, InitInv, StepInv, PressureStep, PTL DEF Spec
================================================================================
