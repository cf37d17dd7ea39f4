----------------------------- MODULE DeliveryProofs -----------------------------
(***************************************************************************)
(* What TLAPS proves of Delivery, for any turns, sub-agents, clients and    *)
(* sizes: the shape of what is on its way, ShownInOrder and OnlyLostIsMissed. *)
(*                                                                         *)
(* The events on their way are in order inside and between the places they  *)
(* pass (EventsFit); a step of a connection touches none of them.  Of the    *)
(* stream a connection sees a length, how much is trimmed and which entries  *)
(* are shown at all: ConnFits is about these alone, so it is kept by the     *)
(* steps of the connection (Opened, Batched, Pushed, Taken, Shut) and, once  *)
(* for all of them, by a stream that grows (StreamGrows).                  *)
(***************************************************************************)
EXTENDS Delivery, FiniteSetTheorems, TLAPS

\* The names of the constants and those that the agent itself gives.
Names == STRING \cup Agents \cup {"turn_end", "error", "tool_start", "tool_result"}

Payload == [type : Names, id : Names]

Events == [source : Sources, n : Nat, type : Names, id : Names]

Conn == [open : BOOLEAN, last : Nat, batch : Seq(Nat), channel : Seq(Nat),
         shown : Seq(Nat), cursor : Nat, count : Nat]

AgentTyped ==
  /\ format \in {"proto", "legacy"}
  /\ turn \in Seq(Payload)
  /\ sub \in [Agents -> {"none", "running", "done"}]
  /\ emitted \in [Sources -> Nat]
  /\ bus \in Seq(Events)
  /\ child \in [Agents -> Seq(Events)]

StreamTyped ==
  /\ written \in Seq(Events)
  /\ trimmed \in 0 .. Len(written)
  /\ Len(written) <= FirstId
  /\ faults \in Nat

ConnTyped == conn \in [Clients -> Conn]

Typed == AgentTyped /\ StreamTyped /\ ConnTyped

--------------------------------------------------------------------------------
(* Events *)

\* An event of s and one of t, of the same source: the first is the earlier one.
Before(s, t) ==
  \A i \in DOMAIN s, j \in DOMAIN t : s[i].source = t[j].source => s[i].n < t[j].n

InOrder(s) ==
  \A i, j \in DOMAIN s : i < j /\ s[i].source = s[j].source => s[i].n < s[j].n

\* Every event has been counted.
Counted(s, counts) == \A i \in DOMAIN s : s[i].n <= counts[s[i].source]

EventsFit ==
  /\ InOrder(written) /\ InOrder(bus) /\ Before(written, bus)
  /\ Counted(written, emitted) /\ Counted(bus, emitted)
  /\ \A a \in Agents :
       /\ InOrder(child[a]) /\ Before(written, child[a]) /\ Before(bus, child[a])
       /\ Counted(child[a], emitted)
       /\ \A i \in DOMAIN child[a] : child[a][i].source = a

--------------------------------------------------------------------------------
(* Connections, to a stream of n entries of which t are gone and those of P are shown *)

Rising(s) == \A i, j \in DOMAIN s : i < j => s[i] < s[j]

Below(s, t) == \A i \in DOMAIN s, j \in DOMAIN t : s[i] < t[j]

Stored(s, n) == \A i \in DOMAIN s : s[i] \in 1 .. n

In(e, s) == \E i \in DOMAIN s : s[i] = e

\* What it was shown and what is on its way to it follow each other.
PlacesFit(k, n) ==
  /\ Stored(k.shown, n) /\ Stored(k.channel, n) /\ Stored(k.batch, n)
  /\ Rising(k.shown) /\ Rising(k.channel) /\ Below(k.shown, k.channel)
  /\ \A i \in DOMAIN k.shown : k.shown[i] >= i
  /\ \A i \in DOMAIN k.batch : k.batch[i] = k.batch[1] + i - 1
  /\ Len(k.channel) <= ChannelSize
  /\ Len(k.batch) <= ReadCount
  /\ k.cursor <= n

\* last_id is between what was handled and what was read, and skips nothing.
TaskFits(k, n, t, P) ==
  /\ k.last <= IdOf(n)
  /\ \A i \in DOMAIN k.shown : IdOf(k.shown[i]) <= k.last
  /\ \A i \in DOMAIN k.channel : IdOf(k.channel[i]) <= k.last
  /\ \A i \in DOMAIN k.batch : IdOf(k.batch[i]) > k.last
  /\ k.batch # <<>> => \A e \in t + 1 .. n : IdOf(e) > k.last => e >= k.batch[1]
  /\ \A e \in P : e > t /\ IdOf(e) <= k.last => In(e, k.shown) \/ In(e, k.channel)

\* What OnlyLostIsMissed says of it.
Whole(k, t, P) ==
  \A i \in DOMAIN k.shown : \A e \in P : e > t /\ e <= k.shown[i] => In(e, k.shown)

ConnFits(k, n, t, P) ==
  /\ PlacesFit(k, n)
  /\ Whole(k, t, P)
  /\ IF k.open THEN TaskFits(k, n, t, P) ELSE k.batch = <<>> /\ k.channel = <<>>

Told == {i \in DOMAIN written : Projected(i)}

ConnsFit == \A c \in Clients : ConnFits(conn[c], Len(written), trimmed, Told)

IInv == Typed /\ EventsFit /\ ConnsFit

--------------------------------------------------------------------------------
(* Lists *)

LEMMA AppendFacts ==
  ASSUME NEW S, NEW s \in Seq(S), NEW e \in S
  PROVE  /\ Append(s, e) \in Seq(S)
         /\ Len(s) \in Nat
         /\ Len(Append(s, e)) = Len(s) + 1
         /\ DOMAIN Append(s, e) = 1 .. Len(s) + 1
         /\ DOMAIN s = 1 .. Len(s)
         /\ \A i \in 1 .. Len(s) : Append(s, e)[i] = s[i]
         /\ Append(s, e)[Len(s) + 1] = e
OBVIOUS

LEMMA TailFacts ==
  ASSUME NEW S, NEW s \in Seq(S), s # <<>>
  PROVE  /\ Tail(s) \in Seq(S)
         /\ Head(s) \in S /\ Head(s) = s[1]
         /\ Len(s) \in Nat \ {0}
         /\ Len(Tail(s)) = Len(s) - 1
         /\ DOMAIN Tail(s) = 1 .. Len(s) - 1
         /\ DOMAIN s = 1 .. Len(s)
         /\ \A i \in 1 .. Len(s) - 1 : Tail(s)[i] = s[i + 1]
OBVIOUS

LEMMA EmptyFacts ==
  ASSUME NEW S
  PROVE  <<>> \in Seq(S) /\ DOMAIN <<>> = {} /\ Len(<<>>) = 0
OBVIOUS

--------------------------------------------------------------------------------
(* The steps of a connection *)

LEMMA StreamGrows ==
  ASSUME NEW k \in Conn, NEW n \in Nat, NEW t \in 0 .. n, NEW P \in SUBSET (1 .. n),
         NEW n2 \in {n, n + 1}, NEW t2 \in t .. n2, NEW P2 \in SUBSET (1 .. n2),
         P2 \cap 1 .. n = P,
         ConnFits(k, n, t, P)
  PROVE  ConnFits(k, n2, t2, P2)
<1>0. FirstId \in Nat
  BY DeliveryAssumption
<1>1. PlacesFit(k, n2)
  BY DEF ConnFits, PlacesFit, Stored, Conn
<1>2. Whole(k, t2, P2)
  <2> SUFFICES ASSUME NEW i \in DOMAIN k.shown, NEW e \in P2, e > t2, e <= k.shown[i]
               PROVE  In(e, k.shown)
    BY DEF Whole
  <2>1. k.shown[i] \in 1 .. n
    BY DEF ConnFits, PlacesFit, Stored
  <2>2. e \in 1 .. n2
    OBVIOUS
  <2>3. e \in P /\ e > t
    BY <2>1, <2>2
  <2> QED
    BY <2>3 DEF ConnFits, Whole
<1>3. ASSUME k.open
      PROVE  TaskFits(k, n2, t2, P2)
  <2>1. TaskFits(k, n, t, P)
    BY <1>3 DEF ConnFits
  <2>2. \A e \in P2 : IdOf(e) <= k.last => e \in P
    <3> SUFFICES ASSUME NEW e \in P2, IdOf(e) <= k.last
                 PROVE  e \in P
      OBVIOUS
    <3>1. e \in 1 .. n2 /\ k.last \in Nat
      BY DEF Conn
    <3>2. k.last <= FirstId + n /\ FirstId + e <= k.last
      BY <2>1 DEF TaskFits, IdOf
    <3>3. e \in 1 .. n
      BY <1>0, <3>1, <3>2
    <3> QED
      BY <3>3
  <2>3. k.last <= IdOf(n2)
    BY <1>0, <2>1 DEF TaskFits, IdOf, Conn
  <2>4. k.batch # <<>> => \A e \in t2 + 1 .. n2 : IdOf(e) > k.last => e >= k.batch[1]
    <3> SUFFICES ASSUME k.batch # <<>>, NEW e \in t2 + 1 .. n2, IdOf(e) > k.last
                 PROVE  e >= k.batch[1]
      OBVIOUS
    <3>1. k.batch[1] \in 1 .. n
      BY TailFacts DEF ConnFits, PlacesFit, Stored, Conn
    <3> QED
      BY <2>1, <3>1 DEF TaskFits
  <2>5. \A e \in P2 : e > t2 /\ IdOf(e) <= k.last => In(e, k.shown) \/ In(e, k.channel)
    <3> SUFFICES ASSUME NEW e \in P2, e > t2, IdOf(e) <= k.last
                 PROVE  In(e, k.shown) \/ In(e, k.channel)
      OBVIOUS
    <3>1. e \in P
      BY <2>2
    <3>2. e \in 1 .. n2 /\ e > t
      OBVIOUS
    <3> QED
      BY <2>1, <3>1, <3>2 DEF TaskFits
  <2> QED
    BY <2>1, <2>3, <2>4, <2>5 DEF TaskFits
<1> QED
  BY <1>1, <1>2, <1>3 DEF ConnFits

LEMMA Opened ==
  ASSUME NEW k \in Conn, NEW n \in Nat, NEW t \in 0 .. n, NEW P \in SUBSET (1 .. n),
         n <= FirstId, ConnFits(k, n, t, P),
         NEW k2 \in Conn, k2.last = k.cursor, k2.cursor = k.cursor,
         k2.batch = <<>>, k2.channel = <<>>, k2.shown = <<>>
  PROVE  ConnFits(k2, n, t, P)
<1>0. FirstId \in Nat /\ ChannelSize \in Nat /\ ReadCount \in Nat
  BY DeliveryAssumption
<1>1. PlacesFit(k2, n)
  BY <1>0, EmptyFacts DEF ConnFits, PlacesFit, Stored, Rising, Below, Conn
<1>2. Whole(k2, t, P)
  BY EmptyFacts DEF Whole
<1>3. k.cursor <= n
  BY DEF ConnFits, PlacesFit
<1>4. \A e \in P : IdOf(e) > k2.last
  BY <1>0, <1>3 DEF IdOf, Conn
<1>5. k2.last <= IdOf(n)
  BY <1>0, <1>3 DEF IdOf, Conn
<1>6. \A e \in P : ~(IdOf(e) <= k2.last)
  BY <1>0, <1>4 DEF IdOf, Conn
<1>7. TaskFits(k2, n, t, P)
  BY <1>5, <1>6, EmptyFacts DEF TaskFits
<1> QED
  BY <1>1, <1>2, <1>7 DEF ConnFits

LEMMA Batched ==
  ASSUME NEW k \in Conn, NEW n \in Nat, NEW t \in 0 .. n, NEW P \in SUBSET (1 .. n),
         k.open, ConnFits(k, n, t, P),
         NEW lo \in 1 .. n, IdOf(lo) > k.last,
         \A e \in t + 1 .. n : IdOf(e) > k.last => e >= lo,
         NEW m \in 0 .. n - lo + 1, m <= ReadCount,
         NEW k2 \in Conn, k2.open = k.open, k2.last = k.last, k2.cursor = k.cursor,
         Len(k2.batch) = m, \A i \in 1 .. m : k2.batch[i] = lo + i - 1,
         k2.channel = k.channel, k2.shown = k.shown
  PROVE  ConnFits(k2, n, t, P)
<1>0. FirstId \in Nat /\ ChannelSize \in Nat /\ ReadCount \in Nat
  BY DeliveryAssumption
<1>1. DOMAIN k2.batch = 1 .. m /\ Len(k2.batch) = m
  BY DEF Conn
<1>2. \A i \in 1 .. m : k2.batch[i] = lo + i - 1
  OBVIOUS
<1>3. Stored(k2.batch, n)
  BY <1>1, <1>2 DEF Stored
<1>4. \A i \in DOMAIN k2.batch : k2.batch[i] = k2.batch[1] + i - 1
  BY <1>1, <1>2
<1>5. PlacesFit(k2, n)
  BY <1>1, <1>3, <1>4 DEF ConnFits, PlacesFit
<1>6. Whole(k2, t, P)
  BY DEF ConnFits, Whole
<1>7. k2.batch # <<>> => k2.batch[1] = lo
  <2>1. k2.batch # <<>> => m # 0
    BY <1>1, EmptyFacts DEF Conn
  <2> QED
    BY <1>2, <2>1
<1>8. \A i \in DOMAIN k2.batch : IdOf(k2.batch[i]) > k2.last
  <2>1. FirstId + lo > k2.last /\ k2.last \in Nat /\ lo \in Nat
    BY DEF IdOf, Conn
  <2>2. \A i \in 1 .. m : lo + i - 1 >= lo
    BY <2>1
  <2>3. \A i \in 1 .. m : FirstId + (lo + i - 1) > k2.last
    BY <1>0, <2>1, <2>2
  <2> QED
    BY <1>1, <1>2, <2>3 DEF IdOf
<1>9. TaskFits(k2, n, t, P)
  BY <1>7, <1>8 DEF ConnFits, TaskFits
<1> QED
  BY <1>5, <1>6, <1>9 DEF ConnFits

LEMMA Pushed ==
  ASSUME NEW k \in Conn, NEW n \in Nat, NEW t \in 0 .. n, NEW P \in SUBSET (1 .. n),
         k.open, ConnFits(k, n, t, P), k.batch # <<>>,
         Head(k.batch) \in P => Len(k.channel) < ChannelSize,
         NEW k2 \in Conn, k2.open = k.open, k2.last = IdOf(Head(k.batch)),
         k2.cursor = k.cursor, k2.batch = Tail(k.batch), k2.shown = k.shown,
         k2.channel = IF Head(k.batch) \in P THEN Append(k.channel, Head(k.batch))
                                             ELSE k.channel
  PROVE  ConnFits(k2, n, t, P)
<1> DEFINE h == Head(k.batch)
<1>0. FirstId \in Nat /\ ChannelSize \in Nat /\ ReadCount \in Nat
  BY DeliveryAssumption
<1>a. PlacesFit(k, n) /\ TaskFits(k, n, t, P) /\ Whole(k, t, P)
  BY DEF ConnFits
<1>b. /\ k.batch \in Seq(Nat) /\ k.channel \in Seq(Nat) /\ k.shown \in Seq(Nat)
      /\ k.last \in Nat
  BY DEF Conn
<1>c. /\ h = k.batch[1] /\ h \in 1 .. n
      /\ Len(k.batch) \in Nat \ {0}
      /\ DOMAIN k.batch = 1 .. Len(k.batch)
      /\ DOMAIN k2.batch = 1 .. Len(k.batch) - 1
      /\ Len(k2.batch) = Len(k.batch) - 1
      /\ \A i \in 1 .. Len(k.batch) - 1 : k2.batch[i] = k.batch[i + 1]
  <2>1. 1 \in DOMAIN k.batch
    BY <1>b, TailFacts
  <2> QED
    BY <1>a, <1>b, <2>1, TailFacts DEF PlacesFit, Stored
<1>d. \A i \in DOMAIN k.batch : k.batch[i] = h + i - 1 /\ k.batch[i] \in 1 .. n
  BY <1>a, <1>c DEF PlacesFit, Stored
<1>e. k2.last = FirstId + h /\ k2.last > k.last
  <2>1. 1 \in DOMAIN k.batch
    BY <1>c
  <2>2. IdOf(k.batch[1]) > k.last
    BY <1>a, <2>1 DEF TaskFits
  <2> QED
    BY <1>c, <2>2 DEF IdOf
<1>f. /\ \A i \in DOMAIN k.channel : k.channel[i] < h /\ k.channel[i] \in 1 .. n
      /\ \A i \in DOMAIN k.shown : k.shown[i] < h /\ k.shown[i] \in 1 .. n
  <2>1. ASSUME NEW e \in 1 .. n, IdOf(e) <= k.last
        PROVE  e < h
    BY <1>0, <1>b, <1>c, <1>e, <2>1 DEF IdOf
  <2>2. /\ \A i \in DOMAIN k.channel : k.channel[i] \in 1 .. n
        /\ \A i \in DOMAIN k.shown : k.shown[i] \in 1 .. n
    BY <1>a DEF PlacesFit, Stored
  <2> QED
    BY <1>a, <2>1, <2>2 DEF TaskFits
<1>g. \A i \in DOMAIN k2.channel :
        \/ i \in DOMAIN k.channel /\ k2.channel[i] = k.channel[i]
        \/ h \in P /\ i = Len(k.channel) + 1 /\ k2.channel[i] = h
  BY <1>b, <1>c, AppendFacts
<1>h. /\ \A e : In(e, k.channel) => In(e, k2.channel)
      /\ h \in P => In(h, k2.channel)
  <2>1. CASE h \in P
    <3>1. /\ DOMAIN k.channel = 1 .. Len(k.channel) /\ Len(k.channel) \in Nat
          /\ DOMAIN k2.channel = 1 .. Len(k.channel) + 1
          /\ \A i \in 1 .. Len(k.channel) : k2.channel[i] = k.channel[i]
          /\ k2.channel[Len(k.channel) + 1] = h
      BY <1>b, <1>c, <2>1, AppendFacts
    <3>2. Len(k.channel) + 1 \in DOMAIN k2.channel
      BY <3>1
    <3>3. In(h, k2.channel)
      BY <3>1, <3>2 DEF In
    <3>4. \A i \in DOMAIN k.channel : i \in DOMAIN k2.channel /\ k2.channel[i] = k.channel[i]
      BY <3>1
    <3> QED
      BY <3>3, <3>4 DEF In
  <2>2. CASE h \notin P
    BY <2>2
  <2> QED
    BY <2>1, <2>2
<1>i. /\ DOMAIN k.channel = 1 .. Len(k.channel)
      /\ Len(k.channel) \in Nat
      /\ Len(k2.channel) = IF h \in P THEN Len(k.channel) + 1 ELSE Len(k.channel)
  BY <1>b, <1>c, AppendFacts
<1>1. PlacesFit(k2, n)
  <2>1. Stored(k2.shown, n) /\ Stored(k2.channel, n) /\ Stored(k2.batch, n)
    BY <1>c, <1>d, <1>f, <1>g DEF Stored
  <2>2. Rising(k2.shown)
    BY <1>a DEF PlacesFit
  <2>3. Rising(k2.channel)
    <3> SUFFICES ASSUME NEW i \in DOMAIN k2.channel, NEW j \in DOMAIN k2.channel, i < j
                 PROVE  k2.channel[i] < k2.channel[j]
      BY DEF Rising
    <3>1. i \in DOMAIN k.channel /\ k2.channel[i] = k.channel[i]
      <4>1. \A l \in DOMAIN k2.channel : l \in 1 .. Len(k.channel) + 1
        BY <1>g, <1>i
      <4> QED
        BY <1>g, <1>i, <4>1
    <3>2. CASE j \in DOMAIN k.channel /\ k2.channel[j] = k.channel[j]
      BY <1>a, <3>1, <3>2 DEF PlacesFit, Rising
    <3>3. CASE k2.channel[j] = h
      BY <1>f, <3>1, <3>3
    <3> QED
      BY <1>g, <3>2, <3>3
  <2>4. Below(k2.shown, k2.channel)
    <3> SUFFICES ASSUME NEW i \in DOMAIN k.shown, NEW j \in DOMAIN k2.channel
                 PROVE  k.shown[i] < k2.channel[j]
      BY DEF Below
    <3> QED
      BY <1>a, <1>f, <1>g DEF PlacesFit, Below
  <2>5. \A i \in DOMAIN k2.batch : k2.batch[i] = k2.batch[1] + i - 1
    <3> SUFFICES ASSUME NEW i \in 1 .. Len(k.batch) - 1
                 PROVE  k2.batch[i] = k2.batch[1] + i - 1
      BY <1>c
    <3>1. i + 1 \in DOMAIN k.batch /\ 1 \in 1 .. Len(k.batch) - 1 /\ 1 + 1 \in DOMAIN k.batch
      BY <1>c
    <3>2. k2.batch[i] = h + (i + 1) - 1 /\ k2.batch[1] = h + (1 + 1) - 1
      BY <1>c, <1>d, <3>1
    <3> QED
      BY <1>c, <3>2
  <2>6. Len(k2.channel) <= ChannelSize /\ Len(k2.batch) <= ReadCount
    <3>1. Len(k2.batch) <= ReadCount
      BY <1>0, <1>a, <1>c DEF PlacesFit
    <3>2. Len(k2.channel) <= ChannelSize
      BY <1>0, <1>a, <1>i DEF PlacesFit
    <3> QED
      BY <3>1, <3>2
  <2> QED
    BY <1>a, <2>1, <2>2, <2>3, <2>4, <2>5, <2>6 DEF PlacesFit
<1>2. Whole(k2, t, P)
  BY <1>a DEF Whole
<1>3. TaskFits(k2, n, t, P)
  <2>1. k2.last <= IdOf(n)
    BY <1>0, <1>c, <1>e DEF IdOf
  <2>2. \A i \in DOMAIN k2.shown : IdOf(k2.shown[i]) <= k2.last
    BY <1>0, <1>c, <1>e, <1>f DEF IdOf
  <2>3. \A i \in DOMAIN k2.channel : IdOf(k2.channel[i]) <= k2.last
    BY <1>0, <1>c, <1>e, <1>f, <1>g DEF IdOf
  <2>4. \A i \in DOMAIN k2.batch : k2.batch[i] = h + i /\ IdOf(k2.batch[i]) > k2.last
    <3> SUFFICES ASSUME NEW i \in DOMAIN k2.batch
                 PROVE  k2.batch[i] = h + i /\ IdOf(k2.batch[i]) > k2.last
      OBVIOUS
    <3>1. i \in 1 .. Len(k.batch) - 1 /\ i + 1 \in DOMAIN k.batch
      BY <1>c
    <3>2. k2.batch[i] = h + i
      BY <1>c, <1>d, <3>1
    <3>3. FirstId + (h + i) > FirstId + h
      BY <1>0, <1>c, <3>1
    <3> QED
      BY <1>e, <3>2, <3>3 DEF IdOf
  <2>5. k2.batch # <<>> => \A e \in t + 1 .. n : IdOf(e) > k2.last => e >= k2.batch[1]
    <3> SUFFICES ASSUME k2.batch # <<>>, NEW e \in t + 1 .. n, IdOf(e) > k2.last
                 PROVE  e >= k2.batch[1]
      OBVIOUS
    <3>1. 1 \in DOMAIN k2.batch
      BY TailFacts DEF Conn
    <3>2. k2.batch[1] = h + 1
      BY <2>4, <3>1
    <3>3. FirstId + e > FirstId + h
      BY <1>e DEF IdOf
    <3> QED
      BY <1>0, <1>c, <3>2, <3>3
  <2>6. \A e \in P : e > t /\ IdOf(e) <= k2.last => In(e, k2.shown) \/ In(e, k2.channel)
    <3> SUFFICES ASSUME NEW e \in P, e > t, IdOf(e) <= k2.last
                 PROVE  In(e, k2.shown) \/ In(e, k2.channel)
      OBVIOUS
    <3>1. CASE IdOf(e) <= k.last
      BY <1>a, <1>h, <3>1 DEF TaskFits
    <3>2. CASE ~(IdOf(e) <= k.last)
      <4>1. IdOf(e) > k.last
        BY <1>0, <1>b, <3>2 DEF IdOf
      <4>2. e >= h
        <5>1. e \in 1 .. n
          OBVIOUS
        <5>2. e \in t + 1 .. n
          BY <5>1
        <5> QED
          BY <1>a, <1>c, <4>1, <5>2 DEF TaskFits
      <4>3. e = h
        BY <1>0, <1>c, <1>e, <4>2 DEF IdOf
      <4> QED
        BY <1>h, <4>3
    <3> QED
      BY <3>1, <3>2
  <2> QED
    BY <2>1, <2>2, <2>3, <2>4, <2>5, <2>6 DEF TaskFits
<1> QED
  BY <1>1, <1>2, <1>3 DEF ConnFits

LEMMA Taken ==
  ASSUME NEW k \in Conn, NEW n \in Nat, NEW t \in 0 .. n, NEW P \in SUBSET (1 .. n),
         k.open, ConnFits(k, n, t, P), k.channel # <<>>,
         NEW k2 \in Conn, k2.open = k.open, k2.last = k.last,
         k2.cursor = Len(k.shown) + 1, k2.batch = k.batch,
         k2.channel = Tail(k.channel), k2.shown = Append(k.shown, Head(k.channel))
  PROVE  ConnFits(k2, n, t, P)
<1> DEFINE h == Head(k.channel)
           l == Len(k.shown)
<1>0. FirstId \in Nat /\ ChannelSize \in Nat /\ ReadCount \in Nat
  BY DeliveryAssumption
<1>a. PlacesFit(k, n) /\ TaskFits(k, n, t, P) /\ Whole(k, t, P)
  BY DEF ConnFits
<1>b. /\ k.batch \in Seq(Nat) /\ k.channel \in Seq(Nat) /\ k.shown \in Seq(Nat)
      /\ k.last \in Nat
  BY DEF Conn
<1>c. /\ h = k.channel[1] /\ h \in Nat
      /\ Len(k.channel) \in Nat \ {0}
      /\ DOMAIN k.channel = 1 .. Len(k.channel)
      /\ DOMAIN k2.channel = 1 .. Len(k.channel) - 1
      /\ Len(k2.channel) = Len(k.channel) - 1
      /\ \A i \in 1 .. Len(k.channel) - 1 : k2.channel[i] = k.channel[i + 1]
  BY <1>b, TailFacts
<1>d. 1 \in DOMAIN k.channel /\ h \in 1 .. n
  BY <1>a, <1>c DEF PlacesFit, Stored
<1>e. \A i \in DOMAIN k2.channel : i + 1 \in DOMAIN k.channel /\ k2.channel[i] = k.channel[i + 1]
  BY <1>c
<1>f. \A i \in DOMAIN k2.channel : h < k2.channel[i]
  <2> SUFFICES ASSUME NEW i \in DOMAIN k2.channel
               PROVE  h < k2.channel[i]
    OBVIOUS
  <2>1. 1 < i + 1
    BY <1>c
  <2> QED
    BY <1>a, <1>c, <1>d, <1>e, <2>1 DEF PlacesFit, Rising
<1>g. /\ l \in Nat /\ DOMAIN k.shown = 1 .. l /\ DOMAIN k2.shown = 1 .. l + 1
      /\ \A i \in 1 .. l : k2.shown[i] = k.shown[i]
      /\ k2.shown[l + 1] = h
  BY <1>b, <1>c, AppendFacts
<1>h. \A i \in 1 .. l : k.shown[i] < h /\ k.shown[i] \in 1 .. n /\ k.shown[i] >= i
  BY <1>a, <1>c, <1>d, <1>g DEF PlacesFit, Below, Stored
<1>i. h >= l + 1
  <2>1. CASE l = 0
    BY <1>d, <2>1
  <2>2. CASE l # 0
    <3>1. k.shown[l] < h /\ k.shown[l] >= l /\ k.shown[l] \in 1 .. n
      BY <1>g, <1>h, <2>2
    <3> QED
      BY <1>c, <1>g, <3>1
  <2> QED
    BY <2>1, <2>2
<1>j. /\ \A e : In(e, k.shown) => In(e, k2.shown)
      /\ In(h, k2.shown)
      /\ \A e : In(e, k.channel) => e = h \/ In(e, k2.channel)
  <2>1. \A e : In(e, k.shown) => In(e, k2.shown)
    <3> SUFFICES ASSUME NEW e, In(e, k.shown)
                 PROVE  In(e, k2.shown)
      OBVIOUS
    <3>1. PICK i \in 1 .. l : k.shown[i] = e
      BY <1>g DEF In
    <3>2. i \in DOMAIN k2.shown /\ k2.shown[i] = e
      BY <1>g, <3>1
    <3> QED
      BY <3>2 DEF In
  <2>2. In(h, k2.shown)
    <3>1. l + 1 \in DOMAIN k2.shown
      BY <1>g
    <3> QED
      BY <1>g, <3>1 DEF In
  <2>3. ASSUME NEW e, In(e, k.channel)
        PROVE  e = h \/ In(e, k2.channel)
    <3>1. PICK i \in 1 .. Len(k.channel) : k.channel[i] = e
      BY <1>c, <2>3 DEF In
    <3>2. CASE i = 1
      BY <1>c, <3>1, <3>2
    <3>3. CASE i # 1
      <4>1. i - 1 \in 1 .. Len(k.channel) - 1 /\ i - 1 + 1 = i
        BY <1>c, <3>3
      <4>2. k2.channel[i - 1] = k.channel[i]
        BY <1>c, <4>1
      <4> QED
        BY <1>c, <3>1, <4>1, <4>2 DEF In
    <3> QED
      BY <3>2, <3>3
  <2> QED
    BY <2>1, <2>2, <2>3
<1>1. PlacesFit(k2, n)
  <2>1. Stored(k2.shown, n) /\ Stored(k2.channel, n) /\ Stored(k2.batch, n)
    <3>1. Stored(k2.shown, n)
      BY <1>d, <1>g, <1>h DEF Stored
    <3>2. Stored(k2.channel, n)
      BY <1>a, <1>e DEF Stored, PlacesFit
    <3> QED
      BY <1>a, <3>1, <3>2 DEF PlacesFit
  <2>2. Rising(k2.shown)
    <3> SUFFICES ASSUME NEW i \in 1 .. l + 1, NEW j \in 1 .. l + 1, i < j
                 PROVE  k2.shown[i] < k2.shown[j]
      BY <1>g DEF Rising
    <3>1. i \in 1 .. l
      BY <1>g
    <3>2. CASE j \in 1 .. l
      BY <1>a, <1>g, <3>1, <3>2 DEF PlacesFit, Rising
    <3>3. CASE j = l + 1
      BY <1>g, <1>h, <3>1, <3>3
    <3> QED
      BY <1>g, <3>2, <3>3
  <2>3. Rising(k2.channel)
    <3> SUFFICES ASSUME NEW i \in DOMAIN k2.channel, NEW j \in DOMAIN k2.channel, i < j
                 PROVE  k2.channel[i] < k2.channel[j]
      BY DEF Rising
    <3>1. i + 1 < j + 1
      BY <1>c
    <3> QED
      BY <1>a, <1>e, <3>1 DEF PlacesFit, Rising
  <2>4. Below(k2.shown, k2.channel)
    <3> SUFFICES ASSUME NEW i \in 1 .. l + 1, NEW j \in DOMAIN k2.channel
                 PROVE  k2.shown[i] < k2.channel[j]
      BY <1>g DEF Below
    <3>1. CASE i \in 1 .. l
      BY <1>a, <1>e, <1>g, <3>1 DEF PlacesFit, Below
    <3>2. CASE i = l + 1
      BY <1>f, <1>g, <3>2
    <3> QED
      BY <1>g, <3>1, <3>2
  <2>5. \A i \in DOMAIN k2.shown : k2.shown[i] >= i
    <3> SUFFICES ASSUME NEW i \in 1 .. l + 1
                 PROVE  k2.shown[i] >= i
      BY <1>g
    <3>1. CASE i \in 1 .. l
      BY <1>g, <1>h, <3>1
    <3>2. CASE i = l + 1
      BY <1>g, <1>i, <3>2
    <3> QED
      BY <1>g, <3>1, <3>2
  <2>6. Len(k2.channel) <= ChannelSize
    BY <1>0, <1>a, <1>c DEF PlacesFit
  <2>7. k2.cursor <= n
    BY <1>c, <1>d, <1>g, <1>i
  <2> QED
    BY <1>a, <2>1, <2>2, <2>3, <2>4, <2>5, <2>6, <2>7 DEF PlacesFit
<1>2. Whole(k2, t, P)
  <2> SUFFICES ASSUME NEW i \in 1 .. l + 1, NEW e \in P, e > t, e <= k2.shown[i]
               PROVE  In(e, k2.shown)
    BY <1>g DEF Whole
  <2>1. CASE i \in 1 .. l
    BY <1>a, <1>g, <1>j, <2>1 DEF Whole
  <2>2. CASE i = l + 1
    <3>1. e <= h
      BY <1>g, <2>2
    <3>2. IdOf(e) <= k.last
      <4>1. FirstId + h <= k.last
        BY <1>a, <1>c, <1>d DEF TaskFits, IdOf
      <4>2. e \in 1 .. n
        OBVIOUS
      <4>3. FirstId + e <= k.last
        <5>1. FirstId + e <= FirstId + h
          BY <1>0, <1>c, <3>1, <4>2
        <5> QED
          BY <1>0, <1>b, <1>c, <4>1, <4>2, <5>1
      <4> QED
        BY <4>3 DEF IdOf
    <3>3. In(e, k.shown) \/ In(e, k.channel)
      BY <1>a, <3>2 DEF TaskFits
    <3>4. ~In(e, k2.channel)
      <4> SUFFICES ASSUME NEW j \in DOMAIN k2.channel, k2.channel[j] = e
                   PROVE  FALSE
        BY DEF In
      <4>1. h < e /\ e \in 1 .. n
        BY <1>f
      <4> QED
        BY <1>c, <3>1, <4>1
    <3> QED
      BY <1>j, <3>3, <3>4
  <2> QED
    BY <1>g, <2>1, <2>2
<1>3. TaskFits(k2, n, t, P)
  <2>1. \A i \in DOMAIN k2.shown : IdOf(k2.shown[i]) <= k2.last
    <3> SUFFICES ASSUME NEW i \in 1 .. l + 1
                 PROVE  IdOf(k2.shown[i]) <= k2.last
      BY <1>g
    <3>1. CASE i \in 1 .. l
      BY <1>a, <1>g, <3>1 DEF TaskFits
    <3>2. CASE i = l + 1
      BY <1>a, <1>c, <1>d, <1>g, <3>2 DEF TaskFits
    <3> QED
      BY <1>g, <3>1, <3>2
  <2>2. \A i \in DOMAIN k2.channel : IdOf(k2.channel[i]) <= k2.last
    BY <1>a, <1>e DEF TaskFits
  <2>3. \A e \in P : e > t /\ IdOf(e) <= k2.last => In(e, k2.shown) \/ In(e, k2.channel)
    BY <1>a, <1>j DEF TaskFits
  <2> QED
    BY <1>a, <2>1, <2>2, <2>3 DEF TaskFits
<1> QED
  BY <1>1, <1>2, <1>3 DEF ConnFits

LEMMA Shut ==
  ASSUME NEW k \in Conn, NEW n \in Nat, NEW t \in 0 .. n, NEW P \in SUBSET (1 .. n),
         ConnFits(k, n, t, P),
         NEW k2 \in Conn, k2.open = FALSE, k2.cursor = k.cursor,
         k2.batch = <<>>, k2.channel = <<>>, k2.shown = k.shown
  PROVE  ConnFits(k2, n, t, P)
<1>0. ChannelSize \in Nat /\ ReadCount \in Nat
  BY DeliveryAssumption
<1>1. PlacesFit(k2, n)
  BY <1>0, EmptyFacts DEF ConnFits, PlacesFit, Stored, Rising, Below
<1>2. Whole(k2, t, P)
  BY DEF ConnFits, Whole
<1> QED
  BY <1>1, <1>2 DEF ConnFits

--------------------------------------------------------------------------------
(* The steps of an event *)

\* e is later than what s has of its source, and earlier.
Later(s, e)   == \A i \in DOMAIN s : s[i].source = e.source => s[i].n < e.n

Earlier(e, s) == \A i \in DOMAIN s : e.source = s[i].source => e.n < s[i].n

LEMMA AppendedEvent ==
  ASSUME NEW s \in Seq(Events), NEW t \in Seq(Events), NEW e \in Events
  PROVE  /\ InOrder(s) /\ Later(s, e) => InOrder(Append(s, e))
         /\ Before(t, s) /\ Later(t, e) => Before(t, Append(s, e))
         /\ Before(s, t) /\ Earlier(e, t) => Before(Append(s, e), t)
<1>0. /\ DOMAIN Append(s, e) = 1 .. Len(s) + 1 /\ DOMAIN s = 1 .. Len(s)
      /\ Len(s) \in Nat
      /\ \A i \in 1 .. Len(s) : Append(s, e)[i] = s[i]
      /\ Append(s, e)[Len(s) + 1] = e
  BY AppendFacts
<1>1. \A i \in DOMAIN Append(s, e) :
        \/ i \in DOMAIN s /\ Append(s, e)[i] = s[i]
        \/ i = Len(s) + 1 /\ Append(s, e)[i] = e
  BY <1>0
<1>2. ASSUME InOrder(s), Later(s, e)
      PROVE  InOrder(Append(s, e))
  <2> SUFFICES ASSUME NEW i \in DOMAIN Append(s, e), NEW j \in DOMAIN Append(s, e), i < j,
                      Append(s, e)[i].source = Append(s, e)[j].source
               PROVE  Append(s, e)[i].n < Append(s, e)[j].n
    BY DEF InOrder
  <2>1. i \in DOMAIN s
    BY <1>0
  <2>2. CASE j \in DOMAIN s
    BY <1>0, <1>2, <2>1, <2>2 DEF InOrder
  <2>3. CASE j = Len(s) + 1
    BY <1>0, <1>2, <2>1, <2>3 DEF Later
  <2> QED
    BY <1>1, <2>2, <2>3
<1>3. ASSUME Before(t, s), Later(t, e)
      PROVE  Before(t, Append(s, e))
  BY <1>1, <1>3 DEF Before, Later
<1>4. ASSUME Before(s, t), Earlier(e, t)
      PROVE  Before(Append(s, e), t)
  BY <1>1, <1>4 DEF Before, Earlier
<1> QED
  BY <1>2, <1>3, <1>4

LEMMA CountedEvents ==
  ASSUME NEW s \in Seq(Events), NEW e \in Events,
         NEW f \in [Sources -> Nat], NEW g \in [Sources -> Nat],
         \A x \in Sources : f[x] <= g[x], Counted(s, f)
  PROVE  /\ Counted(s, g)
         /\ e.n <= g[e.source] => Counted(Append(s, e), g)
         /\ e.n > f[e.source] => Later(s, e)
<1>0. \A i \in DOMAIN s : s[i] \in Events
  OBVIOUS
<1>1. \A i \in DOMAIN s : /\ s[i].source \in Sources /\ s[i].n \in Nat
                          /\ s[i].n <= f[s[i].source]
  BY <1>0 DEF Events, Counted
<1>2. Counted(s, g)
  <2> SUFFICES ASSUME NEW i \in DOMAIN s
               PROVE  s[i].n <= g[s[i].source]
    BY DEF Counted
  <2>1. /\ f[s[i].source] \in Nat /\ g[s[i].source] \in Nat
        /\ f[s[i].source] <= g[s[i].source] /\ s[i].n \in Nat
        /\ s[i].n <= f[s[i].source]
    BY <1>1
  <2> QED
    BY <2>1
<1>3. ASSUME e.n <= g[e.source]
      PROVE  Counted(Append(s, e), g)
  <2>1. \A i \in DOMAIN Append(s, e) :
          \/ i \in DOMAIN s /\ Append(s, e)[i] = s[i]
          \/ Append(s, e)[i] = e
    BY AppendFacts
  <2> QED
    BY <1>2, <1>3, <2>1 DEF Counted
<1>4. ASSUME e.n > f[e.source]
      PROVE  Later(s, e)
  <2> SUFFICES ASSUME NEW i \in DOMAIN s, s[i].source = e.source
               PROVE  s[i].n < e.n
    BY DEF Later
  <2>1. f[e.source] \in Nat /\ e.n \in Nat /\ s[i].n \in Nat /\ s[i].n <= f[e.source]
    BY <1>1 DEF Events
  <2> QED
    BY <1>4, <2>1
<1> QED
  BY <1>2, <1>3, <1>4

LEMMA TakenEvent ==
  ASSUME NEW s \in Seq(Events), NEW t \in Seq(Events), s # <<>>
  PROVE  /\ InOrder(s) => InOrder(Tail(s)) /\ Earlier(Head(s), Tail(s))
         /\ Before(s, t) => Before(Tail(s), t) /\ Earlier(Head(s), t)
         /\ Before(t, s) => Before(t, Tail(s)) /\ Later(t, Head(s))
         /\ \A f : Counted(s, f) => /\ Counted(Tail(s), f)
                                   /\ Head(s).n <= f[Head(s).source]
<1>0. /\ Head(s) = s[1] /\ Len(s) \in Nat \ {0}
      /\ DOMAIN Tail(s) = 1 .. Len(s) - 1 /\ DOMAIN s = 1 .. Len(s)
      /\ \A i \in 1 .. Len(s) - 1 : Tail(s)[i] = s[i + 1]
  BY TailFacts
<1>1. /\ 1 \in DOMAIN s
      /\ \A i \in DOMAIN Tail(s) :
           i \in Nat /\ i + 1 \in DOMAIN s /\ 1 < i + 1 /\ Tail(s)[i] = s[i + 1]
  BY <1>0
<1>2. ASSUME InOrder(s)
      PROVE  InOrder(Tail(s)) /\ Earlier(Head(s), Tail(s))
  <2>1. InOrder(Tail(s))
    <3> SUFFICES ASSUME NEW i \in DOMAIN Tail(s), NEW j \in DOMAIN Tail(s), i < j,
                        Tail(s)[i].source = Tail(s)[j].source
                 PROVE  Tail(s)[i].n < Tail(s)[j].n
      BY DEF InOrder
    <3>1. i + 1 < j + 1
      BY <1>1
    <3> QED
      BY <1>1, <1>2, <3>1 DEF InOrder
  <2>2. Earlier(Head(s), Tail(s))
    BY <1>0, <1>1, <1>2 DEF InOrder, Earlier
  <2> QED
    BY <2>1, <2>2
<1>3. ASSUME Before(s, t)
      PROVE  Before(Tail(s), t) /\ Earlier(Head(s), t)
  BY <1>0, <1>1, <1>3 DEF Before, Earlier
<1>4. ASSUME Before(t, s)
      PROVE  Before(t, Tail(s)) /\ Later(t, Head(s))
  BY <1>0, <1>1, <1>4 DEF Before, Later
<1>5. ASSUME NEW f, Counted(s, f)
      PROVE  Counted(Tail(s), f) /\ Head(s).n <= f[Head(s).source]
  BY <1>0, <1>1, <1>5 DEF Counted
<1> QED
  BY <1>2, <1>3, <1>4, <1>5

--------------------------------------------------------------------------------
(* The agent *)

LEMMA PayloadTypes ==
  /\ \A events \in Turns : events \in Seq(Payload)
  /\ SubEvents \in Seq(Payload)
  /\ Loop \in Sources /\ Spawns \in Sources
  /\ \A a \in Agents : a \in Sources /\ a # Loop /\ a # Spawns
<1>1. ASSUME NEW s \in Seq([type : STRING, id : STRING])
      PROVE  s \in Seq(Payload)
  <2>1. \A e \in [type : STRING, id : STRING] : e \in Payload
    BY DEF Payload, Names
  <2> DEFINE P == [type : STRING, id : STRING]
  <2> HIDE DEF P
  <2>2. s \in Seq(P)
    BY <1>1 DEF P
  <2>3. \A i \in 1 .. Len(s) : s[i] \in P
    BY <2>2
  <2> QED
    BY <2>1, <2>2, <2>3 DEF P
<1> QED
  BY <1>1, DeliveryAssumption DEF Loop, Spawns, Sources

LEMMA EventType ==
  ASSUME NEW source \in Sources, NEW n \in Nat, NEW e \in Payload
  PROVE  /\ Event(source, n, e) \in Events
         /\ Event(source, n, e).source = source
         /\ Event(source, n, e).n = n
BY DEF Event, Events, Payload

\* The bus is given an event of the turn's own loop or of a spawn.
LEMMA EmitStep ==
  ASSUME Typed, EventsFit, NEW source \in {Loop, Spawns}, NEW e \in Payload,
         Emit(source, e), UNCHANGED <<child, written>>
  PROVE  EventsFit' /\ emitted' \in [Sources -> Nat] /\ bus' \in Seq(Events)
<1> DEFINE n == emitted[source] + 1
           new == Event(source, n, e)
<1>1. source \in Sources /\ n \in Nat /\ new \in Events /\ new.source = source /\ new.n = n
  BY PayloadTypes, EventType DEF Typed, AgentTyped
<1>2. /\ emitted \in [Sources -> Nat]
      /\ emitted' \in [Sources -> Nat]
      /\ \A x \in Sources : emitted[x] <= emitted'[x]
      /\ emitted'[source] = n
      /\ n > emitted[source]
  BY <1>1 DEF Typed, AgentTyped, Emit
<1>3. /\ bus' = Append(bus, new) /\ bus \in Seq(Events) /\ written \in Seq(Events)
      /\ \A a \in Agents : child[a] \in Seq(Events)
      /\ bus' \in Seq(Events)
  BY <1>1, AppendFacts DEF Emit, Typed, AgentTyped, StreamTyped
<1> HIDE DEF n, new
<1>d. \A s \in Seq(Events) : Counted(s, emitted) =>
        Counted(s, emitted') /\ Later(s, new) /\ Counted(Append(s, new), emitted')
  <2> SUFFICES ASSUME NEW s \in Seq(Events), Counted(s, emitted)
               PROVE  Counted(s, emitted') /\ Later(s, new) /\ Counted(Append(s, new), emitted')
    OBVIOUS
  <2>1. new.n <= emitted'[new.source] /\ new.n > emitted[new.source]
    BY <1>1, <1>2
  <2> QED
    BY <1>1, <1>2, <2>1, CountedEvents
<1>4. /\ Counted(written, emitted') /\ Later(written, new)
      /\ Counted(bus', emitted') /\ Later(bus, new)
  BY <1>3, <1>d DEF EventsFit
<1>5. InOrder(bus') /\ Before(written, bus')
  BY <1>1, <1>3, <1>4, AppendedEvent DEF EventsFit
<1>6. ASSUME NEW a \in Agents
      PROVE  Before(bus', child[a]) /\ Counted(child[a], emitted')
  <2>1. Earlier(new, child[a])
    BY <1>1, PayloadTypes DEF EventsFit, Earlier
  <2> QED
    BY <1>1, <1>3, <1>d, <2>1, AppendedEvent DEF EventsFit
<1>7. EventsFit'
  BY <1>4, <1>5, <1>6 DEF EventsFit
<1> QED
  BY <1>2, <1>3, <1>7

\* What leaves the events alone.
LEMMA EventsStay ==
  ASSUME EventsFit, UNCHANGED <<written, bus, child, emitted>>
  PROVE  EventsFit'
BY DEF EventsFit

LEMMA SubEmitStep ==
  ASSUME Typed, EventsFit, NEW id \in Agents, SubEmit(id)
  PROVE  EventsFit' /\ AgentTyped'
<1> DEFINE n == emitted[id] + 1
           new == Event(id, n, SubEvents[n])
<1>0. emitted[id] \in Nat /\ id \in Sources
  BY PayloadTypes DEF Typed, AgentTyped
<1>1. n \in Nat /\ new \in Events /\ new.source = id /\ new.n = n
  <2>1. n \in 1 .. Len(SubEvents)
    BY <1>0, PayloadTypes DEF SubEmit
  <2>2. SubEvents[n] \in Payload
    BY <2>1, PayloadTypes
  <2> QED
    BY <1>0, <2>1, <2>2, EventType
<1>2. /\ emitted \in [Sources -> Nat]
      /\ emitted' \in [Sources -> Nat]
      /\ \A x \in Sources : emitted[x] <= emitted'[x]
      /\ emitted'[id] = n
      /\ n > emitted[id]
  BY <1>0, <1>1 DEF Typed, AgentTyped, SubEmit
<1>3. /\ bus' = bus /\ written' = written
      /\ bus \in Seq(Events) /\ written \in Seq(Events)
      /\ \A a \in Agents : child[a] \in Seq(Events)
      /\ child'[id] = Append(child[id], new)
      /\ \A a \in Agents \ {id} : child'[a] = child[a]
  BY DEF SubEmit, streamed, Typed, AgentTyped, StreamTyped
<1>4. child' \in [Agents -> Seq(Events)]
  <2>1. Append(child[id], new) \in Seq(Events)
    BY <1>1, <1>3, AppendFacts
  <2> QED
    BY <2>1 DEF SubEmit, Typed, AgentTyped
<1> HIDE DEF n, new
<1>d. \A s \in Seq(Events) : Counted(s, emitted) =>
        Counted(s, emitted') /\ Later(s, new) /\ Counted(Append(s, new), emitted')
  <2> SUFFICES ASSUME NEW s \in Seq(Events), Counted(s, emitted)
               PROVE  Counted(s, emitted') /\ Later(s, new) /\ Counted(Append(s, new), emitted')
    OBVIOUS
  <2>1. new.n <= emitted'[new.source] /\ new.n > emitted[new.source]
    BY <1>1, <1>2
  <2> QED
    BY <1>1, <1>2, <2>1, CountedEvents
<1>5. /\ Counted(written, emitted') /\ Later(written, new)
      /\ Counted(bus, emitted') /\ Later(bus, new)
      /\ Counted(child'[id], emitted') /\ Later(child[id], new)
  BY <1>3, <1>d DEF EventsFit
<1>6. InOrder(child'[id]) /\ Before(written, child'[id]) /\ Before(bus, child'[id])
  BY <1>1, <1>3, <1>5, AppendedEvent DEF EventsFit
<1>7. \A i \in DOMAIN child'[id] : child'[id][i].source = id
  <2>1. \A i \in DOMAIN child'[id] :
          \/ i \in DOMAIN child[id] /\ child'[id][i] = child[id][i]
          \/ child'[id][i] = new
    BY <1>1, <1>3, AppendFacts
  <2> QED
    BY <1>1, <2>1 DEF EventsFit
<1>8. ASSUME NEW a \in Agents \ {id}
      PROVE  Counted(child[a], emitted')
  BY <1>3, <1>d DEF EventsFit
<1>9. EventsFit'
  BY <1>3, <1>5, <1>6, <1>7, <1>8 DEF EventsFit
<1> QED
  BY <1>2, <1>4, <1>9 DEF SubEmit, Typed, AgentTyped

LEMMA ForwardStep ==
  ASSUME Typed, EventsFit, NEW id \in Agents, Forward(id)
  PROVE  EventsFit' /\ AgentTyped'
<1> DEFINE h == Head(child[id])
<1>1. /\ child[id] \in Seq(Events) /\ child[id] # <<>>
      /\ bus \in Seq(Events) /\ written \in Seq(Events)
      /\ written' = written /\ emitted' = emitted
      /\ \A a \in Agents : child[a] \in Seq(Events)
  BY DEF Forward, streamed, Typed, AgentTyped, StreamTyped
<1>2. h \in Events /\ Tail(child[id]) \in Seq(Events) /\ h.source = id
  BY <1>1, TailFacts DEF EventsFit
<1>3. /\ child'[id] = Tail(child[id])
      /\ \A a \in Agents \ {id} : child'[a] = child[a]
      /\ child' \in [Agents -> Seq(Events)]
  BY <1>2 DEF Forward, Typed, AgentTyped
<1>4. /\ InOrder(child'[id]) /\ Earlier(h, child'[id])
      /\ Before(written, child'[id]) /\ Later(written, h)
      /\ Before(bus, child'[id]) /\ Later(bus, h)
      /\ Counted(child'[id], emitted) /\ h.n <= emitted[id]
  BY <1>1, <1>2, <1>3, TakenEvent DEF EventsFit
<1>5. \A i \in DOMAIN child'[id] : child'[id][i].source = id
  <2>1. \A i \in DOMAIN child'[id] :
          i + 1 \in DOMAIN child[id] /\ child'[id][i] = child[id][i + 1]
    BY <1>1, <1>3, TailFacts
  <2> QED
    BY <2>1 DEF EventsFit
<1>6. ASSUME NEW a \in Agents \ {id}
      PROVE  Earlier(h, child[a])
  BY <1>2 DEF EventsFit, Earlier
<1> HIDE DEF h
<1>7. CASE bus' = Append(bus, h)
  <2>1. bus' \in Seq(Events)
    BY <1>1, <1>2, <1>7, AppendFacts
  <2>2. InOrder(bus') /\ Before(written, bus') /\ Before(bus', child'[id])
    <3>1. child'[id] \in Seq(Events)
      BY <1>3
    <3> QED
      BY <1>1, <1>2, <1>4, <1>7, <3>1, AppendedEvent DEF EventsFit
  <2>3. \A a \in Agents \ {id} : Before(bus', child[a])
    BY <1>1, <1>2, <1>6, <1>7, AppendedEvent DEF EventsFit
  <2>4. Counted(bus', emitted)
    <3>1. emitted \in [Sources -> Nat] /\ \A x \in Sources : emitted[x] <= emitted[x]
      BY DEF Typed, AgentTyped
    <3> QED
      BY <1>1, <1>2, <1>4, <1>7, <3>1, CountedEvents DEF EventsFit
  <2>5. EventsFit'
    BY <1>1, <1>3, <1>4, <1>5, <2>2, <2>3, <2>4 DEF EventsFit
  <2> QED
    BY <1>3, <2>1, <2>5 DEF Forward, Typed, AgentTyped
<1>8. CASE bus' = bus
  <2>1. EventsFit'
    BY <1>1, <1>3, <1>4, <1>5, <1>8 DEF EventsFit
  <2> QED
    BY <1>3, <1>8, <2>1 DEF Forward, Typed, AgentTyped
<1> QED
  BY <1>7, <1>8 DEF Forward, h

LEMMA NamedTypes ==
  /\ Named("turn_end", "error") \in Payload
  /\ \A id \in Agents : /\ Named("tool_start", id) \in Payload
                        /\ Named("tool_result", id) \in Payload
BY DEF Named, Payload, Names

LEMMA AgentStep ==
  ASSUME Typed, EventsFit,
         \/ EmitNext \/ Fail \/ Stop
         \/ \E id \in Agents : Sub(id)
  PROVE  EventsFit' /\ AgentTyped'
<1>1. CASE EmitNext
  <2>1. Head(turn) \in Payload /\ Tail(turn) \in Seq(Payload)
    BY <1>1, TailFacts DEF EmitNext, Typed, AgentTyped
  <2>2. EventsFit' /\ emitted' \in [Sources -> Nat] /\ bus' \in Seq(Events)
    BY <1>1, <2>1, EmitStep DEF EmitNext, streamed
  <2> QED
    BY <1>1, <2>1, <2>2 DEF EmitNext, Typed, AgentTyped
<1>2. CASE Fail
  <2>1. Named("turn_end", "error") \in Payload
    BY NamedTypes
  <2>2. EventsFit' /\ emitted' \in [Sources -> Nat] /\ bus' \in Seq(Events)
    BY <1>2, <2>1, EmitStep DEF Fail, streamed
  <2> QED
    BY <1>2, <2>2, EmptyFacts DEF Fail, Typed, AgentTyped
<1>3. CASE Stop
  BY <1>3, EventsStay, EmptyFacts DEF Stop, streamed, Typed, AgentTyped
<1>4. ASSUME NEW id \in Agents, SpawnSub(id)
      PROVE  EventsFit' /\ AgentTyped'
  <2>1. Named("tool_start", id) \in Payload
    BY <1>4, NamedTypes
  <2>2. EventsFit' /\ emitted' \in [Sources -> Nat] /\ bus' \in Seq(Events)
    BY <1>4, <2>1, EmitStep DEF SpawnSub, streamed
  <2> QED
    BY <1>4, <2>2 DEF SpawnSub, Typed, AgentTyped
<1>5. ASSUME NEW id \in Agents, SubEnds(id)
      PROVE  EventsFit' /\ AgentTyped'
  <2>1. CASE Called(id)
    <3>1. Named("tool_result", id) \in Payload
      BY <1>5, NamedTypes
    <3>2. EventsFit' /\ emitted' \in [Sources -> Nat] /\ bus' \in Seq(Events)
      BY <1>5, <2>1, <3>1, EmitStep DEF SubEnds, streamed
    <3> QED
      BY <1>5, <3>2 DEF SubEnds, Typed, AgentTyped
  <2>2. CASE ~Called(id)
    BY <1>5, <2>2, EventsStay DEF SubEnds, streamed, Typed, AgentTyped
  <2> QED
    BY <2>1, <2>2
<1> QED
  BY <1>1, <1>2, <1>3, <1>4, <1>5, SubEmitStep, ForwardStep DEF Sub

--------------------------------------------------------------------------------
(* The stream *)

LEMMA StreamStays ==
  ASSUME ConnsFit, UNCHANGED <<format, streamed, conn>>
  PROVE  ConnsFit'
BY DEF ConnsFit, Told, Projected, Envelope, ParseProtoEntry, ParseLegacyEntry, streamed

LEMMA ToldType ==
  ASSUME Typed
  PROVE  /\ Len(written) \in Nat /\ trimmed \in 0 .. Len(written)
         /\ Told \in SUBSET (1 .. Len(written)) /\ Len(written) <= FirstId
         /\ \A c \in Clients : conn[c] \in Conn
BY DEF Typed, StreamTyped, ConnTyped, Told

LEMMA WriteStep ==
  ASSUME IInv, Write
  PROVE  IInv'
<1> DEFINE h == Head(bus)
<1>1. /\ bus \in Seq(Events) /\ bus # <<>> /\ written \in Seq(Events)
      /\ \A a \in Agents : child[a] \in Seq(Events)
      /\ bus' = Tail(bus) /\ emitted' = emitted /\ child' = child /\ conn' = conn
      /\ format' = format
  BY DEF Write, IInv, Typed, AgentTyped, StreamTyped
<1>2. h \in Events /\ bus' \in Seq(Events)
  BY <1>1, TailFacts
<1>3. /\ InOrder(bus') /\ Earlier(h, bus')
      /\ Before(written, bus') /\ Later(written, h)
      /\ Counted(bus', emitted) /\ h.n <= emitted[h.source]
      /\ \A a \in Agents : Before(bus', child[a]) /\ Earlier(h, child[a])
  BY <1>1, TakenEvent DEF IInv, EventsFit
<1>4. AgentTyped'
  BY <1>2 DEF Write, IInv, Typed, AgentTyped
<1> HIDE DEF h
<1>5. CASE UNCHANGED <<written, trimmed>>
  <2>1. EventsFit'
    BY <1>1, <1>3, <1>5 DEF IInv, EventsFit
  <2>2. ConnsFit'
    BY <1>1, <1>5 DEF IInv, ConnsFit, Told, Projected, Envelope, ParseProtoEntry, ParseLegacyEntry
  <2>3. faults' \in Nat
    BY DEF Write, streamed, IInv, Typed, StreamTyped
  <2> QED
    BY <1>1, <1>4, <1>5, <2>1, <2>2, <2>3 DEF IInv, Typed, StreamTyped, ConnTyped
<1>6. CASE /\ written' = Append(written, h)
           /\ trimmed' \in trimmed .. Len(written')
           /\ faults' = faults
  <2>1. /\ written' \in Seq(Events) /\ Len(written') = Len(written) + 1
        /\ Len(written) \in Nat
        /\ DOMAIN written = 1 .. Len(written) /\ DOMAIN written' = 1 .. Len(written) + 1
        /\ \A i \in 1 .. Len(written) : written'[i] = written[i]
    BY <1>1, <1>2, <1>6, AppendFacts
  <2>2. StreamTyped'
    <3>1. Len(written) < FirstId /\ FirstId \in Nat
      BY DeliveryAssumption DEF Write
    <3>2. trimmed' \in 0 .. Len(written')
      BY <1>6, <2>1 DEF IInv, Typed, StreamTyped
    <3> QED
      BY <1>6, <2>1, <3>1, <3>2 DEF IInv, Typed, StreamTyped
  <2>3. EventsFit'
    <3>1. InOrder(written') /\ Before(written', bus')
      BY <1>1, <1>2, <1>3, <1>6, AppendedEvent DEF IInv, EventsFit
    <3>2. \A a \in Agents : Before(written', child[a])
      BY <1>1, <1>2, <1>3, <1>6, AppendedEvent DEF IInv, EventsFit
    <3>3. Counted(written', emitted)
      <4>1. \A i \in DOMAIN written' :
              \/ i \in DOMAIN written /\ written'[i] = written[i]
              \/ written'[i] = h
        BY <1>1, <1>2, <1>6, AppendFacts
      <4> QED
        BY <1>3, <4>1 DEF IInv, EventsFit, Counted
    <3> QED
      BY <1>1, <1>3, <3>1, <3>2, <3>3 DEF IInv, EventsFit
  <2>4. Told' \cap 1 .. Len(written) = Told /\ Told' \in SUBSET (1 .. Len(written'))
    <3>1. \A i \in 1 .. Len(written) : Projected(i)' <=> Projected(i)
      BY <1>1, <2>1 DEF Projected, Envelope, ParseProtoEntry, ParseLegacyEntry
    <3>2. \A i : i \in Told' <=> i \in 1 .. Len(written) + 1 /\ Projected(i)'
      BY <2>1 DEF Told
    <3>3. \A i : i \in Told <=> i \in 1 .. Len(written) /\ Projected(i)
      BY <2>1 DEF Told
    <3>4. \A i \in 1 .. Len(written) : i \in 1 .. Len(written) + 1
      BY <2>1
    <3>5. Told' \cap 1 .. Len(written) = Told
      BY <3>1, <3>2, <3>3, <3>4
    <3> QED
      BY <2>1, <3>2, <3>5
  <2>5. ConnsFit'
    <3>1. /\ Len(written) \in Nat /\ trimmed \in 0 .. Len(written)
          /\ Told \in SUBSET (1 .. Len(written))
          /\ Len(written') \in {Len(written), Len(written) + 1}
          /\ trimmed' \in trimmed .. Len(written')
      BY <1>6, <2>1, ToldType DEF IInv
    <3>2. ASSUME NEW c \in Clients
          PROVE  ConnFits(conn[c], Len(written'), trimmed', Told')
      BY <2>4, <3>1, ToldType, StreamGrows DEF IInv, ConnsFit
    <3> QED
      BY <1>1, <3>2 DEF ConnsFit
  <2> QED
    BY <1>1, <1>4, <2>2, <2>3, <2>5 DEF IInv, Typed, ConnTyped
<1> QED
  <2>1. Len(written') \in Nat => \A n \in trimmed .. Len(written') : n \in trimmed .. Len(written')
    OBVIOUS
  <2> QED
    BY <1>5, <1>6, <2>1 DEF Write, streamed, h

LEMMA ExpireStep ==
  ASSUME IInv, Expire
  PROVE  IInv'
<1>1. /\ written' = written /\ conn' = conn /\ faults' = faults
      /\ trimmed' = Len(written) /\ Told' = Told
  BY DEF Expire, agentVars, Told, Projected, Envelope, ParseProtoEntry, ParseLegacyEntry
<1>2. ConnsFit'
  <2>1. ASSUME NEW c \in Clients
        PROVE  ConnFits(conn[c], Len(written), Len(written), Told)
    <3>1. /\ Len(written) \in {Len(written), Len(written) + 1}
          /\ Len(written) \in trimmed .. Len(written)
          /\ Told \cap 1 .. Len(written) = Told
      BY ToldType DEF IInv
    <3> QED
      BY <3>1, ToldType, StreamGrows DEF IInv, ConnsFit
  <2> QED
    BY <1>1, <2>1 DEF ConnsFit
<1>3. EventsFit'
  BY <1>1, EventsStay DEF IInv, Expire, agentVars
<1>4. Typed'
  BY <1>1, ToldType DEF IInv, Expire, agentVars, Typed, AgentTyped, StreamTyped, ConnTyped
<1> QED
  BY <1>2, <1>3, <1>4 DEF IInv

--------------------------------------------------------------------------------
(* The connections *)

LEMMA ConnStep ==
  ASSUME IInv, NEW c \in Clients, UNCHANGED <<agentVars, streamed>>,
         conn' \in [Clients -> Conn], \A d \in Clients \ {c} : conn'[d] = conn[d],
         ConnFits(conn'[c], Len(written), trimmed, Told)
  PROVE  IInv'
<1>2. /\ written' = written /\ trimmed' = trimmed /\ format' = format
      /\ Told' = Told
  BY DEF agentVars, streamed, Told, Projected, Envelope, ParseProtoEntry, ParseLegacyEntry
<1>3. ConnsFit'
  BY <1>2 DEF IInv, ConnsFit
<1>4. EventsFit'
  BY EventsStay DEF IInv, agentVars, streamed
<1>5. Typed'
  BY DEF IInv, Typed, AgentTyped, StreamTyped, ConnTyped, agentVars, streamed
<1> QED
  BY <1>3, <1>4, <1>5 DEF IInv

LEMMA ConnectStep ==
  ASSUME IInv, NEW c \in Clients, Connect(c)
  PROVE  IInv'
<1> DEFINE k == conn'[c]
<1>1. conn \in [Clients -> Conn] /\ conn[c] \in Conn
  BY DEF IInv, Typed, ConnTyped
<1>2. /\ conn' = [conn EXCEPT ![c] = k]
      /\ k = [open |-> TRUE, last |-> conn[c].cursor, batch |-> <<>>, channel |-> <<>>,
              shown |-> <<>>, cursor |-> conn[c].cursor, count |-> conn[c].count + 1]
  BY <1>1 DEF Connect, Closed
<1>3. k \in Conn
  BY <1>1, <1>2, EmptyFacts DEF Conn
<1>4. conn' \in [Clients -> Conn] /\ \A d \in Clients \ {c} : conn'[d] = conn[d]
  BY <1>1, <1>2, <1>3
<1>5. /\ k.last = conn[c].cursor /\ k.cursor = conn[c].cursor
      /\ k.batch = <<>> /\ k.channel = <<>> /\ k.shown = <<>>
  BY <1>2
<1> HIDE DEF k
<1>6. ConnFits(k, Len(written), trimmed, Told)
  BY <1>1, <1>3, <1>5, ToldType, Opened DEF IInv, ConnsFit
<1> QED
  BY <1>4, <1>6, ConnStep DEF Connect, k

\* What an XREAD behind an id returns: the entries from the first one on.
LEMMA BehindIsSuffix ==
  ASSUME Typed, NEW id \in Nat, Behind(id) # {}
  PROVE  LET lo == First(Behind(id))
         IN /\ lo \in 1 .. Len(written) /\ IdOf(lo) > id
            /\ \A e \in trimmed + 1 .. Len(written) : IdOf(e) > id => e >= lo
            /\ Cardinality(Behind(id)) = Len(written) - lo + 1
<1> DEFINE n  == Len(written)
           lo == IF trimmed + 1 > id - FirstId + 1 THEN trimmed + 1 ELSE id - FirstId + 1
<1>0. n \in Nat /\ trimmed \in 0 .. n /\ FirstId \in Nat
  BY ToldType, DeliveryAssumption
<1>1. PICK x \in trimmed + 1 .. n : FirstId + x > id
  BY DEF Behind, IdOf
<1>2. lo \in trimmed + 1 .. n /\ FirstId + lo > id
  BY <1>0, <1>1
<1>3. \A e \in trimmed + 1 .. n : FirstId + e > id <=> e >= lo
  BY <1>0, <1>1
<1>4. lo \in Int
  BY <1>0
<1> HIDE DEF lo
<1>5. \A e : e \in Behind(id) <=> e \in trimmed + 1 .. n /\ e >= lo
  BY <1>3 DEF Behind, IdOf
<1>6. Behind(id) = lo .. n
  <2>1. \A e \in trimmed + 1 .. n : e >= lo => e \in lo .. n
    BY <1>0, <1>4
  <2>2. \A e \in lo .. n : e \in trimmed + 1 .. n /\ e >= lo
    BY <1>0, <1>2, <1>4
  <2> QED
    BY <1>5, <2>1, <2>2
<1>7. First(Behind(id)) = lo
  <2>1. lo \in lo .. n /\ \A j \in lo .. n : lo <= j
    BY <1>0, <1>2, <1>4
  <2>2. \A i \in lo .. n : (\A j \in lo .. n : i <= j) => i = lo
    BY <1>0, <1>4, <2>1
  <2> QED
    BY <1>6, <2>1, <2>2 DEF First
<1>8. Cardinality(Behind(id)) = n - lo + 1
  BY <1>0, <1>2, <1>4, <1>6, FS_Interval
<1> QED
  BY <1>0, <1>2, <1>3, <1>7, <1>8 DEF IdOf

LEMMA ReadStep ==
  ASSUME IInv, NEW c \in Clients, Read(c)
  PROVE  IInv'
<1> DEFINE lo == First(Behind(conn[c].last))
           m  == Min(ReadCount, Cardinality(Behind(conn[c].last)))
           batch == [i \in 1 .. m |-> lo + i - 1]
           k == conn'[c]
<1>1. conn \in [Clients -> Conn] /\ conn[c] \in Conn /\ conn[c].last \in Nat
  BY DEF IInv, Typed, ConnTyped, Conn
<1>2. /\ lo \in 1 .. Len(written) /\ IdOf(lo) > conn[c].last
      /\ \A e \in trimmed + 1 .. Len(written) : IdOf(e) > conn[c].last => e >= lo
      /\ Cardinality(Behind(conn[c].last)) = Len(written) - lo + 1
  BY <1>1, BehindIsSuffix DEF IInv, Read
<1>3. m \in 0 .. Len(written) - lo + 1 /\ m <= ReadCount
  BY <1>2, ToldType, DeliveryAssumption DEF IInv, Min
<1>4. conn' = [conn EXCEPT ![c].batch = batch]
  BY DEF Read
<1> HIDE DEF lo, m
<1>5. batch \in Seq(Nat)
  <2>1. \A i \in 1 .. m : lo + i - 1 \in Nat
    BY <1>2, <1>3, ToldType DEF IInv
  <2> QED
    BY <1>3, <2>1
<1>6. Len(batch) = m /\ \A i \in 1 .. m : batch[i] = lo + i - 1
  <2>1. m \in Nat
    BY <1>2, <1>3, ToldType DEF IInv
  <2> QED
    BY <2>1
<1> HIDE DEF batch
<1>7. /\ conn' \in [Clients -> Conn] /\ \A d \in Clients \ {c} : conn'[d] = conn[d]
      /\ k \in Conn /\ k.open = conn[c].open /\ k.last = conn[c].last
      /\ k.cursor = conn[c].cursor /\ k.batch = batch
      /\ k.channel = conn[c].channel /\ k.shown = conn[c].shown
  BY <1>1, <1>4, <1>5 DEF Conn
<1> HIDE DEF k
<1>8. ConnFits(k, Len(written), trimmed, Told)
  <2>1. conn[c].open /\ ConnFits(conn[c], Len(written), trimmed, Told)
    BY DEF Read, IInv, ConnsFit
  <2>2. /\ Len(written) \in Nat /\ trimmed \in 0 .. Len(written)
        /\ Told \in SUBSET (1 .. Len(written))
    BY ToldType DEF IInv
  <2> DEFINE n == Len(written)
  <2>3. /\ n \in Nat /\ trimmed \in 0 .. n /\ Told \in SUBSET (1 .. n)
        /\ ConnFits(conn[c], n, trimmed, Told)
        /\ lo \in 1 .. n /\ IdOf(lo) > conn[c].last
        /\ \A e \in trimmed + 1 .. n : IdOf(e) > conn[c].last => e >= lo
        /\ m \in 0 .. n - lo + 1 /\ m <= ReadCount
    BY <1>2, <1>3, <2>1, <2>2
  <2>4. /\ k \in Conn /\ k.open = conn[c].open /\ k.last = conn[c].last
        /\ k.cursor = conn[c].cursor /\ Len(k.batch) = m
        /\ \A i \in 1 .. m : k.batch[i] = lo + i - 1
        /\ k.channel = conn[c].channel /\ k.shown = conn[c].shown
    BY <1>6, <1>7
  <2> HIDE DEF n
  <2>5. ConnFits(k, n, trimmed, Told)
    BY <1>1, <2>1, <2>3, <2>4, Batched
  <2> QED
    BY <2>5 DEF n
<1> QED
  BY <1>7, <1>8, ConnStep DEF Read, k

LEMMA PushStep ==
  ASSUME IInv, NEW c \in Clients, Push(c)
  PROVE  IInv'
<1> DEFINE h == Head(conn[c].batch)
           rest == Tail(conn[c].batch)
           channel == IF h \in Told THEN Append(conn[c].channel, h) ELSE conn[c].channel
           id == IdOf(h)
           k == conn'[c]
<1>1. /\ conn \in [Clients -> Conn] /\ conn[c] \in Conn
      /\ conn[c].batch \in Seq(Nat) /\ conn[c].batch # <<>>
      /\ conn[c].channel \in Seq(Nat) /\ conn[c].open
  BY DEF IInv, Typed, ConnTyped, Conn, Push
<1>2. h \in Nat /\ h = conn[c].batch[1] /\ 1 \in DOMAIN conn[c].batch /\ rest \in Seq(Nat)
  BY <1>1, TailFacts
<1>3. h \in Told <=> Projected(h)
  <2>1. h \in 1 .. Len(written)
    BY <1>1, <1>2 DEF IInv, ConnsFit, ConnFits, PlacesFit, Stored
  <2> QED
    BY <2>1, ToldType DEF IInv, Told, Typed, StreamTyped
<1>4. channel \in Seq(Nat)
  BY <1>1, <1>2, AppendFacts
<1>5. id \in Nat
  BY <1>2, DeliveryAssumption DEF IdOf
<1>6. h \in Told => Len(conn[c].channel) < ChannelSize
  BY <1>3 DEF Push
<1>7. conn' = [conn EXCEPT ![c].batch = rest, ![c].last = id, ![c].channel = channel]
  <2>1. conn' = [conn EXCEPT ![c].batch = Tail(@), ![c].last = id,
                             ![c].channel = IF Projected(h) THEN Append(@, h) ELSE @]
    BY DEF Push
  <2> HIDE DEF h, id
  <2> QED
    BY <1>3, <2>1
<1> HIDE DEF h, rest, channel, id
<1>8. /\ conn' \in [Clients -> Conn] /\ \A d \in Clients \ {c} : conn'[d] = conn[d]
      /\ k \in Conn /\ k.open = conn[c].open /\ k.last = id
      /\ k.cursor = conn[c].cursor /\ k.batch = rest
      /\ k.channel = channel /\ k.shown = conn[c].shown
  BY <1>1, <1>2, <1>4, <1>5, <1>7 DEF Conn
<1> HIDE DEF k
<1>9. ConnFits(k, Len(written), trimmed, Told)
  BY <1>1, <1>6, <1>8, ToldType, Pushed DEF IInv, ConnsFit, h, rest, channel, id
<1> QED
  BY <1>8, <1>9, ConnStep DEF Push, k

LEMMA ShowStep ==
  ASSUME IInv, NEW c \in Clients, Show(c)
  PROVE  IInv'
<1> DEFINE h == Head(conn[c].channel)
           rest == Tail(conn[c].channel)
           shown == Append(conn[c].shown, h)
           count == Len(conn[c].shown) + 1
           k == conn'[c]
<1>1. /\ conn \in [Clients -> Conn] /\ conn[c] \in Conn
      /\ conn[c].channel \in Seq(Nat) /\ conn[c].channel # <<>>
      /\ conn[c].shown \in Seq(Nat) /\ conn[c].open
  BY DEF IInv, Typed, ConnTyped, Conn, Show
<1>2. h \in Nat /\ rest \in Seq(Nat) /\ shown \in Seq(Nat) /\ count \in Nat
  BY <1>1, TailFacts, AppendFacts
<1>3. conn' = [conn EXCEPT ![c].channel = rest, ![c].shown = shown, ![c].cursor = count]
  BY DEF Show
<1> HIDE DEF h, rest, shown, count
<1>4. /\ conn' \in [Clients -> Conn] /\ \A d \in Clients \ {c} : conn'[d] = conn[d]
      /\ k \in Conn /\ k.open = conn[c].open /\ k.last = conn[c].last
      /\ k.cursor = count /\ k.batch = conn[c].batch
      /\ k.channel = rest /\ k.shown = shown
  BY <1>1, <1>2, <1>3 DEF Conn
<1> HIDE DEF k
<1>5. ConnFits(k, Len(written), trimmed, Told)
  BY <1>1, <1>4, ToldType, Taken DEF IInv, ConnsFit, h, rest, shown, count
<1> QED
  BY <1>4, <1>5, ConnStep DEF Show, k

LEMMA DisconnectStep ==
  ASSUME IInv, NEW c \in Clients, Disconnect(c)
  PROVE  IInv'
<1> DEFINE none == <<>>
           k == conn'[c]
<1>1. conn \in [Clients -> Conn] /\ conn[c] \in Conn /\ none \in Seq(Nat)
  BY EmptyFacts DEF IInv, Typed, ConnTyped
<1>2. conn' = [conn EXCEPT ![c] =
        [conn[c] EXCEPT !.open = FALSE, !.last = 0, !.batch = none, !.channel = none]]
  BY DEF Disconnect
<1> HIDE DEF none
<1>3. /\ conn' \in [Clients -> Conn] /\ \A d \in Clients \ {c} : conn'[d] = conn[d]
      /\ k \in Conn /\ k.open = FALSE /\ k.cursor = conn[c].cursor
      /\ k.batch = none /\ k.channel = none /\ k.shown = conn[c].shown
  BY <1>1, <1>2 DEF Conn
<1> HIDE DEF k
<1>4. ConnFits(k, Len(written), trimmed, Told)
  BY <1>1, <1>3, ToldType, Shut DEF IInv, ConnsFit, none
<1> QED
  BY <1>3, <1>4, ConnStep DEF Disconnect, k

--------------------------------------------------------------------------------
(* The theorems *)

LEMMA InitFits == Init => IInv
<1> SUFFICES ASSUME Init
             PROVE  IInv
  OBVIOUS
<1>1. <<>> \in Seq(Events) /\ <<>> \in Seq(Nat) /\ DOMAIN <<>> = {} /\ Len(<<>>) = 0
  BY EmptyFacts
<1>2. Typed
  <2>1. AgentTyped
    BY <1>1, PayloadTypes DEF Init, AgentTyped
  <2>2. StreamTyped
    BY <1>1, DeliveryAssumption DEF Init, StreamTyped
  <2>3. Closed \in Conn
    BY <1>1 DEF Closed, Conn
  <2>4. ConnTyped
    BY <2>3 DEF Init, ConnTyped
  <2> QED
    BY <2>1, <2>2, <2>4 DEF Typed
<1>3. EventsFit
  BY <1>1 DEF Init, EventsFit, InOrder, Before, Counted
<1>4. ConnFits(Closed, 0, 0, {})
  BY <1>1, DeliveryAssumption
     DEF ConnFits, PlacesFit, Whole, Closed, Stored, Rising, Below
<1>5. ConnsFit
  <2>1. Told = {}
    BY <1>1 DEF Init, Told
  <2> QED
    BY <1>1, <1>4, <2>1 DEF Init, ConnsFit
<1> QED
  BY <1>2, <1>3, <1>5 DEF IInv

LEMMA NextFits == IInv /\ [Next]_vars => IInv'
<1> SUFFICES ASSUME IInv, [Next]_vars
             PROVE  IInv'
  OBVIOUS
<1>1. CASE \/ EmitNext \/ Fail \/ Stop
           \/ \E id \in Agents : Sub(id)
  <2>1. UNCHANGED <<format, streamed, conn>>
    BY <1>1 DEF EmitNext, Fail, Stop, Sub, SpawnSub, SubEmit, SubEnds, Forward
  <2>2. EventsFit' /\ AgentTyped'
    BY <1>1, AgentStep DEF IInv
  <2>3. ConnsFit'
    BY <2>1, StreamStays DEF IInv
  <2>4. StreamTyped' /\ ConnTyped'
    BY <2>1 DEF IInv, Typed, StreamTyped, ConnTyped, streamed
  <2> QED
    BY <2>2, <2>3, <2>4 DEF IInv, Typed
<1>2. CASE Write
  BY <1>2, WriteStep
<1>3. CASE Expire
  BY <1>3, ExpireStep
<1>4. ASSUME NEW c \in Clients, Connect(c) \/ Connection(c) \/ Disconnect(c)
      PROVE  IInv'
  BY <1>4, ConnectStep, ReadStep, PushStep, ShowStep, DisconnectStep DEF Connection
<1>5. CASE UNCHANGED vars
  <2>1. UNCHANGED <<format, streamed, conn>> /\ UNCHANGED <<written, bus, child, emitted>>
    BY <1>5 DEF vars, agentVars, streamed
  <2>2. EventsFit' /\ ConnsFit'
    BY <2>1, EventsStay, StreamStays DEF IInv
  <2>3. Typed'
    BY <1>5 DEF IInv, Typed, AgentTyped, StreamTyped, ConnTyped, vars, agentVars, streamed
  <2> QED
    BY <2>2, <2>3 DEF IInv
<1> QED
  BY <1>1, <1>2, <1>3, <1>4, <1>5 DEF Next

\* In every reachable state the events on their way are in order, inside and
\* between the places they pass, and every connection fits the stream.
THEOREM Inductive == Spec => []IInv
BY InitFits, NextFits, PTL DEF Spec

\* What is on its way has its shape and its bounds, whatever the sizes of a batch
\* and of a channel.
THEOREM TypeCorrect == Spec => []DeliveryTypeOK
<1>1. IInv => DeliveryTypeOK
  <2> SUFFICES ASSUME IInv
               PROVE  DeliveryTypeOK
    OBVIOUS
  <2>1. ASSUME NEW c \in Clients
        PROVE  /\ Items(conn[c].batch \o conn[c].channel \o conn[c].shown) \subseteq DOMAIN written
               /\ Len(conn[c].channel) <= ChannelSize
               /\ Len(conn[c].batch) <= ReadCount
    <3> DEFINE b == conn[c].batch
               l == conn[c].channel
               s == conn[c].shown
               S == 1 .. Len(written)
    <3>1. PlacesFit(conn[c], Len(written)) /\ conn[c] \in Conn
      BY ToldType DEF IInv, ConnsFit, ConnFits
    <3>2. b \in Seq(Nat) /\ l \in Seq(Nat) /\ s \in Seq(Nat)
      BY <3>1 DEF Conn
    <3>3. /\ \A i \in DOMAIN b : b[i] \in S
          /\ \A i \in DOMAIN l : l[i] \in S
          /\ \A i \in DOMAIN s : s[i] \in S
      BY <3>1 DEF PlacesFit, Stored
    <3>4. DOMAIN written = S
      BY DEF IInv, Typed, StreamTyped
    <3> HIDE DEF b, l, s, S
    <3>5. b \in Seq(S) /\ l \in Seq(S) /\ s \in Seq(S)
      BY <3>2, <3>3
    <3>6. b \o l \o s \in Seq(S)
      BY <3>5
    <3>7. \A q \in Seq(S) : Items(q) \subseteq S
      BY DEF Items
    <3> QED
      BY <3>1, <3>4, <3>6, <3>7 DEF PlacesFit, b, l, s
  <2> QED
    BY <2>1 DEF IInv, Typed, AgentTyped, StreamTyped, DeliveryTypeOK
<1> QED
  BY <1>1, Inductive, PTL

\* ShownInOrder, for any number of sub-agents, whose tasks forward at any time.
THEOREM OrderIsKept == Spec => []ShownInOrder
<1>1. IInv => ShownInOrder
  <2> SUFFICES ASSUME IInv, NEW c \in Clients,
                      NEW i \in DOMAIN conn[c].shown, NEW j \in DOMAIN conn[c].shown, i < j,
                      written[conn[c].shown[i]].source = written[conn[c].shown[j]].source
               PROVE  written[conn[c].shown[i]].n < written[conn[c].shown[j]].n
    BY DEF ShownInOrder
  <2>1. PlacesFit(conn[c], Len(written))
    BY DEF IInv, ConnsFit, ConnFits
  <2>2. conn[c].shown[i] < conn[c].shown[j]
    BY <2>1 DEF PlacesFit, Rising
  <2>3. conn[c].shown[i] \in DOMAIN written /\ conn[c].shown[j] \in DOMAIN written
    BY <2>1 DEF PlacesFit, Stored, IInv, Typed, StreamTyped
  <2> QED
    BY <2>2, <2>3 DEF IInv, EventsFit, InOrder
<1> QED
  BY <1>1, Inductive, PTL

\* OnlyLostIsMissed, however the stream is trimmed, a batch cut and a client slow.
THEOREM NothingElseIsMissed == Spec => []OnlyLostIsMissed
<1>1. IInv => OnlyLostIsMissed
  <2> SUFFICES ASSUME IInv, NEW c \in Clients, NEW i \in DOMAIN conn[c].shown,
                      NEW e \in trimmed + 1 .. conn[c].shown[i], Projected(e)
               PROVE  e \in Items(conn[c].shown)
    BY DEF OnlyLostIsMissed
  <2>1. PlacesFit(conn[c], Len(written)) /\ Whole(conn[c], trimmed, Told)
    BY DEF IInv, ConnsFit, ConnFits
  <2>2. conn[c].shown[i] \in 1 .. Len(written) /\ trimmed \in 0 .. Len(written)
    BY <2>1, ToldType DEF IInv, PlacesFit, Stored
  <2>3. e \in 1 .. Len(written) /\ e > trimmed /\ e <= conn[c].shown[i]
    BY <2>2, ToldType DEF IInv
  <2>4. e \in Told
    BY <2>3 DEF Told, IInv, Typed, StreamTyped
  <2>5. In(e, conn[c].shown)
    BY <2>1, <2>3, <2>4 DEF Whole
  <2> QED
    BY <2>5 DEF In, Items
<1> QED
  BY <1>1, Inductive, PTL
================================================================================
