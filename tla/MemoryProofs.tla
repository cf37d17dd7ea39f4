------------------------------ MODULE MemoryProofs ------------------------------
(***************************************************************************)
(* Proofs about Memory, for any turns, any bodies and limits and any       *)
(* overlap of the turns with each other's reflections and lifecycle tasks. *)
(*                                                                         *)
(* Everything rests on how a row may change: RowsEvolve goes through the   *)
(* statements once and says that a row keeps its kind and its expiry, and  *)
(* that its retirement is final.  What a statement once found can then be  *)
(* compared with the table as it is now: MemoryInv keeps, for each turn,   *)
(* what it was shown and what it must not be.                              *)
(***************************************************************************)
EXTENDS Memory, TLAPS, FiniteSetTheorems

TypeOK ==
  /\ today \in Nat
  /\ memories \in Seq(Memory)
  /\ Len(memories) <= MaxMemories
  /\ lastReflection \in Nat \cup {Never}
  /\ turn \in [Turns -> Turn]
  /\ access \in [Turns -> SUBSET Ids]
  /\ upkeep \in [Turns -> {"none", "retire", "decay", "boost"}]

\* The ids a turn has in its context.
Shown(t) == Told(t) \cup turn[t].index

\* What was retired before the turn began is retired now, and not shown.
GoneFits(t) ==
  /\ turn[t].gone \subseteq DOMAIN memories \ UnretiredRows
  /\ turn[t].gone \cap Shown(t) = {}

\* The user has no more pinned memories than the index has lines.
PinnedFitIndex ==
  /\ Cardinality(PinnedRows) <= MaxIndexEntries
  /\ Cardinality(PinnedRows) <= IndexLimit

\* A pinned row from before the turn that is visible was so when the statements
\* of the turn were answered.
PinnedFits(t) ==
  \A i \in 1 .. turn[t].before :
    Pinned(memories[i].kind) /\ Visible(memories[i]) /\ turn[t].failed = {} =>
      /\ "pinned" \notin turn[t].asking => i \in turn[t].pinned
      /\ "index" \notin turn[t].asking /\ PinnedFitIndex => i \in turn[t].index

TurnFits(t) ==
  /\ turn[t].before <= Len(memories)
  /\ GoneFits(t)
  /\ turn[t].pc = "begun" => PinnedFits(t)

MemoryInv == TypeOK /\ \A t \in Turns : TurnFits(t)

--------------------------------------------------------------------------------
(* How a row may change *)

\* n is what became of the row m: the kind and the expiry of a memory are never
\* updated, a retirement is final, and the lifecycle retires only what is
\* neither pinned nor recalled.
Evolves(m, n) ==
  /\ n.kind = m.kind
  /\ n.expires = m.expires
  /\ ~Unretired(m) => n.retired = m.retired
  /\ Unretired(m) /\ n.retired = "stale" => ~Pinned(m.kind) /\ m.count = 0

\* Each statement writes a row of the table, and one that evolves from the old.
LEMMA UpdatesEvolve ==
  ASSUME NEW m \in Memory, today \in Nat
  PROVE  /\ Accessed(m) \in Memory /\ Evolves(m, Accessed(m))
         /\ Retired(m) \in Memory /\ (Stale(m) => Evolves(m, Retired(m)))
         /\ Decayed(m) \in Memory /\ Evolves(m, Decayed(m))
         /\ Boosted(m) \in Memory /\ Evolves(m, Boosted(m))
<1> USE MemoryAssumption
<1> DEFINE R == [kind : Kinds, body : Bodies, created : Nat, expires : Nat,
                 retired : Reason, count : 0 .. BoostMinAccesses,
                 accessed : Nat \cup {Never}, importance : 0 .. Highest]
<1>1. m \in R /\ Valid(m.kind, m.body)
  BY DEF Memory
<1>2. ASSUME NEW n \in R, n.kind = m.kind, n.body = m.body PROVE n \in Memory
  BY <1>1, <1>2 DEF Memory
<1>3. Accessed(m) \in R
  <2> DEFINE c == IF m.count < BoostMinAccesses THEN m.count + 1 ELSE m.count
  <2>1. c \in 0 .. BoostMinAccesses
    BY <1>1
  <2>2. Accessed(m) = [m EXCEPT !.count = c, !.accessed = today]
    BY <1>1 DEF Accessed
  <2> HIDE DEF c
  <2> QED
    BY <1>1, <2>1, <2>2
<1>4. Retired(m) \in R
  BY <1>1 DEF Retired, Reason
<1>5. Decayed(m) \in R
  BY <1>1 DEF Decayed
<1>6. Boosted(m) \in R
  BY <1>1 DEF Boosted
<1>7. \A n \in {Accessed(m), Retired(m), Decayed(m), Boosted(m)} :
        n.kind = m.kind /\ n.body = m.body /\ n.expires = m.expires
  BY <1>1 DEF Accessed, Retired, Decayed, Boosted
<1>8. \A n \in {Accessed(m), Decayed(m), Boosted(m)} : n.retired = m.retired
  BY <1>1 DEF Accessed, Decayed, Boosted
<1>9. Retired(m).retired = "stale"
  BY <1>1 DEF Retired
<1> HIDE DEF R
<1>10. {Accessed(m), Retired(m), Decayed(m), Boosted(m)} \subseteq Memory
  BY <1>2, <1>3, <1>4, <1>5, <1>6, <1>7
<1> QED
  BY <1>7, <1>8, <1>9, <1>10 DEF Evolves, Unretired, Stale

\* What memory_write inserts fits the table.
LEMMA RowIsMemory ==
  ASSUME today \in Nat, NEW kind \in Kinds, NEW body \in Bodies, NEW ttl \in Nat,
         Valid(kind, body)
  PROVE  Row(kind, body, ttl) \in Memory
<1>1. Highest \div 2 \in 0 .. Highest
  BY MemoryAssumption
<1> QED
  BY <1>1, MemoryAssumption DEF Row, Memory, Reason

\* An UPDATE keeps the table a table.
LEMMA UpdatedTable ==
  ASSUME NEW s \in Seq(Memory), NEW f \in [DOMAIN s -> Memory]
  PROVE  /\ f \in Seq(Memory) /\ Len(f) = Len(s)
         /\ DOMAIN s = 1 .. Len(s)
<1>1. DOMAIN s = 1 .. Len(s) /\ Len(s) \in Nat
  OBVIOUS
<1> QED
  BY <1>1

\* The table after a step, compared with the table before it.
TableEvolves ==
  /\ memories' \in Seq(Memory)
  /\ Len(memories) <= Len(memories') /\ Len(memories') <= MaxMemories
  /\ \A i \in DOMAIN memories : Evolves(memories[i], memories'[i])

LEMMA TableStays ==
  ASSUME TypeOK, UNCHANGED memories
  PROVE  TableEvolves
<1>1. \A i \in DOMAIN memories : memories[i] \in Memory
  BY DEF TypeOK
<1>2. \A m \in Memory : Evolves(m, m) \/ (Unretired(m) /\ m.retired = "stale")
  BY DEF Evolves
<1> QED
  BY <1>1, <1>2 DEF TypeOK, TableEvolves, Unretired

\* A statement that updates each row on its own.
LEMMA TableUpdated ==
  ASSUME TypeOK, NEW f \in [DOMAIN memories -> Memory], memories' \in {memories, f},
         \A i \in DOMAIN memories : f[i] = memories[i] \/ Evolves(memories[i], f[i])
  PROVE  TableEvolves
<1>1. CASE memories' = memories
  BY <1>1, TableStays
<1>2. CASE memories' = f
  <2>1. memories' \in Seq(Memory) /\ Len(memories') = Len(memories)
    BY <1>2, UpdatedTable DEF TypeOK
  <2>2. \A i \in DOMAIN memories : Evolves(memories[i], memories[i])
    BY DEF Evolves, Unretired
  <2> QED
    BY <1>2, <2>1, <2>2 DEF TypeOK, TableEvolves
<1> QED
  BY <1>1, <1>2

\* RowsEvolve: every statement of every turn, reflection and lifecycle task.
LEMMA RowsEvolve ==
  ASSUME TypeOK, [Next]_vars
  PROVE  TableEvolves /\ today' \in Nat /\ today <= today'
<1> USE DEF TypeOK, table
<1>1. today' \in Nat /\ today <= today'
  <2>1. CASE Tick
    BY <2>1 DEF Tick
  <2>2. ASSUME NEW t \in Turns, Step(t) PROVE today' = today
    BY <2>2
       DEF Step, Begin, RecallPinned, RecallConditional, ListIndex, IndexFails,
           RecallFails, RecordAccess, Write, Search, Forget, End, Abort, EndReflection,
           RetireStale, Decay, Boost, Update
  <2> QED
    BY <2>1, <2>2 DEF Next, vars
<1>2. \A i \in DOMAIN memories : memories[i] \in Memory
  OBVIOUS
<1>3. ASSUME NEW t \in Turns, RecordAccess(t) PROVE TableEvolves
  <2> DEFINE f == [i \in DOMAIN memories |->
                     IF i \in access[t] THEN Accessed(memories[i]) ELSE memories[i]]
  <2>1. memories' \in {memories, f}
    BY <1>3 DEF RecordAccess
  <2>2. f \in [DOMAIN memories -> Memory]
    BY <1>2, UpdatesEvolve
  <2>3. \A i \in DOMAIN memories : f[i] = memories[i] \/ Evolves(memories[i], f[i])
    BY <1>2, UpdatesEvolve
  <2> QED
    BY <2>1, <2>2, <2>3, TableUpdated
<1>4. ASSUME NEW t \in Turns, RetireStale(t) PROVE TableEvolves
  <2> DEFINE f == [i \in DOMAIN memories |->
                     IF Stale(memories[i]) THEN Retired(memories[i]) ELSE memories[i]]
  <2>1. memories' \in {memories, f}
    BY <1>4 DEF RetireStale, Update
  <2>2. f \in [DOMAIN memories -> Memory]
    BY <1>2, UpdatesEvolve
  <2>3. \A i \in DOMAIN memories : f[i] = memories[i] \/ Evolves(memories[i], f[i])
    BY <1>2, UpdatesEvolve
  <2> QED
    BY <2>1, <2>2, <2>3, TableUpdated
<1>5. ASSUME NEW t \in Turns, Decay(t) PROVE TableEvolves
  <2> DEFINE f == [i \in DOMAIN memories |->
                     IF Untouched(memories[i]) THEN Decayed(memories[i]) ELSE memories[i]]
  <2>1. memories' \in {memories, f}
    BY <1>5 DEF Decay, Update
  <2>2. f \in [DOMAIN memories -> Memory]
    BY <1>2, UpdatesEvolve
  <2>3. \A i \in DOMAIN memories : f[i] = memories[i] \/ Evolves(memories[i], f[i])
    BY <1>2, UpdatesEvolve
  <2> QED
    BY <2>1, <2>2, <2>3, TableUpdated
<1>6. ASSUME NEW t \in Turns, Boost(t) PROVE TableEvolves
  <2> DEFINE f == [i \in DOMAIN memories |->
                     IF Hot(memories[i]) THEN Boosted(memories[i]) ELSE memories[i]]
  <2>1. memories' \in {memories, f}
    BY <1>6 DEF Boost, Update
  <2>2. f \in [DOMAIN memories -> Memory]
    BY <1>2, UpdatesEvolve
  <2>3. \A i \in DOMAIN memories : f[i] = memories[i] \/ Evolves(memories[i], f[i])
    BY <1>2, UpdatesEvolve
  <2> QED
    BY <2>1, <2>2, <2>3, TableUpdated
<1>7. ASSUME NEW t \in Turns, Forget(t) PROVE TableEvolves
  <2>1. PICK i \in Told(t) : Retire(i)
    BY <1>7 DEF Forget
  <2> DEFINE f == [memories EXCEPT ![i].retired = "agent_deleted"]
  <2>2. f \in [DOMAIN memories -> Memory]
    BY <1>2 DEF Memory, Reason
  <2>3. ASSUME NEW j \in DOMAIN memories, f[j] # memories[j]
        PROVE  Evolves(memories[j], f[j])
    <3>1. j = i /\ f[j] = [memories[j] EXCEPT !.retired = "agent_deleted"]
      BY <2>3
    <3>2. Unretired(memories[j])
      BY <2>1, <3>1 DEF Retire
    <3> QED
      BY <1>2, <3>1, <3>2 DEF Memory, Evolves
  <2>4. memories' \in {memories, f}
    BY <2>1 DEF Retire
  <2> HIDE DEF f
  <2> QED
    BY <2>2, <2>3, <2>4, TableUpdated
<1>8. ASSUME NEW t \in Turns, Write(t) PROVE TableEvolves
  <2>1. PICK kind \in Kinds, body \in Bodies : \E ttl \in Ttls[body] :
          /\ Valid(kind, body)
          /\ \/ UNCHANGED memories
             \/ /\ Len(memories) < MaxMemories
                /\ memories' = Append(memories, Row(kind, body, ttl))
    BY <1>8 DEF Write
  <2>2. CASE UNCHANGED memories
    BY <2>2, TableStays
  <2>3. CASE ~ UNCHANGED memories
    <3>1. PICK ttl \in Ttls[body] :
            /\ Valid(kind, body)
            /\ Len(memories) < MaxMemories
            /\ memories' = Append(memories, Row(kind, body, ttl))
      BY <2>1, <2>3
    <3>2. ttl \in Nat
      BY MemoryAssumption
    <3>3. Row(kind, body, ttl) \in Memory
      BY <3>1, <3>2, RowIsMemory
    <3>4. /\ memories' \in Seq(Memory)
          /\ Len(memories') = Len(memories) + 1
          /\ \A i \in DOMAIN memories : memories'[i] = memories[i]
      BY <3>1, <3>3
    <3>5. \A i \in DOMAIN memories : Evolves(memories[i], memories[i])
      BY DEF Evolves, Unretired
    <3>6. Len(memories) \in Nat /\ MaxMemories \in Nat
      BY MemoryAssumption
    <3> QED
      BY <3>1, <3>4, <3>5, <3>6 DEF TableEvolves
  <2> QED
    BY <2>2, <2>3
<1>9. CASE \/ Tick \/ UNCHANGED vars
           \/ \E t \in Turns : \/ Begin(t) \/ RecallPinned(t) \/ RecallConditional(t)
                               \/ ListIndex(t) \/ IndexFails(t)
                               \/ \E s \in {"pinned", "conditional"} : RecallFails(t, s)
                               \/ Search(t) \/ End(t) \/ Abort(t) \/ EndReflection(t)
  <2>1. UNCHANGED memories
    BY <1>9 DEF Tick, Begin, RecallPinned, RecallConditional, ListIndex, IndexFails,
                RecallFails, Search, End, Abort, EndReflection, vars
  <2> QED
    BY <1>1, <2>1, TableStays
<1> QED
  BY <1>1, <1>3, <1>4, <1>5, <1>6, <1>7, <1>8, <1>9 DEF Next, Step

\* A row that a later state shows was there to be shown before.
LEMMA VisibleBefore ==
  ASSUME TypeOK, TableEvolves, today' \in Nat, today <= today'
  PROVE  \A i \in DOMAIN memories :
           /\ Pinned(memories'[i].kind) => Pinned(memories[i].kind)
           /\ Visible(memories[i])' => Visible(memories[i])
           /\ ~Unretired(memories[i]) => ~Unretired(memories'[i])
<1> SUFFICES ASSUME NEW i \in DOMAIN memories
             PROVE  /\ Pinned(memories'[i].kind) => Pinned(memories[i].kind)
                    /\ Visible(memories[i])' => Visible(memories[i])
                    /\ ~Unretired(memories[i]) => ~Unretired(memories'[i])
  OBVIOUS
<1>1. Evolves(memories[i], memories'[i])
  BY DEF TableEvolves
<1>2. memories[i] \in Memory
  BY DEF TypeOK
<1>3. memories[i].expires \in Nat
  BY <1>2 DEF Memory
<1> QED
  BY <1>1, <1>3 DEF TypeOK, Evolves, Visible, Unretired, Expired

--------------------------------------------------------------------------------
(* What the index lists *)

LEMMA RowsAreFinite ==
  ASSUME TypeOK
  PROVE  /\ DOMAIN memories = 1 .. Len(memories)
         /\ IsFiniteSet(DOMAIN memories)
         /\ IsFiniteSet(PinnedRows) /\ Cardinality(PinnedRows) \in Nat
<1>1. DOMAIN memories = 1 .. Len(memories) /\ Len(memories) \in Nat
  BY DEF TypeOK
<1>2. IsFiniteSet(DOMAIN memories)
  BY <1>1, FS_Interval
<1>3. PinnedRows \in SUBSET DOMAIN memories
  BY DEF PinnedRows
<1>4. IsFiniteSet(PinnedRows)
  BY <1>2, <1>3, FS_Subset
<1> QED
  BY <1>1, <1>2, <1>4, FS_CardinalityType

\* Fewer rows than there are pinned memories come before a pinned one in the
\* order of memory_list_index: all of those are pinned too.
LEMMA FewPrecede ==
  ASSUME TypeOK, NEW i \in PinnedRows, NEW rows \in SUBSET DOMAIN memories
  PROVE  LET before == {j \in rows : ByKind(j, i)}
         IN  Cardinality(before) < Cardinality(PinnedRows)
<1> DEFINE before == {j \in rows : ByKind(j, i)}
<1>1. \A j \in DOMAIN memories : memories[j].importance \in Int /\ j \in Int
  <2>1. ASSUME NEW m \in Memory PROVE m.importance \in Int
    BY MemoryAssumption DEF Memory
  <2> QED
    BY <2>1 DEF TypeOK
<1>2. i \in DOMAIN memories /\ Pinned(memories[i].kind)
  BY DEF PinnedRows
<1>3. \A k : Pinned(k) <=> KindRank(k) \in {0, 1}
  BY DEF Pinned, KindRank
<1>4. \A k : KindRank(k) \in {0, 1, 2}
  BY DEF KindRank
<1>5. ASSUME NEW j \in rows, ByKind(j, i) PROVE j \in PinnedRows \ {i}
  <2>1. KindRank(memories[j].kind) <= KindRank(memories[i].kind)
    BY <1>4, <1>5 DEF ByKind
  <2>2. Pinned(memories[j].kind)
    BY <1>2, <1>3, <1>4, <2>1
  <2>3. j # i
    BY <1>1, <1>2, <1>4, <1>5 DEF ByKind, ByImportance
  <2> QED
    BY <2>2, <2>3 DEF PinnedRows
<1>6. before \in SUBSET (PinnedRows \ {i})
  BY <1>5
<1>7. /\ IsFiniteSet(PinnedRows \ {i})
      /\ Cardinality(PinnedRows \ {i}) = Cardinality(PinnedRows) - 1
  BY RowsAreFinite, FS_RemoveElement
<1>8. IsFiniteSet(before) /\ Cardinality(before) <= Cardinality(PinnedRows \ {i})
  BY <1>6, <1>7, FS_Subset
<1>9. Cardinality(before) \in Nat
  BY <1>8, FS_CardinalityType
<1> QED
  BY <1>7, <1>8, <1>9, RowsAreFinite

\* As long as the pinned memories fit it, the index lists all that are visible.
LEMMA PinnedIsListed ==
  ASSUME TypeOK, PinnedFitIndex, NEW i \in VisiblePinned
  PROVE  i \in Listed
<1>1. i \in VisibleRows /\ i \in PinnedRows
  BY DEF VisiblePinned
<1>2. VisibleRows \in SUBSET DOMAIN memories /\ IndexRows \in SUBSET DOMAIN memories
  BY DEF VisibleRows, IndexRows, First
<1>3. i \in IndexRows
  <2> DEFINE before == {j \in VisibleRows : ByKind(j, i)}
  <2>1. Cardinality(before) < Cardinality(PinnedRows)
    BY <1>1, <1>2, FewPrecede
  <2>2. Cardinality(before) \in Nat
    <3>1. before \in SUBSET DOMAIN memories
      BY <1>2
    <3> QED
      BY <3>1, RowsAreFinite, FS_Subset, FS_CardinalityType
  <2>3. Cardinality(before) < IndexLimit
    BY <2>1, <2>2, RowsAreFinite, MemoryAssumption DEF PinnedFitIndex
  <2> QED
    BY <1>1, <2>3 DEF IndexRows, First
<1>4. i \in Listed
  <2> DEFINE before == {j \in IndexRows : ByKind(j, i)}
  <2>1. Cardinality(before) < Cardinality(PinnedRows)
    BY <1>1, <1>2, FewPrecede
  <2>2. Cardinality(before) \in Nat
    <3>1. before \in SUBSET DOMAIN memories
      BY <1>2
    <3> QED
      BY <3>1, RowsAreFinite, FS_Subset, FS_CardinalityType
  <2>3. Cardinality(before) < MaxIndexEntries
    BY <2>1, <2>2, RowsAreFinite, MemoryAssumption DEF PinnedFitIndex
  <2> QED
    BY <1>3, <2>3 DEF Listed, First
<1> QED
  BY <1>4

\* A later table has no fewer pinned memories.
LEMMA PinnedFitBefore ==
  ASSUME TypeOK, TypeOK', TableEvolves, PinnedFitIndex'
  PROVE  PinnedFitIndex
<1>1. DOMAIN memories \subseteq DOMAIN memories'
  BY DEF TypeOK, TableEvolves
<1>2. PinnedRows \in SUBSET (PinnedRows')
  BY <1>1 DEF PinnedRows, TableEvolves, Evolves
<1>3. IsFiniteSet(PinnedRows') /\ Cardinality(PinnedRows') \in Nat
  <2>1. DOMAIN memories' = 1 .. Len(memories') /\ Len(memories') \in Nat
    BY DEF TypeOK
  <2>2. IsFiniteSet(DOMAIN memories')
    BY <2>1, FS_Interval
  <2>3. PinnedRows' \in SUBSET DOMAIN memories'
    BY DEF PinnedRows
  <2> QED
    BY <2>2, <2>3, FS_Subset, FS_CardinalityType
<1>4. Cardinality(PinnedRows) <= Cardinality(PinnedRows')
  BY <1>2, <1>3, FS_Subset
<1> QED
  BY <1>3, <1>4, RowsAreFinite, MemoryAssumption DEF PinnedFitIndex

--------------------------------------------------------------------------------
(* What a turn holds *)

\* The rows statements answer with are ids of the table.
LEMMA AnswersAreIds ==
  ASSUME TypeOK
  PROVE  /\ DOMAIN memories \subseteq Ids
         /\ VisiblePinned \subseteq UnretiredRows
         /\ UnretiredRows \subseteq DOMAIN memories
         /\ Listed \subseteq UnretiredRows
         /\ \A rows \in Recalls : rows \subseteq UnretiredRows
         /\ \A rows \in Searches : rows \subseteq UnretiredRows
<1>1. DOMAIN memories \subseteq Ids
  BY MemoryAssumption DEF TypeOK, Ids
<1>2. VisibleRows \subseteq UnretiredRows /\ UnretiredRows \subseteq DOMAIN memories
  BY DEF VisibleRows, UnretiredRows, Visible
<1> QED
  BY <1>1, <1>2 DEF VisiblePinned, VisibleUnpinned, Recalls, Recent, Listed, IndexRows,
                    First, Searches

LEMMA EmptyTurns ==
  /\ NoTurn \in Turn /\ NoTurn.gone = {} /\ NoTurn.pinned = {} /\ NoTurn.told = {}
  /\ NoTurn.index = {} /\ NoTurn.before = 0 /\ NoTurn.pc = "idle" /\ NoTurn.failed = {}
  /\ Ended \in Turn /\ Ended.gone = {} /\ Ended.before = 0 /\ Ended.pc = "ended"
<1>1. 0 \in 0 .. MaxMemories /\ Never \in Nat \cup {Never} /\ FALSE \in BOOLEAN
  BY MemoryAssumption
<1>2. NoTurn \in Turn
  BY <1>1 DEF NoTurn, Turn
<1>3. NoTurn = [pc |-> "idle", loaded |-> Never, asking |-> {}, failed |-> {},
                pinned |-> {}, index |-> {}, told |-> {}, wrote |-> FALSE,
                before |-> 0, gone |-> {}]
  BY DEF NoTurn
<1>4. Ended \in Turn /\ Ended.gone = {} /\ Ended.before = 0 /\ Ended.pc = "ended"
  BY <1>2, <1>3 DEF Ended, Turn
<1> QED
  BY <1>2, <1>3, <1>4

\* A step adds no row to the context of turn t that was retired when the turn
\* began, and what the turn asked for is answered in full.
Holds(t) ==
  /\ turn'[t].gone \subseteq turn[t].gone
  /\ turn'[t].before \in {0, turn[t].before}
  /\ \A i \in turn'[t].pinned \cup turn'[t].told \cup turn'[t].index :
       i \in Shown(t) \/ i \notin DOMAIN memories \ UnretiredRows
  /\ turn'[t].pc = "begun" /\ turn'[t].failed = {} =>
       /\ turn[t].pc = "begun" /\ turn[t].failed = {}
       /\ "pinned" \notin turn'[t].asking =>
            \/ "pinned" \notin turn[t].asking /\ turn[t].pinned \subseteq turn'[t].pinned
            \/ VisiblePinned \subseteq turn'[t].pinned
       /\ "index" \notin turn'[t].asking =>
            \/ "index" \notin turn[t].asking /\ turn[t].index \subseteq turn'[t].index
            \/ Listed \subseteq turn'[t].index

LEMMA HeldFits ==
  ASSUME TypeOK, TypeOK', TableEvolves, today <= today', NEW t \in Turns,
         TurnFits(t), Holds(t)
  PROVE  TurnFits(t)'
<1>1. /\ DOMAIN memories = 1 .. Len(memories) /\ Len(memories) \in Nat
      /\ DOMAIN memories' = 1 .. Len(memories') /\ Len(memories') \in Nat
      /\ Len(memories) <= Len(memories')
      /\ turn[t].before \in Nat
  BY MemoryAssumption DEF TypeOK, TableEvolves, Turn
<1>2. turn'[t].before <= Len(memories')
  BY <1>1 DEF TurnFits, Holds
<1>3. GoneFits(t)'
  <2>1. ASSUME NEW i \in turn'[t].gone
        PROVE  /\ i \in DOMAIN memories' \ UnretiredRows'
               /\ i \notin Shown(t)'
    <3>1. i \in DOMAIN memories \ UnretiredRows /\ i \notin Shown(t)
      BY DEF TurnFits, GoneFits, Holds
    <3>2. ~Unretired(memories'[i])
      BY <3>1, VisibleBefore DEF TypeOK, UnretiredRows
    <3>3. i \notin Shown(t)'
      BY <3>1 DEF Holds, Shown, Told
    <3> QED
      BY <1>1, <3>1, <3>2, <3>3 DEF UnretiredRows
  <2> QED
    BY <2>1 DEF GoneFits, Holds
<1>4. ASSUME turn'[t].pc = "begun" PROVE PinnedFits(t)'
  <2> SUFFICES ASSUME NEW i \in 1 .. turn'[t].before,
                      Pinned(memories'[i].kind), Visible(memories[i])',
                      turn'[t].failed = {}
               PROVE  /\ "pinned" \notin turn'[t].asking => i \in turn'[t].pinned
                      /\ "index" \notin turn'[t].asking /\ PinnedFitIndex'
                           => i \in turn'[t].index
    BY DEF PinnedFits
  <2>1. i \in 1 .. turn[t].before /\ i \in DOMAIN memories
    BY <1>1 DEF Holds, TurnFits
  <2>2. Pinned(memories[i].kind) /\ Visible(memories[i])
    BY <2>1, VisibleBefore DEF TypeOK
  <2>3. i \in VisiblePinned
    BY <2>1, <2>2 DEF VisiblePinned, VisibleRows, PinnedRows
  <2>4. /\ turn[t].failed = {}
        /\ "pinned" \notin turn[t].asking => i \in turn[t].pinned
        /\ "index" \notin turn[t].asking /\ PinnedFitIndex => i \in turn[t].index
    BY <1>4, <2>1, <2>2 DEF Holds, TurnFits, PinnedFits
  <2>5. "pinned" \notin turn'[t].asking => i \in turn'[t].pinned
    BY <1>4, <2>3, <2>4 DEF Holds
  <2>6. ASSUME "index" \notin turn'[t].asking, PinnedFitIndex'
        PROVE  i \in turn'[t].index
    <3>1. PinnedFitIndex
      BY <2>6, PinnedFitBefore
    <3>2. i \in Listed
      BY <2>3, <3>1, PinnedIsListed
    <3> QED
      BY <1>4, <2>4, <2>6, <3>1, <3>2 DEF Holds
  <2> QED
    BY <2>5, <2>6
<1> QED
  BY <1>2, <1>3, <1>4 DEF TurnFits

\* The other turns hold what they held, whatever became of the table.
LEMMA OthersHold ==
  ASSUME NEW t \in Turns, turn'[t] = turn[t]
  PROVE  Holds(t)
BY DEF Holds, Shown, Told

--------------------------------------------------------------------------------
(* The steps of a turn *)

\* The other variables of a turn are typed, and its steps are its own.
TurnMoves(t, v) == v \in Turn /\ turn' = [turn EXCEPT ![t] = v]

LEMMA MovedTurn ==
  ASSUME TypeOK, NEW t \in Turns, NEW v, TurnMoves(t, v)
  PROVE  /\ turn' \in [Turns -> Turn]
         /\ turn'[t] = v
         /\ \A u \in Turns \ {t} : turn'[u] = turn[u]
BY DEF TypeOK, TurnMoves

\* prepare_turn: what the statements answer, and when they fail.
LEMMA AskingHolds ==
  ASSUME TypeOK, NEW t \in Turns,
         \/ RecallPinned(t) \/ RecallConditional(t) \/ ListIndex(t) \/ IndexFails(t)
         \/ \E s \in {"pinned", "conditional"} : RecallFails(t, s)
  PROVE  Holds(t) /\ \E v : TurnMoves(t, v)
<1> USE DEF Asks, Answered
<1> DEFINE w == turn[t]
<1>1. w \in Turn
  BY DEF TypeOK
<1>2. "pinned" \in Statements /\ "index" \in Statements /\ "conditional" \in Statements
  BY DEF Statements
<1>3. \A rows \in SUBSET UnretiredRows : rows \subseteq Ids /\ rows \subseteq DOMAIN memories
  BY AnswersAreIds
<1>4. CASE RecallPinned(t)
  <2> DEFINE v == [w EXCEPT !.pinned = VisiblePinned, !.asking = w.asking \ {"pinned"}]
  <2>1. w.pc = "begun" /\ turn' = [turn EXCEPT ![t] = v]
    BY <1>4 DEF RecallPinned
  <2>2. v \in Turn
    BY <1>1, <1>3, AnswersAreIds DEF Turn
  <2>3. /\ v.gone = w.gone /\ v.before = w.before /\ v.told = w.told /\ v.index = w.index
        /\ v.pinned = VisiblePinned /\ v.failed = w.failed
        /\ v.asking = w.asking \ {"pinned"}
    BY <1>1 DEF Turn
  <2> HIDE DEF v
  <2>4. TurnMoves(t, v) /\ turn'[t] = v
    BY <2>1, <2>2, MovedTurn DEF TurnMoves
  <2> QED
    BY <2>1, <2>3, <2>4, AnswersAreIds DEF Holds, Shown, Told
<1>5. CASE RecallConditional(t)
  <2>1. PICK rows \in Recalls :
          turn' = [turn EXCEPT ![t].told = rows,
                               ![t].asking = w.asking \ {"conditional"}]
    BY <1>5 DEF RecallConditional
  <2> DEFINE v == [w EXCEPT !.told = rows, !.asking = w.asking \ {"conditional"}]
  <2>2. w.pc = "begun" /\ turn' = [turn EXCEPT ![t] = v]
    BY <1>5, <2>1 DEF RecallConditional
  <2>3. rows \subseteq UnretiredRows
    BY AnswersAreIds
  <2>4. v \in Turn
    BY <1>1, <1>3, <2>3 DEF Turn
  <2>5. /\ v.gone = w.gone /\ v.before = w.before /\ v.told = rows /\ v.index = w.index
        /\ v.pinned = w.pinned /\ v.failed = w.failed
        /\ v.asking = w.asking \ {"conditional"}
    BY <1>1 DEF Turn
  <2> HIDE DEF v
  <2>6. TurnMoves(t, v) /\ turn'[t] = v
    BY <2>2, <2>4, MovedTurn DEF TurnMoves
  <2> QED
    BY <2>2, <2>3, <2>5, <2>6, AnswersAreIds DEF Holds, Shown, Told
<1>6. CASE ListIndex(t)
  <2> DEFINE v == [w EXCEPT !.index = Listed, !.asking = w.asking \ {"index"}]
  <2>1. w.pc = "begun" /\ turn' = [turn EXCEPT ![t] = v]
    BY <1>6 DEF ListIndex
  <2>2. v \in Turn
    BY <1>1, <1>3, AnswersAreIds DEF Turn
  <2>3. /\ v.gone = w.gone /\ v.before = w.before /\ v.told = w.told /\ v.index = Listed
        /\ v.pinned = w.pinned /\ v.failed = w.failed
        /\ v.asking = w.asking \ {"index"}
    BY <1>1 DEF Turn
  <2> HIDE DEF v
  <2>4. TurnMoves(t, v) /\ turn'[t] = v
    BY <2>1, <2>2, MovedTurn DEF TurnMoves
  <2> QED
    BY <2>1, <2>3, <2>4, AnswersAreIds DEF Holds, Shown, Told
<1>7. CASE IndexFails(t)
  <2> DEFINE v == [w EXCEPT !.failed = w.failed \cup {"index"},
                            !.asking = w.asking \ {"index"}]
  <2>1. turn' = [turn EXCEPT ![t] = v]
    BY <1>7 DEF IndexFails
  <2>2. v \in Turn
    BY <1>1, <1>2 DEF Turn
  <2>3. /\ v.gone = w.gone /\ v.before = w.before /\ v.told = w.told /\ v.index = w.index
        /\ v.pinned = w.pinned /\ v.failed # {}
    BY <1>1 DEF Turn
  <2> HIDE DEF v
  <2>4. TurnMoves(t, v) /\ turn'[t] = v
    BY <2>1, <2>2, MovedTurn DEF TurnMoves
  <2> QED
    BY <2>3, <2>4 DEF Holds, Shown, Told
<1>8. ASSUME NEW s \in {"pinned", "conditional"}, RecallFails(t, s)
      PROVE  Holds(t) /\ \E v : TurnMoves(t, v)
  <2> DEFINE v == [w EXCEPT !.failed = w.failed \cup {s}, !.pinned = {}, !.told = {},
                            !.asking = w.asking \cap {"index"}]
  <2>1. turn' = [turn EXCEPT ![t] = v]
    BY <1>8 DEF RecallFails
  <2>2. v \in Turn
    BY <1>1, <1>2 DEF Turn
  <2>3. /\ v.gone = w.gone /\ v.before = w.before /\ v.told = {} /\ v.index = w.index
        /\ v.pinned = {} /\ v.failed # {}
    BY <1>1 DEF Turn
  <2> HIDE DEF v
  <2>4. TurnMoves(t, v) /\ turn'[t] = v
    BY <2>1, <2>2, MovedTurn DEF TurnMoves
  <2> QED
    BY <2>3, <2>4 DEF Holds, Shown, Told
<1> QED
  BY <1>4, <1>5, <1>6, <1>7, <1>8

\* The tools: a search finds nothing retired, and what the turn writes is new.
LEMMA ToolsHold ==
  ASSUME TypeOK, NEW t \in Turns, Write(t) \/ Search(t)
  PROVE  Holds(t) /\ \E v : TurnMoves(t, v)
<1> DEFINE w == turn[t]
<1>1. w \in Turn
  BY DEF TypeOK
<1>2. PICK rows \in SUBSET Ids, wrote \in BOOLEAN :
        /\ turn' = [turn EXCEPT ![t] = [w EXCEPT !.wrote = wrote, !.told = w.told \cup rows]]
        /\ \A i \in rows : i \notin DOMAIN memories \ UnretiredRows
  <2>1. CASE Search(t)
    <3>1. PICK rows \in Searches : turn' = [turn EXCEPT ![t].told = @ \cup rows]
      BY <2>1 DEF Search
    <3>2. rows \subseteq Ids /\ rows \subseteq UnretiredRows
      BY AnswersAreIds
    <3>3. [w EXCEPT !.told = w.told \cup rows]
            = [w EXCEPT !.wrote = w.wrote, !.told = w.told \cup rows]
      BY <1>1 DEF Turn
    <3>4. w.wrote \in BOOLEAN
      BY <1>1 DEF Turn
    <3> QED
      BY <3>1, <3>2, <3>3, <3>4
  <2>2. CASE Write(t)
    <3>1. PICK written :
            /\ \/ written = {}
               \/ Len(memories) < MaxMemories /\ written = {Len(memories) + 1}
            /\ RecordMemoryWrite(t, written)
      <4>1. \/ RecordMemoryWrite(t, {})
            \/ /\ Len(memories) < MaxMemories
               /\ RecordMemoryWrite(t, {Len(memories) + 1})
        BY <2>2 DEF Write
      <4> QED
        BY <4>1
    <3>2. DOMAIN memories = 1 .. Len(memories) /\ Len(memories) \in Nat
      BY DEF TypeOK
    <3>3. written \subseteq Ids /\ \A i \in written : i \notin DOMAIN memories
      BY <3>1, <3>2, MemoryAssumption DEF Ids
    <3> QED
      BY <3>1, <3>3 DEF RecordMemoryWrite
  <2> QED
    BY <2>1, <2>2
<1> DEFINE v == [w EXCEPT !.wrote = wrote, !.told = w.told \cup rows]
<1>3. v \in Turn
  BY <1>1 DEF Turn
<1>4. /\ v.gone = w.gone /\ v.before = w.before /\ v.told = w.told \cup rows
      /\ v.index = w.index /\ v.pinned = w.pinned /\ v.failed = w.failed
      /\ v.asking = w.asking /\ v.pc = w.pc
  BY <1>1 DEF Turn
<1>5. turn' = [turn EXCEPT ![t] = v]
  BY <1>2
<1> HIDE DEF v
<1>6. TurnMoves(t, v) /\ turn'[t] = v
  BY <1>3, <1>5, MovedTurn DEF TurnMoves
<1> QED
  BY <1>2, <1>4, <1>6 DEF Holds, Shown, Told

\* A turn that is over holds nothing; its reflection knows what the turn knew.
LEMMA EndingHolds ==
  ASSUME TypeOK, NEW t \in Turns, End(t) \/ Abort(t) \/ EndReflection(t)
  PROVE  Holds(t) /\ \E v : TurnMoves(t, v)
<1>1. turn[t] \in Turn
  BY DEF TypeOK
<1>2. turn' = [turn EXCEPT ![t] = Ended] \/ turn' = [turn EXCEPT ![t] = Reflection(t)]
  BY DEF End, Abort, EndReflection
<1>3. CASE turn' = [turn EXCEPT ![t] = Ended]
  <2>1. TurnMoves(t, Ended) /\ turn'[t] = Ended
    BY <1>3, EmptyTurns, MovedTurn DEF TurnMoves
  <2>2. Ended.pinned = {} /\ Ended.told = {} /\ Ended.index = {}
    BY DEF Ended, NoTurn
  <2> QED
    BY <2>1, <2>2, EmptyTurns DEF Holds
<1>4. CASE turn' = [turn EXCEPT ![t] = Reflection(t)]
  <2>1. Told(t) \subseteq Ids /\ turn[t].gone \subseteq Ids
    BY <1>1 DEF Turn, Told
  <2>2. Reflection(t) \in Turn
    BY <2>1, EmptyTurns DEF Reflection, Turn
  <2>3. /\ Reflection(t).told = Told(t) /\ Reflection(t).gone = turn[t].gone
        /\ Reflection(t).pinned = {} /\ Reflection(t).index = {}
        /\ Reflection(t).before = 0 /\ Reflection(t).pc = "reflecting"
    BY DEF Reflection, NoTurn
  <2>4. TurnMoves(t, Reflection(t)) /\ turn'[t] = Reflection(t)
    BY <1>4, <2>2, MovedTurn DEF TurnMoves
  <2> QED
    BY <2>3, <2>4 DEF Holds, Shown
<1> QED
  BY <1>2, <1>3, <1>4

\* A turn that begins has asked for everything and was shown nothing.
LEMMA BeginFits ==
  ASSUME TypeOK, NEW t \in Turns, Begin(t)
  PROVE  TurnFits(t)' /\ \E v : TurnMoves(t, v)
<1> DEFINE gone == DOMAIN memories \ UnretiredRows
           v == [NoTurn EXCEPT !.pc = "begun", !.loaded = lastReflection,
                               !.asking = Statements, !.before = Len(memories),
                               !.gone = gone]
<1>1. gone \subseteq Ids /\ Len(memories) \in 0 .. MaxMemories
  BY AnswersAreIds, MemoryAssumption DEF TypeOK
<1>2. v \in Turn
  BY <1>1, EmptyTurns DEF Turn, TypeOK
<1>3. /\ v.asking = Statements /\ v.before = Len(memories) /\ v.gone = gone
      /\ v.pinned = {} /\ v.told = {} /\ v.index = {}
  BY DEF NoTurn
<1>4. turn' = [turn EXCEPT ![t] = v] /\ memories' = memories
  BY DEF Begin, table
<1>5. UnretiredRows' = UnretiredRows
  BY <1>4 DEF UnretiredRows
<1> HIDE DEF v
<1>6. TurnMoves(t, v) /\ turn'[t] = v
  BY <1>2, <1>4, MovedTurn DEF TurnMoves
<1>7. "pinned" \in Statements /\ "index" \in Statements
  BY DEF Statements
<1>8. turn'[t].before <= Len(memories')
  BY <1>1, <1>3, <1>4, <1>6
<1>9. GoneFits(t)'
  BY <1>3, <1>4, <1>5, <1>6 DEF GoneFits, Shown, Told
<1>10. PinnedFits(t)'
  BY <1>3, <1>6, <1>7 DEF PinnedFits
<1> QED
  BY <1>6, <1>8, <1>9, <1>10 DEF TurnFits

--------------------------------------------------------------------------------
(* Induction *)

\* The variables beside the table and the turns.
LEMMA TypeStep ==
  ASSUME TypeOK, [Next]_vars
  PROVE  TypeOK'
<1>1. /\ today' \in Nat
      /\ memories' \in Seq(Memory) /\ Len(memories') <= MaxMemories
  BY RowsEvolve DEF TableEvolves
<1>2. turn' \in [Turns -> Turn]
  <2>1. ASSUME NEW t \in Turns, Step(t) PROVE UNCHANGED turn \/ \E v : TurnMoves(t, v)
    BY <2>1, AskingHolds, ToolsHold, EndingHolds, BeginFits
       DEF Step, RecordAccess, Forget, RetireStale, Decay, Boost, Update
  <2> QED
    BY <2>1, MovedTurn DEF Next, Tick, vars, TypeOK
<1>3. access' \in [Turns -> SUBSET Ids]
  <2>1. \A t \in Turns : turn[t].told \subseteq Ids
    BY DEF TypeOK, Turn
  <2>2. \A rows \in Recalls : rows \subseteq Ids
    BY AnswersAreIds
  <2>3. ASSUME NEW t \in Turns, Step(t)
        PROVE  access' = access \/ \E rows \in SUBSET Ids : access' = [access EXCEPT ![t] = rows]
    BY <2>1, <2>2, <2>3
       DEF Step, Begin, RecallPinned, RecallConditional, Recall, ListIndex, IndexFails,
           RecallFails, RecordAccess, Write, Search, Forget, End, Abort, EndReflection,
           RetireStale, Decay, Boost, Update
  <2> QED
    BY <2>3 DEF Next, Tick, vars, TypeOK
<1>4. lastReflection' \in Nat \cup {Never}
  <2>1. ASSUME NEW t \in Turns, Step(t) PROVE lastReflection' \in {lastReflection, today}
    BY <2>1
       DEF Step, Begin, RecallPinned, RecallConditional, ListIndex, IndexFails,
           RecallFails, RecordAccess, Write, Search, Forget, End, Abort, EndReflection,
           RetireStale, Decay, Boost, Update, table
  <2> QED
    BY <2>1 DEF Next, Tick, vars, table, TypeOK
<1>5. upkeep' \in [Turns -> {"none", "retire", "decay", "boost"}]
  <2>1. ASSUME NEW t \in Turns, Step(t)
        PROVE  \/ upkeep' = upkeep
               \/ \E at \in {"none", "retire", "decay", "boost"} :
                    upkeep' = [upkeep EXCEPT ![t] = at]
    BY <2>1
       DEF Step, Begin, RecallPinned, RecallConditional, ListIndex, IndexFails,
           RecallFails, RecordAccess, Write, Search, Forget, End, Abort, EndReflection,
           RetireStale, Decay, Boost, Update
  <2> QED
    BY <2>1 DEF Next, Tick, vars, TypeOK
<1> QED
  BY <1>1, <1>2, <1>3, <1>4, <1>5 DEF TypeOK

LEMMA MemoryStep == MemoryInv /\ [Next]_vars => MemoryInv'
<1> SUFFICES ASSUME MemoryInv, [Next]_vars PROVE MemoryInv'
  OBVIOUS
<1>1. TypeOK /\ TypeOK' /\ TableEvolves /\ today <= today'
  BY TypeStep, RowsEvolve DEF MemoryInv
<1>2. ASSUME NEW u \in Turns PROVE TurnFits(u)'
  <2>1. ASSUME Holds(u) PROVE TurnFits(u)'
    BY <1>1, <2>1, HeldFits DEF MemoryInv
  <2>2. ASSUME turn'[u] = turn[u] PROVE TurnFits(u)'
    BY <2>1, <2>2, OthersHold
  <2>3. ASSUME NEW t \in Turns, Step(t) PROVE TurnFits(u)'
    <3>1. CASE t = u
      <4>1. CASE UNCHANGED turn
        BY <2>2, <4>1
      <4>2. CASE Begin(u)
        BY <1>1, <4>2, BeginFits
      <4>3. CASE ~ (UNCHANGED turn \/ Begin(u))
        BY <1>1, <2>1, <2>3, <3>1, <4>3, AskingHolds, ToolsHold, EndingHolds
           DEF Step, RecordAccess, Forget, RetireStale, Decay, Boost, Update
      <4> QED
        BY <4>1, <4>2, <4>3
    <3>2. CASE t # u
      <4>1. UNCHANGED turn \/ \E v : TurnMoves(t, v)
        BY <1>1, <2>3, AskingHolds, ToolsHold, EndingHolds, BeginFits
           DEF Step, RecordAccess, Forget, RetireStale, Decay, Boost, Update
      <4>2. turn'[u] = turn[u]
        BY <1>1, <3>2, <4>1, MovedTurn
      <4> QED
        BY <2>2, <4>2
    <3> QED
      BY <3>1, <3>2
  <2>4. CASE Tick \/ UNCHANGED vars
    <3>1. turn' = turn
      BY <2>4 DEF Tick, vars
    <3> QED
      BY <2>2, <3>1
  <2> QED
    BY <2>3, <2>4 DEF Next
<1> QED
  BY <1>1, <1>2 DEF MemoryInv

LEMMA MemoryInit == Init => MemoryInv
<1> SUFFICES ASSUME Init PROVE MemoryInv
  OBVIOUS
<1>1. TypeOK
  <2>1. /\ <<>> \in Seq(Memory) /\ Len(<<>>) = 0
        /\ 0 <= MaxMemories
    BY MemoryAssumption
  <2> QED
    BY <2>1, EmptyTurns DEF Init, TypeOK
<1>2. ASSUME NEW t \in Turns PROVE TurnFits(t)
  <2>1. turn[t] = NoTurn /\ Len(memories) = 0
    BY DEF Init
  <2> QED
    BY <2>1, EmptyTurns DEF TurnFits, GoneFits
<1> QED
  BY <1>1, <1>2 DEF MemoryInv

--------------------------------------------------------------------------------
(* Theorems *)

\* MemoryInv is an invariant for any number of turns, however they overlap.
THEOREM MemoryInductive == Spec => []MemoryInv
BY MemoryInit, MemoryStep, PTL DEF Spec

\* A turn has in its context every pinned memory that was there when it began
\* and still is, and in its index too unless there are more than it has lines.
THEOREM PinnedMemoriesAreShown == Spec => []PinnedIsShown
<1>1. MemoryInv => PinnedIsShown
  BY DEF MemoryInv, TurnFits, PinnedFits, PinnedFitIndex, PinnedIsShown, InTurn
<1> QED
  BY <1>1, MemoryInductive, PTL

\* No turn, nor its reflection, is told of a memory that had been retired before
\* the turn began.
THEOREM ForgottenMemoriesStayUntold == Spec => []ForgottenIsNotTold
<1>1. MemoryInv => ForgottenIsNotTold
  BY DEF MemoryInv, TurnFits, GoneFits, Shown, ForgottenIsNotTold
<1> QED
  BY <1>1, MemoryInductive, PTL

\* A retirement is final, its reason included, and the lifecycle retires neither
\* a pinned memory nor one whose recall was recorded.
THEOREM RetirementsStand == Spec => RetirementStands
<1>1. MemoryInv /\ [Next]_vars =>
        [\A i \in DOMAIN memories :
           /\ memories'[i].kind = memories[i].kind
           /\ ~Unretired(memories[i]) => memories'[i].retired = memories[i].retired
           /\ Unretired(memories[i]) /\ memories'[i].retired = "stale"
              => ~Pinned(memories[i].kind) /\ memories[i].count = 0]_vars
  BY RowsEvolve DEF MemoryInv, TableEvolves, Evolves
<1> QED
  BY <1>1, MemoryInductive, PTL DEF Spec, RetirementStands
================================================================================
