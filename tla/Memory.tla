--------------------------------- MODULE Memory ---------------------------------
(***************************************************************************)
(* The long-term memory of one user, and the turns that share it.          *)
(*                                                                         *)
(*   adapters/store/pg/memory.rs      the statements on the table memories *)
(*   systems/memory/                  recall, policy, lifecycle, reflect   *)
(*   systems/tools/builtin/memory_*   what the model calls                 *)
(*   runtime/assembler.rs             begin and end of a turn              *)
(*   runtime/reflection_runner.rs     the run that follows some turns      *)
(*                                                                         *)
(* Turns of a user's threads overlap.  Each statement is atomic and any of *)
(* them may fail; what a task does between two of them is not.  A memory's *)
(* id is its place in the order of creation.  The body stands for its      *)
(* hash; a query's words and vectors are left out: it finds any memories,  *)
(* up to its limit.                                                        *)
(***************************************************************************)
EXTENDS Integers, Sequences, FiniteSets

CONSTANTS
  Turns,             \* turns of the user, in any of its threads
  Kinds,             \* kinds the model writes
  Bodies,            \* bodies the model writes, trimmed and not empty
  Length,            \* characters of each
  Ttls,              \* ttl_days it asks for with each; 0: none
  MaxRecalled,       \* MAX_RECALLED
  IndexLimit,        \* LIMIT of memory_list_index
  MaxIndexEntries,   \* MAX_INDEX_ENTRIES
  SearchLimit,       \* SEARCH_LIMIT
  PinnedBodyLimit, ArchiveBodyLimit,
  StaleDays,         \* STALE_DAYS
  DecayDays,         \* the interval in memory_decay_importance
  BoostRecentDays,   \* BOOST_RECENT_DAYS
  BoostMinAccesses,  \* BOOST_MIN_ACCESSES
  ReflectionGap,     \* MIN_HOURS_BETWEEN_REFLECTIONS
  Highest,           \* importance is a level: 0 lowest, Highest 1.0
  MaxMemories,       \* bound: rows
  LastDay            \* bound: clock

ASSUME MemoryAssumption ==
  /\ Length \in [Bodies -> Nat]
  /\ Ttls \in [Bodies -> SUBSET Nat]
  /\ MaxRecalled \in Nat
  /\ IndexLimit \in Nat
  /\ MaxIndexEntries \in Nat
  /\ SearchLimit \in Nat
  /\ PinnedBodyLimit \in Nat
  /\ ArchiveBodyLimit \in Nat
  /\ StaleDays \in Nat
  /\ DecayDays \in Nat
  /\ BoostRecentDays \in Nat
  /\ BoostMinAccesses \in Nat \ {0}
  /\ ReflectionGap \in Nat
  /\ Highest \in Nat
  /\ MaxMemories \in Nat
  /\ LastDay \in Nat

VARIABLES
  today,           \* the clock, in days
  memories,        \* the table, in the order of creation
  lastReflection,  \* memory_runtime_state.last_reflection_at
  turn,            \* what each turn holds
  access,          \* memory_record_access it spawned: the ids it is for
  upkeep           \* statement its lifecycle task is at

table == <<memories, lastReflection>>
vars  == <<today, table, turn, access, upkeep>>

--------------------------------------------------------------------------------
(* Memories *)

Never  == -1
Ids    == 1 .. MaxMemories
Reason == {"none", "stale", "agent_deleted"}

Pinned(kind) == kind \in {"identity", "feedback"}

Limit(kind) == IF Pinned(kind) THEN PinnedBodyLimit ELSE ArchiveBodyLimit

\* policy::validate: the body fits its kind.
Valid(kind, body) == Length[body] <= Limit(kind)

Memory ==
  {m \in [kind : Kinds, body : Bodies, created : Nat, expires : Nat, retired : Reason,
          count : 0 .. BoostMinAccesses, accessed : Nat \cup {Never},
          importance : 0 .. Highest] : Valid(m.kind, m.body)}

Unretired(m) == m.retired = "none"
Expired(m)   == m.expires # 0 /\ m.expires <= today
Visible(m)   == Unretired(m) /\ ~Expired(m)

\* Rows a statement may find.
UnretiredRows == {i \in DOMAIN memories : Unretired(memories[i])}
VisibleRows   == {i \in DOMAIN memories : Visible(memories[i])}

PinnedRows      == {i \in DOMAIN memories : Pinned(memories[i].kind)}
VisiblePinned   == VisibleRows \cap PinnedRows
VisibleUnpinned == VisibleRows \ PinnedRows

KindRank(kind) ==
  IF kind = "feedback" THEN 0 ELSE IF kind = "identity" THEN 1 ELSE 2

\* importance DESC, created_at DESC.
ByImportance(i, j) ==
  \/ memories[i].importance > memories[j].importance
  \/ memories[i].importance = memories[j].importance /\ i > j

ByKind(i, j) ==
  LET ki == KindRank(memories[i].kind)
      kj == KindRank(memories[j].kind)
  IN ki < kj \/ (ki = kj /\ ByImportance(i, j))

First(n, Rows, Precedes(_, _)) ==
  {i \in Rows : Cardinality({j \in Rows : Precedes(j, i)}) < n}

\* memory_recent.
Recent == First(MaxRecalled, VisibleUnpinned, ByImportance)

\* What memory_recall_conditional may find: without a query the most important,
\* with one those it matches.
Recalls ==
  {Recent} \cup {rows \in SUBSET VisibleUnpinned : Cardinality(rows) <= MaxRecalled}

\* memory_list_index.
IndexRows == First(IndexLimit, VisibleRows, ByKind)

\* format_index.
Listed == First(MaxIndexEntries, IndexRows, ByKind)

\* Mutant: memory_search without retired_at IS NULL.
SearchesAll == {rows \in SUBSET DOMAIN memories : Cardinality(rows) <= SearchLimit}

\* What memory_search may find: memories of any kind, expired ones as well.
Searches == {rows \in SUBSET UnretiredRows : Cardinality(rows) <= SearchLimit}

\* The unique index memories_dedup.
Known(body) == \E i \in UnretiredRows : memories[i].body = body

\* The row memory_write inserts.
Row(kind, body, ttl) ==
  [kind |-> kind, body |-> body, created |-> today,
   expires |-> IF ttl = 0 THEN 0 ELSE today + ttl, retired |-> "none",
   count |-> 0, accessed |-> Never, importance |-> Highest \div 2]

--------------------------------------------------------------------------------
(* Turns *)

Statements == {"pinned", "conditional", "index"}

\* What a turn holds:
\*   loaded    last_reflection_at as it read it
\*   asking    statements of prepare_turn not answered yet
\*   failed    those that failed
\*   pinned    RecallResult.pinned
\*   index     entries format_index shows
\*   told      RecallResult.recalled, and the ids a tool has told it
\*   wrote     memories_written_this_run > 0
\*   before    history: rows there were when it began
\*   gone      history: those retired by then
Turn ==
  [pc : {"idle", "begun", "reflecting", "ended"}, loaded : Nat \cup {Never},
   asking : SUBSET Statements, failed : SUBSET Statements,
   pinned : SUBSET Ids, index : SUBSET Ids,
   told : SUBSET Ids, wrote : BOOLEAN, before : 0 .. MaxMemories, gone : SUBSET Ids]

NoTurn ==
  [pc |-> "idle", loaded |-> Never, asking |-> {}, failed |-> {}, pinned |-> {},
   index |-> {}, told |-> {}, wrote |-> FALSE, before |-> 0, gone |-> {}]

Ended == [NoTurn EXCEPT !.pc = "ended"]

Init ==
  /\ today = 0
  /\ memories = <<>>
  /\ lastReflection = Never
  /\ turn = [t \in Turns |-> NoTurn]
  /\ access = [t \in Turns |-> {}]
  /\ upkeep = [t \in Turns |-> "none"]

Tick ==
  /\ today < LastDay
  /\ today' = today + 1
  /\ UNCHANGED <<table, turn, access, upkeep>>

--------------------------------------------------------------------------------
(* prepare_turn: three statements at once                                     *)

\* The turn reads the time of the last reflection, then asks.
Begin(t) ==
  /\ turn[t].pc = "idle"
  /\ turn' = [turn EXCEPT ![t] =
       [NoTurn EXCEPT
          !.pc = "begun",
          !.loaded = lastReflection,
          !.asking = Statements,
          !.before = Len(memories),
          !.gone = DOMAIN memories \ UnretiredRows]]
  /\ UNCHANGED <<today, table, access, upkeep>>

Asks(t, s) == turn[t].pc = "begun" /\ s \in turn[t].asking

Answered(t, s) == turn[t].asking \ {s}

\* Mutant: so is that of the pinned memories.
RecallAndPinned(t, s, rows) ==
  access' = IF Answered(t, s) \subseteq {"index"}
            THEN [access EXCEPT ![t] = rows \cup turn'[t].pinned] ELSE access

\* recall has both its answers: the access of what it recalled is recorded by a
\* task of its own.
Recall(t, s, rows) ==
  access' = IF Answered(t, s) \subseteq {"index"} THEN [access EXCEPT ![t] = rows]
                                                  ELSE access

\* memory_recall_pinned.
RecallPinned(t) ==
  /\ Asks(t, "pinned")
  /\ turn' = [turn EXCEPT ![t].pinned = VisiblePinned,
                          ![t].asking = Answered(t, "pinned")]
  /\ Recall(t, "pinned", turn[t].told)
  /\ UNCHANGED <<today, table, upkeep>>

\* memory_recall_conditional.
RecallConditional(t) ==
  /\ Asks(t, "conditional")
  /\ \E rows \in Recalls :
       /\ turn' = [turn EXCEPT ![t].told = rows, ![t].asking = Answered(t, "conditional")]
       /\ Recall(t, "conditional", rows)
  /\ UNCHANGED <<today, table, upkeep>>

\* memory_list_index and format_index.
ListIndex(t) ==
  /\ Asks(t, "index")
  /\ turn' = [turn EXCEPT ![t].index = Listed, ![t].asking = Answered(t, "index")]
  /\ UNCHANGED <<today, table, access, upkeep>>

\* The index fails: the turn goes on without.
IndexFails(t) ==
  /\ Asks(t, "index")
  /\ turn' = [turn EXCEPT ![t].failed = @ \cup {"index"},
                          ![t].asking = Answered(t, "index")]
  /\ UNCHANGED <<today, table, access, upkeep>>

\* A statement of recall fails: try_join! gives up the other and what it may
\* have answered, and the turn goes on without either.
RecallFails(t, s) ==
  /\ Asks(t, s)
  /\ turn' = [turn EXCEPT ![t].failed = @ \cup {s},
                          ![t].pinned = {},
                          ![t].told = {},
                          ![t].asking = @ \cap {"index"}]
  /\ UNCHANGED <<today, table, access, upkeep>>

\* memory_record_access: an UPDATE by id, whatever became of the rows.
Accessed(m) ==
  [m EXCEPT !.count = IF @ < BoostMinAccesses THEN @ + 1 ELSE @, !.accessed = today]

RecordAccess(t) ==
  /\ access[t] # {}
  /\ access' = [access EXCEPT ![t] = {}]
  /\ memories' \in
       {memories,                                   \* it failed, and is logged
        [i \in DOMAIN memories |->
           IF i \in access[t] THEN Accessed(memories[i]) ELSE memories[i]]}
  /\ UNCHANGED <<today, lastReflection, turn, upkeep>>

--------------------------------------------------------------------------------
(* The tools of a turn, two of which its reflection has too                   *)

InTurn(t) == turn[t].pc = "begun" /\ turn[t].asking = {}
Acts(t)   == InTurn(t) \/ turn[t].pc = "reflecting"
Told(t)   == turn[t].pinned \cup turn[t].told

\* emit_tool_result: an answer that is no error counts as a write, "already
\* known" too.
RecordMemoryWrite(t, written) ==
  turn' = [turn EXCEPT ![t].wrote = TRUE, ![t].told = @ \cup written]

\* MemoryWrite of a body that fits.
Write(t) ==
  /\ Acts(t)
  /\ \E kind \in Kinds, body \in Bodies : \E ttl \in Ttls[body] :
       /\ Valid(kind, body)
       /\ \/ /\ Known(body)
             /\ RecordMemoryWrite(t, {})
             /\ UNCHANGED memories
          \/ /\ ~Known(body)
             /\ Len(memories) < MaxMemories
             /\ memories' = Append(memories, Row(kind, body, ttl))
             /\ RecordMemoryWrite(t, {Len(memories) + 1})
  /\ UNCHANGED <<today, lastReflection, access, upkeep>>

\* MemorySearch.
Search(t) ==
  /\ InTurn(t)
  /\ \E rows \in Searches : turn' = [turn EXCEPT ![t].told = @ \cup rows]
  /\ UNCHANGED <<today, table, access, upkeep>>

\* Mutant: without retired_at IS NULL.
RetireAgain(i) == memories' = [memories EXCEPT ![i].retired = "agent_deleted"]

\* memory_retire.
Retire(i) ==
  /\ Unretired(memories[i])
  /\ memories' = [memories EXCEPT ![i].retired = "agent_deleted"]

\* MemoryForget, of an id the model was told.
Forget(t) ==
  /\ Acts(t)
  /\ \E i \in Told(t) : Retire(i)
  /\ UNCHANGED <<today, lastReflection, turn, access, upkeep>>

--------------------------------------------------------------------------------
(* The end of a turn and what it leaves behind                                *)

\* should_reflect; long: the turn had MIN_TURNS_TO_REFLECT iterations.
ShouldReflect(t, long) ==
  \/ turn[t].wrote
  \/ long /\ (turn[t].loaded = Never \/ today - turn[t].loaded >= ReflectionGap)

\* The reflection knows the ids the conversation told.
Reflection(t) ==
  [NoTurn EXCEPT !.pc = "reflecting", !.told = Told(t), !.gone = turn[t].gone]

\* The checkpoint is saved: lifecycle::run and the reflection are spawned.
End(t) ==
  /\ InTurn(t)
  /\ upkeep' = [upkeep EXCEPT ![t] = "retire"]
  /\ \E long \in BOOLEAN :
       turn' = [turn EXCEPT ![t] = IF ShouldReflect(t, long) THEN Reflection(t) ELSE Ended]
  /\ UNCHANGED <<today, table, access>>

\* An error, or the handler is dropped: neither is.
Abort(t) ==
  /\ turn[t].pc = "begun"
  /\ turn' = [turn EXCEPT ![t] = Ended]
  /\ UNCHANGED <<today, table, access, upkeep>>

\* run_reflection_turn ends; save_last_reflection_at follows unless its run
\* failed, and may fail itself.
EndReflection(t) ==
  /\ turn[t].pc = "reflecting"
  /\ turn' = [turn EXCEPT ![t] = Ended]
  /\ lastReflection' \in {lastReflection, today}
  /\ UNCHANGED <<today, memories, access, upkeep>>

\* One UPDATE of the lifecycle, of the rows it selects, or its failure; the task
\* goes on either way.
Update(t, at, next, updated) ==
  /\ upkeep[t] = at
  /\ upkeep' = [upkeep EXCEPT ![t] = next]
  /\ memories' \in {memories, updated}
  /\ UNCHANGED <<today, lastReflection, turn, access>>

\* memory_retire_stale.
Stale(m) ==
  ~Pinned(m.kind) /\ Unretired(m) /\ m.count = 0 /\ m.created < today - StaleDays

Retired(m) == [m EXCEPT !.retired = "stale"]

\* memory_decay_importance.
Untouched(m) ==
  /\ ~Pinned(m.kind)
  /\ Unretired(m)
  /\ m.accessed = Never \/ m.accessed < today - DecayDays

Decayed(m) == [m EXCEPT !.importance = IF @ > 0 THEN @ - 1 ELSE 0]

\* memory_boost_importance: of any kind.
Hot(m) ==
  /\ Unretired(m)
  /\ m.count >= BoostMinAccesses
  /\ m.accessed # Never
  /\ m.accessed > today - BoostRecentDays

Boosted(m) == [m EXCEPT !.importance = IF @ < Highest THEN @ + 1 ELSE Highest]

RetireStale(t) ==
  Update(t, "retire", "decay",
         [i \in DOMAIN memories |-> IF Stale(memories[i]) THEN Retired(memories[i]) ELSE memories[i]])

Decay(t) ==
  Update(t, "decay", "boost",
         [i \in DOMAIN memories |-> IF Untouched(memories[i]) THEN Decayed(memories[i]) ELSE memories[i]])

Boost(t) ==
  Update(t, "boost", "none",
         [i \in DOMAIN memories |-> IF Hot(memories[i]) THEN Boosted(memories[i]) ELSE memories[i]])

--------------------------------------------------------------------------------

Step(t) ==
  \/ Begin(t) \/ RecallPinned(t) \/ RecallConditional(t) \/ ListIndex(t)
  \/ IndexFails(t) \/ \E s \in {"pinned", "conditional"} : RecallFails(t, s)
  \/ RecordAccess(t)
  \/ Write(t) \/ Search(t) \/ Forget(t)
  \/ End(t) \/ Abort(t) \/ EndReflection(t)
  \/ RetireStale(t) \/ Decay(t) \/ Boost(t)

Next == Tick \/ \E t \in Turns : Step(t)

Spec == Init /\ [][Next]_vars

--------------------------------------------------------------------------------

\* A pinned memory that was there when the turn began, and still is, is among
\* those the turn has in its context, whatever other turns did while it asked;
\* and in its index, as long as the user has no more pinned memories than the
\* index has lines (recall.rs:6-8, inject.rs:14).  For a turn whose statements
\* were all answered.
PinnedIsShown ==
  \A t \in Turns : \A i \in 1 .. turn[t].before :
    /\ InTurn(t) /\ turn[t].failed = {}
    /\ Pinned(memories[i].kind) /\ Visible(memories[i])
    => /\ i \in turn[t].pinned
       /\ Cardinality(PinnedRows) <= MaxIndexEntries
          /\ Cardinality(PinnedRows) <= IndexLimit
          => i \in turn[t].index

\* A turn, and its reflection, is told nothing of what had been retired before
\* it began: neither by the recall nor by the index nor by a search, however
\* late they come.
ForgottenIsNotTold ==
  \A t \in Turns : turn[t].gone \cap (Told(t) \cup turn[t].index) = {}

\* A retired memory stays as it was retired, reason included, whichever of the
\* tools and the lifecycle tasks of several turns come after; and the lifecycle
\* retires none that is pinned, nor one whose recall was recorded.
RetirementStands ==
  [][\A i \in DOMAIN memories :
       /\ memories'[i].kind = memories[i].kind
       /\ ~Unretired(memories[i]) => memories'[i].retired = memories[i].retired
       /\ Unretired(memories[i]) /\ memories'[i].retired = "stale"
          => ~Pinned(memories[i].kind) /\ memories[i].count = 0]_vars
================================================================================
