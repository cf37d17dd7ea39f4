---------------------------- MODULE DelegationProofs ----------------------------
(***************************************************************************)
(* What TLAPS proves of Delegation, for any tools, types, rules, skills and *)
(* limits: the shape of the loops, Contained and CallerWaits.               *)
(*                                                                         *)
(* A sub-agent's tools are taken from the turn's own, not from its caller's; *)
(* they are within the caller's because a loop that has AgentTool has every  *)
(* tool (OneHasAll), which is RestrictedTypes.  Every step but Spawn changes *)
(* one loop and leaves some of the others unheard (Changed).                *)
(***************************************************************************)
EXTENDS Delegation, TLAPS

Typed ==
  /\ agents \in Seq(Loop)
  /\ Len(agents) \in 1 .. MaxAgents
  /\ cancelled \in BOOLEAN

\* What a loop is of itself.
LoopFits(l) ==
  /\ l.iteration <= l.limit
  /\ l.depth <= MaxDepth
  /\ l.ran \subseteq l.tools
  /\ \A tool \in l.ran : Permission(tool) = "allow"

OneHasAll == \A a \in DOMAIN agents : Agent \in agents[a].tools => agents[a].tools = Tools

CallersFit ==
  /\ agents[1].caller = 0 /\ agents[1].tools = Tools
  /\ \A a \in DOMAIN agents : agents[a].caller < a
  /\ \A a \in DOMAIN agents : agents[a].caller # 0 => agents[agents[a].caller].tools = Tools
  /\ \A a \in DOMAIN agents :
       agents[a].heard => /\ agents[a].caller # 0 /\ agents[a].pc # "ended"
                          /\ agents[agents[a].caller].pc \in {"fork", "stream", "collect"}

IInv ==
  /\ Typed
  /\ \A a \in DOMAIN agents : LoopFits(agents[a])
  /\ OneHasAll
  /\ CallersFit

--------------------------------------------------------------------------------
\* Loops and their callers are in the sequence.
LEMMA Places ==
  ASSUME IInv
  PROVE  /\ Len(agents) \in Nat \ {0} /\ DOMAIN agents = 1 .. Len(agents)
         /\ 1 \in DOMAIN agents
         /\ \A a \in DOMAIN agents : agents[a] \in Loop
         /\ \A a \in DOMAIN agents :
              agents[a].caller # 0 => agents[a].caller \in DOMAIN agents
<1>1. Len(agents) \in Nat \ {0} /\ DOMAIN agents = 1 .. Len(agents)
  BY DelegationAssumption DEF IInv, Typed
<1>2. \A a \in DOMAIN agents : agents[a] \in Loop
  BY DEF IInv, Typed
<1>3. \A a \in DOMAIN agents : agents[a].caller \in Nat /\ agents[a].caller < a
  BY <1>2 DEF IInv, CallersFit, Loop
<1> QED
  BY <1>1, <1>2, <1>3

\* One loop goes on; those that are no longer heard are its own, or it leaves the
\* place where it waits for nobody.
LEMMA Changed ==
  ASSUME IInv, NEW a \in DOMAIN agents, NEW l \in Loop, LoopFits(l),
         l.caller = agents[a].caller, l.tools = agents[a].tools,
         l.heard => agents[a].heard /\ l.pc # "ended",
         agents' \in Seq(Loop), Len(agents') = Len(agents), agents'[a] = l,
         \A b \in DOMAIN agents \ {a} :
           /\ LoopFits(agents'[b]) /\ agents'[b].pc = agents[b].pc
           /\ agents'[b].caller = agents[b].caller /\ agents'[b].tools = agents[b].tools
           /\ agents'[b].heard => agents[b].heard,
         \A b \in DOMAIN agents \ {a} :
           agents'[b].heard /\ agents[b].caller = a => l.pc \in {"fork", "stream", "collect"},
         cancelled' \in BOOLEAN
  PROVE  IInv'
<1>1. DOMAIN agents' = DOMAIN agents /\ 1 \in DOMAIN agents
  BY Places
<1>2. Typed'
  BY DEF Typed, IInv
<1>3. \A b \in DOMAIN agents :
        agents'[b].caller = agents[b].caller /\ agents'[b].tools = agents[b].tools
  OBVIOUS
<1>4. \A b \in DOMAIN agents : LoopFits(agents'[b])
  OBVIOUS
<1>5. OneHasAll'
  BY <1>1, <1>3 DEF OneHasAll, IInv
<1>6. ASSUME NEW b \in DOMAIN agents, agents'[b].heard
      PROVE  /\ agents'[b].caller # 0 /\ agents'[b].pc # "ended"
             /\ agents'[agents'[b].caller].pc \in {"fork", "stream", "collect"}
  <2>1. agents[b].heard
    BY <1>6
  <2>2. /\ agents[b].caller # 0 /\ agents[b].pc # "ended"
        /\ agents[agents[b].caller].pc \in {"fork", "stream", "collect"}
    BY <2>1 DEF IInv, CallersFit
  <2>3. agents'[b].pc # "ended"
    BY <1>6, <2>2
  <2>4. agents[b].caller \in DOMAIN agents /\ agents[b].caller # b
    BY <2>2, Places DEF IInv, CallersFit
  <2>5. CASE agents[b].caller = a
    BY <1>3, <1>6, <2>2, <2>3, <2>4, <2>5
  <2>6. CASE agents[b].caller # a
    BY <1>3, <2>2, <2>3, <2>4, <2>6
  <2> QED
    BY <2>5, <2>6
<1>7. \A b \in DOMAIN agents :
        agents'[b].caller # 0 => agents'[agents'[b].caller].tools = Tools
  BY <1>3, Places DEF IInv, CallersFit
<1>8. CallersFit'
  BY <1>1, <1>3, <1>6, <1>7 DEF CallersFit, IInv
<1> QED
  BY <1>1, <1>2, <1>4, <1>5, <1>8 DEF IInv

\* The same where nobody is made unheard.
LEMMA ChangedOne ==
  ASSUME IInv, NEW a \in DOMAIN agents, NEW l \in Loop, LoopFits(l),
         l.caller = agents[a].caller, l.tools = agents[a].tools,
         l.heard => agents[a].heard /\ l.pc # "ended",
         agents' = [agents EXCEPT ![a] = l],
         Waits(a) => l.pc \in {"fork", "stream", "collect"},
         cancelled' \in BOOLEAN
  PROVE  IInv'
<1>1. agents \in Seq(Loop)
  BY DEF IInv, Typed
<1>2. agents' \in Seq(Loop) /\ Len(agents') = Len(agents) /\ agents'[a] = l
  BY <1>1
<1>3. \A b \in DOMAIN agents \ {a} : agents'[b] = agents[b]
  BY <1>1
<1>4. \A b \in DOMAIN agents \ {a} :
           /\ LoopFits(agents'[b]) /\ agents'[b].pc = agents[b].pc
           /\ agents'[b].caller = agents[b].caller /\ agents'[b].tools = agents[b].tools
           /\ agents'[b].heard => agents[b].heard
  BY <1>3 DEF IInv
<1>5. \A b \in DOMAIN agents \ {a} :
           agents'[b].heard /\ agents[b].caller = a => l.pc \in {"fork", "stream", "collect"}
  BY <1>3 DEF Waits
<1> QED
  BY <1>2, <1>4, <1>5, Changed

\* The same where the loop leaves all it called.
LEMMA ChangedDeaf ==
  ASSUME IInv, NEW a \in DOMAIN agents, NEW l \in Loop, LoopFits(l),
         l.caller = agents[a].caller, l.tools = agents[a].tools,
         l.heard => agents[a].heard /\ l.pc # "ended",
         agents' = [Deaf(a) EXCEPT ![a] = l],
         cancelled' \in BOOLEAN
  PROVE  IInv'
<1>1. agents \in Seq(Loop) /\ Len(agents) \in Nat /\ DOMAIN agents = 1 .. Len(agents)
  BY Places DEF IInv, Typed
<1>2. ASSUME NEW b \in DOMAIN agents
      PROVE  /\ Deaf(a)[b] \in Loop
             /\ LoopFits(Deaf(a)[b]) /\ Deaf(a)[b].pc = agents[b].pc
             /\ Deaf(a)[b].caller = agents[b].caller /\ Deaf(a)[b].tools = agents[b].tools
             /\ Deaf(a)[b].heard => agents[b].heard
             /\ agents[b].caller = a => ~Deaf(a)[b].heard
  <2>1. agents[b] \in Loop /\ LoopFits(agents[b])
    BY <1>1 DEF IInv
  <2>2. CASE agents[b].caller = a
    <3> DEFINE d == [agents[b] EXCEPT !.heard = FALSE]
    <3>1. Deaf(a)[b] = d
      BY <2>2 DEF Deaf
    <3>2. /\ d \in Loop /\ ~d.heard /\ d.pc = agents[b].pc /\ d.caller = agents[b].caller
          /\ d.tools = agents[b].tools /\ d.iteration = agents[b].iteration
          /\ d.limit = agents[b].limit /\ d.depth = agents[b].depth /\ d.ran = agents[b].ran
      BY <2>1 DEF Loop
    <3> HIDE DEF d
    <3>3. LoopFits(d)
      BY <2>1, <3>2 DEF LoopFits
    <3> QED
      BY <3>1, <3>2, <3>3
  <2>3. CASE agents[b].caller # a
    BY <2>1, <2>3 DEF Deaf
  <2> QED
    BY <2>2, <2>3
<1>3. Deaf(a) \in Seq(Loop) /\ Len(Deaf(a)) = Len(agents)
  <2>1. Deaf(a) = [b \in 1 .. Len(agents) |-> Deaf(a)[b]]
    BY <1>1 DEF Deaf
  <2> QED
    BY <1>1, <1>2, <2>1
<1>4. /\ agents' \in Seq(Loop) /\ Len(agents') = Len(agents) /\ agents'[a] = l
      /\ \A b \in DOMAIN agents \ {a} : agents'[b] = Deaf(a)[b]
  BY <1>1, <1>3
<1> QED
  BY <1>2, <1>4, Changed

\* A sub-agent begins: of what loop a may call it has no more than a.
LEMMA Spawned ==
  ASSUME IInv, NEW a \in DOMAIN agents, agents[a].tools = Tools,
         NEW name, NEW seen \in SUBSET Tools,
         NEW others \in Seq(Loop), Len(others) = Len(agents),
         \A b \in DOMAIN agents :
           /\ LoopFits(others[b])
           /\ others[b].caller = agents[b].caller /\ others[b].tools = agents[b].tools
           /\ others[b].heard => agents[b].heard /\ others[b].pc # "ended"
           /\ agents[b].pc \in {"fork", "stream", "collect"}
                => others[b].pc \in {"fork", "stream", "collect"},
         others[a].pc \in {"fork", "stream", "collect"},
         Spawn(a, name, seen, others)
  PROVE  IInv'
<1> DEFINE n == Len(agents)
           k == SubAgent(a, name, seen)
<1>1. /\ n \in Nat \ {0} /\ DOMAIN agents = 1 .. n /\ n < MaxAgents
      /\ agents' = Append(others, k) /\ agents[1].depth < MaxDepth
      /\ cancelled' = cancelled /\ agents[1] \in Loop /\ agents[a] \in Loop
      /\ MaxDepth \in Nat /\ MaxAgents \in Nat
  BY Places, DelegationAssumption DEF Spawn
<1>2. /\ TypeOf(name) \in Types
      /\ MaxTurns[TypeOf(name)] \in Nat
  BY DelegationAssumption DEF TypeOf
<1>3. /\ Resolve(agents[1].tools, TypeOf(name)) \subseteq Tools
      /\ Agent \in Resolve(agents[1].tools, TypeOf(name))
           => Resolve(agents[1].tools, TypeOf(name)) = Tools
  <2>1. agents[1].tools = Tools
    BY DEF IInv, CallersFit
  <2> QED
    BY <1>2, <2>1, RestrictedTypes DEF Resolve
<1>4. /\ k.caller = a /\ k.pc = "guard" /\ k.ran = {}
      /\ k.tools = Resolve(agents[1].tools, TypeOf(name))
      /\ k.iteration = 0 /\ k.limit = MaxTurns[TypeOf(name)]
      /\ k.depth = agents[1].depth + 1
  BY DEF SubAgent
<1>5. k \in Loop /\ LoopFits(k)
  <2>0. a \in Nat
    BY <1>1
  <2>1. a \in Nat /\ agents[1].depth \in Nat /\ agents[a].nesting \in Nat
    BY <1>1, <2>0 DEF Loop
  <2>2. agents[1].depth + 1 \in Nat /\ agents[a].nesting + 1 \in Nat
    BY <2>1
  <2>3. k \in Loop
    BY <1>2, <1>3, <2>1, <2>2 DEF SubAgent, Loop, Pcs
  <2>4. k.iteration <= k.limit /\ k.depth <= MaxDepth
    BY <1>1, <1>2, <1>4, <2>1
  <2> HIDE DEF k
  <2> QED
    BY <1>4, <2>3, <2>4 DEF LoopFits
<1> HIDE DEF k
<1>6. /\ agents' \in Seq(Loop) /\ Len(agents') = n + 1 /\ DOMAIN agents' = 1 .. n + 1
      /\ agents'[n + 1] = k /\ \A b \in 1 .. n : agents'[b] = others[b]
  BY <1>1, <1>5
<1> HIDE DEF n
<1>7. Typed'
  BY <1>1, <1>6 DEF Typed, IInv
<1>8. \A b \in DOMAIN agents' : b = n + 1 \/ b \in 1 .. n
  BY <1>1, <1>6
<1>9. \A b \in DOMAIN agents' : LoopFits(agents'[b])
  BY <1>1, <1>5, <1>6, <1>8
<1>10. OneHasAll'
  BY <1>1, <1>3, <1>4, <1>6, <1>8 DEF OneHasAll, IInv
<1>11. CallersFit'
  <2>1. agents'[1].caller = 0 /\ agents'[1].tools = Tools
    BY <1>1, <1>6 DEF IInv, CallersFit
  <2>2. \A b \in DOMAIN agents' : agents'[b].caller < b
    <3>1. \A b \in 1 .. n : agents'[b].caller < b
      BY <1>1, <1>6 DEF IInv, CallersFit
    <3>2. agents'[n + 1].caller < n + 1
      BY <1>1, <1>4, <1>6
    <3> QED
      BY <1>8, <3>1, <3>2
  <2>3. a \in 1 .. n /\ agents'[a].pc \in {"fork", "stream", "collect"} /\ a # 0
    BY <1>1, <1>6
  <2>4. ASSUME NEW b \in DOMAIN agents', agents'[b].heard
        PROVE  /\ agents'[b].caller # 0 /\ agents'[b].pc # "ended"
               /\ agents'[agents'[b].caller].pc \in {"fork", "stream", "collect"}
    <3>1. CASE b = n + 1
      BY <1>4, <1>6, <2>3, <3>1
    <3>2. CASE b \in 1 .. n
      <4>1. others[b].heard /\ agents'[b] = others[b]
        BY <1>6, <2>4, <3>2
      <4>2. /\ agents[b].caller # 0 /\ others[b].pc # "ended"
            /\ agents[agents[b].caller].pc \in {"fork", "stream", "collect"}
        BY <1>1, <3>2, <4>1 DEF IInv, CallersFit
      <4>3. agents[b].caller \in 1 .. n
        BY <1>1, <3>2, <4>2, Places
      <4> QED
        BY <1>1, <1>6, <3>2, <4>1, <4>2, <4>3
    <3> QED
      BY <1>8, <3>1, <3>2
  <2>5. \A b \in DOMAIN agents' :
          agents'[b].caller # 0 => agents'[agents'[b].caller].tools = Tools
    <3>1. \A b \in 1 .. n : agents'[b].caller # 0 => agents'[agents'[b].caller].tools = Tools
      BY <1>1, <1>6, Places DEF IInv, CallersFit
    <3>2. agents'[n + 1].caller = a /\ agents'[a].tools = Tools
      BY <1>1, <1>4, <1>6, <2>3
    <3> QED
      BY <1>8, <3>1, <3>2
  <2> QED
    BY <2>1, <2>2, <2>4, <2>5 DEF CallersFit
<1> QED
  BY <1>7, <1>9, <1>10, <1>11 DEF IInv

--------------------------------------------------------------------------------
LEMMA EndsStep ==
  ASSUME IInv, NEW a \in DOMAIN agents, NEW pc \in {"ended", "dropped"}, Ends(a, pc)
  PROVE  IInv'
<1> DEFINE l == [agents[a] EXCEPT !.pc = pc, !.heard = FALSE, !.seen = {}, !.searched = FALSE,
                                  !.iteration = 0, !.ran = {}]
<1>1. agents[a] \in Loop /\ LoopFits(agents[a])
  BY Places DEF IInv
<1>2. /\ l \in Loop /\ l.pc = pc /\ ~l.heard /\ l.iteration = 0 /\ l.ran = {}
      /\ l.caller = agents[a].caller /\ l.tools = agents[a].tools
      /\ l.depth = agents[a].depth /\ l.limit = agents[a].limit /\ l.limit \in Nat
  BY <1>1 DEF Loop, Pcs
<1>3. agents' = [Deaf(a) EXCEPT ![a] = l] /\ cancelled' \in BOOLEAN
  BY DEF Ends, IInv, Typed
<1> HIDE DEF l
<1>4. LoopFits(l)
  BY <1>1, <1>2 DEF LoopFits
<1> QED
  BY <1>2, <1>3, <1>4, ChangedDeaf

LEMMA RetryStep ==
  ASSUME IInv, NEW a \in DOMAIN agents, Retry(a)
  PROVE  IInv'
<1> DEFINE l == [agents[a] EXCEPT !.pc = "guard", !.searched = FALSE, !.ran = {}]
<1>1. agents[a] \in Loop /\ LoopFits(agents[a])
  BY Places DEF IInv
<1>2. /\ l \in Loop /\ l.pc = "guard" /\ l.heard = agents[a].heard /\ l.ran = {}
      /\ l.caller = agents[a].caller /\ l.tools = agents[a].tools
      /\ l.depth = agents[a].depth /\ l.limit = agents[a].limit
      /\ l.iteration = agents[a].iteration
  BY <1>1 DEF Loop, Pcs
<1>3. agents' = [Deaf(a) EXCEPT ![a] = l] /\ cancelled' \in BOOLEAN
  BY DEF Retry, IInv, Typed
<1> HIDE DEF l
<1>4. LoopFits(l)
  BY <1>1, <1>2 DEF LoopFits
<1> QED
  BY <1>2, <1>3, <1>4, ChangedDeaf

\* A loop that is neither in a response nor collecting is waited for by nobody it waits for.
LEMMA NobodyWaits ==
  ASSUME IInv, NEW a \in DOMAIN agents, agents[a].pc \notin {"fork", "stream", "collect"}
  PROVE  ~Waits(a)
BY DEF Waits, IInv, CallersFit

\* The turn leaves the skill or the fork.
LEMMA BeginStep ==
  ASSUME IInv, SkipSkill \/ SkillForked
  PROVE  IInv'
<1> DEFINE l == [agents[1] EXCEPT !.pc = "guard"]
<1>1. 1 \in DOMAIN agents /\ agents[1] \in Loop /\ LoopFits(agents[1])
  BY Places DEF IInv
<1>2. /\ l \in Loop /\ l.pc = "guard" /\ l.heard = agents[1].heard /\ l.ran = agents[1].ran
      /\ l.caller = agents[1].caller /\ l.tools = agents[1].tools
      /\ l.depth = agents[1].depth /\ l.limit = agents[1].limit
      /\ l.iteration = agents[1].iteration
  BY <1>1 DEF Loop, Pcs
<1>3. agents' = [agents EXCEPT ![1] = l] /\ cancelled' \in BOOLEAN
  BY DEF SkipSkill, SkillForked, IInv, Typed
<1>4. ~Waits(1)
  BY <1>1, NobodyWaits DEF SkipSkill, SkillForked, At
<1> HIDE DEF l
<1>5. LoopFits(l)
  BY <1>1, <1>2 DEF LoopFits
<1> QED
  BY <1>1, <1>2, <1>3, <1>4, <1>5, ChangedOne

LEMMA ForkSkillStep ==
  ASSUME IInv, ForkSkill
  PROVE  IInv'
<1> DEFINE others == [agents EXCEPT ![1].pc = "fork"]
           l == [agents[1] EXCEPT !.pc = "fork"]
<1>1. 1 \in DOMAIN agents /\ agents[1] \in Loop /\ agents \in Seq(Loop)
  BY Places DEF IInv, Typed
<1>2. /\ l \in Loop /\ l.pc = "fork" /\ l.heard = agents[1].heard /\ l.ran = agents[1].ran
      /\ l.caller = agents[1].caller /\ l.tools = agents[1].tools
      /\ l.depth = agents[1].depth /\ l.limit = agents[1].limit
      /\ l.iteration = agents[1].iteration
  BY <1>1 DEF Loop, Pcs
<1>3. others = [agents EXCEPT ![1] = l] /\ Spawn(1, General, {}, others)
  BY DEF ForkSkill
<1> HIDE DEF l, others
<1>4. /\ others \in Seq(Loop) /\ Len(others) = Len(agents) /\ others[1] = l
      /\ \A b \in DOMAIN agents \ {1} : others[b] = agents[b]
  BY <1>1, <1>2, <1>3
<1>5. LoopFits(l)
  BY <1>1, <1>2 DEF LoopFits, IInv
<1>6. \A b \in DOMAIN agents : agents[b].heard => agents[b].pc # "ended"
  BY DEF IInv, CallersFit
<1>7. ASSUME NEW b \in DOMAIN agents
      PROVE  /\ LoopFits(others[b])
             /\ others[b].caller = agents[b].caller /\ others[b].tools = agents[b].tools
             /\ others[b].heard => agents[b].heard /\ others[b].pc # "ended"
             /\ agents[b].pc \in {"fork", "stream", "collect"}
                  => others[b].pc \in {"fork", "stream", "collect"}
  <2>1. CASE b = 1
    BY <1>2, <1>4, <1>5, <2>1
  <2>2. CASE b # 1
    BY <1>4, <1>6, <2>2 DEF IInv
  <2> QED
    BY <2>1, <2>2
<1>8. agents[1].tools = Tools
  BY DEF IInv, CallersFit
<1>9. others[1].pc \in {"fork", "stream", "collect"} /\ {} \in SUBSET Tools
  BY <1>2, <1>4
<1> QED
  BY <1>1, <1>3, <1>4, <1>7, <1>8, <1>9, Spawned

\* What a loop may call are tools.
LEMMA CallableType ==
  ASSUME IInv, NEW a \in DOMAIN agents
  PROVE  Callable(a) \in SUBSET Tools
<1>1. agents[a].tools \subseteq Tools /\ agents[a].seen \subseteq Tools
  BY Places DEF Loop
<1> QED
  BY <1>1 DEF Callable, Offered

LEMMA CallAgentStep ==
  ASSUME IInv, NEW a \in DOMAIN agents, NEW name, CallAgent(a, name)
  PROVE  IInv'
<1>1. agents \in Seq(Loop) /\ Callable(a) \in SUBSET Tools
  BY CallableType DEF IInv, Typed
<1>2. agents[a].pc = "stream" /\ Spawn(a, name, Callable(a), agents)
  BY DEF CallAgent, Runs, At
<1>3. \A b \in DOMAIN agents : LoopFits(agents[b]) /\ (agents[b].heard => agents[b].pc # "ended")
  BY DEF IInv, CallersFit
<1>4. agents[a].tools = Tools
  BY DEF CallAgent, Runs, IInv, OneHasAll
<1> QED
  BY <1>1, <1>2, <1>3, <1>4, Spawned

LEMMA GuardStep ==
  ASSUME IInv, NEW a \in DOMAIN agents, Guard(a)
  PROVE  IInv'
<1>1. CASE cancelled \/ agents[a].iteration >= agents[a].limit
  <2>1. Ends(a, "ended")
    BY <1>1 DEF Guard, Cancelled
  <2> QED
    BY <2>1, EndsStep
<1>2. CASE ~cancelled /\ ~(agents[a].iteration >= agents[a].limit)
  <2> DEFINE l == [agents[a] EXCEPT !.pc = "stream", !.iteration = agents[a].iteration + 1]
  <2>1. agents[a] \in Loop /\ LoopFits(agents[a]) /\ agents[a].pc = "guard"
    BY Places DEF IInv, Guard, At
  <2>2. /\ l \in Loop /\ l.pc = "stream" /\ l.heard = agents[a].heard /\ l.ran = agents[a].ran
        /\ l.caller = agents[a].caller /\ l.tools = agents[a].tools
        /\ l.depth = agents[a].depth /\ l.limit = agents[a].limit
        /\ l.iteration = agents[a].iteration + 1
        /\ agents[a].iteration \in Nat /\ agents[a].limit \in Nat
    <3>1. agents[a].iteration \in Nat /\ agents[a].iteration + 1 \in Nat
      BY <2>1 DEF Loop
    <3>2. agents[a].limit \in Nat
      BY <2>1 DEF Loop
    <3> DEFINE i == agents[a].iteration + 1
    <3> HIDE DEF i
    <3>3. i \in Nat
      BY <3>1 DEF i
    <3>4. l = [agents[a] EXCEPT !.pc = "stream", !.iteration = i]
      BY DEF i
    <3>5. /\ l \in Loop /\ l.pc = "stream" /\ l.heard = agents[a].heard /\ l.ran = agents[a].ran
          /\ l.caller = agents[a].caller /\ l.tools = agents[a].tools
          /\ l.depth = agents[a].depth /\ l.limit = agents[a].limit /\ l.iteration = i
      BY <2>1, <3>3, <3>4 DEF Loop, Pcs
    <3> QED
      BY <3>1, <3>2, <3>5 DEF i
  <2>3. agents' = [agents EXCEPT ![a] = l] /\ cancelled' \in BOOLEAN
    BY <1>2 DEF Guard, Cancelled, IInv, Typed
  <2> HIDE DEF l
  <2>4. LoopFits(l)
    BY <1>2, <2>1, <2>2 DEF LoopFits
  <2> QED
    BY <2>2, <2>3, <2>4, ChangedOne
<1> QED
  BY <1>1, <1>2

LEMMA CallStep ==
  ASSUME IInv, NEW a \in DOMAIN agents, NEW tool \in Tools, Call(a, tool)
  PROVE  IInv'
<1> DEFINE l == [agents[a] EXCEPT !.ran = agents[a].ran \cup {tool}]
<1>1. agents[a] \in Loop /\ LoopFits(agents[a]) /\ agents[a].pc = "stream"
  BY Places DEF IInv, Call, Runs, At
<1>2. /\ l \in Loop /\ l.pc = agents[a].pc /\ l.heard = agents[a].heard
      /\ l.ran = agents[a].ran \cup {tool}
      /\ l.caller = agents[a].caller /\ l.tools = agents[a].tools
      /\ l.depth = agents[a].depth /\ l.limit = agents[a].limit
      /\ l.iteration = agents[a].iteration
  BY <1>1 DEF Loop
<1>3. agents' = [agents EXCEPT ![a] = l] /\ cancelled' \in BOOLEAN
  BY DEF Call, IInv, Typed
<1>4. tool \in agents[a].tools /\ Permission(tool) = "allow"
  BY DEF Call, Runs
<1> HIDE DEF l
<1>5. LoopFits(l)
  BY <1>1, <1>2, <1>4 DEF LoopFits
<1> QED
  BY <1>1, <1>2, <1>3, <1>5, ChangedOne

LEMMA SearchStep ==
  ASSUME IInv, NEW a \in DOMAIN agents, Search(a)
  PROVE  IInv'
<1> DEFINE l == [agents[a] EXCEPT !.searched = TRUE]
<1>1. agents[a] \in Loop /\ LoopFits(agents[a]) /\ agents[a].pc = "stream"
  BY Places DEF IInv, Search, Runs, At
<1>2. /\ l \in Loop /\ l.pc = agents[a].pc /\ l.heard = agents[a].heard
      /\ l.ran = agents[a].ran
      /\ l.caller = agents[a].caller /\ l.tools = agents[a].tools
      /\ l.depth = agents[a].depth /\ l.limit = agents[a].limit
      /\ l.iteration = agents[a].iteration
  BY <1>1 DEF Loop
<1>3. agents' = [agents EXCEPT ![a] = l] /\ cancelled' \in BOOLEAN
  BY DEF Search, IInv, Typed
<1> HIDE DEF l
<1>4. LoopFits(l)
  BY <1>1, <1>2 DEF LoopFits
<1> QED
  BY <1>1, <1>2, <1>3, <1>4, ChangedOne

LEMMA StartCollectStep ==
  ASSUME IInv, NEW a \in DOMAIN agents, StartCollect(a)
  PROVE  IInv'
<1> DEFINE l == [agents[a] EXCEPT !.pc = "collect", !.ran = {}]
<1>1. agents[a] \in Loop /\ LoopFits(agents[a])
  BY Places DEF IInv
<1>2. /\ l \in Loop /\ l.pc = "collect" /\ l.heard = agents[a].heard /\ l.ran = {}
      /\ l.caller = agents[a].caller /\ l.tools = agents[a].tools
      /\ l.depth = agents[a].depth /\ l.limit = agents[a].limit
      /\ l.iteration = agents[a].iteration
  BY <1>1 DEF Loop, Pcs
<1>3. agents' = [agents EXCEPT ![a] = l] /\ cancelled' \in BOOLEAN
  BY DEF StartCollect, IInv, Typed
<1> HIDE DEF l
<1>4. LoopFits(l)
  BY <1>1, <1>2 DEF LoopFits
<1> QED
  BY <1>1, <1>2, <1>3, <1>4, ChangedOne

LEMMA CollectStep ==
  ASSUME IInv, NEW a \in DOMAIN agents, Collect(a)
  PROVE  IInv'
<1>1. PICK found \in SUBSET Deferred :
        agents' = [agents EXCEPT ![a].pc = "guard", ![a].searched = FALSE,
                                 ![a].seen = @ \cup found]
  BY DEF Collect
<1> DEFINE l == [agents[a] EXCEPT !.pc = "guard", !.searched = FALSE,
                                  !.seen = agents[a].seen \cup found]
<1>2. agents[a] \in Loop /\ LoopFits(agents[a]) /\ found \subseteq Tools
  BY Places, DelegationAssumption DEF IInv
<1>3. /\ l \in Loop /\ l.pc = "guard" /\ l.heard = agents[a].heard /\ l.ran = agents[a].ran
      /\ l.caller = agents[a].caller /\ l.tools = agents[a].tools
      /\ l.depth = agents[a].depth /\ l.limit = agents[a].limit
      /\ l.iteration = agents[a].iteration
  BY <1>2 DEF Loop, Pcs
<1>4. agents' = [agents EXCEPT ![a] = l] /\ cancelled' \in BOOLEAN
  BY <1>1 DEF Collect, IInv, Typed
<1> HIDE DEF l
<1>5. LoopFits(l)
  BY <1>2, <1>3 DEF LoopFits
<1>6. ~Waits(a)
  BY DEF Collect
<1> QED
  BY <1>2, <1>3, <1>4, <1>5, <1>6, ChangedOne

--------------------------------------------------------------------------------
LEMMA IInvInit == Init => IInv
<1> SUFFICES ASSUME Init PROVE IInv
  OBVIOUS
<1> DEFINE skill == [Root EXCEPT !.pc = "skill"]
<1>1. /\ Root \in Loop /\ ~Root.heard /\ Root.caller = 0 /\ Root.tools = Tools
      /\ Root.ran = {} /\ Root.iteration = 0 /\ Root.limit = MaxIterations /\ Root.depth = 0
  BY DelegationAssumption DEF Root, Loop, Pcs
<1>2. /\ skill \in Loop /\ ~skill.heard /\ skill.caller = 0 /\ skill.tools = Tools
      /\ skill.ran = {} /\ skill.iteration = 0 /\ skill.limit = MaxIterations /\ skill.depth = 0
  BY <1>1 DEF Loop, Pcs
<1>3. agents = <<Root>> \/ agents = <<skill>>
  BY DEF Init
<1> HIDE DEF skill
<1>4. PICK l \in {Root, skill} : agents = <<l>>
  BY <1>3
<1>5. /\ l \in Loop /\ ~l.heard /\ l.caller = 0 /\ l.tools = Tools
      /\ l.ran = {} /\ l.iteration = 0 /\ l.limit = MaxIterations /\ l.depth = 0
  BY <1>1, <1>2
<1>6. /\ agents \in Seq(Loop) /\ Len(agents) = 1 /\ DOMAIN agents = {1} /\ agents[1] = l
  BY <1>4, <1>5
<1>7. LoopFits(l)
  BY <1>5, DelegationAssumption DEF LoopFits
<1>8. Typed
  <2>1. cancelled \in BOOLEAN
    BY DEF Init
  <2>2. 1 \in 1 .. MaxAgents
    BY DelegationAssumption
  <2> QED
    BY <1>6, <2>1, <2>2 DEF Typed
<1> QED
  BY <1>5, <1>6, <1>7, <1>8 DEF IInv, OneHasAll, CallersFit

LEMMA IInvNext == IInv /\ [Next]_vars => IInv'
<1> SUFFICES ASSUME IInv, [Next]_vars PROVE IInv'
  OBVIOUS
<1>1. CASE ForkSkill
  BY <1>1, ForkSkillStep
<1>2. CASE SkipSkill \/ SkillForked
  BY <1>2, BeginStep
<1>3. CASE Cancel
  BY <1>3 DEF Cancel, IInv, Typed, LoopFits, OneHasAll, CallersFit
<1>4. CASE DropTurn
  <2>1. 1 \in DOMAIN agents
    BY Places
  <2> QED
    BY <1>4, <2>1, EndsStep DEF DropTurn
<1>5. ASSUME NEW a \in DOMAIN agents, LoopStep(a)
      PROVE  IInv'
  <2>1. CASE Guard(a)
    BY <2>1, GuardStep
  <2>2. CASE Finish(a) \/ Break(a)
    BY <2>2, EndsStep DEF Finish, Break
  <2>3. CASE Retry(a)
    BY <2>3, RetryStep
  <2>4. CASE StartCollect(a)
    BY <2>4, StartCollectStep
  <2>5. CASE Collect(a)
    BY <2>5, CollectStep
  <2>6. ASSUME NEW tool \in Tools, Call(a, tool) PROVE IInv'
    BY <2>6, CallStep
  <2>7. ASSUME NEW tool \in Tools, Ask(a, tool) PROVE IInv'
    BY <2>7, EndsStep DEF Ask
  <2>8. CASE Search(a)
    BY <2>8, SearchStep
  <2>9. ASSUME NEW name \in Names, CallAgent(a, name) PROVE IInv'
    BY <2>9, CallAgentStep
  <2> QED
    BY <1>5, <2>1, <2>2, <2>3, <2>4, <2>5, <2>6, <2>7, <2>8, <2>9 DEF LoopStep, EndResponse
<1>6. CASE UNCHANGED vars
  BY <1>6 DEF vars, IInv, Typed, LoopFits, OneHasAll, CallersFit
<1> QED
  BY <1>1, <1>2, <1>3, <1>4, <1>5, <1>6 DEF Next

\* The invariant of every turn, whatever it asks for and whoever cancels it.
THEOREM Inductive == Spec => []IInv
<1>1. Init => IInv
  BY IInvInit
<1>2. IInv /\ [Next]_vars => IInv'
  BY IInvNext
<1> QED
  BY <1>1, <1>2, PTL DEF Spec

\* DelegationTypeOK: no loop goes beyond its limit of iterations, no sub-agent is
\* spawned beyond the limit of depth, whatever the limits are.
THEOREM TypeCorrect == Spec => []DelegationTypeOK
<1>1. IInv => DelegationTypeOK
  BY DEF IInv, Typed, LoopFits, CallersFit, DelegationTypeOK
<1> QED
  BY <1>1, Inductive, PTL

\* Contained, for any rules, types, mode and depth.
THEOREM SubAgentsAreContained == Spec => []Contained
<1>1. IInv => Contained
  BY Places DEF IInv, LoopFits, CallersFit, Contained, Loop
<1> QED
  BY <1>1, Inductive, PTL

\* CallerWaits, however many loops a turn has.
THEOREM CallersAreThere == Spec => []CallerWaits
<1>1. IInv => CallerWaits
  BY DEF IInv, CallersFit, CallerWaits
<1> QED
  BY <1>1, Inductive, PTL
================================================================================
