--------------------------- MODULE ModelStreamProofs ---------------------------
(***************************************************************************)
(* What TLAPS proves of ModelStream: of responses, for bodies of any       *)
(* length that keep to the protocol of their provider, cut into any        *)
(* chunks; of requests, for conversations of any length.                   *)
(***************************************************************************)
EXTENDS ModelStream, TLAPS, SequenceTheorems, WellFoundedInduction, FiniteSetTheorems

--------------------------------------------------------------------------------
(* Lists of lists *)

\* Induction on the natural numbers, over a set.
LEMMA AllNaturals ==
  ASSUME NEW S, 0 \in S, \A n \in Nat : n \in S => n + 1 \in S
  PROVE  Nat \subseteq S
<1> SUFFICES ASSUME NEW m \in Nat, m \notin S PROVE FALSE
  OBVIOUS
<1> DEFINE R == Nat \ S
<1>1. R \subseteq Nat /\ R # {}
  OBVIOUS
<1>2. PICK n \in R : \A k \in R : n <= k
  <2>1. PICK n \in R : \A k \in R : <<k, n>> \notin OpToRel(<, Nat)
    BY <1>1, NatLessThanWellFounded, WFMin
  <2>2. \A k \in R : ~(k < n)
    BY <1>1, <2>1 DEF OpToRel
  <2> QED
    BY <1>1, <2>2
<1>3. n # 0 /\ n \in Nat
  BY <1>2
<1>4. n - 1 \in Nat /\ n - 1 \notin R
  BY <1>2, <1>3
<1> QED
  BY <1>2, <1>3, <1>4

\* f gives, for each position of ss, the concatenation up to there.
Joins(f, ss) ==
  f = [i \in 1 .. Len(ss) |-> IF i = 1 THEN ss[i] ELSE f[i - 1] \o ss[i]]

\* The same up to position n.
JoinsTo(f, ss, n) ==
  f[1] = ss[1] /\ \A i \in 2 .. n : f[i] = f[i - 1] \o ss[i]

\* FlattenSeq concatenates from left to right.
LEMMA Flattened ==
  ASSUME NEW S, NEW ss \in Seq(Seq(S)), Len(ss) > 0
  PROVE  \E f \in [1 .. Len(ss) -> Seq(S)] :
           JoinsTo(f, ss, Len(ss)) /\ FlattenSeq(ss) = f[Len(ss)]
<1>1. Len(ss) \in Nat \ {0} /\ \A i \in 1 .. Len(ss) : ss[i] \in Seq(S)
  OBVIOUS
<1> DEFINE Partial(n) == \E f \in [1 .. n -> Seq(S)] : JoinsTo(f, ss, n)
           P == {n \in Nat : n + 1 <= Len(ss) => Partial(n + 1)}
<1>2. Partial(1)
  <2> DEFINE f == [i \in 1 .. 1 |-> ss[1]]
  <2>1. f \in [1 .. 1 -> Seq(S)] /\ f[1] = ss[1] /\ 2 .. 1 = {}
    BY <1>1
  <2> HIDE DEF f
  <2> QED
    BY <2>1 DEF JoinsTo
<1>3. ASSUME NEW n \in Nat \ {0}, Partial(n), n + 1 <= Len(ss)
      PROVE  Partial(n + 1)
  <2>1. PICK f \in [1 .. n -> Seq(S)] : JoinsTo(f, ss, n)
    BY <1>3
  <2> DEFINE g == [i \in 1 .. n + 1 |-> IF i = n + 1 THEN f[n] \o ss[n + 1] ELSE f[i]]
  <2>2. f[n] \in Seq(S) /\ ss[n + 1] \in Seq(S)
    BY <1>1, <1>3, <2>1
  <2>3. f[n] \o ss[n + 1] \in Seq(S)
    BY <2>2
  <2>4. g \in [1 .. n + 1 -> Seq(S)]
    <3>1. ASSUME NEW i \in 1 .. n + 1, i # n + 1
          PROVE  f[i] \in Seq(S)
      BY <1>3, <2>1, <3>1
    <3> QED
      BY <2>3, <3>1
  <2>5. g[1] = ss[1]
    BY <1>3, <2>1 DEF JoinsTo
  <2>6. ASSUME NEW i \in 2 .. n + 1
        PROVE  g[i] = g[i - 1] \o ss[i]
    <3>1. i - 1 \in 1 .. n + 1 /\ i - 1 # n + 1 /\ i \in 1 .. n + 1
      BY <1>3
    <3>2. g[i - 1] = f[i - 1]
      BY <3>1
    <3>3. CASE i = n + 1
      <4>1. i - 1 = n
        BY <1>3, <3>3
      <4> QED
        BY <3>1, <3>2, <3>3, <4>1
    <3>4. CASE i # n + 1
      <4>1. i \in 2 .. n
        BY <1>3, <3>4
      <4> QED
        BY <2>1, <3>1, <3>2, <3>4, <4>1 DEF JoinsTo
    <3> QED
      BY <3>3, <3>4
  <2> HIDE DEF g
  <2> QED
    BY <2>4, <2>5, <2>6 DEF JoinsTo
<1> HIDE DEF Partial
<1>4. Partial(Len(ss))
  <2>1. 0 \in P
    BY <1>2
  <2>2. \A n \in Nat : n \in P => n + 1 \in P
    <3> SUFFICES ASSUME NEW n \in Nat, n \in P, (n + 1) + 1 <= Len(ss)
                 PROVE  Partial((n + 1) + 1)
      BY <1>1
    <3>1. n + 1 <= Len(ss) /\ n + 1 \in Nat \ {0}
      BY <1>1
    <3> QED
      BY <1>3, <3>1
  <2> HIDE DEF P
  <2>3. Nat \subseteq P
    BY <2>1, <2>2, AllNaturals
  <2>4. Len(ss) - 1 \in Nat /\ (Len(ss) - 1) + 1 = Len(ss) /\ Len(ss) <= Len(ss)
    BY <1>1
  <2> QED
    BY <2>3, <2>4 DEF P
<1>5. PICK f \in [1 .. Len(ss) -> Seq(S)] : JoinsTo(f, ss, Len(ss))
  BY <1>4 DEF Partial
<1>6. Joins(f, ss)
  <2>1. \A i \in 1 .. Len(ss) : f[i] = IF i = 1 THEN ss[i] ELSE f[i - 1] \o ss[i]
    <3> SUFFICES ASSUME NEW i \in 1 .. Len(ss), i # 1 PROVE f[i] = f[i - 1] \o ss[i]
      BY <1>5 DEF JoinsTo
    <3>1. i \in 2 .. Len(ss)
      BY <1>1
    <3> QED
      BY <1>5, <3>1 DEF JoinsTo
  <2> QED
    BY <2>1 DEF Joins
<1> DEFINE c == CHOOSE h : Joins(h, ss)
<1>7. Joins(c, ss)
  BY <1>6
<1>8. FlattenSeq(ss) = c[Len(ss)]
  BY <1>1 DEF FlattenSeq, Joins
<1> HIDE DEF c
<1>9. JoinsTo(c, ss, Len(ss))
  <2>1. 1 \in 1 .. Len(ss) /\ \A i \in 2 .. Len(ss) : i \in 1 .. Len(ss) /\ i # 1
    BY <1>1
  <2>2. \A i \in 1 .. Len(ss) : c[i] = IF i = 1 THEN ss[i] ELSE c[i - 1] \o ss[i]
    BY <1>7 DEF Joins
  <2> QED
    BY <2>1, <2>2 DEF JoinsTo
<1>10. \A i \in 1 .. Len(ss) : c[i] \in Seq(S)
  <2> DEFINE T == {n \in Nat : n + 1 <= Len(ss) => c[n + 1] \in Seq(S)}
  <2>1. 0 \in T
    BY <1>1, <1>9 DEF JoinsTo
  <2>2. \A n \in Nat : n \in T => n + 1 \in T
    <3> SUFFICES ASSUME NEW n \in Nat, (n + 1) + 1 <= Len(ss), c[n + 1] \in Seq(S)
                 PROVE  c[(n + 1) + 1] \in Seq(S)
      BY <1>1
    <3>1. (n + 1) + 1 \in 2 .. Len(ss) /\ ((n + 1) + 1) - 1 = n + 1
      BY <1>1
    <3>2. c[(n + 1) + 1] = c[n + 1] \o ss[(n + 1) + 1]
      BY <1>9, <3>1 DEF JoinsTo
    <3>3. ss[(n + 1) + 1] \in Seq(S)
      BY <1>1
    <3> QED
      BY <3>2, <3>3
  <2> HIDE DEF T
  <2>3. Nat \subseteq T
    BY <2>1, <2>2, AllNaturals
  <2> SUFFICES ASSUME NEW i \in 1 .. Len(ss) PROVE c[i] \in Seq(S)
    OBVIOUS
  <2>4. i - 1 \in Nat /\ (i - 1) + 1 = i /\ i <= Len(ss)
    BY <1>1
  <2> QED
    BY <2>3, <2>4 DEF T
<1>11. c \in [1 .. Len(ss) -> Seq(S)]
  BY <1>7, <1>10 DEF Joins
<1> QED
  BY <1>8, <1>9, <1>11

LEMMA FlattenType ==
  ASSUME NEW S, NEW ss \in Seq(Seq(S))
  PROVE  FlattenSeq(ss) \in Seq(S)
<1>1. CASE Len(ss) = 0
  BY <1>1 DEF FlattenSeq
<1>2. CASE Len(ss) > 0
  <2>1. PICK f \in [1 .. Len(ss) -> Seq(S)] : FlattenSeq(ss) = f[Len(ss)]
    BY <1>2, Flattened
  <2>2. Len(ss) \in 1 .. Len(ss)
    BY <1>2
  <2> QED
    BY <2>1, <2>2
<1> QED
  BY <1>1, <1>2

\* One list more.
LEMMA FlattenAppend ==
  ASSUME NEW S, NEW ss \in Seq(Seq(S)), NEW s \in Seq(S)
  PROVE  FlattenSeq(Append(ss, s)) = FlattenSeq(ss) \o s
<1> DEFINE tt == Append(ss, s)
           n  == Len(ss)
<1>1. /\ tt \in Seq(Seq(S)) /\ Len(tt) = n + 1 /\ n \in Nat /\ tt[n + 1] = s
      /\ \A i \in 1 .. n : tt[i] = ss[i]
  OBVIOUS
<1> HIDE DEF tt
<1>2. PICK g \in [1 .. Len(tt) -> Seq(S)] :
        JoinsTo(g, tt, Len(tt)) /\ FlattenSeq(tt) = g[Len(tt)]
  BY <1>1, Flattened
<1>3. CASE n = 0
  <2>1. FlattenSeq(ss) = <<>>
    BY <1>3 DEF FlattenSeq
  <2>2. FlattenSeq(tt) = s
    BY <1>1, <1>2, <1>3 DEF JoinsTo
  <2>3. <<>> \o s = s
    OBVIOUS
  <2> QED
    BY <2>1, <2>2, <2>3 DEF tt
<1>4. CASE n > 0
  <2>1. PICK f \in [1 .. n -> Seq(S)] : JoinsTo(f, ss, n) /\ FlattenSeq(ss) = f[n]
    BY <1>4, Flattened
  <2> DEFINE T == {k \in Nat : k + 1 <= n => f[k + 1] = g[k + 1]}
  <2>2. 0 \in T
    BY <1>1, <1>2, <1>4, <2>1 DEF JoinsTo
  <2>3. \A k \in Nat : k \in T => k + 1 \in T
    <3> SUFFICES ASSUME NEW k \in Nat, k \in T, (k + 1) + 1 <= n
                 PROVE  f[(k + 1) + 1] = g[(k + 1) + 1]
      OBVIOUS
    <3>0. k + 1 <= n
      BY <1>1
    <3>5. f[k + 1] = g[k + 1]
      BY <3>0
    <3>1. /\ (k + 1) + 1 \in 2 .. n /\ ((k + 1) + 1) - 1 = k + 1
          /\ (k + 1) + 1 \in 2 .. Len(tt) /\ (k + 1) + 1 \in 1 .. n
      BY <1>1
    <3>2. f[(k + 1) + 1] = f[k + 1] \o ss[(k + 1) + 1]
      BY <2>1, <3>1 DEF JoinsTo
    <3>3. g[(k + 1) + 1] = g[k + 1] \o tt[(k + 1) + 1]
      BY <1>2, <3>1 DEF JoinsTo
    <3>4. tt[(k + 1) + 1] = ss[(k + 1) + 1]
      BY <1>1, <3>1
    <3> QED
      BY <3>2, <3>3, <3>4, <3>5
  <2> HIDE DEF T
  <2>4. Nat \subseteq T
    BY <2>2, <2>3, AllNaturals
  <2>5. n - 1 \in Nat /\ (n - 1) + 1 = n /\ n <= n
    BY <1>1, <1>4
  <2>6. f[n] = g[n]
    BY <2>4, <2>5 DEF T
  <2>7. g[n + 1] = g[n] \o tt[n + 1]
    <3>1. n + 1 \in 2 .. Len(tt) /\ (n + 1) - 1 = n
      BY <1>1, <1>4
    <3> QED
      BY <1>2, <3>1 DEF JoinsTo
  <2> QED
    BY <1>1, <1>2, <2>1, <2>6, <2>7 DEF tt
<1> QED
  BY <1>1, <1>3, <1>4

LEMMA Associative ==
  \A S : \A a, b, c \in Seq(S) : (a \o b) \o c = a \o (b \o c)
BY ConcatAssociative

\* Two lists of lists.
LEMMA FlattenConcat ==
  ASSUME NEW S, NEW ss \in Seq(Seq(S)), NEW tt \in Seq(Seq(S))
  PROVE  FlattenSeq(ss \o tt) = FlattenSeq(ss) \o FlattenSeq(tt)
<1> DEFINE part(n) == SubSeq(tt, 1, n)
           holds(n) == FlattenSeq(ss \o part(n)) = FlattenSeq(ss) \o FlattenSeq(part(n))
           T == {n \in Nat : n <= Len(tt) => holds(n)}
<1>1. Len(tt) \in Nat /\ \A i \in 1 .. Len(tt) : tt[i] \in Seq(S)
  OBVIOUS
<1>2. \A n \in 0 .. Len(tt) : part(n) \in Seq(Seq(S))
  BY <1>1
<1>3. holds(0)
  <2>1. part(0) = <<>> /\ ss \o <<>> = ss
    OBVIOUS
  <2>2. FlattenSeq(<<>>) = <<>>
    BY DEF FlattenSeq
  <2>3. FlattenSeq(ss) \in Seq(S)
    BY FlattenType
  <2>4. FlattenSeq(ss) \o <<>> = FlattenSeq(ss)
    BY <2>3
  <2> QED
    BY <2>1, <2>2, <2>4
<1>4. ASSUME NEW n \in Nat, n + 1 <= Len(tt), holds(n)
      PROVE  holds(n + 1)
  <2> DEFINE p == part(n)
             t == tt[n + 1]
  <2>1. p \in Seq(Seq(S)) /\ t \in Seq(S)
    BY <1>1, <1>2, <1>4
  <2>2. part(n + 1) = Append(p, t)
    BY <1>1, <1>4
  <2> HIDE DEF p, t
  <2>3. ss \o Append(p, t) = Append(ss \o p, t) /\ ss \o p \in Seq(Seq(S))
    BY <2>1
  <2>4. FlattenSeq(Append(ss \o p, t)) = FlattenSeq(ss \o p) \o t
    BY <2>1, <2>3, FlattenAppend
  <2>5. FlattenSeq(Append(p, t)) = FlattenSeq(p) \o t
    BY <2>1, FlattenAppend
  <2>6. FlattenSeq(ss) \in Seq(S) /\ FlattenSeq(p) \in Seq(S)
    BY <2>1, FlattenType
  <2>7. (FlattenSeq(ss) \o FlattenSeq(p)) \o t = FlattenSeq(ss) \o (FlattenSeq(p) \o t)
    <3> DEFINE x == FlattenSeq(ss)
               y == FlattenSeq(p)
    <3>1. x \in Seq(S) /\ y \in Seq(S) /\ t \in Seq(S)
      BY <2>1, <2>6
    <3> HIDE DEF x, y
    <3>2. (x \o y) \o t = x \o (y \o t)
      BY <3>1, Associative, SMTT(60)
    <3> QED
      BY <3>2 DEF x, y
  <2>8. FlattenSeq(ss \o p) = FlattenSeq(ss) \o FlattenSeq(p)
    BY <1>4 DEF p
  <2> QED
    BY <2>2, <2>3, <2>4, <2>5, <2>7, <2>8
<1> HIDE DEF holds
<1>5. 0 \in T /\ \A n \in Nat : n \in T => n + 1 \in T
  BY <1>1, <1>3, <1>4
<1> HIDE DEF T
<1>6. Nat \subseteq T
  BY <1>5, AllNaturals
<1>7. holds(Len(tt))
  BY <1>1, <1>6 DEF T
<1>8. SubSeq(tt, 1, Len(tt)) = tt
  BY <1>1
<1> QED
  BY <1>7, <1>8 DEF holds

--------------------------------------------------------------------------------
(* What is said and what is heard *)

Names == STRING \cup {None, "tool_use", "max_tokens", "end_turn"}

Events ==
  [type : {"text", "thinking", "tool_use_start", "tool_input", "tool_use_end", "message_end", "error"},
   id   : Names]

FramesOf(r) == IF r.provider = "anthropic" THEN AnthropicFrames ELSE OpenAIFrames

LEMMA HearsType ==
  ASSUME NEW e \in Events
  PROVE  Hears(e) \in Seq(Events)
BY DEF Hears

LEMMA SaysType ==
  ASSUME NEW r, NEW f \in FramesOf(r)
  PROVE  Says(f) \in Seq(Events)
<1>1. f.id \in STRING
  <2>1. f \in AnthropicFrames => f.id \in STRING
    BY DEF AnthropicFrames
  <2>2. f \in OpenAIFrames => f.id \in STRING
    BY DEF OpenAIFrames
  <2> QED
    BY <2>1, <2>2 DEF FramesOf
<1>2. /\ TextDelta(f.id) \in Events /\ ThinkingDelta(f.id) \in Events
      /\ ToolUseStart(f.id) \in Events
  BY <1>1 DEF TextDelta, ThinkingDelta, ToolUseStart, Events, Names
<1>3. Says(f) = <<>> \/ \E e \in Events : Says(f) = <<e>>
  BY <1>2 DEF Says
<1>4. <<>> \in Seq(Events) /\ \A e \in Events : <<e>> \in Seq(Events)
  OBVIOUS
<1> QED
  BY <1>3, <1>4, Zenon

LEMMA ConcatIs ==
  ASSUME NEW S, NEW x \in Seq(S), NEW y \in Seq(S), NEW z \in Seq(S),
         Len(z) = Len(x) + Len(y),
         \A i \in 1 .. Len(x) : z[i] = x[i],
         \A i \in 1 .. Len(y) : z[Len(x) + i] = y[i]
  PROVE  z = x \o y
<1>1. /\ x \o y \in Seq(S) /\ Len(x \o y) = Len(z)
      /\ \A i \in 1 .. Len(x) + Len(y) :
           (x \o y)[i] = IF i <= Len(x) THEN x[i] ELSE y[i - Len(x)]
  BY ConcatProperties
<1>2. ASSUME NEW i \in 1 .. Len(z)
      PROVE  z[i] = (x \o y)[i]
  <2>1. CASE i <= Len(x)
    BY <1>1, <2>1
  <2>2. CASE i > Len(x)
    <3>1. i - Len(x) \in 1 .. Len(y) /\ Len(x) + (i - Len(x)) = i
      BY <2>2
    <3> QED
      BY <1>1, <2>2, <3>1
  <2> QED
    BY <2>1, <2>2
<1> QED
  BY <1>1, <1>2, SeqEqual

LEMMA HeardOfTwo ==
  ASSUME NEW a \in Seq(Events), NEW b \in Seq(Events)
  PROVE  /\ HeardIn(a) \in Seq(Events)
         /\ HeardIn(a \o b) = HeardIn(a) \o HeardIn(b)
<1> DEFINE hears(s) == [i \in DOMAIN s |-> Hears(s[i])]
<1>1. ASSUME NEW s \in Seq(Events) PROVE hears(s) \in Seq(Seq(Events))
  <2>1. \A i \in 1 .. Len(s) : Hears(s[i]) \in Seq(Events)
    BY HearsType
  <2> QED
    BY <2>1
<1>2. hears(a \o b) = hears(a) \o hears(b)
  <2>1. /\ hears(a) \in Seq(Seq(Events)) /\ hears(b) \in Seq(Seq(Events))
        /\ hears(a \o b) \in Seq(Seq(Events))
    <3>1. a \o b \in Seq(Events)
      OBVIOUS
    <3> QED
      BY <1>1, <3>1
  <2>2. /\ Len(hears(a)) = Len(a) /\ Len(hears(b)) = Len(b) /\ Len(hears(a \o b)) = Len(a) + Len(b)
        /\ \A i \in 1 .. Len(a) : hears(a \o b)[i] = hears(a)[i]
        /\ \A i \in 1 .. Len(b) : hears(a \o b)[Len(a) + i] = hears(b)[i]
    OBVIOUS
  <2> DEFINE x == hears(a)
             y == hears(b)
             z == hears(a \o b)
  <2>3. /\ x \in Seq(Seq(Events)) /\ y \in Seq(Seq(Events)) /\ z \in Seq(Seq(Events))
        /\ Len(z) = Len(x) + Len(y)
        /\ \A i \in 1 .. Len(x) : z[i] = x[i]
        /\ \A i \in 1 .. Len(y) : z[Len(x) + i] = y[i]
    BY <2>1, <2>2
  <2> HIDE DEF x, y, z
  <2>4. z = x \o y
    BY <2>3, ConcatIs
  <2> QED
    BY <2>4 DEF x, y, z
<1>3. HeardIn(a) = FlattenSeq(hears(a)) /\ HeardIn(b) = FlattenSeq(hears(b))
  BY DEF HeardIn
<1>4. HeardIn(a \o b) = FlattenSeq(hears(a \o b))
  BY DEF HeardIn
<1>5. hears(a) \in Seq(Seq(Events)) /\ hears(b) \in Seq(Seq(Events))
  BY <1>1
<1> HIDE DEF hears
<1>6. FlattenSeq(hears(a) \o hears(b)) = FlattenSeq(hears(a)) \o FlattenSeq(hears(b))
  BY <1>5, FlattenConcat
<1>7. FlattenSeq(hears(a)) \in Seq(Events)
  BY <1>5, FlattenType
<1> QED
  BY <1>2, <1>3, <1>4, <1>6, <1>7

LEMMA SpokenOfTwo ==
  ASSUME NEW r, NEW a \in Seq(FramesOf(r)), NEW b \in Seq(FramesOf(r))
  PROVE  /\ SpokenIn(a) \in Seq(Events)
         /\ SpokenIn(a \o b) = SpokenIn(a) \o SpokenIn(b)
<1> DEFINE says(s) == [i \in DOMAIN s |-> Says(s[i])]
<1>1. ASSUME NEW s \in Seq(FramesOf(r)) PROVE says(s) \in Seq(Seq(Events))
  <2>1. \A i \in 1 .. Len(s) : Says(s[i]) \in Seq(Events)
    BY SaysType
  <2> QED
    BY <2>1
<1>2. says(a \o b) = says(a) \o says(b)
  <2>1. /\ says(a) \in Seq(Seq(Events)) /\ says(b) \in Seq(Seq(Events))
        /\ says(a \o b) \in Seq(Seq(Events))
    <3>1. a \o b \in Seq(FramesOf(r))
      OBVIOUS
    <3> QED
      BY <1>1, <3>1
  <2>2. /\ Len(says(a)) = Len(a) /\ Len(says(b)) = Len(b) /\ Len(says(a \o b)) = Len(a) + Len(b)
        /\ \A i \in 1 .. Len(a) : says(a \o b)[i] = says(a)[i]
        /\ \A i \in 1 .. Len(b) : says(a \o b)[Len(a) + i] = says(b)[i]
    OBVIOUS
  <2> DEFINE x == says(a)
             y == says(b)
             z == says(a \o b)
  <2>3. /\ x \in Seq(Seq(Events)) /\ y \in Seq(Seq(Events)) /\ z \in Seq(Seq(Events))
        /\ Len(z) = Len(x) + Len(y)
        /\ \A i \in 1 .. Len(x) : z[i] = x[i]
        /\ \A i \in 1 .. Len(y) : z[Len(x) + i] = y[i]
    BY <2>1, <2>2
  <2> HIDE DEF x, y, z
  <2>4. z = x \o y
    BY <2>3, ConcatIs
  <2> QED
    BY <2>4 DEF x, y, z
<1>3. SpokenIn(a) = FlattenSeq(says(a)) /\ SpokenIn(b) = FlattenSeq(says(b))
  BY DEF SpokenIn
<1>4. SpokenIn(a \o b) = FlattenSeq(says(a \o b))
  BY DEF SpokenIn
<1>5. says(a) \in Seq(Seq(Events)) /\ says(b) \in Seq(Seq(Events))
  BY <1>1
<1> HIDE DEF says
<1>6. FlattenSeq(says(a) \o says(b)) = FlattenSeq(says(a)) \o FlattenSeq(says(b))
  BY <1>5, FlattenConcat
<1>7. FlattenSeq(says(a)) \in Seq(Events)
  BY <1>5, FlattenType
<1> QED
  BY <1>2, <1>3, <1>4, <1>6, <1>7

LEMMA FlattenOne ==
  ASSUME NEW S, NEW s \in Seq(S)
  PROVE  FlattenSeq(<<s>>) = s
<1>1. FlattenSeq(Append(<<>>, s)) = FlattenSeq(<<>>) \o s
  <2>1. <<>> \in Seq(Seq(S))
    OBVIOUS
  <2> QED
    BY <2>1, FlattenAppend
<1>2. FlattenSeq(<<>>) = <<>>
  BY DEF FlattenSeq
<1>3. Append(<<>>, s) = <<s>> /\ <<>> \o s = s
  OBVIOUS
<1> QED
  BY <1>1, <1>2, <1>3

LEMMA HeardOfOne ==
  /\ HeardIn(<<>>) = <<>>
  /\ \A e \in Events : HeardIn(<<e>>) = Hears(e)
<1>1. HeardIn(<<>>) = <<>>
  <2>1. [i \in DOMAIN <<>> |-> Hears(<<>>[i])] = <<>>
    OBVIOUS
  <2>2. FlattenSeq(<<>>) = <<>>
    BY DEF FlattenSeq
  <2> QED
    BY <2>1, <2>2 DEF HeardIn
<1>2. ASSUME NEW e \in Events PROVE HeardIn(<<e>>) = Hears(e)
  <2> DEFINE h == Hears(e)
  <2>1. [i \in DOMAIN <<e>> |-> Hears(<<e>>[i])] = <<h>>
    OBVIOUS
  <2>2. h \in Seq(Events)
    BY HearsType
  <2>3. FlattenSeq(<<h>>) = h
    BY <2>2, FlattenOne
  <2> QED
    BY <2>1, <2>3 DEF HeardIn
<1> QED
  BY <1>1, <1>2

LEMMA SpokenOfOne ==
  /\ SpokenIn(<<>>) = <<>>
  /\ \A r : \A f \in FramesOf(r) : SpokenIn(<<f>>) = Says(f)
<1>1. SpokenIn(<<>>) = <<>>
  <2>1. [i \in DOMAIN <<>> |-> Says(<<>>[i])] = <<>>
    OBVIOUS
  <2>2. FlattenSeq(<<>>) = <<>>
    BY DEF FlattenSeq
  <2> QED
    BY <2>1, <2>2 DEF SpokenIn
<1>2. ASSUME NEW r, NEW f \in FramesOf(r) PROVE SpokenIn(<<f>>) = Says(f)
  <2> DEFINE h == Says(f)
  <2>1. [i \in DOMAIN <<f>> |-> Says(<<f>>[i])] = <<h>>
    OBVIOUS
  <2>2. h \in Seq(Events)
    BY SaysType
  <2>3. FlattenSeq(<<h>>) = h
    BY <2>2, FlattenOne
  <2> QED
    BY <2>1, <2>3 DEF SpokenIn
<1> QED
  BY <1>1, <1>2

\* Events the loop does not hear.
LEMMA Silent ==
  ASSUME NEW s \in Seq(Events), \A i \in DOMAIN s : Hears(s[i]) = <<>>
  PROVE  HeardIn(s) = <<>>
<1> DEFINE T == {n \in Nat : n <= Len(s) => HeardIn(SubSeq(s, 1, n)) = <<>>}
<1>1. 0 \in T
  <2>1. SubSeq(s, 1, 0) = <<>>
    OBVIOUS
  <2> QED
    BY <2>1, HeardOfOne
<1>2. ASSUME NEW n \in Nat, n \in T, n + 1 <= Len(s) PROVE HeardIn(SubSeq(s, 1, n + 1)) = <<>>
  <2>1. SubSeq(s, 1, n + 1) = SubSeq(s, 1, n) \o <<s[n + 1]>>
    BY <1>2
  <2>2. SubSeq(s, 1, n) \in Seq(Events) /\ s[n + 1] \in Events /\ <<s[n + 1]>> \in Seq(Events)
    BY <1>2
  <2>3. HeardIn(SubSeq(s, 1, n)) = <<>> /\ Hears(s[n + 1]) = <<>>
    <3>1. n <= Len(s) /\ n + 1 \in DOMAIN s
      BY <1>2
    <3> QED
      BY <1>2, <3>1
  <2>4. HeardIn(<<s[n + 1]>>) = <<>>
    BY <2>2, <2>3, HeardOfOne
  <2>5. <<>> \o <<>> = <<>>
    OBVIOUS
  <2> DEFINE x == SubSeq(s, 1, n)
             y == <<s[n + 1]>>
  <2>6. x \in Seq(Events) /\ y \in Seq(Events)
    BY <2>2
  <2> HIDE DEF x, y
  <2>7. HeardIn(x \o y) = HeardIn(x) \o HeardIn(y)
    BY <2>6, HeardOfTwo
  <2> QED
    BY <2>1, <2>3, <2>4, <2>5, <2>7 DEF x, y
<1>3. \A n \in Nat : n \in T => n + 1 \in T
  BY <1>2
<1> HIDE DEF T
<1>4. Nat \subseteq T
  BY <1>1, <1>3, AllNaturals
<1>5. Len(s) \in Nat /\ SubSeq(s, 1, Len(s)) = s /\ Len(s) <= Len(s)
  OBVIOUS
<1>6. Len(s) \in T
  BY <1>4, <1>5
<1> QED
  BY <1>5, <1>6 DEF T

--------------------------------------------------------------------------------
(* The tools of a response, in the events that were parsed *)

Is(e, type, id) == e.type = type /\ e.id = id

IsStart(e) == e.type = "tool_use_start"
IsPart(e)  == e.type \in {"tool_input", "tool_use_end"}
IsStop(e)  == e.type = "message_end"

\* live: the tools that are open.  begun: those the body has begun so far.
\* stops: the frames that have ended the message.
Begins(events, begun, stops) ==
  \A i \in DOMAIN events :
    /\ IsStart(events[i]) => events[i].id \in begun
    /\ IsStop(events[i]) => stops # {}

Follows(events) ==
  \A i \in DOMAIN events : IsPart(events[i]) =>
    \E j \in DOMAIN events : j < i /\ Is(events[j], "tool_use_start", events[i].id)

Precedes(events) ==
  \A i, j \in DOMAIN events :
    IsPart(events[i]) /\ Is(events[j], "tool_use_end", events[i].id) => i <= j

Completes(events) ==
  \A i, j \in DOMAIN events : IsStop(events[i]) /\ IsStart(events[j]) =>
    \E k \in DOMAIN events : k < i /\ Is(events[k], "tool_use_end", events[j].id)

Lives(events, live) ==
  /\ \A id \in live :
       /\ \E i \in DOMAIN events : Is(events[i], "tool_use_start", id)
       /\ \A i \in DOMAIN events : ~Is(events[i], "tool_use_end", id)
  /\ \A i \in DOMAIN events : IsStart(events[i]) =>
       \/ events[i].id \in live
       \/ \E k \in DOMAIN events : Is(events[k], "tool_use_end", events[i].id)

Bracketed(events, live, begun, stops) ==
  /\ Begins(events, begun, stops)
  /\ Follows(events)
  /\ Precedes(events)
  /\ Completes(events)
  /\ Lives(events, live)

\* An event that is about no tool.
LEMMA BracketOther ==
  ASSUME NEW es \in Seq(Events), NEW live, NEW begun, NEW stops, NEW e \in Events,
         Bracketed(es, live, begun, stops),
         ~IsStart(e), ~IsPart(e), ~IsStop(e)
  PROVE  Bracketed(Append(es, e), live, begun, stops)
<1> DEFINE n  == Len(es)
           fs == Append(es, e)
<1>1. /\ n \in Nat /\ DOMAIN es = 1 .. n /\ DOMAIN fs = 1 .. n + 1
      /\ fs[n + 1] = e /\ \A i \in 1 .. n : fs[i] = es[i]
  OBVIOUS
<1>2. \A id : ~Is(e, "tool_use_start", id) /\ ~Is(e, "tool_use_end", id)
  BY DEF Is, IsStart, IsPart
<1> HIDE DEF n, fs
<1>3. Begins(fs, begun, stops)
  BY <1>1 DEF Bracketed, Begins
<1>4. Follows(fs)
  BY <1>1 DEF Bracketed, Follows
<1>5. Precedes(fs)
  BY <1>1, <1>2 DEF Bracketed, Precedes
<1>6. Completes(fs)
  BY <1>1 DEF Bracketed, Completes
<1>7. Lives(fs, live)
  BY <1>1, <1>2 DEF Bracketed, Lives
<1> QED
  BY <1>3, <1>4, <1>5, <1>6, <1>7 DEF Bracketed, fs

\* A tool begins, before the message ends.
LEMMA BracketStart ==
  ASSUME NEW es \in Seq(Events), NEW live, NEW begun, NEW id \in Names,
         Bracketed(es, live, begun, {}), id \notin begun
  PROVE  Bracketed(Append(es, ToolUseStart(id)), live \cup {id}, begun \cup {id}, {})
<1> DEFINE n  == Len(es)
           e  == ToolUseStart(id)
           fs == Append(es, e)
<1>1. /\ n \in Nat /\ DOMAIN es = 1 .. n /\ DOMAIN fs = 1 .. n + 1
      /\ fs[n + 1] = e /\ \A i \in 1 .. n : fs[i] = es[i]
  OBVIOUS
<1>2. /\ Is(e, "tool_use_start", id) /\ IsStart(e) /\ ~IsPart(e) /\ ~IsStop(e) /\ e.id = id
      /\ \A x : ~Is(e, "tool_use_end", x)
  BY DEF ToolUseStart, Is, IsStart, IsPart, IsStop
<1> HIDE DEF n, e, fs
<1>3. Begins(fs, begun \cup {id}, {})
  BY <1>1, <1>2 DEF Bracketed, Begins
<1>4. Follows(fs)
  BY <1>1, <1>2 DEF Bracketed, Follows
<1>5. Precedes(fs)
  BY <1>1, <1>2 DEF Bracketed, Precedes
<1>6. Completes(fs)
  BY <1>1, <1>2 DEF Bracketed, Completes, Begins
<1>7. \A i \in DOMAIN es : ~Is(es[i], "tool_use_end", id)
  <2> SUFFICES ASSUME NEW i \in DOMAIN es, Is(es[i], "tool_use_end", id) PROVE FALSE
    OBVIOUS
  <2>1. IsPart(es[i]) /\ es[i].id = id
    BY DEF Is, IsPart
  <2>2. PICK j \in DOMAIN es : Is(es[j], "tool_use_start", id)
    BY <2>1 DEF Bracketed, Follows
  <2> QED
    BY <2>2 DEF Bracketed, Begins, Is, IsStart
<1>8. Lives(fs, live \cup {id})
  BY <1>1, <1>2, <1>7 DEF Bracketed, Lives
<1> QED
  BY <1>3, <1>4, <1>5, <1>6, <1>8 DEF Bracketed, fs, e

\* A part of the input of an open tool.
LEMMA BracketInput ==
  ASSUME NEW es \in Seq(Events), NEW live, NEW begun, NEW stops, NEW id \in live, id \in Names,
         Bracketed(es, live, begun, stops)
  PROVE  Bracketed(Append(es, ToolInputDelta(id)), live, begun, stops)
<1> DEFINE n  == Len(es)
           e  == ToolInputDelta(id)
           fs == Append(es, e)
<1>1. /\ n \in Nat /\ DOMAIN es = 1 .. n /\ DOMAIN fs = 1 .. n + 1
      /\ fs[n + 1] = e /\ \A i \in 1 .. n : fs[i] = es[i]
  OBVIOUS
<1>2. /\ ~IsStart(e) /\ ~IsStop(e) /\ e.id = id
      /\ \A x : ~Is(e, "tool_use_end", x) /\ ~Is(e, "tool_use_start", x)
  BY DEF ToolInputDelta, Is, IsStart, IsStop
<1> HIDE DEF n, e, fs
<1>3. Begins(fs, begun, stops)
  BY <1>1, <1>2 DEF Bracketed, Begins
<1>4. Follows(fs)
  <2>1. \E j \in 1 .. n : Is(es[j], "tool_use_start", id)
    BY <1>1 DEF Bracketed, Lives
  <2> QED
    BY <1>1, <1>2, <2>1 DEF Bracketed, Follows
<1>5. Precedes(fs)
  <2>1. \A j \in 1 .. n : ~Is(es[j], "tool_use_end", id)
    BY <1>1 DEF Bracketed, Lives
  <2> QED
    BY <1>1, <1>2, <2>1 DEF Bracketed, Precedes
<1>6. Completes(fs)
  BY <1>1, <1>2 DEF Bracketed, Completes
<1>7. Lives(fs, live)
  BY <1>1, <1>2 DEF Bracketed, Lives
<1> QED
  BY <1>3, <1>4, <1>5, <1>6, <1>7 DEF Bracketed, fs, e

\* All open tools end, in some order.
EndAll(ends, order, live) ==
  /\ ends \in Seq(Events)
  /\ order \in [1 .. Len(ends) -> live]
  /\ \A i \in 1 .. Len(ends) : ends[i] = ToolUseEnd(order[i])
  /\ \A i, j \in 1 .. Len(ends) : i # j => order[i] # order[j]
  /\ \A id \in live : \E i \in 1 .. Len(ends) : order[i] = id

LEMMA BracketEnds ==
  ASSUME NEW es \in Seq(Events), NEW live, NEW begun, NEW stops, NEW order, NEW ends,
         EndAll(ends, order, live), Bracketed(es, live, begun, stops)
  PROVE  Bracketed(es \o ends, {}, begun, stops)
<1> DEFINE k == Len(ends)
<1>0. /\ ends \in Seq(Events) /\ k \in Nat /\ order \in [1 .. k -> live]
      /\ \A i \in 1 .. k : ends[i] = ToolUseEnd(order[i])
      /\ \A i, j \in 1 .. k : i # j => order[i] # order[j]
      /\ \A id \in live : \E i \in 1 .. k : order[i] = id
  BY DEF EndAll
<1> DEFINE n  == Len(es)
           fs == es \o ends
<1>1. /\ n \in Nat /\ k \in Nat /\ DOMAIN es = 1 .. n /\ DOMAIN fs = 1 .. n + k
      /\ \A i \in 1 .. n : fs[i] = es[i]
      /\ \A i \in n + 1 .. n + k : fs[i] = ToolUseEnd(order[i - n]) /\ i - n \in 1 .. k
  BY <1>0
<1> HIDE DEF n, fs, k
<1>2. \A i \in n + 1 .. n + k :
        /\ Is(fs[i], "tool_use_end", order[i - n]) /\ ~IsStart(fs[i]) /\ ~IsStop(fs[i])
        /\ fs[i].id = order[i - n] /\ order[i - n] \in live
        /\ \A x : ~Is(fs[i], "tool_use_start", x)
  <2> SUFFICES ASSUME NEW i \in n + 1 .. n + k
               PROVE  /\ Is(fs[i], "tool_use_end", order[i - n]) /\ ~IsStart(fs[i]) /\ ~IsStop(fs[i])
                      /\ fs[i].id = order[i - n] /\ order[i - n] \in live
                      /\ \A x : ~Is(fs[i], "tool_use_start", x)
    OBVIOUS
  <2>1. fs[i] = ToolUseEnd(order[i - n]) /\ order[i - n] \in live
    BY <1>0, <1>1
  <2> QED
    BY <2>1 DEF ToolUseEnd, Is, IsStart, IsStop
<1>3. \A i \in 1 .. n + k : i \in 1 .. n \/ i \in n + 1 .. n + k
  BY <1>0, <1>1
<1>4. Begins(fs, begun, stops)
  BY <1>1, <1>2, <1>3 DEF Bracketed, Begins
<1>5. Follows(fs)
  <2>1. \A id \in live : \E j \in 1 .. n : Is(es[j], "tool_use_start", id)
    BY <1>1 DEF Bracketed, Lives
  <2>2. ASSUME NEW i \in n + 1 .. n + k
        PROVE  \E j \in DOMAIN fs : j < i /\ Is(fs[j], "tool_use_start", fs[i].id)
    <3>1. fs[i].id \in live
      BY <1>2
    <3>2. PICK j \in 1 .. n : Is(es[j], "tool_use_start", fs[i].id)
      BY <2>1, <3>1
    <3>3. j \in DOMAIN fs /\ j < i /\ fs[j] = es[j]
      BY <1>1
    <3> QED
      BY <3>2, <3>3
  <2>3. ASSUME NEW i \in 1 .. n, IsPart(fs[i])
        PROVE  \E j \in DOMAIN fs : j < i /\ Is(fs[j], "tool_use_start", fs[i].id)
    BY <1>1, <2>3 DEF Bracketed, Follows
  <2> QED
    BY <1>1, <1>3, <2>2, <2>3 DEF Follows
<1>6. Precedes(fs)
  <2> SUFFICES ASSUME NEW i \in DOMAIN fs, NEW j \in DOMAIN fs, IsPart(fs[i]),
                      Is(fs[j], "tool_use_end", fs[i].id), i > j
               PROVE  FALSE
    BY <1>1 DEF Precedes
  <2>1. CASE i \in 1 .. n
    <3>1. j \in 1 .. n
      BY <1>1, <2>1
    <3> QED
      BY <1>1, <2>1, <3>1 DEF Bracketed, Precedes
  <2>2. CASE i \in n + 1 .. n + k /\ j \in 1 .. n
    BY <1>1, <1>2, <2>2 DEF Bracketed, Lives
  <2>3. CASE i \in n + 1 .. n + k /\ j \in n + 1 .. n + k
    <3>1. order[i - n] = order[j - n]
      BY <1>2, <2>3 DEF Is
    <3>2. i - n \in 1 .. k /\ j - n \in 1 .. k /\ i - n # j - n
      BY <1>1, <2>3
    <3> QED
      BY <1>0, <3>1, <3>2
  <2> QED
    BY <1>1, <1>3, <2>1, <2>2, <2>3
<1>7. Completes(fs)
  <2> SUFFICES ASSUME NEW i \in DOMAIN fs, NEW j \in DOMAIN fs, IsStop(fs[i]), IsStart(fs[j])
               PROVE  \E l \in DOMAIN fs : l < i /\ Is(fs[l], "tool_use_end", fs[j].id)
    BY DEF Completes
  <2>1. i \in 1 .. n /\ j \in 1 .. n
    BY <1>1, <1>2, <1>3
  <2>2. \E l \in 1 .. n : l < i /\ Is(es[l], "tool_use_end", es[j].id)
    BY <1>1, <2>1 DEF Bracketed, Completes
  <2> QED
    BY <1>1, <2>1, <2>2
<1>8. Lives(fs, {})
  <2> SUFFICES ASSUME NEW i \in DOMAIN fs, IsStart(fs[i])
               PROVE  \E l \in DOMAIN fs : Is(fs[l], "tool_use_end", fs[i].id)
    BY DEF Lives
  <2>1. i \in 1 .. n /\ fs[i] = es[i] /\ IsStart(es[i])
    BY <1>1, <1>2, <1>3
  <2>2. CASE es[i].id \in live
    <3>1. PICK l \in 1 .. k : order[l] = es[i].id
      BY <1>0, <2>2
    <3>2. n + l \in n + 1 .. n + k /\ (n + l) - n = l
      BY <1>0, <1>1
    <3>3. Is(fs[n + l], "tool_use_end", order[l])
      BY <1>2, <3>2
    <3>4. n + l \in DOMAIN fs /\ order[l] = fs[i].id
      BY <1>1, <2>1, <3>1
    <3> QED
      BY <3>3, <3>4
  <2>3. CASE \E l \in DOMAIN es : Is(es[l], "tool_use_end", es[i].id)
    BY <1>1, <2>1, <2>3
  <2> QED
    BY <1>1, <2>1, <2>2, <2>3 DEF Bracketed, Lives
<1> QED
  BY <1>4, <1>5, <1>6, <1>7, <1>8 DEF Bracketed, fs

\* The message ends, with no open tool.
LEMMA BracketStop ==
  ASSUME NEW es \in Seq(Events), NEW begun, NEW stops, NEW after, NEW stop \in Names,
         Bracketed(es, {}, begun, stops), after # {}
  PROVE  Bracketed(Append(es, MessageEnd(stop)), {}, begun, after)
<1> DEFINE n  == Len(es)
           e  == MessageEnd(stop)
           fs == Append(es, e)
<1>1. /\ n \in Nat /\ DOMAIN es = 1 .. n /\ DOMAIN fs = 1 .. n + 1
      /\ fs[n + 1] = e /\ \A i \in 1 .. n : fs[i] = es[i]
  OBVIOUS
<1>2. /\ ~IsStart(e) /\ ~IsPart(e)
      /\ \A x : ~Is(e, "tool_use_end", x) /\ ~Is(e, "tool_use_start", x)
  BY DEF MessageEnd, Is, IsStart, IsPart
<1> HIDE DEF n, e, fs
<1>3. Begins(fs, begun, after)
  BY <1>1, <1>2 DEF Bracketed, Begins
<1>4. Follows(fs)
  BY <1>1, <1>2 DEF Bracketed, Follows
<1>5. Precedes(fs)
  BY <1>1, <1>2 DEF Bracketed, Precedes
<1>6. Completes(fs)
  <2> SUFFICES ASSUME NEW i \in DOMAIN fs, NEW j \in DOMAIN fs, IsStop(fs[i]), IsStart(fs[j])
               PROVE  \E l \in DOMAIN fs : l < i /\ Is(fs[l], "tool_use_end", fs[j].id)
    BY DEF Completes
  <2>1. j \in 1 .. n /\ fs[j] = es[j]
    BY <1>1, <1>2
  <2>2. CASE i \in 1 .. n
    BY <1>1, <2>1, <2>2 DEF Bracketed, Completes
  <2>3. CASE i = n + 1
    <3>1. \E l \in 1 .. n : Is(es[l], "tool_use_end", es[j].id)
      BY <1>1, <2>1 DEF Bracketed, Lives
    <3> QED
      BY <1>1, <2>1, <2>3, <3>1
  <2> QED
    BY <1>1, <2>2, <2>3
<1>7. Lives(fs, {})
  BY <1>1, <1>2 DEF Bracketed, Lives
<1> QED
  BY <1>3, <1>4, <1>5, <1>6, <1>7 DEF Bracketed, fs, e

--------------------------------------------------------------------------------
(* The parsers *)

CallMaps == UNION {[D -> Names] : D \in {D \in SUBSET Nat : IsFiniteSet(D)}}

Parsers ==
  [done : BOOLEAN, block : {None, "text", "thinking", "tool_use"}, tool : Names, calls : CallMaps]

\* What of the first n frames the events can tell.
BegunBy(fs, n)    == {fs[k].id : k \in {k \in 1 .. n : Opens(fs[k])}}
FinishedBy(fs, n) == {k \in 1 .. n : Finishes(fs[k])}

LEMMA FrameBegins ==
  ASSUME NEW fs, NEW n \in Nat
  PROVE  BegunBy(fs, n + 1) = BegunBy(fs, n) \cup (IF Opens(fs[n + 1]) THEN {fs[n + 1].id} ELSE {})
<1>1. 1 .. n + 1 = (1 .. n) \cup {n + 1}
  OBVIOUS
<1> QED
  BY <1>1 DEF BegunBy

LEMMA FrameFinishes ==
  ASSUME NEW fs, NEW n \in Nat
  PROVE  /\ ~Finishes(fs[n + 1]) => FinishedBy(fs, n + 1) = FinishedBy(fs, n)
         /\ Finishes(fs[n + 1]) => FinishedBy(fs, n + 1) # {}
BY DEF FinishedBy

LEMMA FrameIsPlain ==
  ASSUME NEW fs, NEW n \in Nat
  PROVE  /\ ~Opens(fs[n + 1]) => BegunBy(fs, n + 1) = BegunBy(fs, n)
         /\ ~Finishes(fs[n + 1]) => FinishedBy(fs, n + 1) = FinishedBy(fs, n)
         /\ Finishes(fs[n + 1]) => FinishedBy(fs, n + 1) # {}
<1>1. ~Opens(fs[n + 1]) => BegunBy(fs, n + 1) = BegunBy(fs, n) \cup {}
  BY FrameBegins
<1> QED
  BY <1>1, FrameFinishes

\* A tool begins in a frame only once, and before the message ends.
LEMMA FrameIsNew ==
  ASSUME NEW S, NEW fs \in Seq(S), WellOrdered(fs), NEW n \in Nat, n + 1 \in DOMAIN fs,
         Opens(fs[n + 1])
  PROVE  fs[n + 1].id \notin BegunBy(fs, n) /\ FinishedBy(fs, n) = {}
<1>1. \A k \in 1 .. n : k \in DOMAIN fs /\ k # n + 1 /\ ~(n + 1 < k)
  OBVIOUS
<1>2. \A k \in 1 .. n : Opens(fs[k]) => fs[k].id # fs[n + 1].id
  BY <1>1 DEF WellOrdered
<1>3. \A k \in 1 .. n : ~Finishes(fs[k])
  BY <1>1 DEF WellOrdered
<1> QED
  BY <1>2, <1>3 DEF BegunBy, FinishedBy

\* Anthropic: the parser has a tool open exactly while its block is.
AnthropicLive(p) == IF p.block = "tool_use" THEN {p.tool} ELSE {}

AnthropicLinked(p, fs, n) ==
  /\ \A i \in 1 .. n : Opens(fs[i]) /\ ~Stopped(fs, i, n + 1) =>
       p.block = "tool_use" /\ p.tool = fs[i].id
  /\ p.block = "tool_use" => \E i \in 1 .. n : Opens(fs[i]) /\ ~Stopped(fs, i, n + 1)

AnthropicFits(p, fs, n, events) ==
  /\ Bracketed(events, AnthropicLive(p), BegunBy(fs, n), FinishedBy(fs, n))
  /\ AnthropicLinked(p, fs, n)

LEMMA StoppedNext ==
  ASSUME NEW fs, NEW n \in Nat
  PROVE  /\ \A i \in 1 .. n : Stopped(fs, i, (n + 1) + 1) <=>
              Stopped(fs, i, n + 1) \/ fs[n + 1].event = "content_block_stop"
         /\ ~Stopped(fs, n + 1, (n + 1) + 1)
<1>1. \A i \in 1 .. n : i + 1 .. ((n + 1) + 1) - 1 = (i + 1 .. (n + 1) - 1) \cup {n + 1}
  OBVIOUS
<1>2. (n + 1) + 1 .. ((n + 1) + 1) - 1 = {}
  OBVIOUS
<1> QED
  BY <1>1, <1>2 DEF Stopped

\* A frame that neither opens a tool nor stops a block.
LEMMA AnthropicStays ==
  ASSUME NEW fs, NEW n \in Nat, NEW p, NEW q,
         ~Opens(fs[n + 1]), fs[n + 1].event # "content_block_stop",
         p.block = "tool_use" <=> q.block = "tool_use",
         p.block = "tool_use" => p.tool = q.tool,
         AnthropicLinked(p, fs, n)
  PROVE  AnthropicLinked(q, fs, n + 1)
<1>1. \A i \in 1 .. n + 1 : Opens(fs[i]) => i \in 1 .. n
  OBVIOUS
<1>2. \A i \in 1 .. n : Stopped(fs, i, (n + 1) + 1) <=> Stopped(fs, i, n + 1)
  BY StoppedNext
<1>3. \A i \in 1 .. n : i \in 1 .. n + 1
  OBVIOUS
<1> QED
  BY <1>1, <1>2, <1>3 DEF AnthropicLinked

\* What a step of a parser does, whichever the provider.
Tells(r, p, f) ==
  /\ r.parser \in Parsers
  /\ r.events \in Seq(Events)
  /\ HeardIn(r.events) = Says(f)
  /\ r.parser.done => p.done \/ IsTerminal(f)

LEMMA AnthropicTells ==
  ASSUME NEW p \in Parsers, NEW f \in AnthropicFrames
  PROVE  Tells(Anthropic(p, f), p, f)
<1> DEFINE r == Anthropic(p, f)
<1>1. /\ f.id \in STRING /\ f.id \in Names /\ p.tool \in Names
      /\ f.event # "chunk"
  BY DEF AnthropicFrames, Names, Parsers
<1>2. r.parser \in Parsers
  <2>1. ContentBlockStart(p, f).parser \in Parsers
    BY <1>1 DEF ContentBlockStart, Parsed, Parsers
  <2>2. ContentBlockDelta(p, f).parser \in Parsers
    BY DEF ContentBlockDelta, Parsed
  <2>3. ContentBlockStop(p).parser \in Parsers
    BY DEF ContentBlockStop, Parsed, Parsers, Names
  <2>4. [p EXCEPT !.done = TRUE] \in Parsers
    BY DEF Parsers
  <2> QED
    BY <2>1, <2>2, <2>3, <2>4 DEF Anthropic, Parsed
<1>3. r.parser.done => p.done \/ IsTerminal(f)
  <2>1. /\ ContentBlockStart(p, f).parser.done = p.done
        /\ ContentBlockDelta(p, f).parser.done = p.done
        /\ ContentBlockStop(p).parser.done = p.done
    BY DEF ContentBlockStart, ContentBlockDelta, ContentBlockStop, Parsed, Parsers
  <2> QED
    BY <2>1 DEF Anthropic, Parsed, IsTerminal
<1>4. \/ r.events = <<>> /\ Says(f) = <<>>
      \/ \E e \in Events : r.events = <<e>> /\ Says(f) = Hears(e)
  <2>1. /\ TextDelta(f.id) \in Events /\ ThinkingDelta(f.id) \in Events /\ ToolUseStart(f.id) \in Events
        /\ ToolInputDelta(p.tool) \in Events /\ ToolUseEnd(p.tool) \in Events
        /\ MessageEnd(StopReason(f.id)) \in Events /\ StreamError \in Events
    <3>1. StopReason(f.id) \in Names
      BY DEF StopReason, Names
    <3>2. None \in Names
      BY DEF Names
    <3> QED
      BY <1>1, <3>1, <3>2
      DEF TextDelta, ThinkingDelta, ToolUseStart, ToolInputDelta, ToolUseEnd, MessageEnd, StreamError, Events
  <2>2. /\ Hears(TextDelta(f.id)) = <<TextDelta(f.id)>>
        /\ Hears(ThinkingDelta(f.id)) = <<ThinkingDelta(f.id)>>
        /\ Hears(ToolUseStart(f.id)) = <<ToolUseStart(f.id)>>
        /\ Hears(ToolInputDelta(p.tool)) = <<>> /\ Hears(ToolUseEnd(p.tool)) = <<>>
        /\ Hears(MessageEnd(StopReason(f.id))) = <<>> /\ Hears(StreamError) = <<>>
    BY DEF Hears, TextDelta, ThinkingDelta, ToolUseStart, ToolInputDelta, ToolUseEnd, MessageEnd,
           StreamError
  <2>3. CASE f.event = "content_block_start"
    <3>1. r.events = IF f.kind = "tool_use" THEN <<ToolUseStart(f.id)>> ELSE <<>>
      BY <2>3 DEF Anthropic, ContentBlockStart, Parsed
    <3>2. Says(f) = IF f.kind = "tool_use" THEN <<ToolUseStart(f.id)>> ELSE <<>>
      BY <2>3 DEF Says, Opens
    <3> QED
      BY <2>1, <2>2, <3>1, <3>2
  <2>4. CASE f.event = "content_block_delta"
    <3>1. r.events = CASE f.kind = "text_delta"       -> <<TextDelta(f.id)>>
                       [] f.kind = "thinking_delta"   -> <<ThinkingDelta(f.id)>>
                       [] f.kind = "input_json_delta" -> <<ToolInputDelta(p.tool)>>
                       [] OTHER                       -> <<>>
      BY <2>4 DEF Anthropic, ContentBlockDelta, Parsed
    <3>2. Says(f) = CASE f.kind = "text_delta"     -> <<TextDelta(f.id)>>
                      [] f.kind = "thinking_delta" -> <<ThinkingDelta(f.id)>>
                      [] OTHER                     -> <<>>
      BY <2>4 DEF Says, Opens
    <3>3. CASE f.kind = "text_delta"
      BY <2>1, <2>2, <3>1, <3>2, <3>3
    <3>4. CASE f.kind = "thinking_delta"
      BY <2>1, <2>2, <3>1, <3>2, <3>4
    <3>5. CASE f.kind = "input_json_delta"
      BY <2>1, <2>2, <3>1, <3>2, <3>5
    <3>6. CASE f.kind \notin {"text_delta", "thinking_delta", "input_json_delta"}
      BY <3>1, <3>2, <3>6
    <3> QED
      BY <3>3, <3>4, <3>5, <3>6
  <2>5. CASE f.event \notin {"content_block_start", "content_block_delta"}
    <3>1. Says(f) = <<>>
      BY <1>1, <2>5 DEF Says, Opens
    <3>2. r.events \in {<<>>, <<ToolUseEnd(p.tool)>>, <<MessageEnd(StopReason(f.id))>>, <<StreamError>>}
      BY <2>5 DEF Anthropic, ContentBlockStop, Parsed
    <3> QED
      BY <2>1, <2>2, <3>1, <3>2
  <2> QED
    BY <2>3, <2>4, <2>5
<1>5. r.events \in Seq(Events) /\ HeardIn(r.events) = Says(f)
  <2>1. CASE r.events = <<>> /\ Says(f) = <<>>
    <3>1. <<>> \in Seq(Events)
      OBVIOUS
    <3> QED
      BY <2>1, <3>1, HeardOfOne
  <2>2. ASSUME NEW e \in Events, r.events = <<e>> /\ Says(f) = Hears(e)
        PROVE  r.events \in Seq(Events) /\ HeardIn(r.events) = Says(f)
    <3>1. <<e>> \in Seq(Events)
      OBVIOUS
    <3> QED
      BY <2>2, <3>1, HeardOfOne
  <2> QED
    BY <1>4, <2>1, <2>2
<1> QED
  BY <1>2, <1>3, <1>5 DEF Tells

LEMMA AnthropicStep ==
  ASSUME NEW fs \in Seq(AnthropicFrames), WellOrdered(fs), InBlocks(fs),
         NEW n \in Nat, n + 1 \in DOMAIN fs, NEW p \in Parsers, NEW es \in Seq(Events),
         AnthropicFits(p, fs, n, es)
  PROVE  LET r == Anthropic(p, fs[n + 1])
         IN AnthropicFits(r.parser, fs, n + 1, es \o r.events)
<1> DEFINE f == fs[n + 1]
           r == Anthropic(p, f)
           live == AnthropicLive(p)
           begun == BegunBy(fs, n)
           stops == FinishedBy(fs, n)
<1>1. f \in AnthropicFrames /\ f.id \in Names /\ p.tool \in Names
  <2>1. f \in AnthropicFrames
    OBVIOUS
  <2>2. f.id \in STRING
    BY <2>1 DEF AnthropicFrames
  <2> QED
    BY <2>1, <2>2 DEF Names, Parsers
<1>2. /\ Opens(f) <=> f.event = "content_block_start" /\ f.kind = "tool_use"
      /\ Finishes(f) <=> f.event = "message_delta"
  BY <1>1 DEF AnthropicFrames, Opens, Finishes
<1>3. Bracketed(es, live, begun, stops) /\ AnthropicLinked(p, fs, n)
  BY DEF AnthropicFits
<1>4. f.event \in {"content_block_start", "message_delta"} => p.block # "tool_use"
  <2> SUFFICES ASSUME f.event \in {"content_block_start", "message_delta"}, p.block = "tool_use"
               PROVE  FALSE
    OBVIOUS
  <2>1. PICK i \in 1 .. n : Opens(fs[i]) /\ ~Stopped(fs, i, n + 1)
    BY <1>3 DEF AnthropicLinked
  <2>2. i \in 1 .. (n + 1) - 1
    BY <2>1
  <2> QED
    BY <2>1, <2>2 DEF InBlocks
<1>5. ASSUME ~Opens(f), ~Finishes(f), f.event # "content_block_stop",
             r.parser.block = p.block \/ (p.block # "tool_use" /\ r.parser.block # "tool_use"),
             r.parser.tool = p.tool,
             Bracketed(es \o r.events, live, begun, stops)
      PROVE  AnthropicFits(r.parser, fs, n + 1, es \o r.events)
  <2>1. BegunBy(fs, n + 1) = begun /\ FinishedBy(fs, n + 1) = stops
    BY <1>5, FrameIsPlain
  <2>2. AnthropicLive(r.parser) = live
    BY <1>5 DEF AnthropicLive
  <2>3. AnthropicLinked(r.parser, fs, n + 1)
    BY <1>3, <1>5, AnthropicStays
  <2> HIDE DEF begun, stops, live, r
  <2> QED
    BY <1>5, <2>1, <2>2, <2>3 DEF AnthropicFits
<1>6. es \o <<>> = es /\ \A e \in Events : es \o <<e>> = Append(es, e)
  OBVIOUS
<1>7. CASE Opens(f)
  <2>1. r.events = <<ToolUseStart(f.id)>> /\ r.parser = [p EXCEPT !.block = "tool_use", !.tool = f.id]
    BY <1>2, <1>7 DEF Anthropic, ContentBlockStart, Parsed
  <2>2. live = {}
    BY <1>2, <1>4, <1>7 DEF AnthropicLive
  <2>3. f.id \notin begun /\ stops = {}
    BY <1>7, FrameIsNew
  <2>4. Bracketed(es, live, begun, {})
    BY <1>3, <2>3
  <2>5. Bracketed(Append(es, ToolUseStart(f.id)), live \cup {f.id}, begun \cup {f.id}, {})
    <3> HIDE DEF f, live, begun, stops
    <3> QED
      BY <1>1, <2>3, <2>4, BracketStart
  <2>6. BegunBy(fs, n + 1) = begun \cup {f.id} /\ FinishedBy(fs, n + 1) = {}
    BY <1>2, <1>7, <2>3, FrameBegins, FrameFinishes
  <2>7. AnthropicLive(r.parser) = live \cup {f.id}
    BY <2>1, <2>2 DEF AnthropicLive, Parsers
  <2>8. ToolUseStart(f.id) \in Events
    BY <1>1 DEF ToolUseStart, Events
  <2>9. AnthropicLinked(r.parser, fs, n + 1)
    <3>1. r.parser.block = "tool_use" /\ r.parser.tool = f.id
      BY <2>1 DEF Parsers
    <3>2. \A i \in 1 .. n : Opens(fs[i]) => Stopped(fs, i, n + 1)
      <4>1. \A i \in 1 .. n : i \in 1 .. (n + 1) - 1
        OBVIOUS
      <4> QED
        BY <1>2, <1>7, <4>1 DEF InBlocks
    <3>3. \A i \in 1 .. n : Opens(fs[i]) => Stopped(fs, i, (n + 1) + 1)
      BY <3>2, StoppedNext
    <3>4. ~Stopped(fs, n + 1, (n + 1) + 1)
      BY StoppedNext
    <3>5. \A i \in 1 .. n + 1 : i \in 1 .. n \/ i = n + 1
      OBVIOUS
    <3>6. n + 1 \in 1 .. n + 1
      OBVIOUS
    <3> QED
      BY <1>7, <3>1, <3>3, <3>4, <3>5, <3>6 DEF AnthropicLinked
  <2>10. es \o r.events = Append(es, ToolUseStart(f.id))
    BY <1>6, <2>1, <2>8
  <2> HIDE DEF f, r, live, begun, stops
  <2>11. Bracketed(es \o r.events, AnthropicLive(r.parser), BegunBy(fs, n + 1), FinishedBy(fs, n + 1))
    BY <2>5, <2>6, <2>7, <2>10
  <2> QED
    BY <2>9, <2>11 DEF AnthropicFits, r, f
<1>8. CASE f.event = "content_block_start" /\ ~Opens(f)
  <2>1. /\ r.events = <<>> /\ r.parser.tool = p.tool
        /\ r.parser.block = p.block \/ r.parser.block \in {"text", "thinking"}
    BY <1>2, <1>8 DEF Anthropic, ContentBlockStart, Parsed, Parsers
  <2>2. p.block # "tool_use"
    BY <1>4, <1>8
  <2>3. es \o r.events = es
    BY <1>6, <2>1
  <2>4. ~Finishes(f) /\ f.event # "content_block_stop"
    BY <1>2, <1>8
  <2> HIDE DEF f, r, live, begun, stops
  <2> QED
    BY <1>3, <1>5, <1>8, <2>1, <2>2, <2>3, <2>4 DEF f, r
<1>9. CASE f.event = "content_block_delta"
  <2>1. r.parser = p
    BY <1>9 DEF Anthropic, ContentBlockDelta, Parsed
  <2>2. Bracketed(es \o r.events, live, begun, stops)
    <3>1. CASE f.kind \in {"text_delta", "thinking_delta"}
      <4>1. PICK e \in {TextDelta(f.id), ThinkingDelta(f.id)} : r.events = <<e>>
        BY <1>9, <3>1 DEF Anthropic, ContentBlockDelta, Parsed
      <4>2. e \in Events /\ ~IsStart(e) /\ ~IsPart(e) /\ ~IsStop(e)
        BY <1>1 DEF TextDelta, ThinkingDelta, Events, IsStart, IsPart, IsStop
      <4>3. es \o r.events = Append(es, e)
        BY <1>6, <4>1, <4>2
      <4> HIDE DEF r, f, live, begun, stops
      <4> QED
        BY <1>3, <4>2, <4>3, BracketOther
    <3>2. CASE f.kind = "input_json_delta"
      <4>1. r.events = <<ToolInputDelta(p.tool)>> /\ ToolInputDelta(p.tool) \in Events
        BY <1>1, <1>9, <3>2 DEF Anthropic, ContentBlockDelta, Parsed, ToolInputDelta, Events
      <4>2. PICK i \in 1 .. (n + 1) - 1 : Opens(fs[i]) /\ ~Stopped(fs, i, n + 1)
        BY <1>9, <3>2 DEF InBlocks
      <4>3. i \in 1 .. n
        OBVIOUS
      <4>4. p.block = "tool_use"
        BY <1>3, <4>2, <4>3 DEF AnthropicLinked
      <4>5. p.tool \in live
        BY <4>4 DEF AnthropicLive
      <4>6. es \o r.events = Append(es, ToolInputDelta(p.tool))
        BY <1>6, <4>1
      <4> HIDE DEF r, f, live, begun, stops
      <4> QED
        BY <1>1, <1>3, <4>5, <4>6, BracketInput
    <3>3. CASE f.kind \notin {"text_delta", "thinking_delta", "input_json_delta"}
      <4>1. r.events = <<>>
        BY <1>9, <3>3 DEF Anthropic, ContentBlockDelta, Parsed
      <4>2. es \o r.events = es
        BY <1>6, <4>1
      <4> HIDE DEF r
      <4> QED
        BY <1>3, <4>2
    <3> QED
      BY <3>1, <3>2, <3>3
  <2>3. ~Opens(f) /\ ~Finishes(f) /\ f.event # "content_block_stop"
    BY <1>2, <1>9
  <2> HIDE DEF f, r, live, begun, stops
  <2> QED
    BY <1>5, <2>1, <2>2, <2>3 DEF f, r
<1>10. CASE f.event = "content_block_stop"
  <2>1. ~Opens(f) /\ ~Finishes(f)
    BY <1>2, <1>10
  <2>2. BegunBy(fs, n + 1) = begun /\ FinishedBy(fs, n + 1) = stops
    BY <2>1, FrameIsPlain
  <2>3. r.parser.block = None /\ AnthropicLive(r.parser) = {}
    BY <1>10 DEF Anthropic, ContentBlockStop, Parsed, Parsers, AnthropicLive, None
  <2>4. AnthropicLinked(r.parser, fs, n + 1)
    <3>1. \A i \in 1 .. n : Stopped(fs, i, (n + 1) + 1)
      BY <1>10, StoppedNext
    <3>2. \A i \in 1 .. n + 1 : Opens(fs[i]) => i \in 1 .. n
      BY <2>1
    <3>3. r.parser.block # "tool_use"
      BY <2>3 DEF None
    <3> HIDE DEF r
    <3> QED
      BY <3>1, <3>2, <3>3 DEF AnthropicLinked
  <2>5. Bracketed(es \o r.events, {}, begun, stops)
    <3>1. CASE p.block = "tool_use"
      <4> DEFINE ends == <<ToolUseEnd(p.tool)>>
                 order == [i \in 1 .. 1 |-> p.tool]
      <4>1. r.events = ends
        BY <1>10, <3>1 DEF Anthropic, ContentBlockStop, Parsed
      <4>2. live = {p.tool}
        BY <3>1 DEF AnthropicLive
      <4>3. ToolUseEnd(p.tool) \in Events
        BY <1>1 DEF ToolUseEnd, Events
      <4>4. EndAll(ends, order, live)
        <5>1. ends \in Seq(Events) /\ Len(ends) = 1 /\ 1 .. Len(ends) = {1} /\ ends[1] = ToolUseEnd(p.tool)
          BY <4>3
        <5>2. order = [i \in {1} |-> p.tool]
          OBVIOUS
        <5> QED
          BY <4>2, <5>1, <5>2 DEF EndAll
      <4> HIDE DEF r, f, live, begun, stops, ends, order
      <4>5. Bracketed(es \o ends, {}, begun, stops)
        BY <1>3, <4>4, BracketEnds
      <4> QED
        BY <4>1, <4>5
    <3>2. CASE p.block # "tool_use"
      <4>1. r.events = <<>>
        BY <1>10, <3>2 DEF Anthropic, ContentBlockStop, Parsed
      <4>2. live = {}
        BY <3>2 DEF AnthropicLive
      <4>3. es \o r.events = es
        BY <1>6, <4>1
      <4> HIDE DEF r, live, begun, stops
      <4> QED
        BY <1>3, <4>2, <4>3
    <3> QED
      BY <3>1, <3>2
  <2> HIDE DEF f, r, live, begun, stops
  <2> QED
    BY <2>2, <2>3, <2>4, <2>5 DEF AnthropicFits, f, r
<1>11. CASE f.event = "message_delta"
  <2>1. r.parser = p /\ r.events = <<MessageEnd(StopReason(f.id))>>
    BY <1>11 DEF Anthropic, Parsed
  <2>2. StopReason(f.id) \in Names /\ MessageEnd(StopReason(f.id)) \in Events
    BY DEF StopReason, Names, MessageEnd, Events
  <2>3. live = {}
    BY <1>4, <1>11 DEF AnthropicLive
  <2>4. ~Opens(f) /\ Finishes(f) /\ f.event # "content_block_stop"
    BY <1>2, <1>11
  <2>5. BegunBy(fs, n + 1) = begun /\ FinishedBy(fs, n + 1) # {}
    BY <2>4, FrameIsPlain
  <2>6. AnthropicLinked(p, fs, n + 1)
    BY <1>3, <2>4, AnthropicStays
  <2>7. es \o r.events = Append(es, MessageEnd(StopReason(f.id)))
    BY <1>6, <2>1, <2>2
  <2> HIDE DEF begun, stops, live, f, r
  <2>8. Bracketed(Append(es, MessageEnd(StopReason(f.id))), {}, begun, FinishedBy(fs, n + 1))
    BY <1>3, <2>2, <2>3, <2>5, BracketStop
  <2> QED
    BY <2>1, <2>3, <2>5, <2>6, <2>7, <2>8 DEF AnthropicFits, live, f, r
<1>12. CASE f.event \in {"message_stop", "error", "comment", "message_start"}
  <2>1. /\ r.parser.block = p.block /\ r.parser.tool = p.tool
        /\ r.events = <<>> \/ r.events = <<StreamError>>
    BY <1>12 DEF Anthropic, Parsed, Parsers
  <2>2. Bracketed(es \o r.events, live, begun, stops)
    <3>1. StreamError \in Events /\ ~IsStart(StreamError) /\ ~IsPart(StreamError) /\ ~IsStop(StreamError)
      BY DEF StreamError, Events, Names, IsStart, IsPart, IsStop
    <3>2. es \o r.events = es \/ es \o r.events = Append(es, StreamError)
      BY <1>6, <2>1, <3>1
    <3> HIDE DEF r, live, begun, stops
    <3> QED
      BY <1>3, <3>1, <3>2, BracketOther
  <2>3. ~Opens(f) /\ ~Finishes(f) /\ f.event # "content_block_stop"
    BY <1>2, <1>12
  <2> HIDE DEF f, r, live, begun, stops
  <2> QED
    BY <1>5, <2>1, <2>2, <2>3 DEF f, r
<1>13. f.event \in {"content_block_start", "content_block_delta", "content_block_stop",
                    "message_delta", "message_stop", "error", "comment", "message_start"}
  BY <1>1 DEF AnthropicFrames
<1>14. \/ Opens(f)
       \/ f.event = "content_block_start" /\ ~Opens(f)
       \/ f.event = "content_block_delta" \/ f.event = "content_block_stop"
       \/ f.event = "message_delta"
       \/ f.event \in {"message_stop", "error", "comment", "message_start"}
  <2> HIDE DEF f
  <2> QED
    BY <1>13
<1> HIDE DEF f
<1> QED
  BY <1>7, <1>8, <1>9, <1>10, <1>11, <1>12, <1>14

\* OpenAI: the parser knows the tools that the body has begun, by their index.
OpenAILive(p) == {p.calls[x] : x \in DOMAIN p.calls}

OpenAILinked(p, fs, n) ==
  \A x \in DOMAIN p.calls :
    \E i \in 1 .. n : Opens(fs[i]) /\ fs[i].index = x /\ fs[i].id = p.calls[x]

OpenAIFits(p, fs, n, events) ==
  /\ Bracketed(events, OpenAILive(p), BegunBy(fs, n), FinishedBy(fs, n))
  /\ OpenAILinked(p, fs, n)

LEMMA CallMapsType ==
  ASSUME NEW c \in CallMaps
  PROVE  /\ c \in [DOMAIN c -> Names] /\ DOMAIN c \subseteq Nat /\ IsFiniteSet(DOMAIN c)
BY DEF CallMaps

LEMMA NoCalls ==
  <<>> \in CallMaps /\ DOMAIN <<>> = {}
<1>1. DOMAIN <<>> = {} /\ <<>> \in [{} -> Names]
  OBVIOUS
<1>2. {} \in SUBSET Nat /\ IsFiniteSet({})
  BY FS_EmptySet
<1> QED
  BY <1>1, <1>2 DEF CallMaps

LEMMA InsertedType ==
  ASSUME NEW c \in CallMaps, NEW x \in Nat, NEW id \in Names
  PROVE  Inserted(c, x, id) \in CallMaps
<1> DEFINE D == DOMAIN c \cup {x}
<1>1. c \in [DOMAIN c -> Names] /\ DOMAIN c \subseteq Nat /\ IsFiniteSet(DOMAIN c)
  BY CallMapsType
<1>2. IsFiniteSet(D)
  BY <1>1, FS_AddElement
<1>3. Inserted(c, x, id) \in [D -> Names]
  BY <1>1 DEF Inserted
<1>4. D \in SUBSET Nat
  BY <1>1
<1> HIDE DEF D
<1> QED
  BY <1>2, <1>3, <1>4 DEF CallMaps

\* An enumeration of a finite set misses none of it.
LEMMA Enumerates ==
  ASSUME NEW D, IsFiniteSet(D), NEW order \in SetToSeqs(D)
  PROVE  /\ Cardinality(D) \in Nat
         /\ order \in [1 .. Cardinality(D) -> D]
         /\ \A i, j \in 1 .. Cardinality(D) : i # j => order[i] # order[j]
         /\ \A x \in D : \E i \in 1 .. Cardinality(D) : order[i] = x
<1> DEFINE n == Cardinality(D)
<1>1. n \in Nat
  BY FS_CardinalityType
<1>2. order \in [1 .. n -> D] /\ \A i, j \in 1 .. n : i # j => order[i] # order[j]
  BY DEF SetToSeqs
<1>3. order \in Injection(1 .. n, D)
  BY <1>2 DEF Injection, IsInjective
<1>4. IsFiniteSet(1 .. n) /\ Cardinality(1 .. n) = n
  BY <1>1, FS_Interval
<1>5. order \in Surjection(1 .. n, D)
  BY <1>3, <1>4, FS_Injection
<1>6. \A x \in D : \E i \in 1 .. n : order[i] = x
  BY <1>5 DEF Surjection
<1> QED
  BY <1>1, <1>2, <1>6

\* The ends of the tools, in the order of a HashMap's values.
LEMMA FinishEnds ==
  ASSUME NEW p \in Parsers, NEW f, NEW r \in Finish(p, f)
  PROVE  \E ends, order :
           /\ ends \in Seq(Events)
           /\ r.events = ends \o <<MessageEnd(StopReason(f.id))>>
           /\ r.parser = [p EXCEPT !.calls = <<>>]
           /\ \A i \in DOMAIN ends : Hears(ends[i]) = <<>>
           /\ (\A x, y \in DOMAIN p.calls : x # y => p.calls[x] # p.calls[y])
                => EndAll(ends, order, OpenAILive(p))
<1> DEFINE D == DOMAIN p.calls
           n == Cardinality(D)
<1>1. PICK seq \in SetToSeqs(D) :
        r = Parsed([p EXCEPT !.calls = <<>>],
                   [i \in DOMAIN seq |-> ToolUseEnd(p.calls[seq[i]])]
                     \o <<MessageEnd(StopReason(f.id))>>)
  BY DEF Finish
<1>2. p.calls \in [D -> Names] /\ IsFiniteSet(D)
  <2>1. p.calls \in CallMaps
    BY DEF Parsers
  <2> QED
    BY <2>1, CallMapsType
<1>3. /\ n \in Nat /\ seq \in [1 .. n -> D]
      /\ \A i, j \in 1 .. n : i # j => seq[i] # seq[j]
      /\ \A x \in D : \E i \in 1 .. n : seq[i] = x
  BY <1>2, Enumerates
<1> HIDE DEF n, D
<1> DEFINE ends == [i \in 1 .. n |-> ToolUseEnd(p.calls[seq[i]])]
           order == [i \in 1 .. n |-> p.calls[seq[i]]]
<1>4. \A i \in 1 .. n : p.calls[seq[i]] \in Names
  BY <1>2, <1>3
<1>5. \A i \in 1 .. n : ToolUseEnd(p.calls[seq[i]]) \in Events
  BY <1>4 DEF ToolUseEnd, Events
<1>6. ends \in Seq(Events) /\ Len(ends) = n /\ DOMAIN ends = 1 .. n
  BY <1>3, <1>5
<1>7. r.events = ends \o <<MessageEnd(StopReason(f.id))>> /\ r.parser = [p EXCEPT !.calls = <<>>]
  BY <1>1, <1>3 DEF Parsed
<1>8. \A i \in DOMAIN ends : Hears(ends[i]) = <<>>
  BY <1>6 DEF ToolUseEnd, Hears
<1>9. ASSUME \A x, y \in D : x # y => p.calls[x] # p.calls[y]
      PROVE  EndAll(ends, order, OpenAILive(p))
  <2>1. \A i \in 1 .. n : ends[i] = ToolUseEnd(order[i])
    OBVIOUS
  <2>2. order \in [1 .. n -> OpenAILive(p)]
    BY <1>3 DEF OpenAILive, D
  <2>3. \A i, j \in 1 .. n : i # j => order[i] # order[j]
    BY <1>3, <1>9
  <2>4. \A id \in OpenAILive(p) : \E i \in 1 .. n : order[i] = id
    BY <1>3 DEF OpenAILive, D
  <2> HIDE DEF ends, order
  <2> QED
    BY <1>6, <2>1, <2>2, <2>3, <2>4 DEF EndAll
<1> HIDE DEF ends, order
<1> QED
  BY <1>6, <1>7, <1>8, <1>9 DEF D

LEMMA StopType ==
  ASSUME NEW stop
  PROVE  /\ StopReason(stop) \in Names
         /\ MessageEnd(StopReason(stop)) \in Events
         /\ Hears(MessageEnd(StopReason(stop))) = <<>>
<1>1. StopReason(stop) \in Names
  BY DEF StopReason, Names
<1> QED
  BY <1>1 DEF MessageEnd, Events, Hears

LEMMA OpenAITells ==
  ASSUME NEW p \in Parsers, NEW f \in OpenAIFrames, f.event # "comment", NEW r \in OpenAI(p, f)
  PROVE  Tells(r, p, f)
<1>1. /\ f.id \in STRING /\ f.id \in Names /\ f.index \in Nat /\ p.calls \in CallMaps
      /\ f.event \in {"chunk", "[DONE]"}
  BY DEF OpenAIFrames, Names, Parsers
<1>2. \A q \in Parsers : Tells(Parsed(q, <<>>), p, f) <=>
        Says(f) = <<>> /\ (q.done => p.done \/ IsTerminal(f))
  <2>1. <<>> \in Seq(Events)
    OBVIOUS
  <2> QED
    BY <2>1, HeardOfOne DEF Tells, Parsed
<1>3. \A q \in Parsers, e \in Events : Tells(Parsed(q, <<e>>), p, f) <=>
        Says(f) = Hears(e) /\ (q.done => p.done \/ IsTerminal(f))
  <2>1. \A e \in Events : <<e>> \in Seq(Events)
    OBVIOUS
  <2> QED
    BY <2>1, HeardOfOne DEF Tells, Parsed
<1>4. CASE f.event = "[DONE]"
  <2>1. r = Parsed([p EXCEPT !.done = TRUE], <<>>)
    BY <1>4 DEF OpenAI
  <2>2. [p EXCEPT !.done = TRUE] \in Parsers
    BY DEF Parsers
  <2>3. Says(f) = <<>> /\ IsTerminal(f)
    BY <1>4 DEF Says, Opens, IsTerminal
  <2> QED
    BY <1>2, <2>1, <2>2, <2>3
<1>5. CASE f.event = "chunk" /\ f.kind = "content"
  <2>1. r = Parsed(p, <<TextDelta(f.id)>>)
    BY <1>5 DEF OpenAI
  <2>2. TextDelta(f.id) \in Events /\ Hears(TextDelta(f.id)) = <<TextDelta(f.id)>>
    BY <1>1 DEF TextDelta, Events, Hears
  <2>3. Says(f) = <<TextDelta(f.id)>>
    BY <1>5 DEF Says, Opens
  <2> QED
    BY <1>3, <2>1, <2>2, <2>3
<1>6. CASE f.event = "chunk" /\ f.kind = "tool_use"
  <2> DEFINE q == [p EXCEPT !.calls = Inserted(p.calls, f.index, f.id)]
  <2>1. r = Parsed(q, <<ToolUseStart(f.id)>>)
    BY <1>6 DEF OpenAI
  <2>2. q \in Parsers /\ q.done = p.done
    <3>1. Inserted(p.calls, f.index, f.id) \in CallMaps
      BY <1>1, InsertedType
    <3> QED
      BY <3>1 DEF Parsers
  <2>3. ToolUseStart(f.id) \in Events /\ Says(f) = Hears(ToolUseStart(f.id))
    BY <1>1, <1>6 DEF ToolUseStart, Events, Says, Hears, Opens
  <2> HIDE DEF q
  <2> QED
    BY <1>3, <2>1, <2>2, <2>3
<1>7. CASE f.event = "chunk" /\ f.kind = "arguments"
  <2>1. Says(f) = <<>>
    BY <1>7 DEF Says, Opens
  <2>2. CASE f.index \in DOMAIN p.calls
    <3>1. r = Parsed(p, <<ToolInputDelta(p.calls[f.index])>>)
      BY <1>7, <2>2 DEF OpenAI
    <3>2. p.calls[f.index] \in Names
      BY <1>1, <2>2, CallMapsType
    <3>3. ToolInputDelta(p.calls[f.index]) \in Events /\ Hears(ToolInputDelta(p.calls[f.index])) = <<>>
      BY <3>2 DEF ToolInputDelta, Events, Hears
    <3> QED
      BY <1>3, <2>1, <3>1, <3>3
  <2>3. CASE f.index \notin DOMAIN p.calls
    <3>1. r = Parsed(p, <<>>)
      BY <1>7, <2>3 DEF OpenAI
    <3> QED
      BY <1>2, <2>1, <3>1
  <2> QED
    BY <2>2, <2>3
<1>8. CASE f.event = "chunk" /\ f.kind = "finish"
  <2>1. r \in Finish(p, f)
    BY <1>8 DEF OpenAI
  <2>2. PICK ends, order :
          /\ ends \in Seq(Events)
          /\ r.events = ends \o <<MessageEnd(StopReason(f.id))>>
          /\ r.parser = [p EXCEPT !.calls = <<>>]
          /\ \A i \in DOMAIN ends : Hears(ends[i]) = <<>>
          /\ (\A x, y \in DOMAIN p.calls : x # y => p.calls[x] # p.calls[y])
               => EndAll(ends, order, OpenAILive(p))
    BY <2>1, FinishEnds
  <2> DEFINE stop == <<MessageEnd(StopReason(f.id))>>
  <2>3. stop \in Seq(Events) /\ HeardIn(stop) = <<>>
    BY StopType, HeardOfOne
  <2>4. HeardIn(ends) = <<>>
    BY <2>2, Silent
  <2> HIDE DEF stop
  <2>5. r.events = ends \o stop
    BY <2>2 DEF stop
  <2>6. HeardIn(ends \o stop) = HeardIn(ends) \o HeardIn(stop)
    BY <2>2, <2>3, HeardOfTwo
  <2>7. r.events \in Seq(Events) /\ HeardIn(r.events) = <<>>
    <3>1. ends \o stop \in Seq(Events) /\ <<>> \o <<>> = <<>>
      BY <2>2, <2>3
    <3> QED
      BY <2>3, <2>4, <2>5, <2>6, <3>1
  <2>8. r.parser \in Parsers /\ r.parser.done = p.done
    BY <2>2, NoCalls DEF Parsers
  <2>9. Says(f) = <<>>
    BY <1>8 DEF Says, Opens
  <2> QED
    BY <2>7, <2>8, <2>9 DEF Tells
<1>9. CASE f.event = "chunk" /\ f.kind \notin {"content", "tool_use", "arguments", "finish"}
  <2>1. r = Parsed(p, <<>>)
    BY <1>9 DEF OpenAI
  <2>2. Says(f) = <<>>
    BY <1>9 DEF Says, Opens
  <2> QED
    BY <1>2, <2>1, <2>2
<1> QED
  BY <1>1, <1>4, <1>5, <1>6, <1>7, <1>8, <1>9

LEMMA OpenAIStep ==
  ASSUME NEW fs \in Seq(OpenAIFrames), WellOrdered(fs), Indexed(fs),
         NEW n \in Nat, n + 1 \in DOMAIN fs, NEW p \in Parsers, NEW es \in Seq(Events),
         OpenAIFits(p, fs, n, es), fs[n + 1].event # "comment",
         NEW r \in OpenAI(p, fs[n + 1])
  PROVE  OpenAIFits(r.parser, fs, n + 1, es \o r.events)
<1> DEFINE f == fs[n + 1]
           live == OpenAILive(p)
           begun == BegunBy(fs, n)
           stops == FinishedBy(fs, n)
<1>1. /\ f \in OpenAIFrames /\ f.id \in Names /\ f.index \in Nat /\ p.calls \in CallMaps
      /\ f.event \in {"chunk", "[DONE]"}
  <2>1. f \in OpenAIFrames
    OBVIOUS
  <2>2. f.id \in STRING
    BY <2>1 DEF OpenAIFrames
  <2> QED
    BY <2>1, <2>2 DEF OpenAIFrames, Names, Parsers
<1>2. /\ Opens(f) <=> f.event = "chunk" /\ f.kind = "tool_use"
      /\ Finishes(f) <=> f.event = "chunk" /\ f.kind = "finish"
  BY <1>1 DEF Opens, Finishes
<1>3. Bracketed(es, live, begun, stops) /\ OpenAILinked(p, fs, n)
  BY DEF OpenAIFits
<1>4. ASSUME ~Opens(f), ~Finishes(f), r.parser.calls = p.calls,
             Bracketed(es \o r.events, live, begun, stops)
      PROVE  OpenAIFits(r.parser, fs, n + 1, es \o r.events)
  <2>1. BegunBy(fs, n + 1) = begun /\ FinishedBy(fs, n + 1) = stops
    BY <1>4, FrameIsPlain
  <2>2. OpenAILive(r.parser) = live
    BY <1>4 DEF OpenAILive
  <2>3. OpenAILinked(r.parser, fs, n + 1)
    <3>1. \A i \in 1 .. n : i \in 1 .. n + 1
      OBVIOUS
    <3> QED
      BY <1>3, <1>4, <3>1 DEF OpenAILinked
  <2> HIDE DEF begun, stops, live
  <2> QED
    BY <1>4, <2>1, <2>2, <2>3 DEF OpenAIFits
<1>5. es \o <<>> = es /\ \A e \in Events : es \o <<e>> = Append(es, e)
  OBVIOUS
<1>6. CASE f.event = "[DONE]" \/ f.kind \notin {"content", "tool_use", "arguments", "finish"}
  <2>1. r.parser.calls = p.calls /\ r.events = <<>>
    BY <1>6 DEF OpenAI, Parsed, Parsers
  <2>2. ~Opens(f) /\ ~Finishes(f)
    BY <1>2, <1>6
  <2>3. es \o r.events = es
    BY <1>5, <2>1
  <2> HIDE DEF f, live, begun, stops
  <2> QED
    BY <1>3, <1>4, <2>1, <2>2, <2>3
<1>7. CASE f.event = "chunk" /\ f.kind = "content"
  <2>1. r = Parsed(p, <<TextDelta(f.id)>>)
    BY <1>7 DEF OpenAI
  <2> DEFINE e == TextDelta(f.id)
  <2>2. e \in Events /\ ~IsStart(e) /\ ~IsPart(e) /\ ~IsStop(e)
    BY <1>1 DEF TextDelta, Events, IsStart, IsPart, IsStop
  <2>3. r.parser = p /\ es \o r.events = Append(es, e)
    BY <1>5, <2>1, <2>2 DEF Parsed
  <2>4. ~Opens(f) /\ ~Finishes(f)
    BY <1>2, <1>7
  <2> HIDE DEF f, live, begun, stops, e
  <2>5. Bracketed(Append(es, e), live, begun, stops)
    BY <1>3, <2>2, BracketOther
  <2> QED
    BY <1>4, <2>3, <2>4, <2>5
<1>8. CASE Opens(f)
  <2> DEFINE q == [p EXCEPT !.calls = Inserted(p.calls, f.index, f.id)]
  <2>1. r = Parsed(q, <<ToolUseStart(f.id)>>)
    BY <1>2, <1>8 DEF OpenAI
  <2>2. r.parser.calls = Inserted(p.calls, f.index, f.id) /\ r.events = <<ToolUseStart(f.id)>>
    BY <2>1 DEF Parsed, Parsers
  <2>3. f.index \notin DOMAIN p.calls
    <3> SUFFICES ASSUME f.index \in DOMAIN p.calls PROVE FALSE
      OBVIOUS
    <3>1. PICK i \in 1 .. n : Opens(fs[i]) /\ fs[i].index = f.index
      BY <1>3 DEF OpenAILinked
    <3>2. i \in DOMAIN fs /\ i # n + 1
      OBVIOUS
    <3> QED
      BY <1>8, <3>1, <3>2 DEF Indexed
  <2>4. f.id \notin begun /\ stops = {}
    BY <1>8, FrameIsNew
  <2>5. Bracketed(Append(es, ToolUseStart(f.id)), live \cup {f.id}, begun \cup {f.id}, {})
    <3>1. Bracketed(es, live, begun, {})
      BY <1>3, <2>4
    <3> HIDE DEF f, live, begun, stops
    <3> QED
      BY <1>1, <2>4, <3>1, BracketStart
  <2>6. BegunBy(fs, n + 1) = begun \cup {f.id} /\ FinishedBy(fs, n + 1) = {}
    BY <1>2, <1>8, <2>4, FrameBegins, FrameFinishes
  <2>7. OpenAILive(r.parser) = live \cup {f.id}
    <3>1. /\ DOMAIN r.parser.calls = DOMAIN p.calls \cup {f.index}
          /\ r.parser.calls[f.index] = f.id
          /\ \A x \in DOMAIN p.calls : r.parser.calls[x] = p.calls[x]
      BY <2>2, <2>3 DEF Inserted
    <3> HIDE DEF f
    <3> QED
      BY <3>1 DEF OpenAILive
  <2>8. ToolUseStart(f.id) \in Events
    BY <1>1 DEF ToolUseStart, Events
  <2>9. OpenAILinked(r.parser, fs, n + 1)
    <3> SUFFICES ASSUME NEW x \in DOMAIN r.parser.calls
                 PROVE  \E i \in 1 .. n + 1 : /\ Opens(fs[i]) /\ fs[i].index = x
                                              /\ fs[i].id = r.parser.calls[x]
      BY DEF OpenAILinked
    <3>1. CASE x = f.index
      <4>1. r.parser.calls[x] = f.id /\ n + 1 \in 1 .. n + 1
        BY <2>2, <3>1 DEF Inserted
      <4> QED
        BY <1>8, <3>1, <4>1
    <3>2. CASE x # f.index
      <4>1. x \in DOMAIN p.calls /\ r.parser.calls[x] = p.calls[x]
        BY <2>2, <3>2 DEF Inserted
      <4>2. \A i \in 1 .. n : i \in 1 .. n + 1
        OBVIOUS
      <4> QED
        BY <1>3, <4>1, <4>2 DEF OpenAILinked
    <3> QED
      BY <3>1, <3>2
  <2>10. es \o r.events = Append(es, ToolUseStart(f.id))
    BY <1>5, <2>2, <2>8
  <2> HIDE DEF f, live, begun, stops, q
  <2>11. Bracketed(es \o r.events, OpenAILive(r.parser), BegunBy(fs, n + 1), FinishedBy(fs, n + 1))
    BY <2>5, <2>6, <2>7, <2>10
  <2> QED
    BY <2>9, <2>11 DEF OpenAIFits
<1>9. CASE f.event = "chunk" /\ f.kind = "arguments"
  <2>1. ~Opens(f) /\ ~Finishes(f)
    BY <1>2, <1>9
  <2>2. r.parser = p
    BY <1>9 DEF OpenAI, Parsed
  <2>3. Bracketed(es \o r.events, live, begun, stops)
    <3>1. CASE f.index \in DOMAIN p.calls
      <4> DEFINE id == p.calls[f.index]
      <4>1. r.events = <<ToolInputDelta(id)>>
        BY <1>9, <3>1 DEF OpenAI, Parsed
      <4>2. id \in live
        BY <3>1 DEF OpenAILive
      <4>3. id \in Names
        BY <1>1, <3>1, CallMapsType
      <4> HIDE DEF id
      <4>4. ToolInputDelta(id) \in Events
        BY <4>3 DEF ToolInputDelta, Events
      <4>5. es \o r.events = Append(es, ToolInputDelta(id))
        BY <1>5, <4>1, <4>4
      <4> HIDE DEF live, begun, stops
      <4> QED
        BY <1>3, <4>2, <4>3, <4>5, BracketInput
    <3>2. CASE f.index \notin DOMAIN p.calls
      <4>1. r.events = <<>>
        BY <1>9, <3>2 DEF OpenAI, Parsed
      <4>2. es \o r.events = es
        BY <1>5, <4>1
      <4> HIDE DEF live, begun, stops
      <4> QED
        BY <1>3, <4>2
    <3> QED
      BY <3>1, <3>2
  <2> HIDE DEF f, live, begun, stops
  <2> QED
    BY <1>4, <2>1, <2>2, <2>3
<1>10. CASE f.event = "chunk" /\ f.kind = "finish"
  <2>1. r \in Finish(p, f)
    BY <1>10 DEF OpenAI
  <2>2. PICK ends, order :
          /\ ends \in Seq(Events)
          /\ r.events = ends \o <<MessageEnd(StopReason(f.id))>>
          /\ r.parser = [p EXCEPT !.calls = <<>>]
          /\ (\A x, y \in DOMAIN p.calls : x # y => p.calls[x] # p.calls[y])
               => EndAll(ends, order, live)
    BY <2>1, FinishEnds
  <2>3. \A x, y \in DOMAIN p.calls : x # y => p.calls[x] # p.calls[y]
    <3> SUFFICES ASSUME NEW x \in DOMAIN p.calls, NEW y \in DOMAIN p.calls, x # y,
                        p.calls[x] = p.calls[y]
                 PROVE  FALSE
      OBVIOUS
    <3>1. PICK i \in 1 .. n : Opens(fs[i]) /\ fs[i].index = x /\ fs[i].id = p.calls[x]
      BY <1>3 DEF OpenAILinked
    <3>2. PICK j \in 1 .. n : Opens(fs[j]) /\ fs[j].index = y /\ fs[j].id = p.calls[y]
      BY <1>3 DEF OpenAILinked
    <3>3. i \in DOMAIN fs /\ j \in DOMAIN fs /\ i # j
      BY <3>1, <3>2
    <3> QED
      BY <3>1, <3>2, <3>3 DEF WellOrdered
  <2>4. ~Opens(f) /\ Finishes(f)
    BY <1>2, <1>10
  <2>5. BegunBy(fs, n + 1) = begun /\ FinishedBy(fs, n + 1) # {}
    BY <2>4, FrameIsPlain
  <2>6. DOMAIN r.parser.calls = {}
    <3>1. r.parser.calls = <<>>
      BY <2>2 DEF Parsers
    <3> QED
      BY <3>1, NoCalls
  <2>7. OpenAILive(r.parser) = {} /\ OpenAILinked(r.parser, fs, n + 1)
    BY <2>6 DEF OpenAILive, OpenAILinked
  <2> DEFINE stop == StopReason(f.id)
             both == es \o ends
  <2>8. stop \in Names /\ MessageEnd(stop) \in Events
    BY StopType
  <2> HIDE DEF f, live, begun, stops, stop
  <2>9. both \in Seq(Events) /\ Bracketed(both, {}, begun, stops)
    <3>1. Bracketed(both, {}, begun, stops)
      BY <1>3, <2>2, <2>3, BracketEnds
    <3> QED
      BY <2>2, <3>1
  <2>10. es \o r.events = Append(both, MessageEnd(stop))
    <3>1. r.events = ends \o <<MessageEnd(stop)>>
      BY <2>2 DEF stop
    <3> QED
      BY <2>2, <2>8, <3>1
  <2> HIDE DEF both
  <2>11. Bracketed(Append(both, MessageEnd(stop)), {}, begun, FinishedBy(fs, n + 1))
    BY <2>5, <2>8, <2>9, BracketStop
  <2> QED
    BY <2>5, <2>7, <2>10, <2>11 DEF OpenAIFits
<1> HIDE DEF f
<1> QED
  BY <1>1, <1>2, <1>6, <1>7, <1>8, <1>9, <1>10

--------------------------------------------------------------------------------
(* The invariant *)

\* The frames that were cut from the buffer, and the events they gave.
Cut   == Len(response.frames) - Len(buffer) - Len(wire)
Given == yielded \o pending

StreamTypes ==
  /\ response \in Responses
  /\ buffer \in Seq(FramesOf(response)) /\ wire \in Seq(FramesOf(response))
  /\ parser \in Parsers
  /\ pending \in Seq(Events) /\ yielded \in Seq(Events)
  /\ reading \in BOOLEAN

\* Behind the frames that were cut are those of the buffer, then those of the wire.
InOrder ==
  /\ Cut \in Nat
  /\ \A i \in 1 .. Len(buffer) : buffer[i] = response.frames[Cut + i]

OnWire == \A i \in 1 .. Len(wire) : wire[i] = response.frames[Cut + Len(buffer) + i]

HeardFits == HeardIn(Given) = SpokenIn(SubSeq(response.frames, 1, Cut))

DoneFits == parser.done => \E i \in 1 .. Cut : IsTerminal(response.frames[i])

ToolsFit ==
  IF response.provider = "anthropic"
  THEN AnthropicFits(parser, response.frames, Cut, Given)
  ELSE OpenAIFits(parser, response.frames, Cut, Given)

EndFits == ended = "clean" => pending = <<>> /\ ~reading /\ parser.done

Fits == InOrder /\ OnWire /\ HeardFits /\ DoneFits /\ ToolsFit

StreamInv == StreamTypes /\ Fits /\ EndFits

LEMMA FirstAndNext ==
  ASSUME NEW S, NEW s \in Seq(S), NEW k \in Nat, k + 1 \in DOMAIN s
  PROVE  SubSeq(s, 1, k + 1) = SubSeq(s, 1, k) \o <<s[k + 1]>>
OBVIOUS

LEMMA ResponseFacts ==
  ASSUME NEW r \in Responses
  PROVE  /\ r.frames \in Seq(FramesOf(r)) /\ WellOrdered(r.frames)
         /\ r.provider = "anthropic" =>
              r.frames \in Seq(AnthropicFrames) /\ InBlocks(r.frames) /\ FramesOf(r) = AnthropicFrames
         /\ r.provider # "anthropic" =>
              r.frames \in Seq(OpenAIFrames) /\ Indexed(r.frames) /\ FramesOf(r) = OpenAIFrames
BY ModelStreamAssumption DEF FramesOf

LEMMA StreamInit ==
  Init => StreamInv
<1> SUFFICES ASSUME Init PROVE StreamInv
  OBVIOUS
<1>1. PICK r \in Responses : Started(r)
  BY DEF Init
<1>2. /\ response \in Responses /\ wire = response.frames /\ buffer = <<>> /\ reading = FALSE
      /\ parser = Fresh /\ pending = <<>> /\ yielded = <<>> /\ ended = None
  BY <1>1 DEF Started
<1>3. response.frames \in Seq(FramesOf(response))
  BY <1>2, ResponseFacts
<1>4. Cut = 0
  BY <1>2, <1>3 DEF Cut
<1>5. parser \in Parsers /\ parser.done = FALSE /\ parser.block # "tool_use" /\ parser.calls = <<>>
  BY <1>2, NoCalls DEF Fresh, Parsers, Names, None
<1>6. StreamTypes
  <2> DEFINE F == FramesOf(response)
  <2>1. <<>> \in Seq(F) /\ <<>> \in Seq(Events) /\ FALSE \in BOOLEAN
    OBVIOUS
  <2> HIDE DEF F
  <2>2. buffer \in Seq(F) /\ pending \in Seq(Events) /\ yielded \in Seq(Events)
    BY <1>2, <2>1
  <2>3. wire \in Seq(F)
    BY <1>2, <1>3 DEF F
  <2> QED
    BY <1>2, <1>5, <2>2, <2>3 DEF StreamTypes, F
<1>7. InOrder /\ OnWire
  BY <1>2, <1>3, <1>4 DEF InOrder, OnWire
<1>8. Given = <<>>
  BY <1>2 DEF Given
<1>9. HeardFits
  <2>1. SubSeq(response.frames, 1, 0) = <<>>
    BY <1>3
  <2> QED
    BY <1>4, <1>8, <2>1, HeardOfOne, SpokenOfOne DEF HeardFits
<1>10. DoneFits /\ EndFits
  BY <1>2, <1>5 DEF DoneFits, EndFits, None
<1>11. \A begun, stops : Bracketed(<<>>, {}, begun, stops)
  BY DEF Bracketed, Begins, Follows, Precedes, Completes, Lives
<1>12. AnthropicFits(parser, response.frames, 0, <<>>)
  <2>1. AnthropicLive(parser) = {} /\ AnthropicLinked(parser, response.frames, 0)
    BY <1>5 DEF AnthropicLive, AnthropicLinked
  <2> QED
    BY <1>11, <2>1 DEF AnthropicFits
<1>13. OpenAIFits(parser, response.frames, 0, <<>>)
  <2>1. OpenAILive(parser) = {} /\ OpenAILinked(parser, response.frames, 0)
    BY <1>5, NoCalls DEF OpenAILive, OpenAILinked
  <2> QED
    BY <1>11, <2>1 DEF OpenAIFits
<1>14. ToolsFit
  BY <1>4, <1>8, <1>12, <1>13 DEF ToolsFit
<1> QED
  BY <1>6, <1>7, <1>9, <1>10, <1>14 DEF StreamInv, Fits

\* Steps that move no frame and give no event.
LEMMA StreamStays ==
  ASSUME StreamInv, UNCHANGED <<response, wire, buffer, parser, pending, yielded>>,
         reading' \in BOOLEAN
  PROVE  StreamTypes' /\ Fits'
<1>1. StreamTypes'
  BY DEF StreamInv, StreamTypes
<1>2. Cut' = Cut /\ Given' = Given
  BY DEF Cut, Given
<1>3. InOrder' /\ OnWire' /\ HeardFits' /\ DoneFits' /\ ToolsFit'
  BY <1>2 DEF StreamInv, Fits, InOrder, OnWire, HeardFits, DoneFits, ToolsFit
<1> QED
  BY <1>1, <1>3 DEF Fits

LEMMA StreamReceive ==
  StreamInv /\ Receive => StreamInv'
<1> SUFFICES ASSUME StreamInv, Receive PROVE StreamInv'
  OBVIOUS
<1> DEFINE F == FramesOf(response)
           fs == response.frames
<1>1. /\ response \in Responses /\ buffer \in Seq(F) /\ wire \in Seq(F) /\ fs \in Seq(F)
      /\ Cut \in Nat
      /\ \A i \in 1 .. Len(buffer) : buffer[i] = fs[Cut + i]
      /\ \A i \in 1 .. Len(wire) : wire[i] = fs[Cut + Len(buffer) + i]
  BY ResponseFacts DEF StreamInv, Fits, StreamTypes, InOrder, OnWire
<1>2. PICK n \in 0 .. Len(wire) :
        /\ buffer' = buffer \o SubSeq(wire, 1, n)
        /\ wire' = SubSeq(wire, n + 1, Len(wire))
  BY DEF Receive
<1>3. /\ UNCHANGED <<response, parser, pending, yielded, ended>> /\ reading' = TRUE
      /\ ended = None
  BY DEF Receive, Polled
<1> HIDE DEF F
<1>4. /\ buffer' \in Seq(F) /\ wire' \in Seq(F)
      /\ Len(buffer') = Len(buffer) + n /\ Len(wire') = Len(wire) - n
      /\ \A i \in 1 .. Len(buffer) : buffer'[i] = buffer[i]
      /\ \A i \in Len(buffer) + 1 .. Len(buffer) + n : buffer'[i] = wire[i - Len(buffer)]
      /\ \A i \in 1 .. Len(wire) - n : wire'[i] = wire[n + i]
  BY <1>1, <1>2
<1>5. Cut' = Cut
  BY <1>1, <1>3, <1>4 DEF Cut
<1>6. StreamTypes'
  BY <1>1, <1>3, <1>4 DEF StreamInv, StreamTypes, F
<1>7. InOrder'
  <2> SUFFICES ASSUME NEW i \in 1 .. Len(buffer) + n PROVE buffer'[i] = fs[Cut + i]
    BY <1>1, <1>3, <1>4, <1>5 DEF InOrder
  <2>1. CASE i \in 1 .. Len(buffer)
    BY <1>1, <1>4, <2>1
  <2>2. CASE i \in Len(buffer) + 1 .. Len(buffer) + n
    <3>1. i - Len(buffer) \in 1 .. Len(wire) /\ Cut + Len(buffer) + (i - Len(buffer)) = Cut + i
      BY <1>1, <1>2, <2>2
    <3> QED
      BY <1>1, <1>4, <2>2, <3>1
  <2> QED
    BY <1>1, <2>1, <2>2
<1>8. OnWire'
  <2> SUFFICES ASSUME NEW i \in 1 .. Len(wire) - n
               PROVE  wire'[i] = fs[Cut + (Len(buffer) + n) + i]
    BY <1>3, <1>4, <1>5 DEF OnWire
  <2>1. n + i \in 1 .. Len(wire) /\ Cut + Len(buffer) + (n + i) = Cut + (Len(buffer) + n) + i
    BY <1>1, <1>2
  <2> QED
    BY <1>1, <1>4, <2>1
<1>9. Given' = Given
  BY <1>3 DEF Given
<1>10. HeardFits' /\ DoneFits' /\ ToolsFit'
  BY <1>3, <1>5, <1>9 DEF StreamInv, Fits, HeardFits, DoneFits, ToolsFit
<1>11. EndFits'
  BY <1>3 DEF EndFits, None
<1> QED
  BY <1>6, <1>7, <1>8, <1>10, <1>11 DEF StreamInv, Fits

\* A frame is cut from the buffer: what it says is what its events are heard as.
LEMMA StreamExtract ==
  StreamInv /\ ExtractFrame => StreamInv'
<1> SUFFICES ASSUME StreamInv, ExtractFrame PROVE StreamInv'
  OBVIOUS
<1> DEFINE F == FramesOf(response)
           fs == response.frames
           n == Cut
           f == Head(buffer)
<1>1. /\ response \in Responses /\ buffer \in Seq(F) /\ wire \in Seq(F) /\ fs \in Seq(F)
      /\ n \in Nat /\ WellOrdered(fs)
      /\ \A i \in 1 .. Len(buffer) : buffer[i] = fs[n + i]
      /\ \A i \in 1 .. Len(wire) : wire[i] = fs[n + Len(buffer) + i]
      /\ parser \in Parsers /\ pending \in Seq(Events) /\ yielded \in Seq(Events)
      /\ n = Len(fs) - Len(buffer) - Len(wire)
  BY ResponseFacts DEF StreamInv, Fits, StreamTypes, InOrder, OnWire, Cut
<1>2. /\ reading /\ buffer # <<>> /\ buffer' = Tail(buffer)
      /\ UNCHANGED <<response, wire, yielded, ended>>
  BY DEF ExtractFrame
<1> HIDE DEF F, n
<1>3. /\ buffer' \in Seq(F) /\ Len(buffer') = Len(buffer) - 1 /\ Len(buffer) \in Nat \ {0}
      /\ \A i \in 1 .. Len(buffer) - 1 : buffer'[i] = buffer[i + 1]
      /\ f = buffer[1]
  BY <1>1, <1>2
<1>4. f = fs[n + 1] /\ n + 1 \in DOMAIN fs /\ f \in F
  <2>1. 1 \in 1 .. Len(buffer) /\ n + 1 \in DOMAIN fs
    BY <1>1, <1>3
  <2> QED
    BY <1>1, <1>3, <2>1
<1>5. Cut' = n + 1
  BY <1>1, <1>2, <1>3 DEF Cut
<1>6. PICK r : /\ parser' = r.parser /\ pending' = pending \o r.events
               /\ Tells(r, parser, f)
               /\ reading' \in BOOLEAN
               /\ response.provider = "anthropic" => AnthropicFits(r.parser, fs, n + 1, Given \o r.events)
               /\ response.provider # "anthropic" => OpenAIFits(r.parser, fs, n + 1, Given \o r.events)
  <2>1. Given \in Seq(Events)
    BY <1>1 DEF Given
  <2>2. /\ response.provider = "anthropic" => AnthropicFits(parser, fs, n, Given)
        /\ response.provider # "anthropic" => OpenAIFits(parser, fs, n, Given)
    BY DEF StreamInv, Fits, ToolsFit, n
  <2>3. /\ response.provider = "anthropic" =>
             fs \in Seq(AnthropicFrames) /\ InBlocks(fs) /\ f \in AnthropicFrames
        /\ response.provider # "anthropic" =>
             fs \in Seq(OpenAIFrames) /\ Indexed(fs) /\ f \in OpenAIFrames
    BY <1>1, <1>4, ResponseFacts DEF F
  <2>4. CASE f.event = "comment"
    <3> DEFINE r == Parsed(parser, <<>>)
    <3>1. parser' = parser /\ pending' = pending /\ reading' = FALSE
      BY <2>4 DEF ExtractFrame
    <3>2. r.parser = parser /\ r.events = <<>>
      BY DEF Parsed
    <3>3. pending \o <<>> = pending /\ Given \o <<>> = Given /\ <<>> \in Seq(Events)
      BY <1>1, <2>1
    <3>4. Says(f) = <<>>
      BY <2>4 DEF Says, Opens
    <3>5. Tells(r, parser, f)
      BY <1>1, <3>2, <3>3, <3>4, HeardOfOne DEF Tells
    <3>6. CASE response.provider = "anthropic"
      <4>1. Anthropic(parser, fs[n + 1]) = r
        BY <1>4, <2>4 DEF Anthropic
      <4>2. AnthropicFits(r.parser, fs, n + 1, Given \o r.events)
        BY <1>1, <1>4, <2>1, <2>2, <2>3, <3>6, <4>1, AnthropicStep
      <4> QED
        BY <3>1, <3>2, <3>3, <3>5, <3>6, <4>2
    <3>7. CASE response.provider # "anthropic"
      <4>1. ~Opens(fs[n + 1]) /\ ~Finishes(fs[n + 1])
        BY <1>4, <2>4 DEF Opens, Finishes
      <4>2. BegunBy(fs, n + 1) = BegunBy(fs, n) /\ FinishedBy(fs, n + 1) = FinishedBy(fs, n)
        BY <1>1, <4>1, FrameIsPlain
      <4>3. \A i \in 1 .. n : i \in 1 .. n + 1
        BY <1>1
      <4>4. OpenAILinked(parser, fs, n + 1)
        BY <2>2, <3>7, <4>3 DEF OpenAIFits, OpenAILinked
      <4>5. OpenAIFits(parser, fs, n + 1, Given)
        BY <2>2, <3>7, <4>2, <4>4 DEF OpenAIFits
      <4> QED
        BY <3>1, <3>2, <3>3, <3>5, <3>7, <4>5
    <3> QED
      BY <3>6, <3>7
  <2>5. CASE f.event # "comment"
    <3>1. PICK r \in Parse(parser, f) : /\ parser' = r.parser /\ pending' = pending \o r.events
                                        /\ reading' = reading
      BY <2>5 DEF ExtractFrame
    <3>2. reading' \in BOOLEAN
      BY <3>1 DEF StreamInv, StreamTypes
    <3>3. CASE response.provider = "anthropic"
      <4>1. r = Anthropic(parser, f)
        BY <3>3 DEF Parse
      <4>2. Tells(r, parser, f)
        BY <1>1, <2>3, <3>3, <4>1, AnthropicTells
      <4>3. AnthropicFits(r.parser, fs, n + 1, Given \o r.events)
        <5>1. r = Anthropic(parser, fs[n + 1])
          BY <1>4, <4>1
        <5> HIDE DEF f
        <5> QED
          BY <1>1, <1>4, <2>1, <2>2, <2>3, <3>3, <5>1, AnthropicStep
      <4> QED
        BY <3>1, <3>2, <3>3, <4>2, <4>3
    <3>4. CASE response.provider # "anthropic"
      <4>1. r \in OpenAI(parser, f)
        BY <3>4 DEF Parse
      <4>2. Tells(r, parser, f)
        BY <1>1, <2>3, <2>5, <3>4, <4>1, OpenAITells
      <4>3. OpenAIFits(r.parser, fs, n + 1, Given \o r.events)
        <5>1. r \in OpenAI(parser, fs[n + 1]) /\ fs[n + 1].event # "comment"
          BY <1>4, <2>5, <4>1
        <5> HIDE DEF f
        <5> QED
          BY <1>1, <1>4, <2>1, <2>2, <2>3, <3>4, <5>1, OpenAIStep
      <4> QED
        BY <3>1, <3>2, <3>4, <4>2, <4>3
    <3> QED
      BY <3>3, <3>4
  <2> QED
    BY <2>4, <2>5
<1>7. r.parser \in Parsers /\ r.events \in Seq(Events) /\ HeardIn(r.events) = Says(f)
  BY <1>6 DEF Tells
<1>8. Given' = Given \o r.events /\ Given \in Seq(Events) /\ pending' \in Seq(Events)
  <2>1. (yielded \o pending) \o r.events = yielded \o (pending \o r.events)
    <3> DEFINE z == r.events
    <3>1. z \in Seq(Events)
      BY <1>7
    <3> HIDE DEF z
    <3>2. (yielded \o pending) \o z = yielded \o (pending \o z)
      BY <1>1, <3>1, Associative, SMTT(60)
    <3> QED
      BY <3>2 DEF z
  <2> QED
    BY <1>1, <1>2, <1>6, <1>7, <2>1 DEF Given
<1>9. StreamTypes'
  BY <1>1, <1>2, <1>3, <1>6, <1>7, <1>8 DEF StreamTypes, F
<1>10. InOrder'
  <2>1. \A i \in 1 .. Len(buffer) - 1 : buffer'[i] = fs[(n + 1) + i]
    <3> SUFFICES ASSUME NEW i \in 1 .. Len(buffer) - 1 PROVE buffer'[i] = fs[(n + 1) + i]
      OBVIOUS
    <3>1. i + 1 \in 1 .. Len(buffer) /\ n + (i + 1) = (n + 1) + i
      <4>1. n \in Nat /\ Len(buffer) \in Nat
        BY <1>1, <1>3
      <4> QED
        BY <4>1
    <3>2. buffer'[i] = buffer[i + 1]
      <4>1. \A k \in 1 .. Len(buffer) - 1 : buffer'[k] = buffer[k + 1]
        BY <1>3
      <4> QED
        BY <4>1, Zenon
    <3>3. buffer[i + 1] = fs[n + (i + 1)]
      BY <1>1, <3>1
    <3> QED
      BY <3>1, <3>2, <3>3
  <2> QED
    BY <1>1, <1>2, <1>3, <1>5, <2>1 DEF InOrder
<1>11. OnWire'
  <2>1. Cut' + Len(buffer') = n + Len(buffer)
    BY <1>1, <1>3, <1>5
  <2>2. \A i \in 1 .. Len(wire) : wire[i] = fs[n + Len(buffer) + i]
    BY <1>1
  <2> QED
    BY <1>2, <2>1, <2>2 DEF OnWire
<1>12. HeardFits'
  <2>1. SubSeq(fs, 1, n + 1) = SubSeq(fs, 1, n) \o <<f>>
    <3>1. SubSeq(fs, 1, n + 1) = SubSeq(fs, 1, n) \o <<fs[n + 1]>>
      BY <1>1, <1>4, FirstAndNext
    <3> QED
      BY <1>4, <3>1
  <2>2. SubSeq(fs, 1, n) \in Seq(F) /\ <<f>> \in Seq(F)
    BY <1>1, <1>4
  <2>3. SpokenIn(SubSeq(fs, 1, n) \o <<f>>) = SpokenIn(SubSeq(fs, 1, n)) \o SpokenIn(<<f>>)
    <3> DEFINE a == SubSeq(fs, 1, n)
               b == <<f>>
    <3>1. a \in Seq(FramesOf(response)) /\ b \in Seq(FramesOf(response))
      BY <2>2 DEF F
    <3> HIDE DEF a, b
    <3>2. SpokenIn(a \o b) = SpokenIn(a) \o SpokenIn(b)
      BY <3>1, SpokenOfTwo
    <3> QED
      BY <3>2 DEF a, b
  <2>4. SpokenIn(<<f>>) = Says(f)
    BY <1>4, SpokenOfOne DEF F
  <2>5. HeardIn(Given \o r.events) = HeardIn(Given) \o HeardIn(r.events)
    BY <1>7, <1>8, HeardOfTwo
  <2>6. HeardIn(Given) = SpokenIn(SubSeq(fs, 1, n))
    BY DEF StreamInv, Fits, HeardFits, n
  <2> QED
    BY <1>2, <1>5, <1>7, <1>8, <2>1, <2>3, <2>4, <2>5, <2>6 DEF HeardFits
<1>13. DoneFits'
  <2> SUFFICES ASSUME r.parser.done PROVE \E i \in 1 .. n + 1 : IsTerminal(fs[i])
    BY <1>2, <1>5, <1>6 DEF DoneFits
  <2>1. CASE parser.done
    <3>1. \E i \in 1 .. n : IsTerminal(fs[i])
      BY <2>1 DEF StreamInv, Fits, DoneFits, n
    <3>2. \A i \in 1 .. n : i \in 1 .. n + 1
      BY <1>1
    <3> QED
      BY <3>1, <3>2
  <2>2. CASE IsTerminal(f)
    <3>1. n + 1 \in 1 .. n + 1
      BY <1>1
    <3> QED
      BY <1>4, <2>2, <3>1
  <2> QED
    BY <1>6, <2>1, <2>2 DEF Tells
<1>14. ToolsFit'
  BY <1>2, <1>5, <1>6, <1>8 DEF ToolsFit
<1>15. EndFits'
  BY <1>2 DEF StreamInv, EndFits
<1> QED
  BY <1>9, <1>10, <1>11, <1>12, <1>13, <1>14, <1>15 DEF StreamInv, Fits

LEMMA StreamYield ==
  StreamInv /\ Yield => StreamInv'
<1> SUFFICES ASSUME StreamInv, Yield PROVE StreamInv'
  OBVIOUS
<1>1. /\ pending \in Seq(Events) /\ yielded \in Seq(Events) /\ pending # <<>>
      /\ pending' = Tail(pending) /\ yielded' = Append(yielded, Head(pending))
      /\ UNCHANGED <<response, wire, buffer, reading, parser>>
      /\ ended' \in {"error", None}
  BY DEF StreamInv, StreamTypes, Yield
<1>2. pending' \in Seq(Events) /\ yielded' \in Seq(Events)
  BY <1>1
<1>3. Given' = Given
  <2>1. Append(yielded, Head(pending)) \o Tail(pending) = yielded \o pending
    BY <1>1
  <2> QED
    BY <1>1, <2>1 DEF Given
<1>4. StreamTypes'
  BY <1>1, <1>2 DEF StreamInv, StreamTypes
<1>5. Cut' = Cut
  BY <1>1 DEF Cut
<1>6. InOrder' /\ OnWire' /\ HeardFits' /\ DoneFits' /\ ToolsFit'
  BY <1>1, <1>3, <1>5 DEF StreamInv, Fits, InOrder, OnWire, HeardFits, DoneFits, ToolsFit
<1>7. EndFits'
  BY <1>1 DEF EndFits, None
<1> QED
  BY <1>4, <1>6, <1>7 DEF StreamInv, Fits

LEMMA StreamNext ==
  StreamInv /\ [Next]_vars => StreamInv'
<1> SUFFICES ASSUME StreamInv, [Next]_vars PROVE StreamInv'
  OBVIOUS
<1>1. StreamTypes /\ reading \in BOOLEAN
  BY DEF StreamInv, StreamTypes
<1>2. CASE Send
  <2>1. /\ UNCHANGED <<response, wire, buffer, reading, parser, pending, yielded>>
        /\ ended' # "clean"
    BY <1>2 DEF Send, None
  <2>2. StreamTypes' /\ Fits'
    BY <1>1, <2>1, StreamStays
  <2> QED
    BY <2>1, <2>2 DEF StreamInv, EndFits
<1>3. CASE Receive
  BY <1>3, StreamReceive
<1>4. CASE ExtractFrame
  BY <1>4, StreamExtract
<1>5. CASE BufferEmpty
  <2>1. /\ UNCHANGED <<response, wire, buffer, parser, pending, yielded, ended>>
        /\ reading' = FALSE
    BY <1>5 DEF BufferEmpty
  <2>2. StreamTypes' /\ Fits'
    BY <2>1, StreamStays
  <2> QED
    BY <2>1, <2>2 DEF StreamInv, EndFits
<1>6. CASE Yield
  BY <1>6, StreamYield
<1>7. CASE EndOfBody \/ CloseEarly \/ ReadFails
  <2>1. /\ UNCHANGED <<response, wire, buffer, reading, parser, pending, yielded>>
        /\ pending = <<>> /\ ~reading /\ (ended' = "clean" => parser.done)
    BY <1>7 DEF EndOfBody, CloseEarly, ReadFails, Polled
  <2>2. StreamTypes' /\ Fits'
    BY <1>1, <2>1, StreamStays
  <2> QED
    BY <2>1, <2>2 DEF StreamInv, EndFits
<1>8. CASE UNCHANGED vars
  <2>1. UNCHANGED <<response, wire, buffer, reading, parser, pending, yielded, ended>>
    BY <1>8 DEF vars
  <2>2. StreamTypes' /\ Fits'
    BY <1>1, <2>1, StreamStays
  <2> QED
    BY <2>1, <2>2 DEF StreamInv, EndFits
<1> QED
  BY <1>2, <1>3, <1>4, <1>5, <1>6, <1>7, <1>8 DEF Next

\* The stream between the body of a response and the loop: the frames stay in
\* order, what was cut is what was parsed, and each tool is begun and not ended
\* exactly while the parser has it.
THEOREM StreamInductive ==
  Spec => []StreamInv
<1> QED
  BY StreamInit, StreamNext, PTL DEF Spec

--------------------------------------------------------------------------------
(* The properties *)

LEMMA SplitAt ==
  ASSUME NEW S, NEW s \in Seq(S), NEW k \in Nat, k <= Len(s)
  PROVE  /\ SubSeq(s, 1, k) \in Seq(S) /\ SubSeq(s, k + 1, Len(s)) \in Seq(S)
         /\ s = SubSeq(s, 1, k) \o SubSeq(s, k + 1, Len(s))
<1> DEFINE x == SubSeq(s, 1, k)
           y == SubSeq(s, k + 1, Len(s))
<1>1. x \in Seq(S) /\ Len(x) = k /\ \A i \in 1 .. k : x[i] = s[i]
  OBVIOUS
<1>2. y \in Seq(S) /\ Len(y) = Len(s) - k /\ \A i \in 1 .. Len(s) - k : y[i] = s[k + i]
  OBVIOUS
<1> HIDE DEF x, y
<1>3. s = x \o y
  <2>1. /\ Len(s) = Len(x) + Len(y)
        /\ \A i \in 1 .. Len(x) : s[i] = x[i]
        /\ \A i \in 1 .. Len(y) : s[Len(x) + i] = y[i]
    BY <1>1, <1>2
  <2> QED
    BY <1>1, <1>2, <2>1, ConcatIs
<1> QED
  BY <1>1, <1>2, <1>3 DEF x, y

LEMMA PrefixOfConcat ==
  ASSUME NEW S, NEW a \in Seq(S), NEW b \in Seq(S)
  PROVE  IsPrefix(a, a \o b)
BY DEF IsPrefix

LEMMA WholeFits ==
  StreamInv => ResponseIsWhole
<1> SUFFICES ASSUME StreamInv PROVE ResponseIsWhole
  OBVIOUS
<1> DEFINE F == FramesOf(response)
           fs == response.frames
           n == Cut
           front == SubSeq(fs, 1, n)
           rest == SubSeq(fs, n + 1, Len(fs))
<1>1. /\ response \in Responses /\ fs \in Seq(F) /\ WellOrdered(fs)
      /\ n \in Nat /\ n <= Len(fs)
      /\ pending \in Seq(Events) /\ yielded \in Seq(Events)
  BY ResponseFacts DEF StreamInv, Fits, StreamTypes, InOrder, Cut
<1> HIDE DEF n
<1>2. /\ front \in Seq(F) /\ rest \in Seq(F) /\ fs = front \o rest
  BY <1>1, SplitAt
<1> DEFINE heard == HeardIn(yielded)
           more == HeardIn(pending)
           later == SpokenIn(rest)
<1>3. heard \in Seq(Events) /\ more \in Seq(Events) /\ heard \o more = SpokenIn(front)
  <2>1. HeardIn(yielded \o pending) = SpokenIn(front)
    BY DEF StreamInv, Fits, HeardFits, Given, n
  <2> QED
    BY <1>1, <2>1, HeardOfTwo
<1>4. /\ SpokenIn(front) \in Seq(Events) /\ later \in Seq(Events)
      /\ SpokenIn(fs) = SpokenIn(front) \o later
  <2> HIDE DEF front, rest, fs
  <2> QED
    BY <1>2, SpokenOfTwo DEF F
<1>5. Heard = heard /\ Spoken = SpokenIn(fs)
  BY DEF Heard, Spoken
<1> HIDE DEF heard, more, later, fs, front, rest
<1>6. Spoken = heard \o (more \o later)
  <2>1. (heard \o more) \o later = heard \o (more \o later)
    <3>1. heard \in Seq(Events) /\ more \in Seq(Events) /\ later \in Seq(Events)
      BY <1>3, <1>4
    <3> QED
      BY <3>1, Associative, SMTT(60)
  <2> QED
    BY <1>3, <1>4, <1>5, <2>1
<1>7. IsPrefix(Heard, Spoken)
  <2>1. more \o later \in Seq(Events)
    BY <1>3, <1>4
  <2> QED
    BY <1>3, <1>5, <1>6, <2>1, PrefixOfConcat
<1>8. ASSUME ended = "clean"
      PROVE  Heard = Spoken
  <2>1. pending = <<>> /\ parser.done
    BY <1>8 DEF StreamInv, EndFits
  <2>2. PICK i \in 1 .. n : IsTerminal(fs[i])
    BY <2>1 DEF StreamInv, Fits, DoneFits, n, fs
  <2>3. n = Len(fs)
    <3>1. i \in DOMAIN fs /\ i <= n /\ n \in Nat /\ n <= Len(fs)
      BY <1>1, <2>2
    <3>2. Len(fs) \in DOMAIN fs
      BY <1>1, <3>1
    <3>3. Len(fs) <= i
      BY <1>1, <2>2, <3>1, <3>2 DEF WellOrdered
    <3> QED
      BY <1>1, <3>1, <3>3
  <2>4. rest = <<>> /\ later = <<>>
    <3>1. rest = <<>>
      BY <1>1, <2>3 DEF rest
    <3> QED
      BY <3>1, SpokenOfOne DEF later
  <2>5. more = <<>>
    BY <2>1, HeardOfOne DEF more
  <2>6. heard \o (<<>> \o <<>>) = heard
    BY <1>3
  <2> QED
    BY <1>5, <1>6, <2>4, <2>5, <2>6
<1> QED
  BY <1>7, <1>8 DEF ResponseIsWhole

\* However the body of a response is cut into chunks and wherever it breaks off,
\* the loop hears what the model said in order, and takes a response for complete
\* only if it has heard all of it: sse_stream, whose frames may straddle chunks and
\* whose reading stops at a frame without data, and both parsers.
THEOREM ResponsesAreWhole ==
  Spec => []ResponseIsWhole
<1> QED
  BY StreamInductive, WholeFits, PTL

LEMMA BracketsFit ==
  StreamInv => ToolsAreBracketed
<1> SUFFICES ASSUME StreamInv PROVE ToolsAreBracketed
  OBVIOUS
<1> DEFINE n == Len(yielded)
<1>1. /\ pending \in Seq(Events) /\ yielded \in Seq(Events) /\ Given \in Seq(Events)
      /\ n \in Nat /\ DOMAIN yielded = 1 .. n /\ DOMAIN Given = 1 .. Len(Given) /\ n <= Len(Given)
      /\ Len(Given) \in Nat
      /\ \A i \in 1 .. n : Given[i] = yielded[i] /\ yielded[i] \in Events
  BY DEF StreamInv, StreamTypes, Given
<1>2. PICK live, begun, stops : Bracketed(Given, live, begun, stops)
  BY DEF StreamInv, Fits, ToolsFit, AnthropicFits, OpenAIFits
<1> HIDE DEF n
<1>3. \A j \in 1 .. n : \A id :
        /\ Is(yielded[j], "tool_use_start", id) <=> j \in At(ToolUseStart(id))
        /\ Is(yielded[j], "tool_use_end", id) <=> j \in At(ToolUseEnd(id))
  <2> SUFFICES ASSUME NEW j \in 1 .. n, NEW id
               PROVE  /\ Is(yielded[j], "tool_use_start", id) <=> yielded[j] = ToolUseStart(id)
                      /\ Is(yielded[j], "tool_use_end", id) <=> yielded[j] = ToolUseEnd(id)
    BY <1>1 DEF At
  <2>1. yielded[j] = [type |-> yielded[j].type, id |-> yielded[j].id]
    BY <1>1 DEF Events
  <2> QED
    BY <2>1 DEF Is, ToolUseStart, ToolUseEnd
<1>4. ASSUME NEW i \in 1 .. n, yielded[i].type \in {"tool_input", "tool_use_end"}
      PROVE  /\ \E j \in At(ToolUseStart(yielded[i].id)) : j < i
             /\ \A j \in At(ToolUseEnd(yielded[i].id)) : i <= j
  <2>1. i \in DOMAIN Given /\ IsPart(Given[i]) /\ Given[i] = yielded[i]
    BY <1>1, <1>4 DEF IsPart
  <2>2. PICK j \in DOMAIN Given : j < i /\ Is(Given[j], "tool_use_start", Given[i].id)
    BY <1>2, <2>1 DEF Bracketed, Follows
  <2>3. j \in 1 .. n /\ Given[j] = yielded[j]
    BY <1>1, <2>2
  <2>4. j \in At(ToolUseStart(yielded[i].id))
    BY <1>3, <2>1, <2>2, <2>3
  <2>5. ASSUME NEW k \in At(ToolUseEnd(yielded[i].id))
        PROVE  i <= k
    <3>1. k \in 1 .. n
      BY <1>1 DEF At
    <3>2. k \in DOMAIN Given /\ Is(Given[k], "tool_use_end", Given[i].id)
      BY <1>1, <1>3, <2>1, <2>5, <3>1
    <3> QED
      BY <1>2, <2>1, <3>2 DEF Bracketed, Precedes
  <2> QED
    BY <2>2, <2>4, <2>5
<1>5. ASSUME NEW i \in 1 .. n, yielded[i].type = "message_end",
             NEW j \in 1 .. n, yielded[j].type = "tool_use_start"
      PROVE  At(ToolUseEnd(yielded[j].id)) # {}
  <2>1. /\ i \in DOMAIN Given /\ j \in DOMAIN Given /\ IsStop(Given[i]) /\ IsStart(Given[j])
        /\ Given[j] = yielded[j]
    BY <1>1, <1>5 DEF IsStop, IsStart
  <2>2. PICK k \in DOMAIN Given : k < i /\ Is(Given[k], "tool_use_end", Given[j].id)
    BY <1>2, <2>1 DEF Bracketed, Completes
  <2>3. k \in 1 .. n /\ Given[k] = yielded[k]
    BY <1>1, <2>2
  <2> QED
    BY <1>3, <2>1, <2>2, <2>3
<1> QED
  BY <1>1, <1>4, <1>5 DEF ToolsAreBracketed

\* Every tool of a response begins, then has its arguments, then ends, once and
\* before the message does, for any number of tools, whose arguments OpenAI may
\* interleave: the loop submits each with all of its input.
THEOREM ToolsStayBracketed ==
  Spec => []ToolsAreBracketed
<1> QED
  BY StreamInductive, BracketsFit, PTL

--------------------------------------------------------------------------------
(* Lists of lists, made of the elements of a list *)

\* f maps each element of a list to another one, or to a list of its own: the lists
\* are joined in order.
Gives(f, A, B) == f \in [A -> B]

Map(f, s) == [i \in DOMAIN s |-> f[s[i]]]

Bind(f, s) == FlattenSeq([i \in DOMAIN s |-> f[s[i]]])

LEMMA MapType ==
  ASSUME NEW A, NEW Q, NEW f, Gives(f, A, Q), NEW s \in Seq(A)
  PROVE  Map(f, s) \in Seq(Q)
BY DEF Gives, Map

LEMMA MapConcat ==
  ASSUME NEW A, NEW Q, NEW f, Gives(f, A, Q), NEW s \in Seq(A), NEW t \in Seq(A)
  PROVE  Map(f, s \o t) = Map(f, s) \o Map(f, t)
<1> DEFINE x == Map(f, s)
           y == Map(f, t)
           z == Map(f, s \o t)
<1>1. x \in Seq(Q) /\ y \in Seq(Q) /\ z \in Seq(Q)
  <2>1. s \o t \in Seq(A)
    OBVIOUS
  <2> QED
    BY <2>1, MapType
<1>2. /\ Len(x) = Len(s) /\ Len(y) = Len(t) /\ Len(z) = Len(s) + Len(t)
      /\ \A i \in 1 .. Len(s) : z[i] = x[i]
      /\ \A i \in 1 .. Len(t) : z[Len(s) + i] = y[i]
  BY DEF Map
<1>3. /\ Len(z) = Len(x) + Len(y)
      /\ \A i \in 1 .. Len(x) : z[i] = x[i]
      /\ \A i \in 1 .. Len(y) : z[Len(x) + i] = y[i]
  BY <1>2
<1> HIDE DEF x, y, z
<1>4. z = x \o y
  BY <1>1, <1>3, ConcatIs, SMTT(30)
<1> QED
  BY <1>4 DEF x, y, z

LEMMA BindType ==
  ASSUME NEW A, NEW B, NEW f, Gives(f, A, Seq(B)), NEW s \in Seq(A)
  PROVE  Map(f, s) \in Seq(Seq(B)) /\ Bind(f, s) \in Seq(B)
<1>1. Map(f, s) \in Seq(Seq(B))
  BY MapType
<1> QED
  BY <1>1, FlattenType DEF Bind, Map

LEMMA BindConcat ==
  ASSUME NEW A, NEW B, NEW f, Gives(f, A, Seq(B)), NEW s \in Seq(A), NEW t \in Seq(A)
  PROVE  Bind(f, s \o t) = Bind(f, s) \o Bind(f, t)
<1> DEFINE x == Map(f, s)
           y == Map(f, t)
<1>1. x \in Seq(Seq(B)) /\ y \in Seq(Seq(B))
  BY BindType
<1>2. Map(f, s \o t) = x \o y
  BY MapConcat
<1>3. /\ Bind(f, s \o t) = FlattenSeq(Map(f, s \o t))
      /\ Bind(f, s) = FlattenSeq(x) /\ Bind(f, t) = FlattenSeq(y)
  BY DEF Bind, Map
<1> HIDE DEF x, y
<1>4. FlattenSeq(x \o y) = FlattenSeq(x) \o FlattenSeq(y)
  BY <1>1, FlattenConcat
<1> QED
  BY <1>2, <1>3, <1>4

LEMMA BindOne ==
  ASSUME NEW A, NEW B, NEW f, Gives(f, A, Seq(B)), NEW x \in A
  PROVE  Bind(f, <<x>>) = f[x]
<1>1. [i \in DOMAIN <<x>> |-> f[<<x>>[i]]] = Append(<<>>, f[x])
  OBVIOUS
<1>2. FlattenSeq(<<>>) = <<>> /\ <<>> \in Seq(Seq(B)) /\ f[x] \in Seq(B)
  BY DEF FlattenSeq, Gives
<1>3. FlattenSeq(Append(<<>>, f[x])) = FlattenSeq(<<>>) \o f[x]
  BY <1>2, FlattenAppend
<1>4. <<>> \o f[x] = f[x]
  BY <1>2
<1> QED
  BY <1>1, <1>2, <1>3, <1>4 DEF Bind

LEMMA BindNone ==
  ASSUME NEW f
  PROVE  Bind(f, <<>>) = <<>>
BY DEF Bind, FlattenSeq

\* The functions need only agree on what the list has.
LEMMA BindSame ==
  ASSUME NEW f, NEW g, NEW A, NEW s \in Seq(A), \A x \in ToSet(s) : f[x] = g[x]
  PROVE  Bind(f, s) = Bind(g, s)
<1>1. \A i \in DOMAIN s : f[s[i]] = g[s[i]]
  BY DEF ToSet
<1> QED
  BY <1>1 DEF Bind

\* Two joins are one.
LEMMA BindBind ==
  ASSUME NEW A, NEW B, NEW C, NEW f, Gives(f, A, Seq(B)), NEW g, Gives(g, B, Seq(C)),
         NEW h, Gives(h, A, Seq(C)), NEW s \in Seq(A),
         \A x \in ToSet(s) : h[x] = Bind(g, f[x])
  PROVE  Bind(g, Bind(f, s)) = Bind(h, s)
<1> DEFINE part(n) == SubSeq(s, 1, n)
           T == {n \in Nat : n <= Len(s) => Bind(g, Bind(f, part(n))) = Bind(h, part(n))}
<1>1. 0 \in T
  <2>1. part(0) = <<>>
    OBVIOUS
  <2>2. Bind(g, Bind(f, part(0))) = Bind(h, part(0))
    BY <2>1, BindNone
  <2> HIDE DEF part
  <2> QED
    BY <2>2
<1>2. ASSUME NEW n \in Nat, n \in T, n + 1 <= Len(s)
      PROVE  Bind(g, Bind(f, part(n + 1))) = Bind(h, part(n + 1))
  <2> DEFINE p == part(n)
             x == s[n + 1]
  <2>1. p \in Seq(A) /\ x \in A /\ x \in ToSet(s) /\ part(n + 1) = p \o <<x>>
    BY <1>2 DEF ToSet
  <2>2. Bind(g, Bind(f, p)) = Bind(h, p)
    BY <1>2
  <2> HIDE DEF p, x
  <2>3. <<x>> \in Seq(A) /\ Bind(f, <<x>>) = f[x] /\ Bind(h, <<x>>) = h[x]
    <3>1. <<x>> \in Seq(A)
      BY <2>1
    <3>2. Bind(f, <<x>>) = f[x] /\ Bind(h, <<x>>) = h[x]
      BY <2>1, BindOne
    <3> QED
      BY <3>1, <3>2
  <2>4. Bind(f, p) \in Seq(B) /\ f[x] \in Seq(B)
    <3>1. f[x] \in Seq(B)
      BY <2>1 DEF Gives
    <3> QED
      BY <2>1, <3>1, BindType
  <2> DEFINE one == <<x>>
  <2> HIDE DEF one
  <2>0. p \in Seq(A) /\ one \in Seq(A) /\ Bind(f, one) = f[x] /\ Bind(h, one) = h[x]
    BY <2>1, <2>3 DEF one
  <2>5. Bind(f, p \o one) = Bind(f, p) \o f[x]
    <3>1. p \in Seq(A) /\ one \in Seq(A)
      BY <2>0
    <3>2. Bind(f, p \o one) = Bind(f, p) \o Bind(f, one)
      BY <3>1, BindConcat
    <3> QED
      BY <2>0, <3>2
  <2>6. Bind(h, p \o one) = Bind(h, p) \o h[x]
    <3>1. p \in Seq(A) /\ one \in Seq(A)
      BY <2>0
    <3>2. Bind(h, p \o one) = Bind(h, p) \o Bind(h, one)
      BY <3>1, BindConcat
    <3> QED
      BY <2>0, <3>2
  <2>7. Bind(g, Bind(f, p) \o f[x]) = Bind(g, Bind(f, p)) \o Bind(g, f[x])
    BY <2>4, BindConcat
  <2> QED
    BY <2>1, <2>2, <2>5, <2>6, <2>7 DEF one
<1>3. \A n \in Nat : n \in T => n + 1 \in T
  BY <1>2
<1> HIDE DEF T
<1>4. Nat \subseteq T
  BY <1>1, <1>3, AllNaturals
<1>5. Len(s) \in Nat /\ SubSeq(s, 1, Len(s)) = s /\ Len(s) <= Len(s)
  OBVIOUS
<1> QED
  BY <1>4, <1>5 DEF T

\* Where in a list of lists an element of the concatenation comes from.
From(from, ss) ==
  /\ from \in [1 .. Len(FlattenSeq(ss)) -> 1 .. Len(ss)]
  /\ \A p, q \in 1 .. Len(FlattenSeq(ss)) : p <= q => from[p] <= from[q]
  /\ \A p \in 1 .. Len(FlattenSeq(ss)) : FlattenSeq(ss)[p] \in ToSet(ss[from[p]])
  /\ \A i \in 1 .. Len(ss) : \A x \in ToSet(ss[i]) :
       \E p \in 1 .. Len(FlattenSeq(ss)) : from[p] = i /\ FlattenSeq(ss)[p] = x

LEMMA FromAppend ==
  ASSUME NEW S, NEW ss \in Seq(Seq(S)), NEW s \in Seq(S), NEW from, From(from, ss)
  PROVE  \E g : From(g, Append(ss, s))
<1> DEFINE flat == FlattenSeq(ss)
           tt == Append(ss, s)
           n  == Len(ss)
           l  == Len(flat)
           g  == [p \in 1 .. l + Len(s) |-> IF p <= l THEN from[p] ELSE n + 1]
<1>1. flat \in Seq(S) /\ FlattenSeq(tt) = flat \o s
  BY FlattenType, FlattenAppend
<1>2. /\ n \in Nat /\ l \in Nat /\ Len(s) \in Nat /\ Len(tt) = n + 1
      /\ tt[n + 1] = s /\ \A i \in 1 .. n : tt[i] = ss[i]
  BY <1>1
<1>3. /\ Len(flat \o s) = l + Len(s)
      /\ \A p \in 1 .. l : (flat \o s)[p] = flat[p]
      /\ \A k \in 1 .. Len(s) : (flat \o s)[l + k] = s[k]
  BY <1>1
<1>4. /\ from \in [1 .. l -> 1 .. n]
      /\ \A p, q \in 1 .. l : p <= q => from[p] <= from[q]
      /\ \A p \in 1 .. l : flat[p] \in ToSet(ss[from[p]])
      /\ \A i \in 1 .. n : \A x \in ToSet(ss[i]) : \E p \in 1 .. l : from[p] = i /\ flat[p] = x
  BY DEF From
<1> HIDE DEF flat, tt, n, l
<1>5. /\ \A p \in 1 .. l : g[p] = from[p] /\ from[p] \in 1 .. n /\ p \in 1 .. l + Len(s)
      /\ \A p \in l + 1 .. l + Len(s) : g[p] = n + 1 /\ p \in 1 .. l + Len(s)
      /\ \A p \in 1 .. l + Len(s) : p \in 1 .. l \/ p \in l + 1 .. l + Len(s)
  <2>1. \A p \in 1 .. l : g[p] = from[p] /\ p \in 1 .. l + Len(s)
    BY <1>2
  <2>2. \A p \in 1 .. l : from[p] \in 1 .. n
    BY <1>4
  <2>3. \A p \in l + 1 .. l + Len(s) : g[p] = n + 1 /\ p \in 1 .. l + Len(s)
    BY <1>2
  <2>4. \A p \in 1 .. l + Len(s) : p \in 1 .. l \/ p \in l + 1 .. l + Len(s)
    BY <1>2
  <2> QED
    BY <2>1, <2>2, <2>3, <2>4
<1>6. g \in [1 .. l + Len(s) -> 1 .. n + 1]
  <2>1. \A p \in 1 .. l + Len(s) : g[p] \in 1 .. n + 1
    <3> SUFFICES ASSUME NEW p \in 1 .. l + Len(s) PROVE g[p] \in 1 .. n + 1
      OBVIOUS
    <3>1. g[p] \in 1 .. n \/ g[p] = n + 1
      BY <1>5
    <3> QED
      BY <1>2, <3>1
  <2> QED
    BY <2>1
<1> HIDE DEF g
<1>7. \A p, q \in 1 .. l + Len(s) : p <= q => g[p] <= g[q]
  <2> SUFFICES ASSUME NEW p \in 1 .. l + Len(s), NEW q \in 1 .. l + Len(s), p <= q
               PROVE  g[p] <= g[q]
    OBVIOUS
  <2>1. CASE q \in 1 .. l
    <3>1. p \in 1 .. l
      BY <1>2, <2>1
    <3> QED
      BY <1>4, <1>5, <2>1, <3>1
  <2>2. CASE q \in l + 1 .. l + Len(s)
    <3>1. g[q] = n + 1 /\ g[p] \in 1 .. n + 1
      BY <1>5, <1>6, <2>2
    <3> QED
      BY <1>2, <3>1
  <2> QED
    BY <1>5, <2>1, <2>2
<1>8. \A p \in 1 .. l + Len(s) : (flat \o s)[p] \in ToSet(tt[g[p]])
  <2> SUFFICES ASSUME NEW p \in 1 .. l + Len(s) PROVE (flat \o s)[p] \in ToSet(tt[g[p]])
    OBVIOUS
  <2>1. CASE p \in 1 .. l
    BY <1>2, <1>3, <1>4, <1>5, <2>1
  <2>2. CASE p \in l + 1 .. l + Len(s)
    <3>1. p - l \in 1 .. Len(s) /\ l + (p - l) = p
      BY <1>2, <2>2
    <3>2. (flat \o s)[p] = s[p - l] /\ tt[g[p]] = s
      BY <1>2, <1>3, <1>5, <2>2, <3>1
    <3> QED
      BY <3>1, <3>2 DEF ToSet
  <2> QED
    BY <1>5, <2>1, <2>2
<1>9. ASSUME NEW i \in 1 .. n + 1, NEW x \in ToSet(tt[i])
      PROVE  \E p \in 1 .. l + Len(s) : g[p] = i /\ (flat \o s)[p] = x
  <2>1. CASE i \in 1 .. n
    <3>1. PICK p \in 1 .. l : from[p] = i /\ flat[p] = x
      BY <1>2, <1>4, <1>9, <2>1
    <3> QED
      BY <1>3, <1>5, <3>1
  <2>2. CASE i = n + 1
    <3>1. PICK k \in 1 .. Len(s) : s[k] = x
      BY <1>2, <1>9, <2>2 DEF ToSet
    <3>2. l + k \in l + 1 .. l + Len(s)
      BY <1>2
    <3> QED
      BY <1>3, <1>5, <2>2, <3>1, <3>2
  <2>3. i \in 1 .. n \/ i = n + 1
    BY <1>2, <1>9
  <2> QED
    BY <2>1, <2>2, <2>3
<1>10. From(g, tt)
  <2> DEFINE all == flat \o s
             m   == l + Len(s)
  <2>1. FlattenSeq(tt) = all /\ Len(all) = m /\ Len(tt) = n + 1
    BY <1>1, <1>2, <1>3
  <2>2. /\ g \in [1 .. m -> 1 .. n + 1]
        /\ \A p, q \in 1 .. m : p <= q => g[p] <= g[q]
        /\ \A p \in 1 .. m : all[p] \in ToSet(tt[g[p]])
        /\ \A i \in 1 .. n + 1 : \A x \in ToSet(tt[i]) : \E p \in 1 .. m : g[p] = i /\ all[p] = x
    BY <1>6, <1>7, <1>8, <1>9
  <2> HIDE DEF all, m
  <2> QED
    BY <2>1, <2>2 DEF From
<1> QED
  BY <1>10 DEF tt

LEMMA Traced ==
  ASSUME NEW S, NEW ss \in Seq(Seq(S))
  PROVE  \E from : From(from, ss)
<1> DEFINE part(n) == SubSeq(ss, 1, n)
           holds(n) == \E from : From(from, part(n))
           T == {n \in Nat : n <= Len(ss) => holds(n)}
<1>1. holds(0)
  <2>1. part(0) = <<>> /\ FlattenSeq(<<>>) = <<>>
    BY DEF FlattenSeq
  <2>2. <<>> \in [1 .. 0 -> 1 .. 0] /\ 1 .. 0 = {} /\ Len(<<>>) = 0
    OBVIOUS
  <2>3. From(<<>>, <<>>)
    BY <2>1, <2>2 DEF From
  <2> QED
    BY <2>1, <2>3
<1>2. ASSUME NEW n \in Nat, holds(n), n + 1 <= Len(ss)
      PROVE  holds(n + 1)
  <2>1. part(n) \in Seq(Seq(S)) /\ ss[n + 1] \in Seq(S) /\ part(n + 1) = Append(part(n), ss[n + 1])
    BY <1>2
  <2>2. PICK from : From(from, part(n))
    BY <1>2
  <2> DEFINE a == part(n)
             b == ss[n + 1]
  <2>3. a \in Seq(Seq(S)) /\ b \in Seq(S) /\ From(from, a)
    BY <2>1, <2>2
  <2> HIDE DEF a, b
  <2>4. \E g : From(g, Append(a, b))
    BY <2>3, FromAppend
  <2> QED
    BY <2>1, <2>4 DEF a, b
<1> HIDE DEF holds
<1>3. 0 \in T /\ \A n \in Nat : n \in T => n + 1 \in T
  <2>1. Len(ss) \in Nat
    OBVIOUS
  <2> QED
    BY <1>1, <1>2, <2>1
<1> HIDE DEF T
<1>4. Nat \subseteq T
  BY <1>3, AllNaturals
<1>5. Len(ss) \in Nat /\ SubSeq(ss, 1, Len(ss)) = ss /\ Len(ss) <= Len(ss)
  OBVIOUS
<1>6. holds(Len(ss))
  BY <1>4, <1>5 DEF T
<1> QED
  BY <1>5, <1>6 DEF holds

\* What a join has.
LEMMA BindHas ==
  ASSUME NEW A, NEW B, NEW f, Gives(f, A, Seq(B)), NEW s \in Seq(A)
  PROVE  ToSet(Bind(f, s)) = UNION {ToSet(f[s[i]]) : i \in DOMAIN s}
<1> DEFINE ss == Map(f, s)
<1>1. ss \in Seq(Seq(B)) /\ Bind(f, s) = FlattenSeq(ss)
  BY BindType DEF Bind, Map
<1>2. Len(ss) = Len(s) /\ DOMAIN s = 1 .. Len(s) /\ \A i \in 1 .. Len(s) : ss[i] = f[s[i]]
  BY DEF Map
<1> HIDE DEF ss
<1>3. PICK from : From(from, ss)
  BY <1>1, Traced
<1> DEFINE flat == FlattenSeq(ss)
<1>4. flat \in Seq(B)
  BY <1>1, FlattenType
<1>5. DOMAIN flat = 1 .. Len(flat)
  BY <1>4
<1>6. /\ from \in [1 .. Len(flat) -> 1 .. Len(s)]
      /\ \A p \in 1 .. Len(flat) : flat[p] \in ToSet(ss[from[p]])
      /\ \A i \in 1 .. Len(s) : \A x \in ToSet(ss[i]) : \E p \in 1 .. Len(flat) : flat[p] = x
  BY <1>2, <1>3 DEF From
<1> HIDE DEF flat
<1>7. \A x \in ToSet(flat) : \E i \in DOMAIN s : x \in ToSet(f[s[i]])
  <2> SUFFICES ASSUME NEW x \in ToSet(flat) PROVE \E i \in DOMAIN s : x \in ToSet(f[s[i]])
    OBVIOUS
  <2>1. PICK p \in 1 .. Len(flat) : flat[p] = x
    BY <1>5 DEF ToSet
  <2>2. from[p] \in DOMAIN s /\ x \in ToSet(ss[from[p]])
    BY <1>2, <1>6, <2>1
  <2> QED
    BY <1>2, <2>2
<1>8. \A i \in DOMAIN s : \A x \in ToSet(f[s[i]]) : x \in ToSet(flat)
  <2> SUFFICES ASSUME NEW i \in DOMAIN s, NEW x \in ToSet(f[s[i]]) PROVE x \in ToSet(flat)
    OBVIOUS
  <2>1. PICK p \in 1 .. Len(flat) : flat[p] = x
    BY <1>2, <1>6
  <2> QED
    BY <1>5, <2>1 DEF ToSet
<1> QED
  BY <1>1, <1>7, <1>8 DEF flat

--------------------------------------------------------------------------------
(* The blocks of some types *)

Parts == [type : {"text", "thinking", "tool_use", "tool_result", "compact_boundary", "collapsed"},
          id   : STRING \cup {"directive"}]

Chosen(types) == [b \in Parts |-> IF b.type \in types THEN <<b>> ELSE <<>>]

LEMMA OnlyIs ==
  ASSUME NEW T, NEW c \in Seq(Parts)
  PROVE  Only(T, c) = Bind(Chosen(T), c)
<1>1. \A i \in DOMAIN c : Chosen(T)[c[i]] = IF c[i].type \in T THEN <<c[i]>> ELSE <<>>
  BY DEF Chosen
<1> QED
  BY <1>1 DEF Only, Bind

LEMMA ChosenType ==
  ASSUME NEW T
  PROVE  Gives(Chosen(T), Parts, Seq(Parts))
<1>1. \A b \in Parts : <<b>> \in Seq(Parts) /\ <<>> \in Seq(Parts)
  OBVIOUS
<1> QED
  BY <1>1 DEF Gives, Chosen

LEMMA OnlyHas ==
  ASSUME NEW T, NEW c \in Seq(Parts)
  PROVE  Only(T, c) \in Seq(Parts) /\ ToSet(Only(T, c)) = {b \in ToSet(c) : b.type \in T}
<1> DEFINE f == Chosen(T)
<1>1. Gives(f, Parts, Seq(Parts)) /\ Only(T, c) = Bind(f, c)
  BY ChosenType, OnlyIs
<1>2. \A i \in DOMAIN c : ToSet(f[c[i]]) = IF c[i].type \in T THEN {c[i]} ELSE {}
  <2> SUFFICES ASSUME NEW i \in DOMAIN c
               PROVE  ToSet(f[c[i]]) = IF c[i].type \in T THEN {c[i]} ELSE {}
    OBVIOUS
  <2>1. f[c[i]] = IF c[i].type \in T THEN <<c[i]>> ELSE <<>>
    BY DEF Chosen
  <2>2. ToSet(<<c[i]>>) = {c[i]} /\ ToSet(<<>>) = {}
    BY DEF ToSet
  <2> QED
    BY <2>1, <2>2
<1> HIDE DEF f
<1>3. Bind(f, c) \in Seq(Parts) /\ ToSet(Bind(f, c)) = UNION {ToSet(f[c[i]]) : i \in DOMAIN c}
  BY <1>1, BindType, BindHas
<1>4. UNION {ToSet(f[c[i]]) : i \in DOMAIN c} = {b \in ToSet(c) : b.type \in T}
  <2>1. ASSUME NEW b, b \in UNION {ToSet(f[c[i]]) : i \in DOMAIN c}
        PROVE  b \in ToSet(c) /\ b.type \in T
    <3>1. PICK i \in DOMAIN c : b \in ToSet(f[c[i]])
      BY <2>1
    <3>2. b = c[i] /\ c[i].type \in T
      BY <1>2, <3>1
    <3> QED
      BY <3>2 DEF ToSet
  <2>2. ASSUME NEW b \in ToSet(c), b.type \in T
        PROVE  b \in UNION {ToSet(f[c[i]]) : i \in DOMAIN c}
    <3>1. PICK i \in DOMAIN c : b = c[i]
      BY DEF ToSet
    <3>2. b \in ToSet(f[c[i]])
      BY <1>2, <2>2, <3>1
    <3> QED
      BY <3>2
  <2> QED
    BY <2>1, <2>2
<1> QED
  BY <1>1, <1>3, <1>4

LEMMA OnlyConcat ==
  ASSUME NEW T, NEW c \in Seq(Parts), NEW d \in Seq(Parts)
  PROVE  Only(T, c \o d) = Only(T, c) \o Only(T, d)
<1> DEFINE f == Chosen(T)
<1>1. Gives(f, Parts, Seq(Parts)) /\ c \o d \in Seq(Parts)
  BY ChosenType
<1>2. Only(T, c) = Bind(f, c) /\ Only(T, d) = Bind(f, d) /\ Only(T, c \o d) = Bind(f, c \o d)
  BY <1>1, OnlyIs
<1> HIDE DEF f
<1>3. Bind(f, c \o d) = Bind(f, c) \o Bind(f, d)
  BY <1>1, BindConcat
<1> QED
  BY <1>2, <1>3

LEMMA OnlyOnly ==
  ASSUME NEW T, NEW U, NEW c \in Seq(Parts)
  PROVE  Only(T, Only(U, c)) = Only(T \cap U, c)
<1> DEFINE f == Chosen(U)
           g == Chosen(T)
           h == Chosen(T \cap U)
<1>1. Gives(f, Parts, Seq(Parts)) /\ Gives(g, Parts, Seq(Parts)) /\ Gives(h, Parts, Seq(Parts))
  BY ChosenType
<1>2. Only(U, c) = Bind(f, c) /\ Only(T \cap U, c) = Bind(h, c)
  BY OnlyIs
<1>3. Only(T, Only(U, c)) = Bind(g, Bind(f, c))
  <2>1. Only(U, c) \in Seq(Parts)
    BY OnlyHas
  <2> QED
    BY <1>2, <2>1, OnlyIs
<1>4. \A b \in Parts : h[b] = Bind(g, f[b])
  <2> SUFFICES ASSUME NEW b \in Parts PROVE h[b] = Bind(g, f[b])
    OBVIOUS
  <2>1. /\ f[b] = IF b.type \in U THEN <<b>> ELSE <<>>
        /\ g[b] = IF b.type \in T THEN <<b>> ELSE <<>>
        /\ h[b] = IF b.type \in T \cap U THEN <<b>> ELSE <<>>
    BY DEF Chosen
  <2> HIDE DEF f, g, h
  <2>2. Bind(g, <<b>>) = g[b] /\ Bind(g, <<>>) = <<>>
    BY <1>1, BindOne, BindNone
  <2> QED
    BY <2>1, <2>2
<1>5. \A b \in ToSet(c) : h[b] = Bind(g, f[b])
  <2>1. ToSet(c) \subseteq Parts
    BY DEF ToSet
  <2> QED
    BY <1>4, <2>1
<1> HIDE DEF f, g, h
<1>6. Bind(g, Bind(f, c)) = Bind(h, c)
  BY <1>1, <1>5, BindBind
<1> QED
  BY <1>2, <1>3, <1>6

\* Types that the blocks do not have make no difference.
LEMMA OnlySame ==
  ASSUME NEW T, NEW U, NEW c \in Seq(Parts), \A b \in ToSet(c) : b.type \in T <=> b.type \in U
  PROVE  Only(T, c) = Only(U, c)
<1>1. \A i \in DOMAIN c : c[i].type \in T <=> c[i].type \in U
  BY DEF ToSet
<1> QED
  BY <1>1 DEF Only

LEMMA OnlyNothing ==
  ASSUME NEW T, NEW c \in Seq(Parts), \A b \in ToSet(c) : b.type \notin T
  PROVE  Only(T, c) = <<>>
<1> DEFINE o == Only(T, c)
<1>1. o \in Seq(Parts) /\ ToSet(o) = {}
  BY OnlyHas
<1> HIDE DEF o
<1>2. Len(o) \in Nat /\ DOMAIN o = 1 .. Len(o) /\ \A i \in DOMAIN o : o[i] \in ToSet(o)
  BY <1>1 DEF ToSet
<1>3. Len(o) = 0
  <2>1. 1 \notin DOMAIN o
    BY <1>1, <1>2
  <2> QED
    BY <1>2, <2>1
<1>4. o = <<>>
  BY <1>1, <1>3
<1> QED
  BY <1>4 DEF o

--------------------------------------------------------------------------------
(* The requests *)

Messages == [role : {"user", "assistant", "system", "tool"}, content : Seq(Parts)]

OfEach(T) == [m \in Messages |-> Only(T, m.content)]

LEMMA OfEachType ==
  ASSUME NEW T
  PROVE  Gives(OfEach(T), Messages, Seq(Parts))
<1>1. \A m \in Messages : m.content \in Seq(Parts)
  BY DEF Messages
<1>2. \A m \in Messages : Only(T, m.content) \in Seq(Parts)
  BY <1>1, OnlyHas
<1> QED
  BY <1>2 DEF Gives, OfEach

\* The blocks of a conversation are those of its messages.
LEMMA OfContents ==
  ASSUME NEW T, NEW ms \in Seq(Messages)
  PROVE  Contents(ms) \in Seq(Parts) /\ Only(T, Contents(ms)) = Bind(OfEach(T), ms)
<1> DEFINE f == [m \in Messages |-> m.content]
           g == Chosen(T)
           h == OfEach(T)
<1>1. Gives(f, Messages, Seq(Parts)) /\ Gives(g, Parts, Seq(Parts)) /\ Gives(h, Messages, Seq(Parts))
  <2>1. f \in [Messages -> Seq(Parts)]
    BY DEF Messages
  <2> QED
    BY <2>1, ChosenType, OfEachType DEF Gives
<1>2. Contents(ms) = Bind(f, ms)
  <2>1. \A i \in DOMAIN ms : ms[i].content = f[ms[i]]
    OBVIOUS
  <2> QED
    BY <2>1 DEF Contents, Bind
<1>3. \A m \in ToSet(ms) : h[m] = Bind(g, f[m])
  <2> SUFFICES ASSUME NEW m \in ToSet(ms) PROVE h[m] = Bind(g, f[m])
    OBVIOUS
  <2>1. m \in Messages
    BY DEF ToSet
  <2>2. m.content \in Seq(Parts) /\ f[m] = m.content /\ h[m] = Only(T, m.content)
    BY <2>1 DEF Messages, OfEach
  <2> HIDE DEF f, g, h
  <2> QED
    BY <2>2, OnlyIs DEF g
<1> HIDE DEF f, h
<1>4. Contents(ms) \in Seq(Parts)
  BY <1>1, <1>2, BindType
<1>5. Only(T, Contents(ms)) = Bind(g, Bind(f, ms))
  BY <1>2, <1>4, OnlyIs
<1> HIDE DEF g
<1>6. Bind(g, Bind(f, ms)) = Bind(h, ms)
  BY <1>1, <1>3, BindBind
<1> QED
  BY <1>4, <1>5, <1>6 DEF h

PlacedIn(m) ==
  \A b \in ToSet(m.content) :
    /\ b.type = "tool_use" => m.role = "assistant"
    /\ b.type = "tool_result" => m.role = "user"

LEMMA OfOne ==
  ASSUME NEW T, NEW b \in Parts
  PROVE  Only(T, <<b>>) = Chosen(T)[b]
<1> DEFINE one == <<b>>
<1>1. one \in Seq(Parts)
  OBVIOUS
<1>2. Bind(Chosen(T), one) = Chosen(T)[b]
  BY ChosenType, BindOne
<1> HIDE DEF one
<1>3. Only(T, one) = Bind(Chosen(T), one)
  BY <1>1, OnlyIs
<1> QED
  BY <1>2, <1>3 DEF one

LEMMA ApiMessageIs ==
  ASSUME NEW role \in {"user", "assistant", "system", "tool"}, NEW c \in Seq(Parts)
  PROVE  /\ ApiMessage(role, c) \in Messages
         /\ ApiMessage(role, c).role = role /\ ApiMessage(role, c).content = c
BY DEF ApiMessage, Said, Messages

\* The three forms that a message takes in OpenAI's.
LEMMA ToApiForms ==
  ASSUME NEW m \in Messages
  PROVE  LET c == m.content IN
         \/ /\ m.role = "assistant"
            /\ ToApiMessages(m) = <<ApiMessage(m.role, Of("text", c) \o Of("tool_use", c))>>
         \/ /\ m.role = "user"
            /\ LET kept == Only({"text", "tool_result"}, c) IN
               ToApiMessages(m) = [i \in DOMAIN kept |-> OfBlock(kept[i])]
         \/ /\ m.role # "assistant" /\ (m.role = "user" => Of("tool_result", c) = <<>>)
            /\ ToApiMessages(m) = <<ApiMessage(m.role, Of("text", c))>>
BY DEF ToApiMessages

LEMMA ToApiType ==
  ASSUME NEW m \in Messages
  PROVE  ToApiMessages(m) \in Seq(Messages)
<1> DEFINE c == m.content
           kept == Only({"text", "tool_result"}, c)
<1>1. c \in Seq(Parts) /\ m.role \in {"user", "assistant", "system", "tool"}
  BY DEF Messages
<1> HIDE DEF c
<1>2. \A t : Of(t, c) \in Seq(Parts)
  BY <1>1, OnlyHas DEF Of
<1>3. kept \in Seq(Parts)
  BY <1>1, OnlyHas
<1>4. ASSUME NEW d \in Seq(Parts) PROVE <<ApiMessage(m.role, d)>> \in Seq(Messages)
  BY <1>1, ApiMessageIs
<1>5. Of("text", c) \o Of("tool_use", c) \in Seq(Parts)
  BY <1>2
<1>6. [i \in DOMAIN kept |-> OfBlock(kept[i])] \in Seq(Messages)
  <2>1. \A b \in Parts : OfBlock(b) \in Messages
    <3>1. \A b \in Parts : <<b>> \in Seq(Parts)
      OBVIOUS
    <3> QED
      BY <3>1, ApiMessageIs DEF OfBlock
  <2> HIDE DEF kept
  <2> QED
    BY <1>3, <2>1
<1> QED
  BY <1>2, <1>4, <1>5, <1>6, ToApiForms DEF c

\* A message says the same in both forms.
LEMMA ToApiTells ==
  ASSUME NEW m \in Messages, PlacedIn(m), NEW t \in Sendable
  PROVE  Bind(OfEach({t}), ToApiMessages(m)) = Only({t}, m.content)
<1> DEFINE c == m.content
           kept == Only({"text", "tool_result"}, c)
<1>1. c \in Seq(Parts) /\ m.role \in {"user", "assistant", "system", "tool"}
  BY DEF Messages
<1>2. \A b \in ToSet(c) : /\ b.type = "tool_use" => m.role = "assistant"
                          /\ b.type = "tool_result" => m.role = "user"
  BY DEF PlacedIn
<1> HIDE DEF c
<1>3. \A u : Of(u, c) \in Seq(Parts) /\ Only({t}, Of(u, c)) = Only({t} \cap {u}, c)
  <2> SUFFICES ASSUME NEW u
               PROVE  Of(u, c) \in Seq(Parts) /\ Only({t}, Of(u, c)) = Only({t} \cap {u}, c)
    OBVIOUS
  <2>1. Only({u}, c) \in Seq(Parts)
    BY <1>1, OnlyHas
  <2>2. Only({t}, Only({u}, c)) = Only({t} \cap {u}, c)
    <3> DEFINE T == {t}
               U == {u}
    <3> HIDE DEF T, U
    <3>1. Only(T, Only(U, c)) = Only(T \cap U, c)
      BY <1>1, OnlyOnly
    <3> QED
      BY <3>1 DEF T, U
  <2> QED
    BY <2>1, <2>2 DEF Of
<1>4. kept \in Seq(Parts) /\ Only({t}, kept) = Only({t} \cap {"text", "tool_result"}, c)
  <2>1. kept \in Seq(Parts)
    BY <1>1, OnlyHas
  <2>2. Only({t}, kept) = Only({t} \cap {"text", "tool_result"}, c)
    <3> DEFINE T == {t}
               U == {"text", "tool_result"}
    <3> HIDE DEF T, U
    <3>1. Only(T, Only(U, c)) = Only(T \cap U, c)
      BY <1>1, OnlyOnly
    <3> QED
      BY <3>1 DEF T, U
  <2> QED
    BY <2>1, <2>2
<1>5. ASSUME NEW d \in Seq(Parts)
      PROVE  Bind(OfEach({t}), <<ApiMessage(m.role, d)>>) = Only({t}, d)
  <2> DEFINE x == ApiMessage(m.role, d)
  <2>1. x \in Messages /\ x.content = d
    BY <1>1, ApiMessageIs
  <2> HIDE DEF x
  <2>2. Bind(OfEach({t}), <<x>>) = OfEach({t})[x]
    BY <2>1, OfEachType, BindOne
  <2>3. OfEach({t})[x] = Only({t}, x.content)
    BY <2>1 DEF OfEach
  <2> QED
    BY <2>1, <2>2, <2>3 DEF x
<1>6. CASE /\ m.role = "assistant"
           /\ ToApiMessages(m) = <<ApiMessage(m.role, Of("text", c) \o Of("tool_use", c))>>
  <2> DEFINE a == Of("text", c)
             b == Of("tool_use", c)
  <2>1. a \in Seq(Parts) /\ b \in Seq(Parts) /\ Only({t}, c) \in Seq(Parts)
    BY <1>1, <1>3, OnlyHas
  <2>2. Only({t}, a) = Only({t} \cap {"text"}, c) /\ Only({t}, b) = Only({t} \cap {"tool_use"}, c)
    BY <1>3
  <2> HIDE DEF a, b
  <2>3. Bind(OfEach({t}), ToApiMessages(m)) = Only({t}, a) \o Only({t}, b)
    <3>1. a \o b \in Seq(Parts) /\ Only({t}, a \o b) = Only({t}, a) \o Only({t}, b)
      BY <2>1, OnlyConcat
    <3> QED
      BY <1>5, <1>6, <3>1 DEF a, b
  <2>4. \A s \in Seq(Parts) : <<>> \o s = s /\ s \o <<>> = s
    OBVIOUS
  <2>5. CASE t = "text"
    <3>1. Only({t} \cap {"text"}, c) = Only({t}, c)
      BY <1>1, <2>5, OnlySame
    <3>2. Only({t} \cap {"tool_use"}, c) = <<>>
      BY <1>1, <2>5, OnlyNothing
    <3> QED
      BY <2>1, <2>2, <2>3, <2>4, <3>1, <3>2 DEF c
  <2>6. CASE t = "tool_use"
    <3>1. Only({t} \cap {"tool_use"}, c) = Only({t}, c)
      BY <1>1, <2>6, OnlySame
    <3>2. Only({t} \cap {"text"}, c) = <<>>
      BY <1>1, <2>6, OnlyNothing
    <3> QED
      BY <2>1, <2>2, <2>3, <2>4, <3>1, <3>2 DEF c
  <2>7. CASE t = "tool_result"
    <3>1. /\ Only({t} \cap {"tool_use"}, c) = <<>>
          /\ Only({t} \cap {"text"}, c) = <<>> /\ Only({t}, c) = <<>>
      BY <1>1, <1>2, <1>6, <2>7, OnlyNothing
    <3> QED
      BY <2>2, <2>3, <2>4, <3>1 DEF c
  <2> QED
    BY <2>5, <2>6, <2>7 DEF Sendable
<1>7. CASE m.role = "user" /\ ToApiMessages(m) = [i \in DOMAIN kept |-> OfBlock(kept[i])]
  <2>1. Only({t} \cap {"text", "tool_result"}, c) = Only({t}, c)
    <3>1. \A b \in ToSet(c) : b.type \in {t} \cap {"text", "tool_result"} <=> b.type \in {t}
      BY <1>2, <1>7 DEF Sendable
    <3> QED
      BY <1>1, <3>1, OnlySame
  <2> HIDE DEF kept
  <2>2. \A i \in DOMAIN kept : OfEach({t})[OfBlock(kept[i])] = Chosen({t})[kept[i]]
    <3> SUFFICES ASSUME NEW i \in DOMAIN kept
                 PROVE  OfEach({t})[OfBlock(kept[i])] = Chosen({t})[kept[i]]
      OBVIOUS
    <3> DEFINE b == kept[i]
    <3>1. b \in Parts
      BY <1>4
    <3> HIDE DEF b
    <3>2. <<b>> \in Seq(Parts)
      BY <3>1
    <3>3. OfBlock(b) \in Messages /\ OfBlock(b).content = <<b>>
      BY <3>2, ApiMessageIs DEF OfBlock
    <3>4. OfEach({t})[OfBlock(b)] = Only({t}, <<b>>)
      BY <3>3 DEF OfEach
    <3> QED
      BY <3>1, <3>4, OfOne DEF b
  <2>3. Bind(OfEach({t}), ToApiMessages(m)) = Bind(Chosen({t}), kept)
    BY <1>7, <2>2 DEF Bind
  <2> QED
    BY <1>4, <2>1, <2>3, OnlyIs DEF c
<1>8. CASE /\ m.role # "assistant" /\ (m.role = "user" => Of("tool_result", c) = <<>>)
           /\ ToApiMessages(m) = <<ApiMessage(m.role, Of("text", c))>>
  <2>1. Bind(OfEach({t}), ToApiMessages(m)) = Only({t} \cap {"text"}, c)
    BY <1>3, <1>5, <1>8
  <2>2. \A b \in ToSet(c) : b.type # "tool_use" /\ b.type # "tool_result"
    <3>1. ToSet(Of("tool_result", c)) = {b \in ToSet(c) : b.type = "tool_result"}
      BY <1>1, OnlyHas DEF Of
    <3>2. ToSet(<<>>) = {}
      BY DEF ToSet
    <3> QED
      BY <1>2, <1>8, <3>1, <3>2
  <2>3. Only({t} \cap {"text"}, c) = Only({t}, c)
    <3>1. \A b \in ToSet(c) : b.type \in {t} \cap {"text"} <=> b.type \in {t}
      BY <2>2 DEF Sendable
    <3> QED
      BY <1>1, <3>1, OnlySame
  <2> QED
    BY <2>1, <2>3 DEF c
<1> QED
  BY <1>6, <1>7, <1>8, ToApiForms DEF c

\* The conversation in each provider's form.
AnthropicForm(ms) ==
  [i \in DOMAIN ms |->
     [role    |-> IF ms[i].role = "assistant" THEN "assistant" ELSE "user",
      content |-> Only(Sendable, ms[i].content)]]

Api == [m \in Messages |-> ToApiMessages(m)]

SystemPrompt == ApiMessage("system", <<>>)

OpenAIForm(ms) == <<SystemPrompt>> \o Bind(Api, ms)

LEMMA Forms ==
  ASSUME messages \in Seq(Messages)
  PROVE  AnthropicRequest = AnthropicForm(messages) /\ OpenAIRequest = OpenAIForm(messages)
<1>1. AnthropicRequest = AnthropicForm(messages)
  BY DEF AnthropicRequest, AnthropicForm
<1>2. \A i \in DOMAIN messages : Api[messages[i]] = ToApiMessages(messages[i])
  BY DEF Api
<1> QED
  BY <1>1, <1>2 DEF OpenAIRequest, OpenAIForm, SystemPrompt, Bind

LEMMA ApiType ==
  Gives(Api, Messages, Seq(Messages)) /\ SystemPrompt \in Messages /\ SystemPrompt.content = <<>>
<1>1. Gives(Api, Messages, Seq(Messages))
  BY ToApiType DEF Gives, Api
<1>2. <<>> \in Seq(Parts)
  OBVIOUS
<1> QED
  BY <1>1, <1>2, ApiMessageIs DEF SystemPrompt

LEMMA FormTypes ==
  ASSUME NEW ms \in Seq(Messages)
  PROVE  AnthropicForm(ms) \in Seq(Messages) /\ OpenAIForm(ms) \in Seq(Messages)
<1>1. AnthropicForm(ms) \in Seq(Messages)
  <2>1. ASSUME NEW i \in 1 .. Len(ms) PROVE AnthropicForm(ms)[i] \in Messages
    <3>1. ms[i].content \in Seq(Parts)
      <4>1. ms[i] \in Messages
        OBVIOUS
      <4> QED
        BY <4>1 DEF Messages
    <3>2. Only(Sendable, ms[i].content) \in Seq(Parts)
      BY <3>1, OnlyHas
    <3> QED
      BY <3>2 DEF AnthropicForm, Messages
  <2> DEFINE r == AnthropicForm(ms)
  <2>2. r = [i \in 1 .. Len(ms) |-> r[i]] /\ Len(ms) \in Nat
    BY DEF AnthropicForm
  <2> HIDE DEF r
  <2> QED
    BY <2>1, <2>2 DEF r
<1>2. Bind(Api, ms) \in Seq(Messages)
  BY ApiType, BindType
<1>3. <<SystemPrompt>> \in Seq(Messages)
  BY ApiType
<1> QED
  BY <1>1, <1>2, <1>3 DEF OpenAIForm

LEMMA PlacedEach ==
  ASSUME NEW ms, Placed(ms)
  PROVE  \A m \in ToSet(ms) : PlacedIn(m)
BY DEF Placed, PlacedIn, ToSet

\* Each kind of block, in order.
LEMMA FormsTell ==
  ASSUME NEW ms \in Seq(Messages), Placed(ms), NEW t \in Sendable
  PROVE  /\ Only({t}, Contents(AnthropicForm(ms))) = Only({t}, Contents(ms))
         /\ Only({t}, Contents(OpenAIForm(ms))) = Only({t}, Contents(ms))
<1> DEFINE h == OfEach({t})
           a == AnthropicForm(ms)
           o == OpenAIForm(ms)
           flat == Bind(Api, ms)
<1>1. /\ Only({t}, Contents(ms)) = Bind(h, ms)
      /\ Only({t}, Contents(a)) = Bind(h, a)
      /\ Only({t}, Contents(o)) = Bind(h, o)
  <2>1. a \in Seq(Messages) /\ o \in Seq(Messages)
    BY FormTypes
  <2> HIDE DEF a, o
  <2> QED
    BY <2>1, OfContents
<1>2. Bind(h, a) = Bind(h, ms)
  <2>1. \A i \in DOMAIN ms : h[a[i]] = h[ms[i]]
    <3> SUFFICES ASSUME NEW i \in DOMAIN ms PROVE h[a[i]] = h[ms[i]]
      OBVIOUS
    <3> DEFINE c == ms[i].content
    <3>1. c \in Seq(Parts) /\ ms[i] \in Messages
      <4>1. ms[i] \in Messages
        OBVIOUS
      <4> QED
        BY <4>1 DEF Messages
    <3>2. a[i] \in Messages /\ a[i].content = Only(Sendable, c)
      <4>1. a \in Seq(Messages) /\ i \in DOMAIN a
        BY FormTypes DEF AnthropicForm
      <4>2. a[i].content = Only(Sendable, c)
        BY DEF AnthropicForm
      <4> QED
        BY <4>1, <4>2
    <3> HIDE DEF c, a
    <3>3. Only({t}, Only(Sendable, c)) = Only({t}, c)
      <4> DEFINE T == {t}
      <4>1. T \cap Sendable = T
        OBVIOUS
      <4> HIDE DEF T
      <4>2. Only(T, Only(Sendable, c)) = Only(T \cap Sendable, c)
        BY <3>1, OnlyOnly
      <4> QED
        BY <4>1, <4>2 DEF T
    <3> QED
      BY <3>1, <3>2, <3>3 DEF OfEach, c
  <2>2. DOMAIN a = DOMAIN ms
    BY DEF AnthropicForm
  <2> HIDE DEF a, h
  <2> QED
    BY <2>1, <2>2 DEF Bind
<1>3. Bind(h, o) = Bind(h, ms)
  <2>1. Gives(h, Messages, Seq(Parts))
    BY OfEachType
  <2>2. flat \in Seq(Messages)
    BY ApiType, BindType
  <2>3. \A m \in ToSet(ms) : h[m] = Bind(h, Api[m])
    <3> SUFFICES ASSUME NEW m \in ToSet(ms) PROVE h[m] = Bind(h, Api[m])
      OBVIOUS
    <3>1. m \in Messages
      BY DEF ToSet
    <3>2. PlacedIn(m)
      BY PlacedEach
    <3>3. Bind(h, ToApiMessages(m)) = Only({t}, m.content)
      BY <3>1, <3>2, ToApiTells
    <3> QED
      BY <3>1, <3>3 DEF OfEach, Api
  <2>4. h[SystemPrompt] = <<>>
    <3>1. <<>> \in Seq(Parts) /\ ToSet(<<>>) = {}
      BY DEF ToSet
    <3>2. Only({t}, <<>>) = <<>>
      BY <3>1, OnlyNothing
    <3> QED
      BY <3>2, ApiType DEF OfEach
  <2> HIDE DEF h, flat
  <2>5. Bind(h, <<SystemPrompt>>) = <<>>
    BY <2>1, <2>4, ApiType, BindOne
  <2> DEFINE one == <<SystemPrompt>>
  <2>6. one \in Seq(Messages)
    BY ApiType
  <2> HIDE DEF one
  <2>7. Bind(h, one \o flat) = Bind(h, one) \o Bind(h, flat)
    BY <2>1, <2>2, <2>6, BindConcat
  <2>8. Bind(h, flat) = Bind(h, ms)
    BY <2>1, <2>3, ApiType, BindBind DEF flat
  <2>9. Bind(h, ms) \in Seq(Parts)
    BY <2>1, BindType
  <2>10. <<>> \o Bind(h, ms) = Bind(h, ms)
    BY <2>9
  <2> QED
    BY <2>5, <2>7, <2>8, <2>10 DEF one, flat, OpenAIForm
<1> QED
  BY <1>1, <1>2, <1>3

ToolTypes == {"tool_use", "tool_result"}

Has(m, type, id) == [type |-> type, id |-> id] \in ToSet(m.content)

\* Where a message of a request comes from, of which it keeps every call and result.
Carries(from, rs, ms) ==
  /\ from \in [1 .. Len(rs) -> 0 .. Len(ms)]
  /\ \A p, q \in 1 .. Len(rs) : p <= q => from[p] <= from[q]
  /\ \A type \in ToolTypes : \A id :
       /\ \A p \in 1 .. Len(rs) : Has(rs[p], type, id) =>
            from[p] \in 1 .. Len(ms) /\ Has(ms[from[p]], type, id)
       /\ \A i \in 1 .. Len(ms) : Has(ms[i], type, id) =>
            \E p \in 1 .. Len(rs) : from[p] = i /\ Has(rs[p], type, id)

LEMMA ContentType ==
  ASSUME NEW ms \in Seq(Messages), NEW i \in 1 .. Len(ms)
  PROVE  ms[i] \in Messages /\ ms[i].content \in Seq(Parts) /\ ms[i] \in ToSet(ms)
<1>1. ms[i] \in Messages /\ ms[i] \in ToSet(ms)
  BY DEF ToSet
<1> QED
  BY <1>1 DEF Messages

LEMMA AnthropicCarries ==
  ASSUME NEW ms \in Seq(Messages)
  PROVE  \E from : Carries(from, AnthropicForm(ms), ms)
<1> DEFINE rs == AnthropicForm(ms)
           n  == Len(ms)
           from == [p \in 1 .. n |-> p]
<1>1. n \in Nat /\ Len(rs) = n
  BY DEF AnthropicForm
<1>2. \A i \in 1 .. n : \A type \in ToolTypes : \A id : Has(rs[i], type, id) <=> Has(ms[i], type, id)
  <2> SUFFICES ASSUME NEW i \in 1 .. n, NEW type \in ToolTypes, NEW id
               PROVE  Has(rs[i], type, id) <=> Has(ms[i], type, id)
    OBVIOUS
  <2> DEFINE c == ms[i].content
             b == [type |-> type, id |-> id]
  <2>1. rs[i].content = Only(Sendable, c)
    BY DEF AnthropicForm
  <2>2. c \in Seq(Parts)
    BY ContentType
  <2>3. b.type \in Sendable
    BY DEF Sendable, ToolTypes
  <2> HIDE DEF b, rs, c
  <2>4. ToSet(Only(Sendable, c)) = {x \in ToSet(c) : x.type \in Sendable}
    BY <2>2, OnlyHas
  <2> QED
    BY <2>1, <2>3, <2>4 DEF Has, b, c
<1>3. from \in [1 .. n -> 0 .. n] /\ \A p \in 1 .. n : from[p] = p
  BY <1>1
<1> HIDE DEF rs, n, from
<1>4. Carries(from, rs, ms)
  BY <1>1, <1>2, <1>3 DEF Carries, n
<1> QED
  BY <1>4 DEF rs

LEMMA TwoSets ==
  ASSUME NEW S, NEW u \in Seq(S), NEW v \in Seq(S)
  PROVE  u \o v \in Seq(S) /\ ToSet(u \o v) = ToSet(u) \cup ToSet(v)
<1> DEFINE w == u \o v
<1>1. /\ w \in Seq(S) /\ Len(u) \in Nat /\ Len(v) \in Nat
      /\ DOMAIN w = 1 .. Len(u) + Len(v) /\ DOMAIN u = 1 .. Len(u) /\ DOMAIN v = 1 .. Len(v)
      /\ \A i \in 1 .. Len(u) : w[i] = u[i]
      /\ \A i \in 1 .. Len(v) : w[Len(u) + i] = v[i]
  OBVIOUS
<1> HIDE DEF w
<1>2. ASSUME NEW x \in ToSet(w) PROVE x \in ToSet(u) \cup ToSet(v)
  <2>1. PICK i \in 1 .. Len(u) + Len(v) : x = w[i]
    BY <1>1 DEF ToSet
  <2>2. CASE i <= Len(u)
    <3>1. i \in 1 .. Len(u)
      BY <1>1, <2>2
    <3> QED
      BY <1>1, <2>1, <3>1 DEF ToSet
  <2>3. CASE ~(i <= Len(u))
    <3>1. i - Len(u) \in 1 .. Len(v) /\ Len(u) + (i - Len(u)) = i
      BY <1>1, <2>3
    <3> QED
      BY <1>1, <2>1, <3>1 DEF ToSet
  <2> QED
    BY <2>2, <2>3
<1>3. ASSUME NEW x \in ToSet(u) PROVE x \in ToSet(w)
  <2>1. PICK i \in 1 .. Len(u) : x = u[i]
    BY <1>1 DEF ToSet
  <2>2. i \in 1 .. Len(u) + Len(v)
    BY <1>1
  <2> QED
    BY <1>1, <2>1, <2>2 DEF ToSet
<1>4. ASSUME NEW x \in ToSet(v) PROVE x \in ToSet(w)
  <2>1. PICK i \in 1 .. Len(v) : x = v[i]
    BY <1>1 DEF ToSet
  <2>2. Len(u) + i \in 1 .. Len(u) + Len(v)
    BY <1>1
  <2> QED
    BY <1>1, <2>1, <2>2 DEF ToSet
<1> QED
  BY <1>1, <1>2, <1>3, <1>4 DEF w

\* What has a call or a result in OpenAI's form of a message.
LEMMA ToApiHas ==
  ASSUME NEW m \in Messages, PlacedIn(m), NEW type \in ToolTypes, NEW id
  PROVE  Has(m, type, id) <=> \E x \in ToSet(ToApiMessages(m)) : Has(x, type, id)
<1> DEFINE c == m.content
           kept == Only({"text", "tool_result"}, c)
           b == [type |-> type, id |-> id]
<1>1. c \in Seq(Parts) /\ m.role \in {"user", "assistant", "system", "tool"}
  BY DEF Messages
<1>2. \A x \in ToSet(c) : /\ x.type = "tool_use" => m.role = "assistant"
                          /\ x.type = "tool_result" => m.role = "user"
  BY DEF PlacedIn
<1>3. b.type = type /\ (Has(m, type, id) <=> b \in ToSet(c))
  BY DEF Has
<1> HIDE DEF c
<1>4. \A T : Only(T, c) \in Seq(Parts) /\ ToSet(Only(T, c)) = {x \in ToSet(c) : x.type \in T}
  BY <1>1, OnlyHas
<1>5. ASSUME NEW d \in Seq(Parts), ToApiMessages(m) = <<ApiMessage(m.role, d)>>
      PROVE  (\E x \in ToSet(ToApiMessages(m)) : Has(x, type, id)) <=> b \in ToSet(d)
  <2> DEFINE y == ApiMessage(m.role, d)
  <2>1. y.content = d
    BY <1>1, ApiMessageIs
  <2> HIDE DEF y
  <2>2. ToSet(<<y>>) = {y}
    BY DEF ToSet
  <2> QED
    BY <1>5, <2>1, <2>2 DEF Has, y
<1> HIDE DEF b
<1>6. CASE /\ m.role = "assistant"
           /\ ToApiMessages(m) = <<ApiMessage(m.role, Of("text", c) \o Of("tool_use", c))>>
  <2> DEFINE u == Of("text", c)
             v == Of("tool_use", c)
  <2>1. /\ u \in Seq(Parts) /\ v \in Seq(Parts)
        /\ ToSet(u) = {x \in ToSet(c) : x.type = "text"}
        /\ ToSet(v) = {x \in ToSet(c) : x.type = "tool_use"}
    BY <1>4 DEF Of
  <2> HIDE DEF u, v
  <2>2. u \o v \in Seq(Parts) /\ ToSet(u \o v) = ToSet(u) \cup ToSet(v)
    BY <2>1, TwoSets
  <2>3. (\E x \in ToSet(ToApiMessages(m)) : Has(x, type, id)) <=> b \in ToSet(u \o v)
    BY <1>5, <1>6, <2>2 DEF u, v
  <2>4. b \in ToSet(u \o v) <=> b \in ToSet(c)
    BY <1>2, <1>3, <1>6, <2>1, <2>2 DEF ToolTypes
  <2> QED
    BY <1>3, <2>3, <2>4
<1>7. CASE m.role = "user" /\ ToApiMessages(m) = [i \in DOMAIN kept |-> OfBlock(kept[i])]
  <2>1. kept \in Seq(Parts) /\ ToSet(kept) = {x \in ToSet(c) : x.type \in {"text", "tool_result"}}
    BY <1>4
  <2> HIDE DEF kept
  <2>2. \A i \in DOMAIN kept : Has(OfBlock(kept[i]), type, id) <=> kept[i] = b
    <3> SUFFICES ASSUME NEW i \in DOMAIN kept
                 PROVE  Has(OfBlock(kept[i]), type, id) <=> kept[i] = b
      OBVIOUS
    <3> DEFINE x == kept[i]
    <3>1. x \in Parts
      BY <2>1
    <3> HIDE DEF x
    <3>2. <<x>> \in Seq(Parts) /\ ToSet(<<x>>) = {x}
      BY <3>1 DEF ToSet
    <3>3. OfBlock(x).content = <<x>>
      BY <3>2, ApiMessageIs DEF OfBlock
    <3> QED
      BY <3>2, <3>3 DEF Has, b, x
  <2>3. (\E x \in ToSet(ToApiMessages(m)) : Has(x, type, id)) <=> b \in ToSet(kept)
    BY <1>7, <2>2 DEF ToSet
  <2> QED
    BY <1>2, <1>3, <1>7, <2>1, <2>3 DEF ToolTypes
<1>8. CASE /\ m.role # "assistant" /\ (m.role = "user" => Of("tool_result", c) = <<>>)
           /\ ToApiMessages(m) = <<ApiMessage(m.role, Of("text", c))>>
  <2>1. /\ Of("text", c) \in Seq(Parts)
        /\ ToSet(Of("text", c)) = {x \in ToSet(c) : x.type = "text"}
        /\ ToSet(Of("tool_result", c)) = {x \in ToSet(c) : x.type = "tool_result"}
    BY <1>4 DEF Of
  <2>2. ToSet(<<>>) = {}
    BY DEF ToSet
  <2>3. b \notin ToSet(c) /\ b \notin ToSet(Of("text", c))
    BY <1>2, <1>3, <1>8, <2>1, <2>2 DEF ToolTypes
  <2> QED
    BY <1>3, <1>5, <1>8, <2>1, <2>3
<1> QED
  BY <1>6, <1>7, <1>8, ToApiForms DEF c

LEMMA OpenAICarries ==
  ASSUME NEW ms \in Seq(Messages), Placed(ms)
  PROVE  \E from : Carries(from, OpenAIForm(ms), ms)
<1> DEFINE ss == Map(Api, ms)
           flat == Bind(Api, ms)
           n == Len(ms)
           l == Len(flat)
           rs == OpenAIForm(ms)
<1>1. ss \in Seq(Seq(Messages)) /\ flat = FlattenSeq(ss) /\ flat \in Seq(Messages)
  BY ApiType, BindType DEF Bind, Map
<1>2. n \in Nat /\ Len(ss) = n /\ \A i \in 1 .. n : ss[i] = ToApiMessages(ms[i])
  <2>1. n \in Nat /\ Len(ss) = n /\ \A i \in 1 .. n : ss[i] = Api[ms[i]]
    BY DEF Map
  <2>2. \A i \in 1 .. n : Api[ms[i]] = ToApiMessages(ms[i])
    BY ContentType DEF Api
  <2> HIDE DEF ss, n
  <2> QED
    BY <2>1, <2>2
<1>3. PICK g : From(g, ss)
  BY <1>1, Traced
<1>4. l \in Nat /\ DOMAIN flat = 1 .. l
  BY <1>1
<1>5. Len(rs) = l + 1 /\ rs[1] = SystemPrompt /\ \A p \in 2 .. l + 1 : rs[p] = flat[p - 1]
  <2> HIDE DEF flat
  <2>1. rs = <<SystemPrompt>> \o flat
    BY DEF OpenAIForm, flat
  <2> HIDE DEF rs
  <2>2. <<SystemPrompt>> \in Seq(Messages)
    BY ApiType
  <2> QED
    BY <1>1, <1>4, <2>1, <2>2
<1> HIDE DEF ss, flat, n, l, rs
<1>6. /\ g \in [1 .. l -> 1 .. n]
      /\ \A p, q \in 1 .. l : p <= q => g[p] <= g[q]
      /\ \A p \in 1 .. l : flat[p] \in ToSet(ss[g[p]])
      /\ \A i \in 1 .. n : \A x \in ToSet(ss[i]) : \E p \in 1 .. l : g[p] = i /\ flat[p] = x
  BY <1>1, <1>2, <1>3 DEF From, l
<1> DEFINE from == [p \in 1 .. l + 1 |-> IF p = 1 THEN 0 ELSE g[p - 1]]
<1>7. from[1] = 0 /\ \A p \in 2 .. l + 1 : p - 1 \in 1 .. l /\ from[p] = g[p - 1] /\ from[p] \in 1 .. n
  <2>1. \A p \in 2 .. l + 1 : p - 1 \in 1 .. l /\ p # 1 /\ p \in 1 .. l + 1
    BY <1>4
  <2>2. 1 \in 1 .. l + 1
    BY <1>4
  <2> QED
    BY <1>6, <2>1, <2>2
<1>8. \A p \in 1 .. l + 1 : p = 1 \/ p \in 2 .. l + 1
  BY <1>4
<1>9. from \in [1 .. l + 1 -> 0 .. n]
  <2>1. \A p \in 1 .. l + 1 : from[p] \in 0 .. n
    <3> SUFFICES ASSUME NEW p \in 1 .. l + 1 PROVE from[p] \in 0 .. n
      OBVIOUS
    <3>1. from[p] = 0 \/ from[p] \in 1 .. n
      BY <1>7, <1>8
    <3> QED
      BY <1>2, <3>1
  <2> QED
    BY <2>1
<1> HIDE DEF from
<1>10. \A p, q \in 1 .. l + 1 : p <= q => from[p] <= from[q]
  <2> SUFFICES ASSUME NEW p \in 1 .. l + 1, NEW q \in 1 .. l + 1, p <= q PROVE from[p] <= from[q]
    OBVIOUS
  <2>1. CASE p = 1
    BY <1>2, <1>7, <1>9, <2>1
  <2>2. CASE p \in 2 .. l + 1
    <3>1. q \in 2 .. l + 1
      BY <1>4, <2>2
    <3>2. p - 1 <= q - 1 /\ p - 1 \in 1 .. l /\ q - 1 \in 1 .. l
      BY <1>4, <2>2, <3>1
    <3> QED
      BY <1>6, <1>7, <2>2, <3>1, <3>2
  <2> QED
    BY <1>8, <2>1, <2>2
<1>11. ASSUME NEW type \in ToolTypes, NEW id
       PROVE  /\ \A p \in 1 .. l + 1 : Has(rs[p], type, id) =>
                   from[p] \in 1 .. n /\ Has(ms[from[p]], type, id)
              /\ \A i \in 1 .. n : Has(ms[i], type, id) =>
                   \E p \in 1 .. l + 1 : from[p] = i /\ Has(rs[p], type, id)
  <2>1. \A i \in 1 .. n : Has(ms[i], type, id) <=> \E x \in ToSet(ss[i]) : Has(x, type, id)
    <3> SUFFICES ASSUME NEW i \in 1 .. n
                 PROVE  Has(ms[i], type, id) <=> \E x \in ToSet(ss[i]) : Has(x, type, id)
      OBVIOUS
    <3>1. ms[i] \in Messages /\ PlacedIn(ms[i])
      BY ContentType, PlacedEach DEF n
    <3> QED
      BY <1>2, <3>1, ToApiHas
  <2>2. ASSUME NEW p \in 1 .. l + 1, Has(rs[p], type, id)
        PROVE  from[p] \in 1 .. n /\ Has(ms[from[p]], type, id)
    <3>1. p # 1
      <4>1. ~Has(SystemPrompt, type, id)
        BY ApiType DEF Has, ToSet
      <4> QED
        BY <1>5, <2>2, <4>1
    <3>2. p \in 2 .. l + 1
      BY <1>8, <3>1
    <3>3. rs[p] \in ToSet(ss[from[p]])
      BY <1>5, <1>6, <1>7, <3>2
    <3> QED
      BY <1>7, <2>1, <2>2, <3>2, <3>3
  <2>3. ASSUME NEW i \in 1 .. n, Has(ms[i], type, id)
        PROVE  \E p \in 1 .. l + 1 : from[p] = i /\ Has(rs[p], type, id)
    <3>1. PICK x \in ToSet(ss[i]) : Has(x, type, id)
      BY <2>1, <2>3
    <3>2. PICK p \in 1 .. l : g[p] = i /\ flat[p] = x
      BY <1>6, <3>1
    <3>3. p + 1 \in 2 .. l + 1 /\ p + 1 \in 1 .. l + 1 /\ (p + 1) - 1 = p
      BY <1>4
    <3>4. from[p + 1] = i /\ rs[p + 1] = x
      BY <1>5, <1>7, <3>2, <3>3
    <3> QED
      BY <3>1, <3>3, <3>4
  <2> QED
    BY <2>2, <2>3
<1>12. Carries(from, rs, ms)
  <2> DEFINE m == l + 1
  <2>1. Len(rs) = m
    BY <1>5
  <2>2. /\ from \in [1 .. m -> 0 .. n]
        /\ \A p, q \in 1 .. m : p <= q => from[p] <= from[q]
        /\ \A type \in ToolTypes : \A id :
             /\ \A p \in 1 .. m : Has(rs[p], type, id) =>
                  from[p] \in 1 .. n /\ Has(ms[from[p]], type, id)
             /\ \A i \in 1 .. n : Has(ms[i], type, id) =>
                  \E p \in 1 .. m : from[p] = i /\ Has(rs[p], type, id)
    BY <1>9, <1>10, <1>11
  <2> HIDE DEF m
  <2> QED
    BY <2>1, <2>2 DEF Carries, n
<1> QED
  BY <1>12 DEF rs

LEMMA PlacesHave ==
  ASSUME NEW ms, NEW type, NEW id, NEW i
  PROVE  i \in Places(ms, type, id) <=> i \in DOMAIN ms /\ Has(ms[i], type, id)
BY DEF Places, Has

LEMMA PlacedHas ==
  ASSUME NEW ms \in Seq(Messages), Placed(ms), NEW i \in 1 .. Len(ms), NEW id
  PROVE  /\ Has(ms[i], "tool_use", id) => ms[i].role = "assistant"
         /\ Has(ms[i], "tool_result", id) => ms[i].role = "user"
<1> DEFINE u == [type |-> "tool_use", id |-> id]
           r == [type |-> "tool_result", id |-> id]
<1>1. u.type = "tool_use" /\ r.type = "tool_result"
  OBVIOUS
<1>2. (Has(ms[i], "tool_use", id) <=> u \in ToSet(ms[i].content))
      /\ (Has(ms[i], "tool_result", id) <=> r \in ToSet(ms[i].content))
  BY DEF Has
<1> HIDE DEF u, r
<1> QED
  BY <1>1, <1>2 DEF Placed

\* Calls and results are behind each other in the request as in the conversation.
LEMMA CarriedInOrder ==
  ASSUME NEW ms \in Seq(Messages), Placed(ms), NEW rs \in Seq(Messages),
         NEW from, Carries(from, rs, ms), NEW id
  PROVE  /\ Called(rs, id) <=> Called(ms, id)
         /\ Answered(rs, id) <=> Answered(ms, id)
<1> DEFINE n == Len(ms)
           l == Len(rs)
           UseIn(i) == Has(ms[i], "tool_use", id)
           ResultIn(i) == Has(ms[i], "tool_result", id)
           UseOf(p) == Has(rs[p], "tool_use", id)
           ResultOf(p) == Has(rs[p], "tool_result", id)
<1>1. n \in Nat /\ l \in Nat /\ DOMAIN ms = 1 .. n /\ DOMAIN rs = 1 .. l
  OBVIOUS
<1>2. /\ Called(ms, id) <=> \A i \in 1 .. n : ResultIn(i) => \E k \in 1 .. n : UseIn(k) /\ k < i
      /\ Answered(ms, id) <=> \A k \in 1 .. n : UseIn(k) => \E i \in 1 .. n : ResultIn(i) /\ k < i
  BY <1>1, PlacesHave DEF Called, Answered
<1>3. /\ Called(rs, id) <=> \A p \in 1 .. l : ResultOf(p) => \E q \in 1 .. l : UseOf(q) /\ q < p
      /\ Answered(rs, id) <=> \A q \in 1 .. l : UseOf(q) => \E p \in 1 .. l : ResultOf(p) /\ q < p
  BY <1>1, PlacesHave DEF Called, Answered
<1>4. /\ \A i \in 1 .. n : ~(UseIn(i) /\ ResultIn(i))
  <2> SUFFICES ASSUME NEW i \in 1 .. n, UseIn(i), ResultIn(i) PROVE FALSE
    OBVIOUS
  <2>1. ms[i].role = "assistant" /\ ms[i].role = "user"
    BY PlacedHas
  <2> QED
    BY <2>1
<1>5. /\ \A p \in 1 .. l : from[p] \in Int
      /\ \A p, q \in 1 .. l : p <= q => from[p] <= from[q]
  <2>1. /\ from \in [1 .. l -> 0 .. n]
        /\ \A p, q \in 1 .. l : p <= q => from[p] <= from[q]
    BY DEF Carries
  <2> HIDE DEF n, l
  <2> QED
    BY <1>1, <2>1
<1>6. /\ \A p \in 1 .. l : UseOf(p) => from[p] \in 1 .. n /\ UseIn(from[p])
      /\ \A p \in 1 .. l : ResultOf(p) => from[p] \in 1 .. n /\ ResultIn(from[p])
      /\ \A i \in 1 .. n : UseIn(i) => \E p \in 1 .. l : from[p] = i /\ UseOf(p)
      /\ \A i \in 1 .. n : ResultIn(i) => \E p \in 1 .. l : from[p] = i /\ ResultOf(p)
  BY DEF Carries, ToolTypes
<1> HIDE DEF n, l, UseIn, ResultIn, UseOf, ResultOf
<1>7. \A p, q \in 1 .. l : from[p] < from[q] => p < q
  <2> SUFFICES ASSUME NEW p \in 1 .. l, NEW q \in 1 .. l, from[p] < from[q] PROVE p < q
    OBVIOUS
  <2>1. from[p] \in Int /\ from[q] \in Int /\ (q <= p => from[q] <= from[p])
    BY <1>5
  <2> QED
    BY <1>1, <2>1
<1>8. \A p, q \in 1 .. l : p < q /\ from[p] # from[q] => from[p] < from[q]
  <2> SUFFICES ASSUME NEW p \in 1 .. l, NEW q \in 1 .. l, p < q, from[p] # from[q]
               PROVE  from[p] < from[q]
    OBVIOUS
  <2>1. p <= q /\ from[p] \in Int /\ from[q] \in Int
    BY <1>1, <1>5
  <2>2. from[p] <= from[q]
    BY <1>5, <2>1
  <2> QED
    BY <2>1, <2>2
<1>9. ASSUME Called(ms, id), NEW p \in 1 .. l, ResultOf(p)
      PROVE  \E q \in 1 .. l : UseOf(q) /\ q < p
  <2>1. PICK k \in 1 .. n : UseIn(k) /\ k < from[p]
    BY <1>2, <1>6, <1>9
  <2>2. PICK q \in 1 .. l : from[q] = k /\ UseOf(q)
    BY <1>6, <2>1
  <2> QED
    BY <1>7, <2>1, <2>2
<1>10. ASSUME Answered(ms, id), NEW q \in 1 .. l, UseOf(q)
       PROVE  \E p \in 1 .. l : ResultOf(p) /\ q < p
  <2>1. PICK i \in 1 .. n : ResultIn(i) /\ from[q] < i
    BY <1>2, <1>6, <1>10
  <2>2. PICK p \in 1 .. l : from[p] = i /\ ResultOf(p)
    BY <1>6, <2>1
  <2> QED
    BY <1>7, <2>1, <2>2
<1>11. ASSUME Called(rs, id), NEW i \in 1 .. n, ResultIn(i)
       PROVE  \E k \in 1 .. n : UseIn(k) /\ k < i
  <2>1. PICK p \in 1 .. l : from[p] = i /\ ResultOf(p)
    BY <1>6, <1>11
  <2>2. PICK q \in 1 .. l : UseOf(q) /\ q < p
    BY <1>3, <1>11, <2>1
  <2>3. from[q] \in 1 .. n /\ UseIn(from[q])
    BY <1>6, <2>2
  <2> QED
    BY <1>4, <1>8, <1>11, <2>1, <2>2, <2>3
<1>12. ASSUME Answered(rs, id), NEW k \in 1 .. n, UseIn(k)
       PROVE  \E i \in 1 .. n : ResultIn(i) /\ k < i
  <2>1. PICK q \in 1 .. l : from[q] = k /\ UseOf(q)
    BY <1>6, <1>12
  <2>2. PICK p \in 1 .. l : ResultOf(p) /\ q < p
    BY <1>3, <1>12, <2>1
  <2>3. from[p] \in 1 .. n /\ ResultIn(from[p])
    BY <1>6, <2>2
  <2> QED
    BY <1>4, <1>8, <1>12, <2>1, <2>2, <2>3
<1>13. Called(rs, id) <=> Called(ms, id)
  BY <1>2, <1>3, <1>9, <1>11
<1>14. Answered(rs, id) <=> Answered(ms, id)
  BY <1>2, <1>3, <1>10, <1>12
<1> QED
  BY <1>13, <1>14

\* Either form tells all of a conversation.
LEMMA FormTellsAll ==
  ASSUME messages \in Seq(Messages), Placed(messages),
         request \in {AnthropicForm(messages), OpenAIForm(messages)}
  PROVE  /\ \A type \in Sendable : Of(type, Contents(request)) = Of(type, Contents(messages))
         /\ \A id : /\ Called(request, id) <=> Called(messages, id)
                    /\ Answered(request, id) <=> Answered(messages, id)
<1>1. request \in Seq(Messages)
  BY FormTypes
<1>2. \A type \in Sendable : Of(type, Contents(request)) = Of(type, Contents(messages))
  BY FormsTell DEF Of
<1>3. PICK from : Carries(from, request, messages)
  BY AnthropicCarries, OpenAICarries
<1>4. \A id : /\ Called(request, id) <=> Called(messages, id)
              /\ Answered(request, id) <=> Answered(messages, id)
  BY <1>1, <1>3, CarriedInOrder
<1> QED
  BY <1>2, <1>4

--------------------------------------------------------------------------------
(* What a sub-agent is handed *)

\* A set of positions has a last one.
LEMMA HasMax ==
  ASSUME NEW n \in Nat, NEW S \in SUBSET (1 .. n), S # {}
  PROVE  Max(S) \in S /\ \A y \in S : Max(S) >= y
<1> DEFINE holds(k) == \A R \in SUBSET (1 .. k) : R # {} => \E x \in R : \A y \in R : x >= y
           T == {k \in Nat : holds(k)}
<1>1. holds(0)
  <2>1. 1 .. 0 = {}
    OBVIOUS
  <2> QED
    BY <2>1
<1>2. ASSUME NEW k \in Nat, holds(k) PROVE holds(k + 1)
  <2> SUFFICES ASSUME NEW R \in SUBSET (1 .. k + 1), R # {}
               PROVE  \E x \in R : \A y \in R : x >= y
    OBVIOUS
  <2>1. CASE k + 1 \in R
    <3>1. \A y \in R : k + 1 >= y
      BY <1>2
    <3> QED
      BY <2>1, <3>1
  <2>2. CASE k + 1 \notin R
    <3>1. R \in SUBSET (1 .. k)
      <4>1. \A y \in R : y \in 1 .. k + 1 /\ y # k + 1
        BY <2>2
      <4>2. \A y \in R : y \in 1 .. k
        BY <1>2, <4>1
      <4> QED
        BY <4>2
    <3> QED
      BY <1>2, <3>1
  <2> QED
    BY <2>1, <2>2
<1> HIDE DEF holds
<1>3. 0 \in T /\ \A k \in Nat : k \in T => k + 1 \in T
  BY <1>1, <1>2
<1> HIDE DEF T
<1>4. Nat \subseteq T
  BY <1>3, AllNaturals
<1>5. holds(n)
  BY <1>4 DEF T
<1>6. \E x \in S : \A y \in S : x >= y
  BY <1>5 DEF holds
<1> QED
  BY <1>6 DEF Max

Task == Said("user", <<[type |-> "text", id |-> "directive"]>>)

LEMMA TaskFacts ==
  /\ Task \in Messages /\ PlacedIn(Task)
  /\ \A type \in ToolTypes : \A id : ~Has(Task, type, id)
<1> DEFINE b == [type |-> "text", id |-> "directive"]
<1>1. b \in Parts /\ b.type = "text"
  BY DEF Parts
<1> HIDE DEF b
<1>2. <<b>> \in Seq(Parts) /\ ToSet(<<b>>) = {b}
  BY <1>1 DEF ToSet
<1>3. Task.role = "user" /\ Task.content = <<b>> /\ Task \in Messages
  BY <1>2 DEF Task, Said, Messages, b
<1>4. \A type \in ToolTypes : \A id : [type |-> type, id |-> id] # b
  BY <1>1 DEF ToolTypes
<1> QED
  BY <1>1, <1>2, <1>3, <1>4 DEF PlacedIn, Has

\* A result for each call.
LEMMA Refilled ==
  ASSUME NEW uses \in Seq(Parts)
  PROVE  LET kept == [i \in DOMAIN uses |-> [uses[i] EXCEPT !.type = "tool_result"]] IN
         /\ kept \in Seq(Parts)
         /\ \A x \in ToSet(kept) : x.type = "tool_result"
         /\ \A id : [type |-> "tool_result", id |-> id] \in ToSet(kept) <=>
                      \E b \in ToSet(uses) : b.id = id
<1> DEFINE kept == [i \in DOMAIN uses |-> [uses[i] EXCEPT !.type = "tool_result"]]
<1>1. \A i \in DOMAIN uses : uses[i] \in Parts
  OBVIOUS
<1>2. \A i \in DOMAIN uses :
        /\ kept[i] \in Parts /\ kept[i].type = "tool_result" /\ kept[i].id = uses[i].id
        /\ kept[i] = [type |-> "tool_result", id |-> uses[i].id]
  BY <1>1 DEF Parts
<1>3. kept \in Seq(Parts) /\ DOMAIN kept = DOMAIN uses
  <2>1. DOMAIN uses = 1 .. Len(uses) /\ Len(uses) \in Nat /\ DOMAIN kept = DOMAIN uses
    OBVIOUS
  <2>2. kept = [i \in 1 .. Len(uses) |-> kept[i]]
    BY <2>1
  <2> HIDE DEF kept
  <2> QED
    BY <1>2, <2>1, <2>2
<1> HIDE DEF kept
<1>4. \A x \in ToSet(kept) : x.type = "tool_result"
  BY <1>2, <1>3 DEF ToSet
<1>5. ASSUME NEW id
      PROVE  [type |-> "tool_result", id |-> id] \in ToSet(kept) <=> \E b \in ToSet(uses) : b.id = id
  <2>1. ASSUME [type |-> "tool_result", id |-> id] \in ToSet(kept)
        PROVE  \E b \in ToSet(uses) : b.id = id
    <3>1. PICK i \in DOMAIN uses : kept[i] = [type |-> "tool_result", id |-> id]
      BY <1>3, <2>1 DEF ToSet
    <3>2. kept[i].id = id
      BY <3>1
    <3>3. uses[i].id = id
      BY <1>2, <3>2
    <3> QED
      BY <3>3 DEF ToSet
  <2>2. ASSUME NEW b \in ToSet(uses), b.id = id
        PROVE  [type |-> "tool_result", id |-> id] \in ToSet(kept)
    <3>1. PICK i \in DOMAIN uses : b = uses[i]
      BY DEF ToSet
    <3> QED
      BY <1>2, <1>3, <2>2, <3>1 DEF ToSet
  <2> QED
    BY <2>1, <2>2
<1> QED
  BY <1>3, <1>4, <1>5 DEF kept

LEMMA LastCallsType ==
  ASSUME NEW m \in Seq(Messages)
  PROVE  LastCalls(m) \in Seq(Parts) /\ \A b \in ToSet(LastCalls(m)) : b.type = "tool_use"
<1> DEFINE n == Len(m)
           spoken == {i \in DOMAIN m : m[i].role = "assistant"}
           c == m[Max(spoken)].content
<1>1. n \in Nat /\ spoken \in SUBSET (1 .. n)
  OBVIOUS
<1>2. LastCalls(m) = IF spoken = {} THEN <<>> ELSE Only({"tool_use"}, c)
  BY DEF LastCalls, Of
<1>3. CASE spoken = {}
  <2>1. LastCalls(m) = <<>> /\ <<>> \in Seq(Parts) /\ ToSet(<<>>) = {}
    BY <1>2, <1>3 DEF ToSet
  <2> QED
    BY <2>1
<1>4. CASE spoken # {}
  <2>1. Max(spoken) \in 1 .. n
    <3> HIDE DEF spoken, n
    <3> QED
      BY <1>1, <1>4, HasMax
  <2>2. c \in Seq(Parts)
    BY <2>1, ContentType
  <2> HIDE DEF c
  <2>3. /\ Only({"tool_use"}, c) \in Seq(Parts)
        /\ ToSet(Only({"tool_use"}, c)) = {b \in ToSet(c) : b.type \in {"tool_use"}}
    BY <2>2, OnlyHas
  <2> QED
    BY <1>2, <1>4, <2>3
<1> QED
  BY <1>3, <1>4

\* A fork is a conversation, in which the calls of the last response have results.
LEMMA ForkFits ==
  ASSUME NEW m \in Seq(Messages), Placed(m)
  PROVE  LET mm == BuildForkMessages(m) IN
         /\ mm \in Seq(Messages) /\ Placed(mm)
         /\ \A b \in ToSet(LastCalls(m)) : Answered(mm, b.id)
<1> DEFINE n    == Len(m)
           uses == LastCalls(m)
           mm   == BuildForkMessages(m)
           kept == [i \in DOMAIN uses |-> [uses[i] EXCEPT !.type = "tool_result"]]
           fill == Said("user", kept)
<1>1. n \in Nat /\ DOMAIN m = 1 .. n
  OBVIOUS
<1>2. mm = IF uses = <<>> THEN Append(m, Task) ELSE m \o <<fill, Task>>
  BY DEF BuildForkMessages, Task
<1>3. uses \in Seq(Parts) /\ \A b \in ToSet(uses) : b.type = "tool_use"
  BY LastCallsType
<1>4. \A i \in 1 .. n : PlacedIn(m[i])
  BY <1>1 DEF Placed, PlacedIn
<1>5. CASE uses = <<>>
  <2>1. mm = Append(m, Task) /\ ToSet(uses) = {}
    BY <1>2, <1>5 DEF ToSet
  <2> HIDE DEF mm, uses
  <2>2. mm \in Seq(Messages) /\ DOMAIN mm = 1 .. n + 1
        /\ \A i \in 1 .. n + 1 : IF i = n + 1 THEN mm[i] = Task ELSE i \in 1 .. n /\ mm[i] = m[i]
    BY <1>1, <2>1, TaskFacts
  <2>3. \A i \in 1 .. n + 1 : PlacedIn(mm[i])
    BY <1>4, <2>2, TaskFacts
  <2>4. Placed(mm)
    BY <2>2, <2>3 DEF Placed, PlacedIn
  <2> QED
    BY <2>1, <2>2, <2>4 DEF mm, uses
<1>6. CASE uses # <<>>
  <2>1. mm = m \o <<fill, Task>>
    BY <1>2, <1>6
  <2> HIDE DEF uses, mm
  <2>2. /\ kept \in Seq(Parts)
        /\ \A x \in ToSet(kept) : x.type = "tool_result"
        /\ \A id : [type |-> "tool_result", id |-> id] \in ToSet(kept) <=>
                     \E b \in ToSet(uses) : b.id = id
    BY <1>3, Refilled
  <2> HIDE DEF kept
  <2>3. fill.role = "user" /\ fill.content = kept /\ fill \in Messages
    BY <2>2 DEF Said, Messages
  <2>4. \A id : [type |-> "tool_use", id |-> id] \notin ToSet(kept)
    <3>1. \A id : [type |-> "tool_use", id |-> id].type = "tool_use"
      OBVIOUS
    <3> QED
      BY <2>2, <3>1
  <2>5. PlacedIn(fill) /\ \A id : ~Has(fill, "tool_use", id)
    BY <2>2, <2>3, <2>4 DEF PlacedIn, Has
  <2>6. \A b \in ToSet(uses) : Has(fill, "tool_result", b.id)
    BY <2>2, <2>3 DEF Has
  <2> HIDE DEF fill
  <2> DEFINE two == <<fill, Task>>
  <2>7. two \in Seq(Messages) /\ Len(two) = 2 /\ two[1] = fill /\ two[2] = Task
    BY <2>3, TaskFacts
  <2> HIDE DEF two
  <2>8. /\ mm \in Seq(Messages) /\ DOMAIN mm = 1 .. n + 2
        /\ \A i \in 1 .. n : mm[i] = m[i]
        /\ mm[n + 1] = fill /\ mm[n + 2] = Task
    BY <1>1, <2>1, <2>7 DEF two
  <2>9. \A i \in 1 .. n + 2 : i \in 1 .. n \/ i = n + 1 \/ i = n + 2
    BY <1>1
  <2>10. Placed(mm)
    <3>1. \A i \in 1 .. n + 2 : PlacedIn(mm[i])
      BY <1>4, <2>5, <2>8, <2>9, TaskFacts
    <3> QED
      BY <2>8, <3>1 DEF Placed, PlacedIn
  <2>11. ASSUME NEW b \in ToSet(uses) PROVE Answered(mm, b.id)
    <3> SUFFICES ASSUME NEW k \in Places(mm, "tool_use", b.id)
                 PROVE  \E i \in Places(mm, "tool_result", b.id) : k < i
      BY DEF Answered
    <3>1. k \in 1 .. n + 2 /\ Has(mm[k], "tool_use", b.id)
      BY <2>8, PlacesHave
    <3>2. k # n + 1 /\ k # n + 2
      BY <2>5, <2>8, <3>1, TaskFacts DEF ToolTypes
    <3>3. k < n + 1 /\ n + 1 \in 1 .. n + 2
      BY <1>1, <2>9, <3>1, <3>2
    <3>4. n + 1 \in Places(mm, "tool_result", b.id)
      BY <2>6, <2>8, <2>11, <3>3, PlacesHave
    <3> QED
      BY <3>3, <3>4
  <2> QED
    BY <2>8, <2>10, <2>11 DEF mm, uses
<1> QED
  BY <1>5, <1>6

LEMMA GivenTypes ==
  Conversations \cup Histories \subseteq Seq(Messages)
<1> DEFINE Sent == [role : {"user", "assistant", "system"}, content : Seq(Blocks)]
<1>1. Blocks \subseteq Parts
  BY DEF Blocks, Parts
<1>2. Seq(Blocks) \subseteq Seq(Parts)
  BY <1>1
<1>3. Sent \subseteq Messages
  BY <1>2 DEF Messages
<1> HIDE DEF Sent
<1>4. Seq(Sent) \subseteq Seq(Messages)
  BY <1>3
<1> QED
  BY <1>4, ModelStreamAssumption DEF Sent

\* What a sub-agent is begun with, with a history or without one.
LEMMA BegunFits ==
  ASSUME NEW history \in Histories
  PROVE  /\ Begun(history) \in Seq(Messages) /\ Placed(Begun(history))
         /\ \A b \in ToSet(LastCalls(history)) : Answered(Begun(history), b.id)
<1>1. history \in Seq(Messages) /\ Placed(history)
  BY GivenTypes, ModelStreamAssumption
<1>2. CASE history = <<>>
  <2> DEFINE one == <<Task>>
  <2>1. one \in Seq(Messages) /\ DOMAIN one = {1} /\ one[1] = Task
    BY TaskFacts
  <2>2. Begun(history) = one
    BY <1>2 DEF Begun, Task
  <2> HIDE DEF one
  <2>3. Placed(one)
    BY <2>1, TaskFacts DEF Placed, PlacedIn
  <2>4. \A id : Answered(one, id)
    BY <2>1, TaskFacts, PlacesHave DEF Answered, ToolTypes
  <2> QED
    BY <2>1, <2>2, <2>3, <2>4
<1>3. CASE history # <<>>
  BY <1>1, <1>3, ForkFits DEF Begun
<1> QED
  BY <1>2, <1>3

RequestInv ==
  /\ messages \in Seq(Messages) /\ Placed(messages)
  /\ request \in {<<>>, AnthropicRequest, OpenAIRequest}

LEMMA RequestInit ==
  Init => RequestInv
<1> SUFFICES ASSUME Init PROVE RequestInv
  OBVIOUS
<1>1. CASE messages \in Conversations
  BY <1>1, GivenTypes, ModelStreamAssumption DEF RequestInv, Init
<1>2. CASE \E history \in Histories : messages = Begun(history)
  BY <1>2, BegunFits DEF RequestInv, Init
<1> QED
  BY <1>1, <1>2 DEF Init

LEMMA RequestNext ==
  RequestInv /\ [Next]_vars => RequestInv'
<1> SUFFICES ASSUME RequestInv, [Next]_vars PROVE RequestInv'
  OBVIOUS
<1>1. messages' = messages
  BY DEF Next, vars, Send, Receive, ExtractFrame, BufferEmpty, Yield, EndOfBody, CloseEarly, ReadFails
<1>2. AnthropicRequest' = AnthropicRequest /\ OpenAIRequest' = OpenAIRequest
  BY <1>1 DEF AnthropicRequest, OpenAIRequest
<1>3. CASE Send
  BY <1>1, <1>2, <1>3 DEF Send, RequestInv
<1>4. CASE UNCHANGED request
  BY <1>1, <1>2, <1>4 DEF RequestInv
<1> QED
  BY <1>3, <1>4
     DEF Next, vars, Receive, ExtractFrame, BufferEmpty, Yield, EndOfBody, CloseEarly, ReadFails

LEMMA RequestFits ==
  RequestInv => RequestTellsAll
<1> SUFFICES ASSUME RequestInv, request # <<>> PROVE RequestTellsAll
  BY DEF RequestTellsAll
<1>1. request \in {AnthropicForm(messages), OpenAIForm(messages)}
  BY Forms DEF RequestInv
<1>2. /\ \A type \in Sendable : Of(type, Contents(request)) = Of(type, Contents(messages))
      /\ \A id : /\ Called(request, id) <=> Called(messages, id)
                 /\ Answered(request, id) <=> Answered(messages, id)
  BY <1>1, FormTellsAll DEF RequestInv
<1>3. ASSUME NEW history \in Histories, messages = Begun(history),
             NEW b \in ToSet(LastCalls(history))
      PROVE  Answered(request, b.id)
  BY <1>2, <1>3, BegunFits
<1> QED
  BY <1>2, <1>3 DEF RequestTellsAll

\* Whatever the conversation, and whichever the provider, the request has every text,
\* call and result of it, each kind in order and behind each other as they were; and
\* whatever the turn that it was forked from, every call that still ran has a result.
THEOREM RequestsTellAll ==
  Spec => []RequestTellsAll
<1>1. Spec => []RequestInv
  BY RequestInit, RequestNext, PTL DEF Spec
<1> QED
  BY <1>1, RequestFits, PTL
================================================================================
