---------------------------- MODULE MemoryProofs ----------------------------
(***************************************************************************)
(* Proofs about Memory, for any turns, any bound on the turns of a request *)
(* and any number of tool calls: that what a turn sends to the model is a  *)
(* sequence the provider accepts and is as much of the history as it       *)
(* should be, and that no step of a turn loses stored history.             *)
(***************************************************************************)
EXTENDS Memory, FiniteSetTheorems, WellFoundedInduction, TLAPS

-----------------------------------------------------------------------------
(* Natural numbers.                                                        *)

Less == OpToRel(<, Nat)

\* A set of natural numbers with a member has a least one.
LEMMA LeastOne ==
    ASSUME NEW S \in SUBSET Nat, S # {}
    PROVE  \E m \in S : \A k \in S : m <= k
<1>1. IsWellFoundedOn(Less, Nat)
  BY NatLessThanWellFounded DEF Less
<1>2. PICK m \in S : \A k \in S : ~(<<k, m>> \in Less)
  BY <1>1, WFMin
<1>3. \A k \in S : ~(k < m)
  BY <1>2 DEF Less, OpToRel
<1> QED  BY <1>2, <1>3

LEMMA IntervalSize ==
    ASSUME NEW a \in Int, NEW b \in Int, NEW m \in Nat, b = a + m - 1
    PROVE  IsFiniteSet(a..b) /\ Cardinality(a..b) = m
<1>1. IsFiniteSet(a..b) /\ Cardinality(a..b) = IF a > b THEN 0 ELSE b - a + 1
  BY FS_Interval
<1> QED  BY <1>1

-----------------------------------------------------------------------------
(* FlattenSeq: where each element of each part ends up.                    *)

Flattens(parts, n, f) == [i \in 1..n |-> IF i = 1 THEN parts[i] ELSE f[i-1] \o parts[i]]

Joins(c, a, b) == /\ Len(a) \in Nat /\ Len(b) \in Nat
                  /\ Len(c) = Len(a) + Len(b)
                  /\ \A p \in 1..Len(a) : c[p] = a[p]
                  /\ \A k \in 1..Len(b) : c[Len(a) + k] = b[k]

LEMMA Concatenated ==
    ASSUME NEW S, NEW a \in Seq(S), NEW b \in Seq(S)
    PROVE  a \o b \in Seq(S) /\ Joins(a \o b, a, b)
  BY DEF Joins

LEMMA FlattensExists ==
    ASSUME NEW parts, NEW n \in Nat
    PROVE  \E f : f = Flattens(parts, n, f)
<1> DEFINE Lacking == {m \in Nat : ~\E f : f = Flattens(parts, m, f)}
<1> SUFFICES ASSUME Lacking # {} PROVE FALSE
  OBVIOUS
<1>1. PICK m \in Lacking : \A k \in Lacking : m <= k
  <2> Lacking \in SUBSET Nat
    OBVIOUS
  <2> HIDE DEF Lacking
  <2> QED  BY LeastOne
<1>2. m \in Nat /\ ~\E f : f = Flattens(parts, m, f)
  OBVIOUS
<1>3. CASE m = 0
  <2> DEFINE f == [i \in 1..0 |-> parts[i]]
  <2>1. f = Flattens(parts, 0, f)
    BY DEF Flattens
  <2> QED  BY <1>2, <1>3, <2>1
<1>4. CASE m # 0
  <2>1. m - 1 \in Nat /\ m - 1 \notin Lacking
    BY <1>1, <1>2, <1>4
  <2>2. PICK f : f = Flattens(parts, m - 1, f)
    BY <2>1
  <2> DEFINE g == [i \in 1..m |-> IF i = m
                                  THEN IF i = 1 THEN parts[i] ELSE f[m-1] \o parts[i]
                                  ELSE f[i]]
  <2>3. \A i \in 1..(m-1) : f[i] = IF i = 1 THEN parts[i] ELSE f[i-1] \o parts[i]
    BY <2>2 DEF Flattens
  <2>4. ASSUME NEW i \in 1..m
        PROVE  g[i] = IF i = 1 THEN parts[i] ELSE g[i-1] \o parts[i]
    <3>1. CASE i = m
      <4>1. i # 1 => m - 1 \in 1..m /\ m - 1 # m
        BY <1>2, <3>1
      <4> QED  BY <3>1, <4>1
    <3>2. CASE i # m
      <4>1. i \in 1..(m-1) /\ (i # 1 => i - 1 \in 1..m /\ i - 1 # m)
        BY <1>2, <3>2
      <4> QED  BY <2>3, <3>2, <4>1
    <3> QED  BY <3>1, <3>2
  <2>5. g = Flattens(parts, m, g)
    <3> HIDE DEF g
    <3>1. g = [i \in 1..m |-> g[i]]
      BY DEF g
    <3> QED  BY <2>4, <3>1 DEF Flattens
  <2> QED  BY <1>2, <2>5
<1> QED  BY <1>3, <1>4

LEMMA FlattenIs ==
    ASSUME NEW parts, Len(parts) # 0
    PROVE  FlattenSeq(parts) = (CHOOSE f : f = Flattens(parts, Len(parts), f))[Len(parts)]
  BY DEF FlattenSeq, Flattens

\* A flattened sequence is built part by part.
LEMMA FlattenSteps ==
    ASSUME NEW S, NEW parts \in Seq(Seq(S))
    PROVE  \E g \in [0..Len(parts) -> Seq(S)] :
             /\ g[0] = <<>> /\ g[Len(parts)] = FlattenSeq(parts)
             /\ \A j \in 1..Len(parts) : g[j] = g[j-1] \o parts[j]
<1> DEFINE n == Len(parts)
<1>1. n \in Nat /\ \A j \in 1..n : parts[j] \in Seq(S)
  OBVIOUS
<1>2. CASE n = 0
  <2>1. FlattenSeq(parts) = <<>>
    BY <1>2 DEF FlattenSeq
  <2> WITNESS [j \in 0..n |-> <<>>] \in [0..Len(parts) -> Seq(S)]
  <2> QED  BY <1>1, <1>2, <2>1
<1>3. CASE n # 0
  <2> DEFINE f == CHOOSE f : f = Flattens(parts, n, f)
             g == [j \in 0..n |-> IF j = 0 THEN <<>> ELSE f[j]]
  <2>1. f = Flattens(parts, n, f)
    BY <1>1, FlattensExists
  <2>2. FlattenSeq(parts) = f[n]
    BY <1>3, FlattenIs
  <2> HIDE DEF f
  <2>3. \A j \in 1..n : f[j] = IF j = 1 THEN parts[j] ELSE f[j-1] \o parts[j]
    BY <2>1 DEF Flattens
  <2>4. ASSUME NEW j \in 1..n PROVE g[j] = g[j-1] \o parts[j]
    <3>1. CASE j = 1
      <4>1. g[j] = parts[1] /\ g[j-1] = <<>>
        BY <1>1, <2>3, <3>1
      <4> QED  BY <1>1, <3>1, <4>1
    <3>2. CASE j # 1
      <4>1. j - 1 \in 1..n /\ j - 1 \in 0..n /\ j \in 0..n /\ j # 0 /\ j - 1 # 0
        BY <1>1, <3>2
      <4>2. g[j] = f[j] /\ g[j-1] = f[j-1]
        BY <4>1
      <4> HIDE DEF g
      <4> QED  BY <2>3, <3>2, <4>2
    <3> QED  BY <3>1, <3>2
  <2>5. g[0] = <<>> /\ g[n] = FlattenSeq(parts)
    BY <1>1, <1>3, <2>2
  <2>6. g = [j \in 0..n |-> g[j]]
    OBVIOUS
  <2> HIDE DEF g, f
  <2> DEFINE Bad == {j \in Nat : j <= n /\ g[j] \notin Seq(S)}
  <2>7. Bad = {}
    <3> SUFFICES ASSUME Bad # {} PROVE FALSE
      OBVIOUS
    <3>1. PICK m \in Bad : \A k \in Bad : m <= k
      <4> Bad \in SUBSET Nat
        OBVIOUS
      <4> HIDE DEF Bad
      <4> QED  BY LeastOne
    <3>2. m \in Nat /\ m <= n /\ g[m] \notin Seq(S)
      OBVIOUS
    <3>3. m # 0
      <4>1. <<>> \in Seq(S)
        OBVIOUS
      <4> QED  BY <2>5, <3>2, <4>1
    <3>4. m \in 1..n /\ m - 1 \in Nat /\ m - 1 <= n
      BY <1>1, <3>2, <3>3
    <3>5. g[m-1] \in Seq(S)
      BY <3>1, <3>4
    <3>6. parts[m] \in Seq(S) /\ g[m] = g[m-1] \o parts[m]
      BY <1>1, <2>4, <3>4
    <3> HIDE DEF Bad
    <3> QED  BY <3>2, <3>5, <3>6, Concatenated
  <2>8. \A j \in 0..n : g[j] \in Seq(S)
    BY <1>1, <2>7
  <2>9. g \in [0..n -> Seq(S)]
    BY <2>6, <2>8
  <2> QED  BY <2>4, <2>5, <2>9
<1> QED  BY <1>2, <1>3

\* Part j of the flattened sequence begins after place[j-1] and ends at place[j].
Parts(parts, whole, place) ==
    /\ place \in [0..Len(parts) -> Nat]
    /\ place[0] = 0 /\ place[Len(parts)] = Len(whole)
    /\ \A j \in 1..Len(parts) : place[j] = place[j-1] + Len(parts[j])
    /\ \A i, j \in 0..Len(parts) : i <= j => place[i] <= place[j]
    /\ \A j \in 1..Len(parts) : \A k \in 1..Len(parts[j]) :
          /\ place[j-1] + k \in 1..Len(whole)
          /\ whole[place[j-1] + k] = parts[j][k]
    /\ \A p \in 1..Len(whole) :
          \E j \in 1..Len(parts) : \E k \in 1..Len(parts[j]) : p = place[j-1] + k

LEMMA FlattenParts ==
    ASSUME NEW S, NEW parts \in Seq(Seq(S))
    PROVE  FlattenSeq(parts) \in Seq(S) /\ \E place : Parts(parts, FlattenSeq(parts), place)
<1> DEFINE n == Len(parts)
           whole == FlattenSeq(parts)
<1>1. n \in Nat /\ \A j \in 1..n : parts[j] \in Seq(S) /\ Len(parts[j]) \in Nat
  OBVIOUS
<1>2. PICK g \in [0..n -> Seq(S)] :
             /\ g[0] = <<>> /\ g[n] = whole
             /\ \A j \in 1..n : g[j] = g[j-1] \o parts[j]
  BY FlattenSteps
<1> DEFINE place == [j \in 0..n |-> Len(g[j])]
<1>3. whole \in Seq(S)
  BY <1>1, <1>2
<1> HIDE DEF whole
<1>4. place \in [0..n -> Nat] /\ place[0] = 0 /\ place[n] = Len(whole)
  BY <1>1, <1>2
<1>5. ASSUME NEW j \in 1..n
      PROVE  /\ place[j] = place[j-1] + Len(parts[j])
             /\ \A p \in 1..place[j-1] : g[j][p] = g[j-1][p]
             /\ \A k \in 1..Len(parts[j]) : g[j][place[j-1] + k] = parts[j][k]
  <2>1. j - 1 \in 0..n /\ j \in 0..n
    BY <1>1
  <2>2. g[j-1] \in Seq(S) /\ parts[j] \in Seq(S) /\ g[j] = g[j-1] \o parts[j]
    BY <1>1, <1>2, <2>1
  <2>3. place[j] = Len(g[j]) /\ place[j-1] = Len(g[j-1])
    BY <2>1
  <2>4. Joins(g[j], g[j-1], parts[j])
    BY <2>2, Concatenated
  <2> HIDE DEF place
  <2> QED  BY <2>3, <2>4 DEF Joins
\* What is built stays as it is built on.
<1>6. \A j \in 0..n : \A i \in 0..j :
          place[i] <= place[j] /\ \A p \in 1..place[i] : g[j][p] = g[i][p]
  <2> HIDE DEF place
  <2> DEFINE Holds(j) == \A i \in 0..j :
                 place[i] <= place[j] /\ \A p \in 1..place[i] : g[j][p] = g[i][p]
             Bad == {j \in Nat : j <= n /\ ~Holds(j)}
  <2> HIDE DEF Holds
  <2>1. Bad = {}
    <3> SUFFICES ASSUME Bad # {} PROVE FALSE
      OBVIOUS
    <3>1. PICK m \in Bad : \A k \in Bad : m <= k
      <4> Bad \in SUBSET Nat
        OBVIOUS
      <4> HIDE DEF Bad
      <4> QED  BY LeastOne
    <3>2. m \in Nat /\ m <= n /\ ~Holds(m)
      OBVIOUS
    <3>3. CASE m = 0
      <4>1. \A i \in 0..0 : i = 0
        OBVIOUS
      <4>2. Holds(0)
        BY <1>4, <4>1 DEF Holds
      <4> QED  BY <3>2, <3>3, <4>2
    <3>4. CASE m # 0
      <4>1. m \in 1..n /\ m - 1 \in Nat /\ m - 1 <= n /\ m - 1 \in 0..n
        BY <1>1, <3>2, <3>4
      <4>2. Holds(m-1)
        BY <3>1, <4>1
      <4>3. place[m] \in Nat /\ place[m-1] \in Nat /\ place[m-1] <= place[m]
        <5>1. m \in 0..n /\ place \in [0..n -> Nat]
          BY <1>4, <4>1
        <5>2. place[m] \in Nat /\ place[m-1] \in Nat
          BY <4>1, <5>1
        <5>3. place[m] = place[m-1] + Len(parts[m]) /\ Len(parts[m]) \in Nat
          BY <1>1, <1>5, <4>1
        <5> QED  BY <5>2, <5>3
      <4>4. ASSUME NEW i \in 0..m
            PROVE  place[i] <= place[m] /\ \A p \in 1..place[i] : g[m][p] = g[i][p]
        <5>1. CASE i = m
          BY <4>3, <5>1
        <5>2. CASE i # m
          <6>1. i \in 0..(m-1) /\ i \in 0..n
            BY <3>2, <4>1, <5>2
          <6>2. place[i] \in Nat
            BY <1>4, <6>1
          <6>3. place[i] <= place[m-1] /\ \A p \in 1..place[i] : g[m-1][p] = g[i][p]
            BY <4>2, <6>1 DEF Holds
          <6>4. \A p \in 1..place[m-1] : g[m][p] = g[m-1][p]
            BY <1>5, <4>1
          <6> QED  BY <4>3, <6>2, <6>3, <6>4
        <5> QED  BY <5>1, <5>2
      <4>5. Holds(m)
        BY <4>4 DEF Holds
      <4> QED  BY <3>2, <4>5
    <3> QED  BY <3>3, <3>4
  <2> QED  BY <1>1, <2>1 DEF Holds
<1>7. ASSUME NEW j \in 1..n, NEW k \in 1..Len(parts[j])
      PROVE  place[j-1] + k \in 1..Len(whole) /\ whole[place[j-1] + k] = parts[j][k]
  <2> HIDE DEF place
  <2>0. j - 1 \in 0..n /\ j \in 0..n /\ n \in 0..n
    BY <1>1
  <2>1. place[j-1] \in Nat /\ place[j] \in Nat /\ j \in 0..n /\ n \in 0..n
    BY <1>4, <2>0
  <2>2. place[j] <= Len(whole) /\ \A p \in 1..place[j] : whole[p] = g[j][p]
    BY <1>2, <1>4, <1>6, <2>1
  <2>3. place[j-1] + k \in 1..place[j] /\ g[j][place[j-1] + k] = parts[j][k]
    BY <1>1, <1>5, <2>1
  <2>4. Len(whole) \in Nat
    BY <1>3
  <2> DEFINE q == place[j-1] + k
  <2>5. q \in 1..place[j] /\ g[j][q] = parts[j][k]
    BY <2>3
  <2> HIDE DEF q
  <2>6. q \in 1..Len(whole) /\ whole[q] = parts[j][k]
    BY <2>1, <2>2, <2>4, <2>5
  <2> QED  BY <2>6 DEF q
<1>8. ASSUME NEW p \in 1..Len(whole)
      PROVE  \E j \in 1..n : \E k \in 1..Len(parts[j]) : p = place[j-1] + k
  <2> HIDE DEF place
  <2> DEFINE Reached == {j \in Nat : j <= n /\ p <= place[j]}
  <2>1. n \in Reached
    BY <1>1, <1>3, <1>4
  <2>2. PICK j \in Reached : \A i \in Reached : j <= i
    <3> Reached \in SUBSET Nat /\ Reached # {}
      BY <2>1
    <3> HIDE DEF Reached
    <3> QED  BY LeastOne
  <2>3. j \in Nat /\ j <= n /\ p <= place[j]
    OBVIOUS
  <2>4. j # 0
    BY <1>3, <1>4, <2>3
  <2>5. j \in 1..n /\ j - 1 \in 0..n /\ j - 1 \notin Reached
    BY <1>1, <2>2, <2>3, <2>4
  <2>6. place[j-1] \in Nat /\ ~(p <= place[j-1])
    <3>1. j - 1 \in Nat /\ j - 1 <= n
      BY <2>5
    <3>2. place[j-1] \in Nat
      BY <1>4, <2>5
    <3> QED  BY <2>5, <3>1, <3>2
  <2>7. place[j] = place[j-1] + Len(parts[j]) /\ Len(parts[j]) \in Nat
    BY <1>1, <1>5, <2>5
  <2>8. p - place[j-1] \in 1..Len(parts[j]) /\ p = place[j-1] + (p - place[j-1])
    BY <1>3, <2>3, <2>6, <2>7
  <2> QED  BY <2>5, <2>8
<1>9. Parts(parts, whole, place)
  <2> HIDE DEF place
  <2>1. \A i, j \in 0..n : i <= j => place[i] <= place[j]
    <3> SUFFICES ASSUME NEW i \in 0..n, NEW j \in 0..n, i <= j PROVE place[i] <= place[j]
      OBVIOUS
    <3>1. i \in 0..j
      BY <1>1
    <3> QED  BY <1>6, <3>1
  <2> QED  BY <1>4, <1>5, <1>7, <1>8, <2>1 DEF Parts
<1> QED  BY <1>3, <1>9 DEF whole

-----------------------------------------------------------------------------
(* The messages, and what the stored sequences of them satisfy.            *)

Calls == [turn : Turns, n : Nat]
Humans == [type : {"human"}, turn : Turns]
Ais == [type : {"ai"}, turn : Turns, calls : Seq(Calls)]
Tools == [type : {"tool"}, call : Calls, real : BOOLEAN]
Messages == Humans \cup Ais \cup Tools

\* The message at k is an answer in the block that follows the calls at i.
Owns(s, i, k) ==
    /\ i < k
    /\ s[i].type = "ai" /\ s[k].call \in ToSet(s[i].calls)
    /\ \A m \in (i+1)..k : s[m].type = "tool"

\* No call is made twice, and none is answered twice.
CallsDistinct(s) ==
    \A i, l \in Positions(s, "ai") : \A j \in DOMAIN s[i].calls : \A m \in DOMAIN s[l].calls :
        s[i].calls[j] = s[l].calls[m] => i = l /\ j = m
AnswersDistinct(s) ==
    \A k, l \in Positions(s, "tool") : s[k].call = s[l].call => k = l

\* Answers follow the calls they answer.
AnswersOwned(s) == \A k \in Positions(s, "tool") : \E i \in DOMAIN s : Owns(s, i, k)

WellFormed(s) ==
    /\ s # <<>> => s[1].type = "human"
    /\ CallsDistinct(s) /\ AnswersDistinct(s) /\ AnswersOwned(s)

\* Every call is answered.
Complete(s) == \A i \in Positions(s, "ai") : ToSet(s[i].calls) \subseteq AnsweredIn(s)

\* The last question is turn t's.
AsksFor(s, t) ==
    \E h \in Positions(s, "human") :
        s[h].turn = t /\ \A j \in Positions(s, "human") : j <= h

\* The calls in s were made, when each turn t has made made[t].
CallsMade(s, made) ==
    \A i \in Positions(s, "ai") : \A c \in ToSet(s[i].calls) : c.n <= made[c.turn]

Stored(s) == s \in Seq(Messages) /\ WellFormed(s) /\ CallsMade(s, [t \in Turns |-> turn[t].calls])

TurnFine(t) ==
    /\ Stored(turn[t].state)
    /\ Active(t) => AsksFor(turn[t].state, t)
    /\ turn[t].at = "model" => Complete(turn[t].state)
    /\ turn[t].at = "tools" =>
         LET s == turn[t].state
         IN  s # <<>> /\ s[Len(s)].type = "ai" /\ turn[t].got \subseteq ToSet(s[Len(s)].calls)

TurnType == turn \in [Turns -> [at : {"new", "before_model", "model", "tools", "over", "cut"},
                                state : Seq(Messages), got : SUBSET Calls, calls : Nat]]

IInv == TurnType /\ Stored(thread) /\ \A t \in Turns : TurnFine(t)

-----------------------------------------------------------------------------
(* Messages.                                                               *)

LEMMA Kinds ==
    ASSUME NEW m \in Messages
    PROVE  /\ m.type \in {"human", "ai", "tool"}
           /\ m.type = "human" => m \in Humans /\ m.turn \in Turns
           /\ m.type = "ai" => m \in Ais /\ m.calls \in Seq(Calls)
           /\ m.type = "tool" => m \in Tools /\ m.call \in Calls /\ m.real \in BOOLEAN
  BY DEF Messages, Humans, Ais, Tools

LEMMA IsTool ==
    ASSUME NEW m \in Tools
    PROVE  m \in Messages /\ m.type = "tool" /\ m.call \in Calls /\ m.real \in BOOLEAN
  BY DEF Messages, Tools

LEMMA AnswerIs ==
    ASSUME NEW c \in Calls, NEW real \in BOOLEAN
    PROVE  Answer(c, real) \in Tools /\ Answer(c, real).call = c /\ Answer(c, real).real = real
  BY DEF Answer, Tools

-----------------------------------------------------------------------------
(* The answers to some calls of a batch: each of them once.                *)

AnswersThose(r, calls, to, real) ==
    /\ r \in Seq(Tools)
    /\ \A p \in 1..Len(r) : r[p].real = real /\ r[p].call \in ToSet(calls) \cap to
    /\ \A c \in ToSet(calls) \cap to : \E p \in 1..Len(r) : r[p].call = c
    /\ (\A i, j \in DOMAIN calls : calls[i] = calls[j] => i = j) =>
          \A p, q \in 1..Len(r) : r[p].call = r[q].call => p = q

LEMMA AnswersOnce ==
    ASSUME NEW calls \in Seq(Calls), NEW to, NEW real \in BOOLEAN
    PROVE  AnswersThose(Answers(calls, to, real), calls, to, real)
<1> DEFINE n == Len(calls)
           Part(j) == IF calls[j] \in to THEN <<Answer(calls[j], real)>> ELSE <<>>
           parts == [j \in DOMAIN calls |-> Part(j)]
           r == FlattenSeq(parts)
<1>1. n \in Nat /\ DOMAIN calls = 1..n /\ \A j \in 1..n : calls[j] \in Calls
  OBVIOUS
<1>2. ASSUME NEW j \in 1..n
      PROVE  /\ Part(j) \in Seq(Tools)
             /\ Len(Part(j)) = IF calls[j] \in to THEN 1 ELSE 0
             /\ calls[j] \in to => Part(j)[1] = Answer(calls[j], real)
  <2>1. Answer(calls[j], real) \in Tools
    BY <1>1, AnswerIs
  <2> DEFINE a == Answer(calls[j], real)
  <2> HIDE DEF a
  <2>2. a \in Tools
    BY <2>1 DEF a
  <2>3. Part(j) = IF calls[j] \in to THEN <<a>> ELSE <<>>
    BY DEF a
  <2>4. calls[j] \in to => Part(j)[1] = a
    BY <2>3
  <2>5. Part(j) \in Seq(Tools) /\ Len(Part(j)) = IF calls[j] \in to THEN 1 ELSE 0
    BY <2>2, <2>3
  <2> QED  BY <2>4, <2>5 DEF a
<1>3. parts \in Seq(Seq(Tools)) /\ Len(parts) = n /\ \A j \in 1..n : parts[j] = Part(j)
  BY <1>1, <1>2
<1> HIDE DEF parts, Part
<1>4. PICK place : r \in Seq(Tools) /\ Parts(parts, r, place)
  BY <1>3, FlattenParts
<1>5. ASSUME NEW p \in 1..Len(r)
      PROVE  \E j \in 1..n : /\ p = place[j-1] + 1 /\ calls[j] \in to
                             /\ r[p] = Answer(calls[j], real)
  <2>0. PICK j \in 1..n : \E k \in 1..Len(parts[j]) : p = place[j-1] + k
    BY <1>3, <1>4 DEF Parts
  <2>1. PICK k \in 1..Len(parts[j]) : p = place[j-1] + k
    BY <2>0
  <2>2. k = 1 /\ calls[j] \in to
    <3>1. Len(parts[j]) = IF calls[j] \in to THEN 1 ELSE 0
      BY <1>2, <1>3
    <3> QED  BY <3>1
  <2>3. r[p] = parts[j][k]
    BY <1>3, <1>4, <2>1 DEF Parts
  <2> QED  BY <1>2, <1>3, <2>1, <2>2, <2>3
<1>6. ASSUME NEW p \in 1..Len(r) PROVE r[p].real = real /\ r[p].call \in ToSet(calls) \cap to
  <2>1. PICK j \in 1..n : calls[j] \in to /\ r[p] = Answer(calls[j], real)
    BY <1>5
  <2> QED  BY <1>1, <2>1, AnswerIs DEF ToSet
<1>7. ASSUME NEW c \in ToSet(calls) \cap to PROVE \E p \in 1..Len(r) : r[p].call = c
  <2>1. PICK j \in 1..n : c = calls[j] /\ calls[j] \in to
    BY <1>1 DEF ToSet
  <2>2. 1 \in 1..Len(parts[j])
    BY <1>2, <1>3, <2>1
  <2>3. place[j-1] + 1 \in 1..Len(r) /\ r[place[j-1] + 1] = parts[j][1]
    BY <1>3, <1>4, <2>2 DEF Parts
  <2>4. parts[j][1] = Answer(c, real) /\ c \in Calls
    BY <1>1, <1>2, <1>3, <2>1
  <2> QED  BY <2>3, <2>4, AnswerIs
<1>8. ASSUME \A i, j \in DOMAIN calls : calls[i] = calls[j] => i = j,
             NEW p \in 1..Len(r), NEW q \in 1..Len(r), r[p].call = r[q].call
      PROVE  p = q
  <2>1. PICK i \in 1..n : p = place[i-1] + 1 /\ r[p] = Answer(calls[i], real)
    BY <1>5
  <2>2. PICK j \in 1..n : q = place[j-1] + 1 /\ r[q] = Answer(calls[j], real)
    BY <1>5
  <2>3. calls[i] = calls[j]
    BY <1>1, <1>8, <2>1, <2>2, AnswerIs
  <2>4. i = j
    BY <1>1, <1>8, <2>3
  <2> QED  BY <2>1, <2>2, <2>4
<1>9. Answers(calls, to, real) = r
  BY DEF Answers, parts, Part
<1> HIDE DEF r
<1> QED  BY <1>4, <1>6, <1>7, <1>8, <1>9 DEF AnswersThose

-----------------------------------------------------------------------------
(* The repair: what it keeps, what it adds and where.                      *)

\* r is s with, after the calls of some messages, answers that were missing; the
\* message at i has moved to pos[i].
IsNew(r, pos, p) == p \in 1..Len(r) /\ \A i \in DOMAIN pos : p # pos[i]
AddedAt(s, r, pos, i, p) ==
    /\ pos[i] < p /\ s[i].type = "ai"
    /\ r[p].call \in ToSet(s[i].calls) \ AnsweredIn(s)
    /\ \A m \in (pos[i]+1)..p : r[m] \in Tools
Repaired(s, r, pos) ==
    /\ r \in Seq(Messages)
    /\ pos \in [1..Len(s) -> 1..Len(r)]
    /\ \A i \in 1..Len(s) : r[pos[i]] = s[i]
    /\ s # <<>> => pos[1] = 1
    /\ \A i, j \in 1..Len(s) : i < j => pos[i] < pos[j]
    /\ \A p \in 1..Len(r) : IsNew(r, pos, p) => \E i \in 1..Len(s) : AddedAt(s, r, pos, i, p)
    /\ \A p, q \in 1..Len(r) :
          IsNew(r, pos, p) /\ IsNew(r, pos, q) /\ r[p].call = r[q].call => p = q
    /\ \A i \in Positions(s, "ai") : \A c \in ToSet(s[i].calls) \ AnsweredIn(s) :
          \E p \in 1..Len(r) : r[p] \in Tools /\ r[p].call = c

LEMMA MissingAre ==
    ASSUME NEW s \in Seq(Messages), NEW i \in 1..Len(s)
    PROVE  /\ s[i].type # "ai" => Missing(s, i) = <<>>
           /\ s[i].type = "ai" =>
                AnswersThose(Missing(s, i), s[i].calls, ToSet(s[i].calls) \ AnsweredIn(s), FALSE)
           /\ Missing(s, i) \in Seq(Tools)
<1>1. CASE s[i].type # "ai"
  <2>1. Missing(s, i) = <<>>
    BY <1>1 DEF Missing
  <2>2. <<>> \in Seq(Tools)
    OBVIOUS
  <2> QED  BY <1>1, <2>1, <2>2
<1>2. CASE s[i].type = "ai"
  <2>1. s[i].calls \in Seq(Calls)
    BY <1>2, Kinds
  <2>2. AnswersThose(Missing(s, i), s[i].calls, ToSet(s[i].calls) \ AnsweredIn(s), FALSE)
    BY <1>2, <2>1, AnswersOnce DEF Missing
  <2> QED  BY <1>2, <2>2 DEF AnswersThose
<1> QED  BY <1>1, <1>2

LEMMA RepairIs ==
    ASSUME NEW s \in Seq(Messages), WellFormed(s)
    PROVE  \E pos : Repaired(s, Repair(s), pos)
<1> DEFINE n == Len(s)
           part(i) == <<s[i]>> \o Missing(s, i)
           parts == [i \in DOMAIN s |-> part(i)]
           r == FlattenSeq(parts)
<1>1. n \in Nat /\ DOMAIN s = 1..n /\ \A i \in 1..n : s[i] \in Messages
  OBVIOUS
<1>2. ASSUME NEW i \in 1..n
      PROVE  /\ part(i) \in Seq(Messages)
             /\ Len(Missing(s, i)) \in Nat
             /\ Len(part(i)) = 1 + Len(Missing(s, i))
             /\ part(i)[1] = s[i]
             /\ \A k \in 1..Len(Missing(s, i)) : part(i)[1 + k] = Missing(s, i)[k]
  <2>1. <<s[i]>> \in Seq(Messages) /\ Len(<<s[i]>>) = 1 /\ <<s[i]>>[1] = s[i]
    BY <1>1
  <2>2. Missing(s, i) \in Seq(Messages)
    <3>1. Missing(s, i) \in Seq(Tools) /\ Tools \subseteq Messages
      BY MissingAre DEF Messages
    <3> QED  BY <3>1
  <2>3. part(i) \in Seq(Messages) /\ Joins(part(i), <<s[i]>>, Missing(s, i))
    BY <2>1, <2>2, Concatenated
  <2> DEFINE one == <<s[i]>>
  <2> HIDE DEF part, one
  <2>4. one[1] = s[i] /\ Len(one) = 1 /\ Joins(part(i), one, Missing(s, i))
    BY <2>1, <2>3 DEF one
  <2>5. /\ Len(Missing(s, i)) \in Nat /\ Len(part(i)) = 1 + Len(Missing(s, i))
        /\ \A k \in 1..Len(Missing(s, i)) : part(i)[1 + k] = Missing(s, i)[k]
    BY <2>4 DEF Joins
  <2>6. part(i)[1] = s[i]
    <3>1. 1 \in 1..Len(one)
      BY <2>4
    <3> QED  BY <2>4, <3>1 DEF Joins
  <2> QED  BY <2>3, <2>5, <2>6
<1>3. parts \in Seq(Seq(Messages)) /\ Len(parts) = n /\ \A i \in 1..n : parts[i] = part(i)
  <2> HIDE DEF part
  <2>1. parts \in [1..n -> Seq(Messages)]
    BY <1>1, <1>2
  <2> QED  BY <1>1, <2>1
<1> HIDE DEF parts, part
<1>4. PICK place : r \in Seq(Messages) /\ Parts(parts, r, place)
  BY <1>3, FlattenParts
<1>5. Repair(s) = r
  BY DEF Repair, parts, part
<1> HIDE DEF r
<1>6. /\ place \in [0..n -> Nat] /\ place[0] = 0
      /\ \A i \in 1..n : place[i] = place[i-1] + 1 + Len(Missing(s, i))
      /\ \A i, j \in 0..n : i <= j => place[i] <= place[j]
  <2>1. \A i \in 1..n : Len(parts[i]) = 1 + Len(Missing(s, i))
    BY <1>2, <1>3
  <2>2. place \in [0..n -> Nat] /\ \A i \in 1..n : place[i] = place[i-1] + Len(parts[i])
    BY <1>3, <1>4 DEF Parts
  <2>3. ASSUME NEW i \in 1..n PROVE place[i] = place[i-1] + 1 + Len(Missing(s, i))
    <3>1. i - 1 \in 0..n /\ i \in 0..n
      BY <1>1
    <3>2. place[i] = place[i-1] + (1 + Len(Missing(s, i))) /\ Len(Missing(s, i)) \in Nat
      BY <1>2, <2>1, <2>2
    <3>3. place[i-1] \in Nat
      BY <2>2, <3>1
    <3> QED  BY <3>2, <3>3
  <2> QED  BY <1>3, <1>4, <2>2, <2>3 DEF Parts
<1> DEFINE pos == [i \in 1..n |-> place[i-1] + 1]
<1>7. ASSUME NEW i \in 1..n
      PROVE  pos[i] = place[i-1] + 1 /\ place[i-1] \in Nat /\ pos[i] \in Nat
  <2>1. i - 1 \in 0..n
    BY <1>1
  <2>2. place[i-1] \in Nat
    BY <1>6, <2>1
  <2>3. pos[i] = place[i-1] + 1
    OBVIOUS
  <2> HIDE DEF pos
  <2> QED  BY <2>2, <2>3
<1>8. pos = [i \in 1..n |-> pos[i]] /\ DOMAIN pos = 1..n
  OBVIOUS
<1> HIDE DEF pos
\* Where the messages of s are.
<1>9. ASSUME NEW i \in 1..n PROVE pos[i] \in 1..Len(r) /\ r[pos[i]] = s[i]
  <2>1. 1 \in 1..Len(parts[i]) /\ parts[i][1] = s[i]
    BY <1>2, <1>3
  <2> QED  BY <1>3, <1>4, <1>7, <2>1 DEF Parts
<1>10. s # <<>> => pos[1] = 1
  <2> SUFFICES ASSUME s # <<>> PROVE pos[1] = 1
    OBVIOUS
  <2>1. 1 \in 1..n
    OBVIOUS
  <2>2. pos[1] = place[1-1] + 1
    BY <1>7, <2>1
  <2> QED  BY <1>6, <2>2
<1>11. ASSUME NEW i \in 1..n, NEW j \in 1..n, i < j PROVE pos[i] + Len(Missing(s, i)) < pos[j]
  <2>1. i \in 0..n /\ j - 1 \in 0..n /\ i <= j - 1
    BY <1>1, <1>11
  <2>2. place[i] <= place[j-1] /\ place[i] \in Nat /\ place[j-1] \in Nat
    BY <1>6, <2>1
  <2>3. place[i] = place[i-1] + 1 + Len(Missing(s, i)) /\ Len(Missing(s, i)) \in Nat
    BY <1>2, <1>6
  <2>4. pos[i] = place[i-1] + 1 /\ place[i-1] \in Nat /\ pos[j] = place[j-1] + 1
    BY <1>7
  <2> QED  BY <2>2, <2>3, <2>4
\* Where the answers that are added are.
<1>12. ASSUME NEW i \in 1..n, NEW k \in 1..Len(Missing(s, i))
       PROVE  pos[i] + k \in 1..Len(r) /\ r[pos[i] + k] = Missing(s, i)[k]
  <2>1. 1 + k \in 1..Len(parts[i]) /\ parts[i][1 + k] = Missing(s, i)[k]
    BY <1>2, <1>3
  <2>2. place[i-1] + (1 + k) \in 1..Len(r) /\ r[place[i-1] + (1 + k)] = parts[i][1 + k]
    BY <1>3, <1>4, <2>1 DEF Parts
  <2>3. pos[i] + k = place[i-1] + (1 + k)
    <3>1. pos[i] = place[i-1] + 1 /\ place[i-1] \in Nat /\ k \in Nat
      BY <1>2, <1>7
    <3> QED  BY <3>1
  <2> QED  BY <2>1, <2>2, <2>3
<1>13. ASSUME NEW p \in 1..Len(r), IsNew(r, pos, p)
       PROVE  \E i \in 1..n : \E k \in 1..Len(Missing(s, i)) : p = pos[i] + k
  <2>0. PICK i \in 1..n : \E k \in 1..Len(parts[i]) : p = place[i-1] + k
    BY <1>3, <1>4 DEF Parts
  <2>1. PICK k \in 1..Len(parts[i]) : p = place[i-1] + k
    BY <2>0
  <2>2. p # pos[i]
    BY <1>8, <1>13 DEF IsNew
  <2>3. Len(parts[i]) = 1 + Len(Missing(s, i)) /\ Len(Missing(s, i)) \in Nat
    BY <1>2, <1>3
  <2>4. k # 1
    BY <1>7, <2>1, <2>2
  <2>5. k - 1 \in 1..Len(Missing(s, i)) /\ p = pos[i] + (k - 1)
    BY <1>7, <2>1, <2>3, <2>4
  <2> QED  BY <2>5
<1>14. ASSUME NEW i \in 1..n, NEW k \in 1..Len(Missing(s, i))
       PROVE  /\ s[i].type = "ai"
              /\ AnswersThose(Missing(s, i), s[i].calls, ToSet(s[i].calls) \ AnsweredIn(s), FALSE)
              /\ Missing(s, i)[k] \in Tools
              /\ Missing(s, i)[k].call \in ToSet(s[i].calls) \ AnsweredIn(s)
  <2>1. s[i].type = "ai"
    <3>1. Missing(s, i) # <<>>
      OBVIOUS
    <3> QED  BY <3>1, MissingAre
  <2>2. AnswersThose(Missing(s, i), s[i].calls, ToSet(s[i].calls) \ AnsweredIn(s), FALSE)
    BY <2>1, MissingAre
  <2> QED  BY <2>1, <2>2 DEF AnswersThose
<1>15. ASSUME NEW p \in 1..Len(r), IsNew(r, pos, p)
       PROVE  \E i \in 1..n : AddedAt(s, r, pos, i, p)
  <2>1. PICK i \in 1..n : \E k \in 1..Len(Missing(s, i)) : p = pos[i] + k
    BY <1>13, <1>15
  <2>2. PICK k \in 1..Len(Missing(s, i)) : p = pos[i] + k
    BY <2>1
  <2>3. pos[i] \in Nat /\ Len(Missing(s, i)) \in Nat
    BY <1>2, <1>7
  <2>4. ASSUME NEW m \in (pos[i]+1)..p PROVE r[m] \in Tools
    <3>1. m - pos[i] \in 1..Len(Missing(s, i)) /\ m = pos[i] + (m - pos[i])
      BY <2>2, <2>3
    <3> QED  BY <1>12, <1>14, <3>1
  <2>5. r[p].call \in ToSet(s[i].calls) \ AnsweredIn(s) /\ s[i].type = "ai"
    BY <1>12, <1>14, <2>2
  <2>6. pos[i] < p
    BY <2>2, <2>3
  <2> QED  BY <2>4, <2>5, <2>6 DEF AddedAt
<1>16. ASSUME NEW p \in 1..Len(r), NEW q \in 1..Len(r),
              IsNew(r, pos, p), IsNew(r, pos, q), r[p].call = r[q].call
       PROVE  p = q
  <2>1. PICK i \in 1..n : \E k \in 1..Len(Missing(s, i)) : p = pos[i] + k
    BY <1>13, <1>16
  <2>2. PICK k \in 1..Len(Missing(s, i)) : p = pos[i] + k
    BY <2>1
  <2>3. PICK j \in 1..n : \E l \in 1..Len(Missing(s, j)) : q = pos[j] + l
    BY <1>13, <1>16
  <2>4. PICK l \in 1..Len(Missing(s, j)) : q = pos[j] + l
    BY <2>3
  <2>5. /\ s[i].type = "ai" /\ r[p] = Missing(s, i)[k] /\ r[p].call \in ToSet(s[i].calls)
        /\ s[j].type = "ai" /\ r[q] = Missing(s, j)[l] /\ r[q].call \in ToSet(s[j].calls)
    BY <1>12, <1>14, <2>2, <2>4
  <2>6. i = j
    <3>1. i \in Positions(s, "ai") /\ j \in Positions(s, "ai")
      BY <1>1, <2>5 DEF Positions
    <3>2. PICK x \in DOMAIN s[i].calls : s[i].calls[x] = r[p].call
      BY <2>5 DEF ToSet
    <3>3. PICK y \in DOMAIN s[j].calls : s[j].calls[y] = r[q].call
      BY <2>5 DEF ToSet
    <3> QED  BY <1>16, <3>1, <3>2, <3>3 DEF WellFormed, CallsDistinct
  <2>7. \A x, y \in DOMAIN s[i].calls : s[i].calls[x] = s[i].calls[y] => x = y
    <3>1. i \in Positions(s, "ai")
      BY <1>1, <2>5 DEF Positions
    <3> QED  BY <3>1 DEF WellFormed, CallsDistinct
  <2>8. k = l
    <3> DEFINE a == Missing(s, i)
    <3>1. k \in 1..Len(a) /\ l \in 1..Len(a) /\ a[k].call = a[l].call
      BY <1>16, <2>5, <2>6
    <3>2. AnswersThose(a, s[i].calls, ToSet(s[i].calls) \ AnsweredIn(s), FALSE)
      BY <1>14
    <3> HIDE DEF a
    <3> QED  BY <2>7, <3>1, <3>2 DEF AnswersThose
  <2> QED  BY <2>2, <2>4, <2>6, <2>8
<1>17. ASSUME NEW i \in Positions(s, "ai"), NEW c \in ToSet(s[i].calls) \ AnsweredIn(s)
       PROVE  \E p \in 1..Len(r) : r[p] \in Tools /\ r[p].call = c
  <2>1. i \in 1..n /\ s[i].type = "ai"
    BY <1>1 DEF Positions
  <2>2. AnswersThose(Missing(s, i), s[i].calls, ToSet(s[i].calls) \ AnsweredIn(s), FALSE)
    BY <2>1, MissingAre
  <2>3. PICK k \in 1..Len(Missing(s, i)) : Missing(s, i)[k].call = c
    BY <2>2 DEF AnswersThose
  <2>4. pos[i] + k \in 1..Len(r) /\ r[pos[i] + k] = Missing(s, i)[k]
    BY <1>12, <2>1
  <2> QED  BY <1>14, <2>1, <2>3, <2>4
<1>18. \A i, j \in 1..n : i < j => pos[i] < pos[j]
  <2> SUFFICES ASSUME NEW i \in 1..n, NEW j \in 1..n, i < j PROVE pos[i] < pos[j]
    OBVIOUS
  <2>1. Len(Missing(s, i)) \in Nat /\ pos[i] \in Nat /\ pos[j] \in Nat
    BY <1>2, <1>7
  <2>2. pos[i] + Len(Missing(s, i)) < pos[j]
    BY <1>11
  <2> QED  BY <2>1, <2>2
<1>19. pos \in [1..n -> 1..Len(r)]
  BY <1>8, <1>9
<1>20. Repaired(s, r, pos)
  BY <1>4, <1>9, <1>10, <1>15, <1>16, <1>17, <1>18, <1>19 DEF Repaired
<1> QED  BY <1>5, <1>20

-----------------------------------------------------------------------------
(* Well-formed sequences.                                                  *)

LEMMA PositionsAre ==
    ASSUME NEW s \in Seq(Messages), NEW type, NEW i
    PROVE  i \in Positions(s, type) <=> i \in 1..Len(s) /\ s[i].type = type
  BY DEF Positions

\* A call has one message that makes it, and at most one that answers it.
LEMMA OneCaller ==
    ASSUME NEW s \in Seq(Messages), CallsDistinct(s),
           NEW i \in 1..Len(s), NEW l \in 1..Len(s), s[i].type = "ai", s[l].type = "ai",
           NEW c \in ToSet(s[i].calls) \cap ToSet(s[l].calls)
    PROVE  i = l
<1>1. i \in Positions(s, "ai") /\ l \in Positions(s, "ai")
  BY PositionsAre
<1>2. PICK j \in DOMAIN s[i].calls : s[i].calls[j] = c
  BY DEF ToSet
<1>3. PICK m \in DOMAIN s[l].calls : s[l].calls[m] = c
  BY DEF ToSet
<1> QED  BY <1>1, <1>2, <1>3 DEF CallsDistinct

LEMMA EmptyFine ==
    ASSUME NEW made
    PROVE  <<>> \in Seq(Messages) /\ WellFormed(<<>>) /\ CallsMade(<<>>, made)
<1>1. \A type : Positions(<<>>, type) = {}
  BY DEF Positions
<1> QED  BY <1>1 DEF WellFormed, CallsDistinct, AnswersDistinct, AnswersOwned, CallsMade

\* A question is added.
LEMMA HumanAdded ==
    ASSUME NEW s \in Seq(Messages), WellFormed(s), NEW t \in Turns, NEW made, CallsMade(s, made)
    PROVE  LET r == Append(s, Human(t))
           IN  /\ r \in Seq(Messages) /\ WellFormed(r) /\ CallsMade(r, made)
               /\ AsksFor(r, t)
<1> DEFINE m == Human(t)
           r == Append(s, m)
           n == Len(s)
<1>1. m \in Messages /\ m.type = "human" /\ m.turn = t
  BY DEF Human, Messages, Humans
<1> HIDE DEF m
<1>2. /\ r \in Seq(Messages) /\ n \in Nat /\ Len(r) = n + 1
      /\ \A i \in 1..n : r[i] = s[i]
      /\ r[n + 1] = m
  BY <1>1
<1> HIDE DEF r
<1>3. \A i : i \in Positions(r, "ai") <=> i \in Positions(s, "ai")
  BY <1>1, <1>2, PositionsAre
<1>4. \A i : i \in Positions(r, "tool") <=> i \in Positions(s, "tool")
  BY <1>1, <1>2, PositionsAre
<1>5. \A i \in Positions(s, "ai") \cup Positions(s, "tool") : i \in 1..n /\ r[i] = s[i]
  BY <1>2, PositionsAre
<1>6. CallsDistinct(r)
  BY <1>3, <1>5 DEF WellFormed, CallsDistinct
<1>7. AnswersDistinct(r)
  BY <1>4, <1>5 DEF WellFormed, AnswersDistinct
<1>8. AnswersOwned(r)
  <2> SUFFICES ASSUME NEW k \in Positions(r, "tool") PROVE \E i \in DOMAIN r : Owns(r, i, k)
    BY DEF AnswersOwned
  <2>1. k \in 1..n /\ r[k] = s[k] /\ k \in Positions(s, "tool")
    BY <1>4, <1>5
  <2>2. PICK i \in DOMAIN s : Owns(s, i, k)
    BY <2>1 DEF WellFormed, AnswersOwned
  <2>3. i \in 1..n /\ i < k
    BY <2>2 DEF Owns
  <2>4. \A j \in (i+1)..k : j \in 1..n
    BY <1>2, <2>1, <2>3
  <2>5. Owns(r, i, k)
    BY <1>2, <2>1, <2>2, <2>3, <2>4 DEF Owns
  <2>6. i \in DOMAIN r
    BY <1>2, <2>3
  <2> QED  BY <2>5, <2>6
<1>9. r[1].type = "human"
  <2>1. CASE n = 0
    BY <1>1, <1>2, <2>1
  <2>2. CASE n # 0
    <3>1. s # <<>> /\ 1 \in 1..n
      BY <1>2, <2>2
    <3> QED  BY <1>2, <3>1 DEF WellFormed
  <2> QED  BY <2>1, <2>2
<1>10. CallsMade(r, made)
  BY <1>3, <1>5 DEF CallsMade
<1>11. AsksFor(r, t)
  <2>1. n + 1 \in Positions(r, "human")
    BY <1>1, <1>2, PositionsAre
  <2>2. \A j \in Positions(r, "human") : j <= n + 1
    BY <1>2, PositionsAre
  <2> QED  BY <1>1, <1>2, <2>1, <2>2 DEF AsksFor
<1> QED  BY <1>2, <1>6, <1>7, <1>8, <1>9, <1>10, <1>11 DEF WellFormed, r, m

\* Calls that differ from each other and from those in s.
NewCalls(s, calls) ==
    /\ calls \in Seq(Calls)
    /\ \A i, j \in DOMAIN calls : calls[i] = calls[j] => i = j
    /\ \A i \in Positions(s, "ai") : ToSet(s[i].calls) \cap ToSet(calls) = {}

\* What is known of r, that is s with the model's message.
AiFine(s, calls, t, r) ==
    /\ r \in Seq(Messages) /\ WellFormed(r) /\ AsksFor(r, t)
    /\ r # <<>> /\ r[Len(r)].type = "ai" /\ r[Len(r)].calls = calls
    /\ \A i \in Positions(r, "ai") :
          (i \in Positions(s, "ai") /\ r[i] = s[i]) \/ r[i].calls = calls

\* The model's message is added, with calls that were not made before.
LEMMA AiAdded ==
    ASSUME NEW s \in Seq(Messages), WellFormed(s), s # <<>>,
           NEW t \in Turns, AsksFor(s, t), NEW calls, NewCalls(s, calls)
    PROVE  AiFine(s, calls, t, Append(s, Ai(t, calls)))
<1> DEFINE m == Ai(t, calls)
           r == Append(s, m)
           n == Len(s)
<1>0. /\ calls \in Seq(Calls)
      /\ \A i, j \in DOMAIN calls : calls[i] = calls[j] => i = j
      /\ \A i \in Positions(s, "ai") : ToSet(s[i].calls) \cap ToSet(calls) = {}
  BY DEF NewCalls
<1>1. m \in Messages /\ m.type = "ai" /\ m.calls = calls
  BY <1>0 DEF Ai, Messages, Ais
<1> HIDE DEF m
<1>2. /\ r \in Seq(Messages) /\ n \in Nat /\ Len(r) = n + 1 /\ n # 0
      /\ \A i \in 1..n : r[i] = s[i]
      /\ r[n + 1] = m
  BY <1>1
<1> HIDE DEF r
<1>3. \A i : i \in Positions(r, "ai") <=> i \in Positions(s, "ai") \/ i = n + 1
  BY <1>1, <1>2, PositionsAre
<1>4. \A i : i \in Positions(r, "tool") <=> i \in Positions(s, "tool")
  BY <1>1, <1>2, PositionsAre
<1>5. \A type : \A i \in Positions(s, type) : i \in 1..n /\ r[i] = s[i]
  BY <1>2, PositionsAre
<1>6. CallsDistinct(r)
  <2> SUFFICES ASSUME NEW i \in Positions(r, "ai"), NEW l \in Positions(r, "ai"),
                      NEW j \in DOMAIN r[i].calls, NEW k \in DOMAIN r[l].calls,
                      r[i].calls[j] = r[l].calls[k]
               PROVE  i = l /\ j = k
    BY DEF CallsDistinct
  <2>1. CASE i = n + 1 /\ l = n + 1
    BY <1>0, <1>1, <1>2, <2>1
  <2>2. CASE i = n + 1 /\ l # n + 1
    <3>1. l \in Positions(s, "ai") /\ r[l] = s[l]
      BY <1>3, <1>5, <2>2
    <3>2. r[i].calls[j] \in ToSet(calls) /\ r[l].calls[k] \in ToSet(s[l].calls)
      BY <1>1, <1>2, <2>2, <3>1 DEF ToSet
    <3> QED  BY <1>0, <3>1, <3>2
  <2>3. CASE i # n + 1 /\ l = n + 1
    <3>1. i \in Positions(s, "ai") /\ r[i] = s[i]
      BY <1>3, <1>5, <2>3
    <3>2. r[l].calls[k] \in ToSet(calls) /\ r[i].calls[j] \in ToSet(s[i].calls)
      BY <1>1, <1>2, <2>3, <3>1 DEF ToSet
    <3> QED  BY <1>0, <3>1, <3>2
  <2>4. CASE i # n + 1 /\ l # n + 1
    <3>1. i \in Positions(s, "ai") /\ r[i] = s[i] /\ l \in Positions(s, "ai") /\ r[l] = s[l]
      BY <1>3, <1>5, <2>4
    <3> QED  BY <3>1 DEF WellFormed, CallsDistinct
  <2> QED  BY <2>1, <2>2, <2>3, <2>4
<1>7. AnswersDistinct(r)
  BY <1>4, <1>5 DEF WellFormed, AnswersDistinct
<1>8. AnswersOwned(r)
  <2> SUFFICES ASSUME NEW k \in Positions(r, "tool") PROVE \E i \in DOMAIN r : Owns(r, i, k)
    BY DEF AnswersOwned
  <2>1. k \in 1..n /\ r[k] = s[k] /\ k \in Positions(s, "tool")
    BY <1>4, <1>5
  <2>2. PICK i \in DOMAIN s : Owns(s, i, k)
    BY <2>1 DEF WellFormed, AnswersOwned
  <2>3. i \in 1..n /\ i < k
    BY <2>2 DEF Owns
  <2>4. \A j \in (i+1)..k : j \in 1..n
    BY <1>2, <2>1, <2>3
  <2>5. Owns(r, i, k)
    BY <1>2, <2>1, <2>2, <2>3, <2>4 DEF Owns
  <2>6. i \in DOMAIN r
    BY <1>2, <2>3
  <2> QED  BY <2>5, <2>6
<1>9. r[1].type = "human"
  <2>1. 1 \in 1..n
    BY <1>2
  <2> QED  BY <1>2, <2>1 DEF WellFormed
<1>10. AsksFor(r, t)
  <2>1. \A i : i \in Positions(r, "human") <=> i \in Positions(s, "human")
    BY <1>1, <1>2, PositionsAre
  <2> QED  BY <1>5, <2>1 DEF AsksFor
<1>11. \A i \in Positions(r, "ai") :
          (i \in Positions(s, "ai") /\ r[i] = s[i]) \/ r[i].calls = calls
  BY <1>1, <1>2, <1>3, <1>5
<1>12. r # <<>> /\ r[Len(r)] = m
  BY <1>2
<1> QED  BY <1>1, <1>2, <1>6, <1>7, <1>8, <1>9, <1>10, <1>11, <1>12 DEF WellFormed, AiFine, r, m

\* Answers to some of the calls of its last message are added, real ones.
LEMMA AnswersAdded ==
    ASSUME NEW s \in Seq(Messages), WellFormed(s), s # <<>>, s[Len(s)].type = "ai",
           NEW got, NEW t \in Turns, AsksFor(s, t), NEW made, CallsMade(s, made)
    PROVE  LET r == s \o Answers(s[Len(s)].calls, got, TRUE)
           IN  /\ r \in Seq(Messages) /\ WellFormed(r) /\ AsksFor(r, t) /\ CallsMade(r, made)
               /\ Genuine(s) \subseteq Genuine(r)
<1> DEFINE n == Len(s)
           calls == s[n].calls
           a == Answers(calls, got, TRUE)
           r == s \o a
<1>1. n \in Nat /\ n # 0 /\ n \in 1..n /\ s[n] \in Messages
  OBVIOUS
<1>2. calls \in Seq(Calls)
  BY <1>1, Kinds
<1>3. n \in Positions(s, "ai")
  BY <1>1, PositionsAre
<1>4. \A i, j \in DOMAIN calls : calls[i] = calls[j] => i = j
  BY <1>3 DEF WellFormed, CallsDistinct
<1>5. AnswersThose(a, calls, got, TRUE)
  BY <1>2, AnswersOnce
<1> HIDE DEF a
<1>6. a \in Seq(Tools) /\ a \in Seq(Messages)
  <2>1. Tools \subseteq Messages
    BY DEF Messages
  <2> QED  BY <1>5, <2>1 DEF AnswersThose
<1>7. r \in Seq(Messages) /\ Joins(r, s, a)
  BY <1>6, Concatenated
<1> HIDE DEF r
<1>8. /\ Len(r) = n + Len(a) /\ Len(a) \in Nat
      /\ \A i \in 1..n : r[i] = s[i]
  BY <1>7 DEF Joins
<1>9. ASSUME NEW i \in 1..Len(r), ~(i \in 1..n)
      PROVE  /\ i - n \in 1..Len(a) /\ r[i] = a[i - n]
             /\ r[i] \in Tools /\ r[i].type = "tool" /\ r[i].real = TRUE
             /\ r[i].call \in ToSet(calls)
  <2>1. i - n \in 1..Len(a) /\ i = n + (i - n)
    BY <1>1, <1>8, <1>9
  <2>2. r[i] = a[i - n]
    BY <1>7, <2>1 DEF Joins
  <2>3. a[i - n] \in Tools /\ a[i - n].real = TRUE /\ a[i - n].call \in ToSet(calls)
    BY <1>5, <1>6, <2>1 DEF AnswersThose
  <2> QED  BY <2>1, <2>2, <2>3, IsTool
<1>10. ASSUME NEW type, type # "tool", NEW i
       PROVE  i \in Positions(r, type) <=> i \in Positions(s, type)
  <2>1. i \in Positions(r, type) <=> i \in 1..Len(r) /\ r[i].type = type
    BY <1>7, PositionsAre
  <2>2. i \in Positions(s, type) <=> i \in 1..n /\ s[i].type = type
    BY PositionsAre
  <2>3. i \in 1..Len(r) /\ r[i].type = type => i \in 1..n
    BY <1>9, <1>10
  <2>4. i \in 1..n => i \in 1..Len(r) /\ r[i] = s[i]
    BY <1>1, <1>8
  <2> QED  BY <2>1, <2>2, <2>3, <2>4
<1>11. \A type : \A i \in Positions(s, type) : i \in 1..n /\ r[i] = s[i]
  BY <1>8, PositionsAre
<1>12. CallsDistinct(r)
  BY <1>10, <1>11 DEF WellFormed, CallsDistinct
\* Nothing in s answers the calls of its last message.
<1>13. ASSUME NEW k \in 1..n, s[k].type = "tool" PROVE s[k].call \notin ToSet(calls)
  <2> SUFFICES ASSUME s[k].call \in ToSet(calls) PROVE FALSE
    OBVIOUS
  <2>1. k \in Positions(s, "tool")
    BY <1>13, PositionsAre
  <2>2. PICK i \in DOMAIN s : Owns(s, i, k)
    BY <2>1 DEF WellFormed, AnswersOwned
  <2>3. i \in 1..n /\ i < k /\ s[i].type = "ai" /\ s[k].call \in ToSet(s[i].calls)
    BY <2>2 DEF Owns
  <2>4. i = n
    BY <1>1, <2>3, OneCaller DEF WellFormed
  <2> QED  BY <1>1, <2>3, <2>4
<1>14. AnswersDistinct(r)
  <2> SUFFICES ASSUME NEW k \in Positions(r, "tool"), NEW l \in Positions(r, "tool"),
                      r[k].call = r[l].call
               PROVE  k = l
    BY DEF AnswersDistinct
  <2>1. /\ k \in 1..Len(r) /\ r[k].type = "tool" /\ l \in 1..Len(r) /\ r[l].type = "tool"
    BY <1>7, PositionsAre
  <2>2. CASE k \in 1..n /\ l \in 1..n
    <3>1. k \in Positions(s, "tool") /\ l \in Positions(s, "tool") /\ s[k].call = s[l].call
      BY <1>8, <2>1, <2>2, PositionsAre
    <3> QED  BY <3>1 DEF WellFormed, AnswersDistinct
  <2>3. CASE k \in 1..n /\ l \notin 1..n
    BY <1>8, <1>9, <1>13, <2>1, <2>3
  <2>4. CASE k \notin 1..n /\ l \in 1..n
    BY <1>8, <1>9, <1>13, <2>1, <2>4
  <2>5. CASE k \notin 1..n /\ l \notin 1..n
    <3>1. /\ k - n \in 1..Len(a) /\ r[k] = a[k - n]
          /\ l - n \in 1..Len(a) /\ r[l] = a[l - n]
      BY <1>9, <2>1, <2>5
    <3>2. k - n = l - n
      BY <1>4, <1>5, <3>1 DEF AnswersThose
    <3> QED  BY <1>1, <2>1, <3>2
  <2> QED  BY <2>2, <2>3, <2>4, <2>5
<1>15. AnswersOwned(r)
  <2> SUFFICES ASSUME NEW k \in Positions(r, "tool") PROVE \E i \in DOMAIN r : Owns(r, i, k)
    BY DEF AnswersOwned
  <2>1. k \in 1..Len(r) /\ r[k].type = "tool"
    BY <1>7, PositionsAre
  <2>2. CASE k \in 1..n
    <3>1. r[k] = s[k] /\ k \in Positions(s, "tool")
      BY <1>8, <2>1, <2>2, PositionsAre
    <3>2. PICK i \in DOMAIN s : Owns(s, i, k)
      BY <3>1 DEF WellFormed, AnswersOwned
    <3>3. i \in 1..n /\ i < k
      BY <3>2 DEF Owns
    <3>4. \A j \in (i+1)..k : j \in 1..n
      BY <1>1, <2>2, <3>3
    <3>5. Owns(r, i, k)
      BY <1>8, <3>1, <3>2, <3>3, <3>4 DEF Owns
    <3>6. i \in DOMAIN r
      BY <1>7, <1>8, <3>3
    <3> QED  BY <3>5, <3>6
  <2>3. CASE k \notin 1..n
    <3>0. r[k].call \in ToSet(calls)
      BY <1>9, <2>1, <2>3
    <3>1. r[k].call \in ToSet(calls) /\ n < k
      BY <1>1, <2>1, <2>3, <3>0
    <3>2. r[n] = s[n]
      BY <1>1, <1>8
    <3>3. \A m \in (n+1)..k : m \in 1..Len(r) /\ m \notin 1..n
      BY <1>1, <1>8, <2>1
    <3>4. Owns(r, n, k)
      BY <1>9, <3>1, <3>2, <3>3 DEF Owns
    <3>5. n \in DOMAIN r
      BY <1>1, <1>7, <1>8
    <3> QED  BY <3>4, <3>5
  <2> QED  BY <2>2, <2>3
<1>16. r[1].type = "human"
  <2>1. 1 \in 1..n
    BY <1>1
  <2> QED  BY <1>8, <2>1 DEF WellFormed
<1>17. AsksFor(r, t)
  BY <1>10, <1>11 DEF AsksFor
<1>18. CallsMade(r, made)
  BY <1>10, <1>11 DEF CallsMade
<1>19. Genuine(s) \subseteq Genuine(r)
  <2>1. \A i \in DOMAIN s : i \in DOMAIN r /\ r[i] = s[i]
    BY <1>1, <1>7, <1>8
  <2> QED  BY <2>1 DEF Genuine
<1> QED  BY <1>7, <1>12, <1>14, <1>15, <1>16, <1>17, <1>18, <1>19 DEF WellFormed, r, a

\* The sequence is repaired.
LEMMA RepairFine ==
    ASSUME NEW s \in Seq(Messages), WellFormed(s),
           NEW t \in Turns, AsksFor(s, t), NEW made, CallsMade(s, made)
    PROVE  LET r == Repair(s)
           IN  /\ r \in Seq(Messages) /\ WellFormed(r) /\ AsksFor(r, t) /\ CallsMade(r, made)
               /\ Complete(r) /\ Genuine(s) \subseteq Genuine(r)
<1> DEFINE n == Len(s)
           r == Repair(s)
<1>1. n \in Nat /\ DOMAIN s = 1..n /\ \A i \in 1..n : s[i] \in Messages
  OBVIOUS
<1>2. PICK pos : Repaired(s, r, pos)
  BY RepairIs
<1> HIDE DEF r
<1>3. /\ r \in Seq(Messages) /\ Len(r) \in Nat
      /\ \A i \in 1..n : pos[i] \in 1..Len(r) /\ r[pos[i]] = s[i]
      /\ DOMAIN pos = 1..n
      /\ \A i, j \in 1..n : i < j => pos[i] < pos[j]
  BY <1>2 DEF Repaired
<1>4. \A i, j \in 1..n : pos[i] < pos[j] => i < j
  <2> SUFFICES ASSUME NEW i \in 1..n, NEW j \in 1..n, pos[i] < pos[j] PROVE i < j
    OBVIOUS
  <2>1. pos[i] \in Nat /\ pos[j] \in Nat
    BY <1>3
  <2>2. ~(j < i) /\ i # j
    BY <1>3, <2>1
  <2> QED  BY <2>2
<1>5. \A i, j \in 1..n : pos[i] = pos[j] => i = j
  <2> SUFFICES ASSUME NEW i \in 1..n, NEW j \in 1..n, pos[i] = pos[j] PROVE i = j
    OBVIOUS
  <2>1. pos[i] \in Nat /\ pos[j] \in Nat
    BY <1>3
  <2>2. ~(j < i) /\ ~(i < j)
    BY <1>3, <2>1
  <2> QED  BY <2>2
\* A message of r is one of s that has moved, or an answer that was added.
<1>6. ASSUME NEW p \in 1..Len(r)
      PROVE  \/ \E i \in 1..n : p = pos[i] /\ r[p] = s[i]
             \/ /\ IsNew(r, pos, p) /\ r[p] \in Tools /\ r[p].type = "tool"
                /\ r[p].call \notin AnsweredIn(s)
                /\ \E i \in 1..n : AddedAt(s, r, pos, i, p)
  <2>1. CASE IsNew(r, pos, p)
    <3>1. PICK i \in 1..n : AddedAt(s, r, pos, i, p)
      BY <1>2, <2>1 DEF Repaired
    <3>2. p \in (pos[i]+1)..p
      <4>1. pos[i] \in Nat /\ pos[i] < p
        BY <1>3, <3>1 DEF AddedAt
      <4> QED  BY <4>1
    <3>3. r[p] \in Tools /\ r[p].call \notin AnsweredIn(s)
      BY <3>1, <3>2 DEF AddedAt
    <3> QED  BY <2>1, <3>1, <3>3, IsTool
  <2>2. CASE ~IsNew(r, pos, p)
    BY <1>3, <2>2 DEF IsNew
  <2> QED  BY <2>1, <2>2
<1>7. ASSUME NEW type, type # "tool", NEW p
      PROVE  p \in Positions(r, type) <=>
                \E i \in Positions(s, type) : p = pos[i] /\ r[p] = s[i]
  <2>1. p \in Positions(r, type) <=> p \in 1..Len(r) /\ r[p].type = type
    BY <1>3, PositionsAre
  <2>2. \A i : i \in Positions(s, type) <=> i \in 1..n /\ s[i].type = type
    BY PositionsAre
  <2>3. p \in 1..Len(r) /\ r[p].type = type => \E i \in 1..n : p = pos[i] /\ r[p] = s[i]
    BY <1>6, <1>7
  <2> QED  BY <1>3, <2>1, <2>2, <2>3
<1>8. CallsDistinct(r)
  <2> SUFFICES ASSUME NEW p \in Positions(r, "ai"), NEW q \in Positions(r, "ai"),
                      NEW j \in DOMAIN r[p].calls, NEW m \in DOMAIN r[q].calls,
                      r[p].calls[j] = r[q].calls[m]
               PROVE  p = q /\ j = m
    BY DEF CallsDistinct
  <2>1. PICK i \in Positions(s, "ai") : p = pos[i] /\ r[p] = s[i]
    BY <1>7
  <2>2. PICK l \in Positions(s, "ai") : q = pos[l] /\ r[q] = s[l]
    BY <1>7
  <2> QED  BY <2>1, <2>2 DEF WellFormed, CallsDistinct
<1>9. \A i \in 1..n : s[i].type = "tool" => s[i].call \in AnsweredIn(s)
  BY PositionsAre DEF AnsweredIn
<1>10. AnswersDistinct(r)
  <2> SUFFICES ASSUME NEW p \in Positions(r, "tool"), NEW q \in Positions(r, "tool"),
                      r[p].call = r[q].call
               PROVE  p = q
    BY DEF AnswersDistinct
  <2>1. p \in 1..Len(r) /\ r[p].type = "tool" /\ q \in 1..Len(r) /\ r[q].type = "tool"
    BY <1>3, PositionsAre
  <2>2. CASE IsNew(r, pos, p) /\ IsNew(r, pos, q)
    BY <1>2, <2>1, <2>2 DEF Repaired
  <2>3. CASE IsNew(r, pos, p) /\ ~IsNew(r, pos, q)
    <3>1. PICK l \in 1..n : q = pos[l] /\ r[q] = s[l]
      BY <1>6, <2>1, <2>3
    <3>2. r[p].call \notin AnsweredIn(s)
      <4>1. \A i \in 1..n : p # pos[i]
        BY <1>3, <2>3 DEF IsNew
      <4> QED  BY <1>6, <2>1, <4>1
    <3> QED  BY <1>9, <2>1, <3>1, <3>2
  <2>4. CASE ~IsNew(r, pos, p) /\ IsNew(r, pos, q)
    <3>1. PICK l \in 1..n : p = pos[l] /\ r[p] = s[l]
      BY <1>6, <2>1, <2>4
    <3>2. r[q].call \notin AnsweredIn(s)
      <4>1. \A i \in 1..n : q # pos[i]
        BY <1>3, <2>4 DEF IsNew
      <4> QED  BY <1>6, <2>1, <4>1
    <3> QED  BY <1>9, <2>1, <3>1, <3>2
  <2>5. CASE ~IsNew(r, pos, p) /\ ~IsNew(r, pos, q)
    <3>1. PICK i \in 1..n : p = pos[i] /\ r[p] = s[i]
      BY <1>6, <2>1, <2>5
    <3>2. PICK l \in 1..n : q = pos[l] /\ r[q] = s[l]
      BY <1>6, <2>1, <2>5
    <3>3. i \in Positions(s, "tool") /\ l \in Positions(s, "tool")
      BY <2>1, <3>1, <3>2, PositionsAre
    <3>4. i = l
      BY <3>1, <3>2, <3>3 DEF WellFormed, AnswersDistinct
    <3> QED  BY <3>1, <3>2, <3>4
  <2> QED  BY <2>2, <2>3, <2>4, <2>5
<1>11. AnswersOwned(r)
  <2> SUFFICES ASSUME NEW p \in Positions(r, "tool") PROVE \E x \in DOMAIN r : Owns(r, x, p)
    BY DEF AnswersOwned
  <2>1. p \in 1..Len(r) /\ r[p].type = "tool" /\ DOMAIN r = 1..Len(r)
    BY <1>3, PositionsAre
  <2>2. ASSUME NEW k \in 1..n, p = pos[k], r[p] = s[k]
        PROVE  \E x \in DOMAIN r : Owns(r, x, p)
    <3>1. k \in Positions(s, "tool")
      BY <2>1, <2>2, PositionsAre
    <3>2. PICK i \in DOMAIN s : Owns(s, i, k)
      BY <3>1 DEF WellFormed, AnswersOwned
    <3>3. i \in 1..n /\ i < k /\ s[i].type = "ai" /\ s[k].call \in ToSet(s[i].calls)
      BY <1>1, <3>2 DEF Owns
    <3>4. /\ pos[i] \in 1..Len(r) /\ r[pos[i]] = s[i] /\ pos[i] < p
      BY <1>3, <2>2, <3>3
    <3>5. ASSUME NEW m \in (pos[i]+1)..p PROVE r[m].type = "tool"
      <4>1. m \in 1..Len(r) /\ pos[i] < m /\ m <= p
        BY <1>3, <2>1, <3>4
      <4>2. ASSUME NEW j \in 1..n, m = pos[j], r[m] = s[j] PROVE r[m].type = "tool"
        <5>1. i < j
          BY <1>4, <3>3, <4>1, <4>2
        <5>2. j <= k
          <6>1. k < j => pos[k] < pos[j]
            BY <1>3
          <6>2. pos[k] \in Nat /\ pos[j] \in Nat /\ pos[j] <= pos[k]
            BY <1>3, <2>2, <4>1, <4>2
          <6> QED  BY <6>1, <6>2
        <5>3. j \in (i+1)..k
          BY <3>3, <5>1, <5>2
        <5> QED  BY <3>2, <4>2, <5>3 DEF Owns
      <4> QED  BY <1>6, <4>1, <4>2
    <3>6. Owns(r, pos[i], p)
      BY <2>2, <3>3, <3>4, <3>5 DEF Owns
    <3> QED  BY <2>1, <3>4, <3>6
  <2>3. ASSUME NEW i \in 1..n, AddedAt(s, r, pos, i, p)
        PROVE  \E x \in DOMAIN r : Owns(r, x, p)
    <3>1. pos[i] \in 1..Len(r) /\ r[pos[i]] = s[i]
      BY <1>3
    <3>2. \A m \in (pos[i]+1)..p : r[m].type = "tool"
      BY <2>3, IsTool DEF AddedAt
    <3>3. Owns(r, pos[i], p)
      BY <2>3, <3>1, <3>2 DEF AddedAt, Owns
    <3> QED  BY <2>1, <3>1, <3>3
  <2> QED  BY <1>6, <2>1, <2>2, <2>3
<1>12. r # <<>> => r[1].type = "human"
  <2> SUFFICES ASSUME r # <<>> PROVE r[1].type = "human"
    OBVIOUS
  <2>1. 1 \in 1..Len(r)
    BY <1>3
  <2>2. s # <<>>
    <3>1. \E i \in 1..n : TRUE
      BY <1>6, <2>1
    <3> QED  BY <1>1, <3>1
  <2>3. 1 \in 1..n /\ pos[1] = 1 /\ s[1].type = "human"
    BY <1>1, <1>2, <2>2 DEF Repaired, WellFormed
  <2> QED  BY <1>3, <2>3
<1>13. AsksFor(r, t)
  <2>1. PICK h \in Positions(s, "human") :
             s[h].turn = t /\ \A j \in Positions(s, "human") : j <= h
    BY DEF AsksFor
  <2>2. h \in 1..n /\ s[h].type = "human"
    BY PositionsAre
  <2>3. pos[h] \in Positions(r, "human") /\ r[pos[h]].turn = t
    BY <1>3, <2>1, <2>2, PositionsAre
  <2>4. ASSUME NEW p \in Positions(r, "human") PROVE p <= pos[h]
    <3>1. PICK i \in Positions(s, "human") : p = pos[i]
      BY <1>7
    <3>2. i \in 1..n /\ i <= h
      BY <2>1, <3>1, PositionsAre
    <3>3. i = h \/ i < h
      BY <2>2, <3>2
    <3>4. pos[i] \in Nat /\ pos[h] \in Nat
      BY <1>3, <2>2, <3>2
    <3>5. i < h => pos[i] < pos[h]
      BY <1>3, <2>2, <3>2
    <3> QED  BY <3>1, <3>3, <3>4, <3>5
  <2> QED  BY <2>3, <2>4 DEF AsksFor
<1>14. CallsMade(r, made)
  <2> SUFFICES ASSUME NEW p \in Positions(r, "ai"), NEW c \in ToSet(r[p].calls)
               PROVE  c.n <= made[c.turn]
    BY DEF CallsMade
  <2>1. PICK i \in Positions(s, "ai") : r[p] = s[i]
    BY <1>7
  <2> QED  BY <2>1 DEF CallsMade
<1>15. Complete(r)
  <2> SUFFICES ASSUME NEW p \in Positions(r, "ai"), NEW c \in ToSet(r[p].calls)
               PROVE  c \in AnsweredIn(r)
    BY DEF Complete
  <2>1. PICK i \in Positions(s, "ai") : r[p] = s[i]
    BY <1>7
  <2>2. \E q \in 1..Len(r) : r[q].type = "tool" /\ r[q].call = c
    <3>1. CASE c \in AnsweredIn(s)
      <4>1. PICK k \in Positions(s, "tool") : s[k].call = c
        BY <3>1 DEF AnsweredIn
      <4>2. k \in 1..n /\ s[k].type = "tool"
        BY <4>1, PositionsAre
      <4>3. pos[k] \in 1..Len(r) /\ r[pos[k]] = s[k]
        BY <1>3, <4>2
      <4> QED  BY <4>1, <4>2, <4>3
    <3>2. CASE c \notin AnsweredIn(s)
      <4>1. PICK q \in 1..Len(r) : r[q] \in Tools /\ r[q].call = c
        BY <1>2, <2>1, <3>2 DEF Repaired
      <4> QED  BY <4>1, IsTool
    <3> QED  BY <3>1, <3>2
  <2>3. PICK q \in 1..Len(r) : r[q].type = "tool" /\ r[q].call = c
    BY <2>2
  <2>4. q \in Positions(r, "tool")
    BY <1>3, <2>3, PositionsAre
  <2> QED  BY <2>3, <2>4 DEF AnsweredIn
<1>16. Genuine(s) \subseteq Genuine(r)
  <2> SUFFICES ASSUME NEW i \in 1..n, s[i].type = "tool" => s[i].real PROVE s[i] \in Genuine(r)
    BY <1>1 DEF Genuine
  <2>1. pos[i] \in DOMAIN r /\ r[pos[i]] = s[i]
    BY <1>3
  <2> QED  BY <2>1 DEF Genuine
<1> QED  BY <1>3, <1>8, <1>10, <1>11, <1>12, <1>13, <1>14, <1>15, <1>16 DEF WellFormed, r

-----------------------------------------------------------------------------
(* The trim: whole turns, from a question on.                              *)

\* The suffix of a sequence that begins with a question.
IsSuffixFrom(r, s, h) ==
    /\ h \in 1..Len(s) /\ s[h].type = "human"
    /\ r = SubSeq(s, h, Len(s))

LEMMA SuffixIs ==
    ASSUME NEW s \in Seq(Messages), NEW h \in 1..Len(s)
    PROVE  LET r == SubSeq(s, h, Len(s))
           IN  /\ r \in Seq(Messages) /\ Len(r) = Len(s) - h + 1
               /\ \A p \in 1..Len(r) : p + h - 1 \in h..Len(s) /\ r[p] = s[p + h - 1]
               /\ \A i \in h..Len(s) : i - h + 1 \in 1..Len(r) /\ r[i - h + 1] = s[i]
<1> DEFINE n == Len(s)
           r == SubSeq(s, h, n)
<1>1. n \in Nat /\ h \in Nat /\ h >= 1 /\ h <= n
  OBVIOUS
<1>2. r \in Seq(Messages) /\ Len(r) = n - h + 1 /\ \A p \in 1..(n - h + 1) : r[p] = s[p + h - 1]
  BY <1>1
<1> HIDE DEF r
<1>3. ASSUME NEW p \in 1..Len(r) PROVE p + h - 1 \in h..n /\ r[p] = s[p + h - 1]
  BY <1>1, <1>2
<1>4. ASSUME NEW i \in h..n PROVE i - h + 1 \in 1..Len(r) /\ r[i - h + 1] = s[i]
  <2>1. i - h + 1 \in 1..Len(r) /\ (i - h + 1) + h - 1 = i
    BY <1>1, <1>2
  <2> QED  BY <1>2, <2>1
<1> QED  BY <1>2, <1>3, <1>4 DEF r

LEMMA SuffixFine ==
    ASSUME NEW s \in Seq(Messages), WellFormed(s), Complete(s),
           NEW h \in 1..Len(s), s[h].type = "human"
    PROVE  LET r == SubSeq(s, h, Len(s))
           IN  r \in Seq(Messages) /\ WellFormed(r) /\ Complete(r)
<1> DEFINE n == Len(s)
           r == SubSeq(s, h, n)
<1>1. /\ r \in Seq(Messages) /\ Len(r) = n - h + 1 /\ n \in Nat /\ h \in Nat
      /\ \A p \in 1..Len(r) : p + h - 1 \in h..n /\ r[p] = s[p + h - 1]
      /\ \A i \in h..n : i - h + 1 \in 1..Len(r) /\ r[i - h + 1] = s[i]
  BY SuffixIs
<1> HIDE DEF r
<1>2. ASSUME NEW type, NEW p \in Positions(r, type)
      PROVE  /\ p \in 1..Len(r) /\ p + h - 1 \in Positions(s, type) /\ r[p] = s[p + h - 1]
  <2>1. p \in 1..Len(r) /\ r[p].type = type
    BY <1>1, PositionsAre
  <2>2. p + h - 1 \in h..n /\ r[p] = s[p + h - 1]
    BY <1>1, <2>1
  <2>3. p + h - 1 \in 1..n
    BY <1>1, <2>2
  <2> QED  BY <2>1, <2>2, <2>3, PositionsAre
<1>3. CallsDistinct(r)
  <2> SUFFICES ASSUME NEW p \in Positions(r, "ai"), NEW q \in Positions(r, "ai"),
                      NEW j \in DOMAIN r[p].calls, NEW m \in DOMAIN r[q].calls,
                      r[p].calls[j] = r[q].calls[m]
               PROVE  p = q /\ j = m
    BY DEF CallsDistinct
  <2>1. p + h - 1 = q + h - 1 /\ j = m
    BY <1>2 DEF WellFormed, CallsDistinct
  <2> QED  BY <1>1, <1>2, <2>1
<1>4. AnswersDistinct(r)
  <2> SUFFICES ASSUME NEW p \in Positions(r, "tool"), NEW q \in Positions(r, "tool"),
                      r[p].call = r[q].call
               PROVE  p = q
    BY DEF AnswersDistinct
  <2>1. p + h - 1 = q + h - 1
    BY <1>2 DEF WellFormed, AnswersDistinct
  <2> QED  BY <1>1, <1>2, <2>1
\* A block of answers lies on one side of a question.
<1>5. ASSUME NEW i \in 1..n, NEW k \in h..n, Owns(s, i, k) PROVE i \in h..n
  <2>1. ~(i < h)
    <3> SUFFICES ASSUME i < h PROVE FALSE
      OBVIOUS
    <3>1. h \in (i+1)..k
      BY <1>1
    <3> QED  BY <1>5, <3>1 DEF Owns
  <2> QED  BY <1>1, <2>1
<1>6. AnswersOwned(r)
  <2> SUFFICES ASSUME NEW p \in Positions(r, "tool") PROVE \E x \in DOMAIN r : Owns(r, x, p)
    BY DEF AnswersOwned
  <2>1. p \in 1..Len(r) /\ p + h - 1 \in h..n /\ r[p] = s[p + h - 1]
        /\ p + h - 1 \in Positions(s, "tool")
    BY <1>1, <1>2
  <2>2. PICK i \in DOMAIN s : Owns(s, i, p + h - 1)
    BY <2>1 DEF WellFormed, AnswersOwned
  <2>3. i \in 1..n
    OBVIOUS
  <2>4. i \in h..n
    BY <1>5, <2>1, <2>2, <2>3
  <2>5. i - h + 1 \in 1..Len(r) /\ r[i - h + 1] = s[i]
    BY <1>1, <2>4
  <2>6. i - h + 1 < p
    BY <1>1, <2>1, <2>2, <2>4 DEF Owns
  <2>7. ASSUME NEW m \in ((i - h + 1) + 1)..p PROVE r[m].type = "tool"
    <3>0. /\ p \in Int /\ 1 <= p /\ p <= Len(r) /\ Len(r) \in Int
          /\ i \in Int /\ h \in Int /\ h <= i
      BY <1>1, <2>1, <2>4
    <3>1. m \in 1..Len(r) /\ m + h - 1 \in (i + 1)..(p + h - 1)
      BY <3>0
    <3>2. r[m] = s[m + h - 1]
      BY <1>1, <3>1
    <3> QED  BY <2>2, <3>1, <3>2 DEF Owns
  <2>8. Owns(r, i - h + 1, p)
    BY <2>1, <2>2, <2>5, <2>6, <2>7 DEF Owns
  <2>9. i - h + 1 \in DOMAIN r
    BY <1>1, <2>5
  <2> QED  BY <2>8, <2>9
<1>7. r[1].type = "human"
  <2>1. 1 \in 1..Len(r) /\ 1 + h - 1 = h
    BY <1>1
  <2> QED  BY <1>1, <2>1
<1>8. Complete(r)
  <2> SUFFICES ASSUME NEW p \in Positions(r, "ai"), NEW c \in ToSet(r[p].calls)
               PROVE  c \in AnsweredIn(r)
    BY DEF Complete
  <2> DEFINE a == p + h - 1
  <2>1. p \in 1..Len(r) /\ a \in Positions(s, "ai") /\ r[p] = s[a] /\ a \in h..n
    BY <1>1, <1>2
  <2>2. PICK k \in Positions(s, "tool") : s[k].call = c
    BY <2>1 DEF Complete, AnsweredIn
  <2>3. k \in 1..n /\ s[k].type = "tool"
    BY PositionsAre
  <2>4. PICK i \in DOMAIN s : Owns(s, i, k)
    BY <2>2 DEF WellFormed, AnswersOwned
  <2>5. i \in 1..n /\ i < k /\ s[i].type = "ai" /\ c \in ToSet(s[i].calls)
    BY <2>2, <2>4 DEF Owns
  <2>6. a \in 1..n /\ s[a].type = "ai" /\ c \in ToSet(s[a].calls)
    BY <2>1, PositionsAre
  <2> HIDE DEF a
  <2>7. i = a
    BY <2>5, <2>6, OneCaller DEF WellFormed
  <2>8. k \in h..n
    BY <1>1, <2>1, <2>3, <2>5, <2>7
  <2>9. k - h + 1 \in 1..Len(r) /\ r[k - h + 1] = s[k]
    BY <1>1, <2>8
  <2>10. k - h + 1 \in Positions(r, "tool")
    BY <1>1, <2>3, <2>9, PositionsAre
  <2> QED  BY <2>2, <2>9, <2>10 DEF AnsweredIn
<1> QED  BY <1>1, <1>3, <1>4, <1>6, <1>7, <1>8 DEF WellFormed, r

\* The questions from i on, and how many they are.
From(s, i) == {j \in Positions(s, "human") : j >= i}

LEMMA HumansFinite ==
    ASSUME NEW s \in Seq(Messages), NEW i
    PROVE  /\ IsFiniteSet(Positions(s, "human")) /\ IsFiniteSet(From(s, i))
           /\ Cardinality(From(s, i)) \in Nat
<1>1. Len(s) \in Nat /\ Positions(s, "human") \subseteq 1..Len(s)
  BY PositionsAre
<1>2. IsFiniteSet(1..Len(s))
  BY <1>1, FS_Interval
<1>3. IsFiniteSet(Positions(s, "human"))
  BY <1>1, <1>2, FS_Subset
<1>4. From(s, i) \subseteq Positions(s, "human")
  BY DEF From
<1> QED  BY <1>3, <1>4, FS_Subset, FS_CardinalityType

\* When there are more, one of them has MaxTurns questions from it on.
LEMMA RetainedExists ==
    ASSUME NEW s \in Seq(Messages), ~(Cardinality(Positions(s, "human")) <= MaxTurns)
    PROVE  \E i \in Positions(s, "human") : Cardinality(From(s, i)) = MaxTurns
<1> DEFINE n == Len(s)
           Few == {i \in Nat : Cardinality(From(s, i)) < MaxTurns}
<1>1. n \in Nat /\ MaxTurns \in Nat /\ MaxTurns # 0
      /\ \A j \in Positions(s, "human") : j \in 1..n
  BY TurnsAssumption, PositionsAre
<1>2. n + 1 \in Few
  <2>1. From(s, n + 1) = {}
    BY <1>1 DEF From
  <2>2. Cardinality(From(s, n + 1)) = 0
    BY <2>1, FS_EmptySet
  <2> QED  BY <1>1, <2>2
<1>3. PICK b \in Few : \A i \in Few : b <= i
  <2> Few \in SUBSET Nat /\ Few # {}
    BY <1>2
  <2> HIDE DEF Few
  <2> QED  BY LeastOne
<1>4. b \in Nat /\ Cardinality(From(s, b)) < MaxTurns
  OBVIOUS
<1>5. b # 0
  <2>1. From(s, 0) = Positions(s, "human")
    BY <1>1 DEF From
  <2>2. Cardinality(From(s, 0)) \in Nat
    BY HumansFinite
  <2> QED  BY <1>1, <1>4, <2>1, <2>2
<1> DEFINE a == b - 1
<1>6. a \in Nat /\ ~(Cardinality(From(s, a)) < MaxTurns) /\ b = a + 1
  <2>1. a \in Nat /\ ~(b <= a)
    BY <1>4, <1>5
  <2>2. a \notin Few
    BY <1>3, <2>1
  <2> HIDE DEF a
  <2>3. ~(Cardinality(From(s, a)) < MaxTurns)
    BY <2>1, <2>2
  <2>4. b = a + 1
    BY <1>4 DEF a
  <2> QED  BY <2>1, <2>3, <2>4
<1> HIDE DEF a
<1>7. a \in Positions(s, "human")
  <2> SUFFICES ASSUME a \notin Positions(s, "human") PROVE FALSE
    OBVIOUS
  <2>1. From(s, a) = From(s, b)
    BY <1>1, <1>6 DEF From
  <2> QED  BY <1>4, <1>6, <2>1
<1>8. From(s, a) = From(s, b) \cup {a} /\ a \notin From(s, b)
  <2>1. \A j \in 1..n : j >= a <=> (j >= b \/ j = a)
    BY <1>1, <1>6
  <2>2. a \in From(s, a) /\ a \notin From(s, b)
    BY <1>6, <1>7 DEF From
  <2>3. \A j \in Positions(s, "human") : j \in From(s, a) <=> j \in From(s, b) \/ j = a
    BY <1>1, <2>1 DEF From
  <2>4. From(s, a) \subseteq Positions(s, "human") /\ From(s, b) \subseteq Positions(s, "human")
    BY DEF From
  <2> QED  BY <1>7, <2>2, <2>3, <2>4
<1>9. Cardinality(From(s, a)) = Cardinality(From(s, b)) + 1
  BY <1>8, HumansFinite, FS_AddElement
<1>10. Cardinality(From(s, a)) = MaxTurns
  <2>1. Cardinality(From(s, b)) \in Nat
    BY HumansFinite
  <2> QED  BY <1>1, <1>4, <1>6, <1>9, <2>1
<1> QED  BY <1>7, <1>10

LEMMA WholeSuffix ==
    ASSUME NEW s \in Seq(Messages)
    PROVE  s = SubSeq(s, 1, Len(s))
  OBVIOUS

\* What the trim leaves begins with a question and has the turns it should.
LEMMA TrimIs ==
    ASSUME NEW s \in Seq(Messages), WellFormed(s), s # <<>>
    PROVE  \E h \in Positions(s, "human") :
              /\ Trim(s) = SubSeq(s, h, Len(s))
              /\ Cardinality(From(s, h)) = IF Cardinality(Positions(s, "human")) < MaxTurns
                                           THEN Cardinality(Positions(s, "human")) ELSE MaxTurns
<1> DEFINE starts == Positions(s, "human")
<1>1. Cardinality(starts) \in Nat /\ MaxTurns \in Nat
  BY TurnsAssumption, HumansFinite, FS_CardinalityType
<1>2. CASE Cardinality(starts) <= MaxTurns
  <2>1. 1 \in starts
    BY PositionsAre DEF WellFormed
  <2>2. From(s, 1) = starts
    BY PositionsAre DEF From
  <2>3. Trim(s) = SubSeq(s, 1, Len(s))
    BY <1>2, WholeSuffix DEF Trim
  <2> QED  BY <1>1, <1>2, <2>1, <2>2, <2>3
<1>3. CASE ~(Cardinality(starts) <= MaxTurns)
  <2> DEFINE retained == CHOOSE i \in starts : Cardinality(From(s, i)) = MaxTurns
  <2>1. retained \in starts /\ Cardinality(From(s, retained)) = MaxTurns
    BY <1>3, RetainedExists
  <2>2. Trim(s) = SubSeq(s, retained, Len(s))
    BY <1>3 DEF Trim, From
  <2> HIDE DEF retained
  <2>3. ~(Cardinality(starts) < MaxTurns)
    <3> HIDE DEF starts
    <3> QED  BY <1>1, <1>3
  <2> QED  BY <2>1, <2>2, <2>3
<1> QED  BY <1>2, <1>3

\* The questions of a suffix are those of the sequence from its first one on.
LEMMA SuffixHumans ==
    ASSUME NEW s \in Seq(Messages), NEW h \in 1..Len(s)
    PROVE  Cardinality(Positions(SubSeq(s, h, Len(s)), "human")) = Cardinality(From(s, h))
<1> DEFINE n == Len(s)
           r == SubSeq(s, h, n)
           S == From(s, h)
           T == Positions(r, "human")
           f == [i \in S |-> i - h + 1]
<1>1. /\ r \in Seq(Messages) /\ Len(r) = n - h + 1 /\ n \in Nat /\ h \in Nat
      /\ \A p \in 1..Len(r) : p + h - 1 \in h..n /\ r[p] = s[p + h - 1]
      /\ \A i \in h..n : i - h + 1 \in 1..Len(r) /\ r[i - h + 1] = s[i]
  BY SuffixIs
<1> HIDE DEF r
<1>2. \A i : i \in S <=> i \in h..n /\ s[i].type = "human"
  BY <1>1, PositionsAre DEF From
<1>3. \A i : i \in T <=> i \in 1..Len(r) /\ r[i].type = "human"
  BY <1>1, PositionsAre
<1> HIDE DEF S, T
<1>4. f \in [S -> T]
  <2>1. ASSUME NEW i \in S PROVE i - h + 1 \in T
    <3>1. i \in h..n /\ s[i].type = "human"
      BY <1>2
    <3>2. i - h + 1 \in 1..Len(r) /\ r[i - h + 1] = s[i]
      BY <1>1, <3>1
    <3> QED  BY <1>3, <3>1, <3>2
  <2> QED  BY <2>1
<1>5. ASSUME NEW p \in T PROVE \E i \in S : f[i] = p
  <2>0. p \in 1..Len(r) /\ r[p].type = "human"
    BY <1>3
  <2>1. p + h - 1 \in S /\ (p + h - 1) - h + 1 = p
    <3>1. p + h - 1 \in h..n /\ r[p] = s[p + h - 1]
      BY <1>1, <2>0
    <3>2. p + h - 1 \in S
      BY <1>2, <2>0, <3>1
    <3> QED  BY <1>1, <2>0, <3>2
  <2> QED  BY <2>1
<1>6. \A i, j \in S : f[i] = f[j] => i = j
  BY <1>1, <1>2
<1>7. f \in Surjection(S, T)
  BY <1>4, <1>5 DEF Surjection
<1>8. f \in Injection(S, T)
  BY <1>4, <1>6 DEF Injection, IsInjective
<1>9. IsFiniteSet(S)
  BY HumansFinite DEF S
<1> HIDE DEF f
<1>10. Cardinality(T) = Cardinality(S)
  BY <1>7, <1>8, <1>9, FS_Surjection
<1> QED  BY <1>10 DEF S, T, r

-----------------------------------------------------------------------------
(* What a provider accepts.                                                *)

LEMMA ToolIsAnswer ==
    ASSUME NEW m \in Tools
    PROVE  m \in {Answer(m.call, TRUE), Answer(m.call, FALSE)}
  BY DEF Tools, Answer

\* The answers that follow the message at i without a break.
Block(s, i) == {k \in (i+1)..Len(s) : \A m \in (i+1)..k : s[m].type = "tool"}

\* The answers behind a message are those to its calls, each once: as many
\* places as it has calls.
LEMMA BlockIs ==
    ASSUME NEW s \in Seq(Messages), WellFormed(s), Complete(s), NEW i \in Positions(s, "ai")
    PROVE  /\ s[i].calls \in Seq(Calls)
           /\ Block(s, i) = (i+1)..(i + Len(s[i].calls))
           /\ \A k \in Block(s, i) : s[k] \in Tools /\ s[k].call \in ToSet(s[i].calls)
           /\ \A c \in ToSet(s[i].calls) : \E k \in Block(s, i) : s[k].call = c
<1> DEFINE n == Len(s)
           calls == s[i].calls
           T == Block(s, i)
           C == ToSet(calls)
           f == [k \in T |-> s[k].call]
           g == [j \in 1..Len(calls) |-> calls[j]]
<1>1. i \in 1..n /\ n \in Nat /\ s[i].type = "ai" /\ calls \in Seq(Calls)
  BY PositionsAre, Kinds
<1>2. /\ Len(calls) \in Nat /\ DOMAIN calls = 1..Len(calls)
      /\ \A c : c \in C <=> \E j \in 1..Len(calls) : calls[j] = c
  BY <1>1 DEF ToSet
<1> HIDE DEF calls, C, T
<1>3. \A k : k \in T <=> k \in (i+1)..n /\ \A m \in (i+1)..k : s[m].type = "tool"
  BY DEF T, Block
\* A tool message of the block is owned by the message at i ...
<1>4. ASSUME NEW k \in T PROVE k \in 1..n /\ s[k] \in Tools /\ s[k].type = "tool" /\ s[k].call \in C
  <2>1. k \in (i+1)..n /\ k \in 1..n /\ k \in (i+1)..k
    BY <1>1, <1>3
  <2>2. s[k].type = "tool" /\ s[k] \in Tools
    BY <1>3, <2>1, Kinds
  <2>3. k \in Positions(s, "tool")
    BY <2>1, <2>2, PositionsAre
  <2>4. PICK l \in DOMAIN s : Owns(s, l, k)
    BY <2>3 DEF WellFormed, AnswersOwned
  <2>5. l \in 1..n /\ l < k /\ s[l].type = "ai" /\ s[k].call \in ToSet(s[l].calls)
    BY <2>4 DEF Owns
  <2>6. ~(l < i)
    <3> SUFFICES ASSUME l < i PROVE FALSE
      OBVIOUS
    <3>1. i \in (l+1)..k
      BY <1>1, <2>1, <2>5
    <3> QED  BY <1>1, <2>4, <3>1 DEF Owns
  <2>7. ~(i < l)
    <3> SUFFICES ASSUME i < l PROVE FALSE
      OBVIOUS
    <3>1. l \in (i+1)..k
      BY <1>1, <2>1, <2>5
    <3> QED  BY <1>3, <2>5, <3>1
  <2>8. l = i
    BY <1>1, <2>5, <2>6, <2>7
  <2> QED  BY <2>1, <2>2, <2>5, <2>8 DEF C, calls
\* ... and every call made there has its answer in the block.
<1>5. ASSUME NEW c \in C PROVE \E k \in T : s[k].call = c
  <2>1. PICK k \in Positions(s, "tool") : s[k].call = c
    BY DEF Complete, AnsweredIn, C, calls
  <2>2. k \in 1..n
    BY PositionsAre
  <2>3. PICK l \in DOMAIN s : Owns(s, l, k)
    BY <2>1 DEF WellFormed, AnswersOwned
  <2>4. l \in 1..n /\ s[l].type = "ai" /\ c \in ToSet(s[l].calls) /\ l < k
    BY <2>1, <2>3 DEF Owns
  <2>5. l = i
    BY <1>1, <2>4, OneCaller DEF WellFormed, C, calls
  <2>6. k \in T
    BY <1>1, <1>3, <2>2, <2>3, <2>4, <2>5 DEF Owns
  <2> QED  BY <2>1, <2>6
<1>6. IsFiniteSet(T)
  <2>1. T \subseteq (i+1)..n /\ IsFiniteSet((i+1)..n)
    BY <1>1, <1>3, FS_Interval
  <2> QED  BY <2>1, FS_Subset
<1>7. Cardinality(C) = Cardinality(T)
  <2>1. f \in Surjection(T, C)
    BY <1>4, <1>5 DEF Surjection
  <2>2. f \in Injection(T, C)
    <3>1. \A k, l \in T : s[k].call = s[l].call => k = l
      BY <1>4, PositionsAre DEF WellFormed, AnswersDistinct
    <3> QED  BY <1>4, <3>1 DEF Injection, IsInjective
  <2> HIDE DEF f
  <2> QED  BY <1>6, <2>1, <2>2, FS_Surjection
<1>8. Cardinality(C) = Len(calls)
  <2>1. g \in Surjection(1..Len(calls), C)
    BY <1>2 DEF Surjection
  <2>2. g \in Injection(1..Len(calls), C)
    <3>1. \A j, m \in 1..Len(calls) : calls[j] = calls[m] => j = m
      BY <1>2 DEF WellFormed, CallsDistinct, calls
    <3> QED  BY <1>2, <3>1 DEF Injection, IsInjective
  <2>3. IsFiniteSet(1..Len(calls)) /\ Cardinality(1..Len(calls)) = Len(calls)
    <3>1. 1 \in Int /\ Len(calls) \in Int /\ Len(calls) = 1 + Len(calls) - 1
      BY <1>2
    <3> QED  BY <1>2, <3>1, IntervalSize
  <2> HIDE DEF g
  <2> QED  BY <2>1, <2>2, <2>3, FS_Surjection
<1> DEFINE m == Len(calls)
<1> HIDE DEF m
<1>9. m \in Nat /\ Cardinality(T) = m
  BY <1>2, <1>7, <1>8 DEF m
<1>10. ASSUME NEW k \in T PROVE k \in (i+1)..(i+m)
  <2>1. k \in (i+1)..n
    BY <1>3
  <2>2. (i+1)..k \subseteq T
    BY <1>1, <1>3, <2>1
  <2>3. Cardinality((i+1)..k) <= m
    BY <1>6, <1>9, <2>2, FS_Subset
  <2>4. Cardinality((i+1)..k) = k - i
    BY <1>1, <2>1, FS_Interval
  <2> QED  BY <1>1, <1>9, <2>1, <2>3, <2>4
<1>11. T = (i+1)..(i+m)
  <2>1. IsFiniteSet((i+1)..(i+m)) /\ Cardinality((i+1)..(i+m)) = m
    <3>1. i + 1 \in Int /\ i + m \in Int /\ i + m = (i + 1) + m - 1
      BY <1>1, <1>9
    <3> QED  BY <1>9, <3>1, IntervalSize
  <2> QED  BY <1>9, <1>10, <2>1, FS_Subset
<1> QED  BY <1>1, <1>4, <1>5, <1>11 DEF T, C, calls, m

\* A provider accepts a well-formed sequence whose calls are all answered.
LEMMA Accepted ==
    ASSUME NEW s \in Seq(Messages), WellFormed(s), Complete(s)
    PROVE  CallsAnswered(s) /\ AnswersCalled(s)
<1>1. ASSUME NEW i \in Positions(s, "ai")
      PROVE  LET calls == s[i].calls
             IN  /\ i + Len(calls) <= Len(s)
                 /\ {s[i + j] : j \in DOMAIN calls}
                      \subseteq UNION {{Answer(calls[j], TRUE), Answer(calls[j], FALSE)} :
                                         j \in DOMAIN calls}
                 /\ {s[i + j].call : j \in DOMAIN calls} = ToSet(calls)
  <2> DEFINE calls == s[i].calls
             T == Block(s, i)
  <2>1. i \in 1..Len(s) /\ Len(s) \in Nat
    BY PositionsAre
  <2>2. /\ calls \in Seq(Calls) /\ T = (i+1)..(i + Len(calls))
        /\ \A k \in T : s[k] \in Tools /\ s[k].call \in ToSet(calls)
        /\ \A c \in ToSet(calls) : \E k \in T : s[k].call = c
    BY BlockIs
  <2>3. \A k \in T : k <= Len(s)
    BY <2>1 DEF Block
  <2> HIDE DEF T, calls
  <2>4. Len(calls) \in Nat /\ DOMAIN calls = 1..Len(calls)
    BY <2>2
  <2>5. i + Len(calls) <= Len(s)
    <3>1. CASE Len(calls) = 0
      BY <2>1, <3>1
    <3>2. CASE Len(calls) # 0
      <4>1. i + Len(calls) \in T
        BY <2>1, <2>2, <2>4, <3>2
      <4> QED  BY <2>3, <4>1
    <3> QED  BY <3>1, <3>2
  <2>6. \A j \in DOMAIN calls : i + j \in T
    BY <2>1, <2>2, <2>4
  <2>7. \A k \in T : k - i \in DOMAIN calls /\ k = i + (k - i)
    BY <2>1, <2>2, <2>4
  <2>8. ASSUME NEW j \in DOMAIN calls
        PROVE  s[i + j] \in UNION {{Answer(calls[l], TRUE), Answer(calls[l], FALSE)} :
                                     l \in DOMAIN calls}
    <3>1. s[i + j] \in Tools /\ s[i + j].call \in ToSet(calls)
      BY <2>2, <2>6
    <3>2. PICK l \in DOMAIN calls : s[i + j].call = calls[l]
      BY <3>1 DEF ToSet
    <3>3. s[i + j] \in {Answer(calls[l], TRUE), Answer(calls[l], FALSE)}
      BY <3>1, <3>2, ToolIsAnswer
    <3> QED  BY <3>3
  <2>9. {s[i + j].call : j \in DOMAIN calls} = ToSet(calls)
    <3>1. \A j \in DOMAIN calls : s[i + j].call \in ToSet(calls)
      BY <2>2, <2>6
    <3>2. \A c \in ToSet(calls) : \E j \in DOMAIN calls : s[i + j].call = c
      BY <2>2, <2>7
    <3> QED  BY <3>1, <3>2
  <2> QED  BY <2>5, <2>8, <2>9 DEF calls
<1>2. ASSUME NEW k \in Positions(s, "tool")
      PROVE  \E i \in Positions(s, "ai") : i < k /\ k <= i + Len(s[i].calls)
  <2>1. PICK i \in DOMAIN s : Owns(s, i, k)
    BY DEF WellFormed, AnswersOwned
  <2>2. i \in 1..Len(s) /\ k \in 1..Len(s) /\ Len(s) \in Nat
    BY PositionsAre
  <2>3. i \in Positions(s, "ai") /\ i < k
    BY <2>1, <2>2, PositionsAre DEF Owns
  <2>4. k \in Block(s, i)
    BY <2>1, <2>2, <2>3 DEF Owns, Block
  <2>5. k \in (i+1)..(i + Len(s[i].calls))
    BY <2>3, <2>4, BlockIs
  <2> QED  BY <2>3, <2>5
<1> QED  BY <1>1, <1>2 DEF CallsAnswered, AnswersCalled

\* What a turn that asks for an answer sends, when its state is as it should be.
LEMMA RequestFine ==
    ASSUME NEW s \in Seq(Messages), WellFormed(s), Complete(s), NEW t \in Turns, AsksFor(s, t)
    PROVE  LET r == Trim(s)
               humans == Cardinality(Positions(s, "human"))
           IN  /\ r[1].type = "human" /\ CallsAnswered(r) /\ AnswersCalled(r)
               /\ Cardinality(Positions(r, "human"))
                    = IF humans < MaxTurns THEN humans ELSE MaxTurns
               /\ \E i \in Positions(r, "human") : r[i].turn = t
               /\ \E first \in DOMAIN s : r = SubSeq(s, first, Len(s))
               /\ \A k \in Positions(r, "tool") :
                    ~r[k].real => Answer(r[k].call, TRUE) \notin ToSet(s)
<1> DEFINE n == Len(s)
           r == Trim(s)
           humans == Cardinality(Positions(s, "human"))
<1>1. PICK last \in Positions(s, "human") :
           s[last].turn = t /\ \A j \in Positions(s, "human") : j <= last
  BY DEF AsksFor
<1>2. last \in 1..n /\ s[last].type = "human" /\ n \in Nat /\ s # <<>>
  BY PositionsAre
<1>3. PICK h \in Positions(s, "human") :
           /\ r = SubSeq(s, h, n)
           /\ Cardinality(From(s, h)) = IF humans < MaxTurns THEN humans ELSE MaxTurns
  BY <1>2, TrimIs
<1>4. h \in 1..n /\ s[h].type = "human"
  BY PositionsAre
<1>5. r \in Seq(Messages) /\ WellFormed(r) /\ Complete(r)
  BY <1>3, <1>4, SuffixFine
<1>6. /\ Len(r) = n - h + 1
      /\ \A p \in 1..Len(r) : p + h - 1 \in h..n /\ r[p] = s[p + h - 1]
      /\ \A i \in h..n : i - h + 1 \in 1..Len(r) /\ r[i - h + 1] = s[i]
  BY <1>3, <1>4, SuffixIs
<1>7. Cardinality(Positions(r, "human")) = IF humans < MaxTurns THEN humans ELSE MaxTurns
  BY <1>3, <1>4, SuffixHumans
<1> HIDE DEF r, humans
<1>8. CallsAnswered(r) /\ AnswersCalled(r)
  BY <1>5, Accepted
<1>9. \E i \in Positions(r, "human") : r[i].turn = t
  <2>1. last \in h..n
    BY <1>1, <1>2, <1>4
  <2>2. last - h + 1 \in 1..Len(r) /\ r[last - h + 1] = s[last]
    BY <1>6, <2>1
  <2>3. last - h + 1 \in Positions(r, "human")
    BY <1>2, <1>5, <2>2, PositionsAre
  <2> QED  BY <1>1, <2>2, <2>3
<1>10. r[1].type = "human"
  <2>1. r # <<>>
    BY <1>2, <1>4, <1>6
  <2> QED  BY <1>5, <2>1 DEF WellFormed
<1>11. ASSUME NEW k \in Positions(r, "tool"), ~r[k].real, Answer(r[k].call, TRUE) \in ToSet(s)
       PROVE  FALSE
  <2>1. k \in 1..Len(r) /\ r[k].type = "tool"
    BY <1>5, PositionsAre
  <2>2. k + h - 1 \in h..n /\ r[k] = s[k + h - 1]
    BY <1>6, <2>1
  <2>3. k + h - 1 \in Positions(s, "tool")
    BY <1>4, <2>1, <2>2, PositionsAre
  <2>4. PICK j \in DOMAIN s : s[j] = Answer(r[k].call, TRUE)
    BY <1>11 DEF ToSet
  <2>5. s[j].type = "tool" /\ s[j].call = r[k].call /\ s[j].real
    BY <2>4 DEF Answer
  <2>6. j \in Positions(s, "tool")
    BY <2>5, PositionsAre
  <2>7. j = k + h - 1
    BY <2>2, <2>3, <2>5, <2>6 DEF WellFormed, AnswersDistinct
  <2> QED  BY <1>11, <2>2, <2>5, <2>7
<1>12. \E first \in DOMAIN s : r = SubSeq(s, first, Len(s))
  <2>1. h \in DOMAIN s /\ r = SubSeq(s, h, Len(s))
    BY <1>3, <1>4
  <2> HIDE DEF n
  <2> QED  BY <2>1
<1> QED  BY <1>7, <1>8, <1>9, <1>10, <1>11, <1>12 DEF r, humans

-----------------------------------------------------------------------------
(* The invariant.                                                          *)

Made == [t \in Turns |-> turn[t].calls]

LEMMA MadeMore ==
    ASSUME NEW s \in Seq(Messages), NEW made, NEW more, CallsMade(s, made),
           \A t \in Turns : made[t] \in Nat /\ more[t] \in Nat /\ made[t] <= more[t]
    PROVE  CallsMade(s, more)
<1> SUFFICES ASSUME NEW i \in Positions(s, "ai"), NEW c \in ToSet(s[i].calls)
             PROVE  c.n <= more[c.turn]
  BY DEF CallsMade
<1>1. c \in Calls
  <2>1. i \in 1..Len(s) /\ s[i].type = "ai"
    BY PositionsAre
  <2>2. s[i].calls \in Seq(Calls)
    BY <2>1, Kinds
  <2> QED  BY <2>2 DEF ToSet
<1>2. c.turn \in Turns /\ c.n \in Nat
  BY <1>1 DEF Calls
<1>3. c.n <= made[c.turn]
  BY DEF CallsMade
<1> QED  BY <1>2, <1>3

Types == {"new", "before_model", "model", "tools", "over", "cut"}

\* A step that ends with a checkpoint of fine messages leaves everything fine.
LEMMA CheckpointFine ==
    ASSUME IInv, NEW t \in Turns, NEW at \in Types, NEW s \in Seq(Messages), NEW more \in Nat,
           Checkpoints(t, at, s, more),
           WellFormed(s), CallsMade(s, Made'),
           at \in {"before_model", "model", "tools"} => AsksFor(s, t),
           at = "model" => Complete(s),
           at = "tools" => s # <<>> /\ s[Len(s)].type = "ai"
    PROVE  IInv'
<1>1. /\ turn \in [Turns -> [at : Types, state : Seq(Messages), got : SUBSET Calls, calls : Nat]]
      /\ Stored(thread) /\ \A u \in Turns : TurnFine(u)
  BY DEF IInv, TurnType, Types
<1>2. /\ turn' = [turn EXCEPT ![t] = [at |-> at, state |-> s, got |-> {},
                                      calls |-> turn[t].calls + more]]
      /\ thread' = s
  BY DEF Checkpoints
<1>3. turn[t].calls + more \in Nat
  BY <1>1
<1>4. /\ turn' \in [Turns -> [at : Types, state : Seq(Messages), got : SUBSET Calls, calls : Nat]]
      /\ turn'[t] = [at |-> at, state |-> s, got |-> {}, calls |-> turn[t].calls + more]
      /\ \A u \in Turns : u # t => turn'[u] = turn[u]
  BY <1>1, <1>2, <1>3
<1>5. \A u \in Turns : Made[u] \in Nat /\ Made'[u] \in Nat /\ Made[u] <= Made'[u]
  <2> SUFFICES ASSUME NEW u \in Turns
               PROVE  Made[u] \in Nat /\ Made'[u] \in Nat /\ Made[u] <= Made'[u]
    OBVIOUS
  <2>1. Made[u] = turn[u].calls /\ Made'[u] = turn'[u].calls
    BY DEF Made
  <2>2. turn[u].calls \in Nat /\ turn'[u].calls \in Nat
    BY <1>1, <1>4
  <2>3. turn'[t].calls = turn[t].calls + more
    BY <1>4
  <2>4. turn[u].calls <= turn'[u].calls
    <3>1. CASE u = t
      BY <2>2, <2>3, <3>1
    <3>2. CASE u # t
      BY <1>4, <2>2, <3>2
    <3> QED  BY <3>1, <3>2
  <2> QED  BY <2>1, <2>2, <2>4
<1>6. Stored(s)'
  BY DEF Stored, Made
<1>7. Stored(thread)'
  BY <1>2 DEF Stored, Made
<1>8. ASSUME NEW u \in Turns PROVE TurnFine(u)'
  <2>1. CASE u = t
    <3>1. turn'[u].state = s /\ turn'[u].at = at /\ turn'[u].got = {}
      BY <1>4, <2>1
    <3>2. Stored(turn[u].state)'
      BY <3>1 DEF Stored, Made
    <3> QED  BY <2>1, <3>1, <3>2 DEF TurnFine, Active
  <2>2. CASE u # t
    <3>1. turn'[u] = turn[u] /\ TurnFine(u)
      BY <1>1, <1>4, <2>2
    <3>2. turn[u].state \in Seq(Messages) /\ WellFormed(turn[u].state)
          /\ CallsMade(turn[u].state, Made)
      BY <3>1 DEF TurnFine, Stored, Made
    <3>3. CallsMade(turn[u].state, Made')
      BY <1>5, <3>2, MadeMore
    <3>4. Stored(turn[u].state)'
      BY <3>1, <3>2, <3>3 DEF Stored, Made
    <3> QED  BY <3>1, <3>4 DEF TurnFine, Active
  <2> QED  BY <2>1, <2>2
<1> QED  BY <1>4, <1>7, <1>8 DEF IInv, TurnType, Types

LEMMA MadeSame ==
    ASSUME IInv, NEW t \in Turns, NEW at, NEW s, Checkpoints(t, at, s, 0)
    PROVE  Made' = Made
<1>1. ASSUME NEW u \in Turns PROVE turn'[u].calls = turn[u].calls
  <2>1. turn[u].calls \in Nat
    BY DEF IInv, TurnType
  <2> QED  BY <2>1 DEF Checkpoints, IInv, TurnType
<1> QED  BY <1>1 DEF Made

\* What a checkpoint does to the turn that takes it, and to the others.
LEMMA CheckpointIs ==
    ASSUME IInv, NEW t \in Turns, NEW at, NEW s, NEW more, Checkpoints(t, at, s, more)
    PROVE  /\ turn'[t].at = at /\ turn'[t].state = s /\ thread' = s
           /\ \A u \in Turns : u # t => turn'[u] = turn[u]
  BY DEF IInv, TurnType, Checkpoints

\* What is known of a turn.
LEMMA TurnIs ==
    ASSUME IInv, NEW t \in Turns
    PROVE  /\ turn[t].state \in Seq(Messages) /\ WellFormed(turn[t].state)
           /\ CallsMade(turn[t].state, Made)
           /\ turn[t].at \in Types /\ turn[t].calls \in Nat
           /\ turn[t].at \in {"before_model", "model", "tools"} => AsksFor(turn[t].state, t)
           /\ turn[t].at = "model" => Complete(turn[t].state)
           /\ turn[t].at = "tools" => turn[t].state # <<>>
                                      /\ turn[t].state[Len(turn[t].state)].type = "ai"
<1>1. TurnFine(t) /\ turn[t].at \in Types /\ turn[t].calls \in Nat
  BY DEF IInv, TurnType, Types
<1> QED  BY <1>1 DEF TurnFine, Stored, Made, Active

LEMMA AskingNotEmpty ==
    ASSUME NEW s, NEW t, AsksFor(s, t)
    PROVE  s # <<>>
  BY DEF AsksFor, Positions

\* The calls of a batch are new and different.
LEMMA BatchIs ==
    ASSUME IInv, NEW t \in Turns, NEW n \in Nat
    PROVE  LET calls == Batch(t, turn[t].calls, n)
           IN  /\ calls \in Seq(Calls)
               /\ \A i, j \in DOMAIN calls : calls[i] = calls[j] => i = j
               /\ \A c \in ToSet(calls) : c.turn = t /\ c.n > turn[t].calls
                                                     /\ c.n <= turn[t].calls + n
<1> DEFINE m == turn[t].calls
           calls == Batch(t, m, n)
<1>1. m \in Nat
  BY TurnIs
<1> HIDE DEF m
<1>2. calls = [i \in 1..n |-> [turn |-> t, n |-> m + i]]
  BY DEF Batch
<1>3. calls \in Seq(Calls)
  <2>1. calls \in [1..n -> Calls]
    BY <1>1, <1>2 DEF Calls
  <2> QED  BY <2>1
<1>4. DOMAIN calls = 1..n /\ \A i \in 1..n : calls[i].turn = t /\ calls[i].n = m + i
  BY <1>2
<1> HIDE DEF calls
<1>5. \A i, j \in DOMAIN calls : calls[i] = calls[j] => i = j
  <2> SUFFICES ASSUME NEW i \in 1..n, NEW j \in 1..n, calls[i] = calls[j] PROVE i = j
    BY <1>4
  <2>1. m + i = m + j
    BY <1>4
  <2> QED  BY <1>1, <2>1
<1>6. ASSUME NEW c \in ToSet(calls) PROVE c.turn = t /\ c.n > m /\ c.n <= m + n
  <2>1. PICK i \in 1..n : c = calls[i]
    BY <1>4 DEF ToSet
  <2> QED  BY <1>1, <1>4, <2>1
<1> QED  BY <1>3, <1>5, <1>6 DEF calls, m

LEMMA Fresh ==
    ASSUME IInv, NEW t \in Turns, NEW n \in Nat
    PROVE  \A i \in Positions(turn[t].state, "ai") :
              ToSet(turn[t].state[i].calls) \cap ToSet(Batch(t, turn[t].calls, n)) = {}
<1> SUFFICES ASSUME NEW i \in Positions(turn[t].state, "ai"),
                    NEW c \in ToSet(turn[t].state[i].calls),
                    c \in ToSet(Batch(t, turn[t].calls, n))
             PROVE  FALSE
  OBVIOUS
<1>1. c.turn = t /\ c.n > turn[t].calls
  BY BatchIs
<1>2. c.n <= Made[c.turn]
  BY TurnIs DEF CallsMade
<1>3. Made[t] = turn[t].calls /\ turn[t].calls \in Nat
  BY TurnIs DEF Made
<1>4. c.n \in Nat
  <2> DEFINE calls == Batch(t, turn[t].calls, n)
  <2>1. calls \in Seq(Calls) /\ c \in ToSet(calls)
    BY BatchIs
  <2> HIDE DEF calls
  <2>2. c \in Calls
    BY <2>1 DEF ToSet
  <2> QED  BY <2>2 DEF Calls
<1> QED  BY <1>1, <1>2, <1>3, <1>4

LEMMA InvariantInit == Init => IInv
<1> SUFFICES ASSUME Init PROVE IInv
  OBVIOUS
<1>1. /\ turn = [t \in Turns |-> [at |-> "new", state |-> <<>>, got |-> {}, calls |-> 0]]
      /\ thread = <<>>
  BY DEF Init
<1>2. <<>> \in Seq(Messages) /\ Stored(<<>>)
  BY EmptyFine DEF Stored
<1>3. TurnType
  <2>1. [at |-> "new", state |-> <<>>, got |-> {}, calls |-> 0]
          \in [at : {"new", "before_model", "model", "tools", "over", "cut"},
               state : Seq(Messages), got : SUBSET Calls, calls : Nat]
    BY <1>2
  <2> QED  BY <1>1, <2>1 DEF TurnType
<1>4. \A t \in Turns : TurnFine(t)
  <2> SUFFICES ASSUME NEW t \in Turns PROVE TurnFine(t)
    OBVIOUS
  <2>1. turn[t].at = "new" /\ turn[t].state = <<>>
    BY <1>1
  <2> QED  BY <1>2, <2>1 DEF TurnFine, Active
<1> QED  BY <1>1, <1>2, <1>3, <1>4 DEF IInv

LEMMA StartsStep ==
    ASSUME IInv, NEW t \in Turns, TurnStarts(t)
    PROVE  IInv'
<1> DEFINE s == Append(thread, Human(t))
<1>1. Checkpoints(t, "before_model", s, 0)
  BY DEF TurnStarts
<1>2. thread \in Seq(Messages) /\ WellFormed(thread) /\ CallsMade(thread, Made)
  BY DEF IInv, Stored, Made
<1>3. s \in Seq(Messages) /\ WellFormed(s) /\ CallsMade(s, Made) /\ AsksFor(s, t)
  BY <1>2, HumanAdded
<1> HIDE DEF s
<1>4. CallsMade(s, Made')
  BY <1>1, <1>3, MadeSame
<1> QED  BY <1>1, <1>3, <1>4, CheckpointFine DEF Types

LEMMA BeforeModelStep ==
    ASSUME IInv, NEW t \in Turns, BeforeModel(t)
    PROVE  IInv'
<1> DEFINE s == Repair(turn[t].state)
<1>1. Checkpoints(t, "model", s, 0) /\ turn[t].at = "before_model"
  BY DEF BeforeModel
<1>2. /\ turn[t].state \in Seq(Messages) /\ WellFormed(turn[t].state)
      /\ CallsMade(turn[t].state, Made) /\ AsksFor(turn[t].state, t)
  BY <1>1, TurnIs
<1>3. s \in Seq(Messages) /\ WellFormed(s) /\ CallsMade(s, Made) /\ AsksFor(s, t) /\ Complete(s)
  BY <1>2, RepairFine
<1> HIDE DEF s
<1>4. CallsMade(s, Made')
  BY <1>1, <1>3, MadeSame
<1> QED  BY <1>1, <1>3, <1>4, CheckpointFine DEF Types

LEMMA ModelStep ==
    ASSUME IInv, NEW t \in Turns, Model(t)
    PROVE  IInv'
<1>1. PICK n \in 0..2 : Checkpoints(t, IF n = 0 THEN "over" ELSE "tools",
                                    Append(turn[t].state, Ai(t, Batch(t, turn[t].calls, n))), n)
  BY DEF Model
<1> DEFINE calls == Batch(t, turn[t].calls, n)
           before == turn[t].state
           s == Append(before, Ai(t, calls))
           at == IF n = 0 THEN "over" ELSE "tools"
<1>2. turn[t].at = "model"
  BY DEF Model
<1>3. /\ before \in Seq(Messages) /\ WellFormed(before) /\ before # <<>>
      /\ CallsMade(before, Made) /\ AsksFor(before, t) /\ turn[t].calls \in Nat
  BY <1>2, TurnIs, AskingNotEmpty
<1>4. /\ calls \in Seq(Calls)
      /\ \A i, j \in DOMAIN calls : calls[i] = calls[j] => i = j
      /\ \A c \in ToSet(calls) : c.turn = t /\ c.n <= turn[t].calls + n
  <2>1. n \in Nat
    OBVIOUS
  <2> QED  BY <2>1, BatchIs
<1>5. \A i \in Positions(before, "ai") : ToSet(before[i].calls) \cap ToSet(calls) = {}
  <2>1. n \in Nat
    OBVIOUS
  <2> QED  BY <2>1, Fresh
<1>6. Checkpoints(t, at, s, n) /\ at \in {"over", "tools"}
  BY <1>1
<1> HIDE DEF calls, before
<1>7. /\ s \in Seq(Messages) /\ WellFormed(s) /\ AsksFor(s, t)
      /\ s # <<>> /\ s[Len(s)].type = "ai"
      /\ \A i \in Positions(s, "ai") :
            (i \in Positions(before, "ai") /\ s[i] = before[i]) \/ s[i].calls = calls
  <2>1. NewCalls(before, calls)
    BY <1>4, <1>5 DEF NewCalls
  <2>2. AiFine(before, calls, t, s)
    BY <1>3, <2>1, AiAdded
  <2> HIDE DEF s
  <2> QED  BY <2>2 DEF AiFine
<1> HIDE DEF s, at
<1>8. Made'[t] = turn[t].calls + n /\ \A u \in Turns : u # t => Made'[u] = Made[u]
  <2>1. turn' = [turn EXCEPT ![t] = [at |-> at, state |-> s, got |-> {},
                                     calls |-> turn[t].calls + n]]
    BY <1>6 DEF Checkpoints
  <2>2. turn'[t].calls = turn[t].calls + n /\ \A u \in Turns : u # t => turn'[u] = turn[u]
    BY <2>1 DEF IInv, TurnType
  <2> QED  BY <2>2 DEF Made
<1>9. \A u \in Turns : Made[u] \in Nat /\ Made'[u] \in Nat /\ Made[u] <= Made'[u]
  <2> SUFFICES ASSUME NEW u \in Turns
               PROVE  Made[u] \in Nat /\ Made'[u] \in Nat /\ Made[u] <= Made'[u]
    OBVIOUS
  <2>1. Made[u] = turn[u].calls /\ turn[u].calls \in Nat
    BY TurnIs DEF Made
  <2>2. CASE u = t
    BY <1>3, <1>8, <2>1, <2>2
  <2>3. CASE u # t
    BY <1>8, <2>1, <2>3
  <2> QED  BY <2>2, <2>3
<1>10. CallsMade(before, Made')
  BY <1>3, <1>9, MadeMore
<1>11. CallsMade(s, Made')
  <2> SUFFICES ASSUME NEW i \in Positions(s, "ai"), NEW c \in ToSet(s[i].calls)
               PROVE  c.n <= Made'[c.turn]
    BY DEF CallsMade
  <2>1. CASE i \in Positions(before, "ai") /\ s[i] = before[i]
    BY <1>10, <2>1 DEF CallsMade
  <2>2. CASE s[i].calls = calls
    BY <1>4, <1>8, <2>2
  <2> QED  BY <1>7, <2>1, <2>2
<1>12. at \in Types /\ at # "model" /\ n \in Nat
  BY <1>6 DEF Types
<1> QED  BY <1>6, <1>7, <1>11, <1>12, CheckpointFine

LEMMA ToolsEndStep ==
    ASSUME IInv, NEW t \in Turns, ToolsEnd(t)
    PROVE  IInv'
<1> DEFINE before == turn[t].state
           s == before \o AnswersOf(t, turn[t].got)
<1>1. Checkpoints(t, "before_model", s, 0) /\ turn[t].at = "tools"
  BY DEF ToolsEnd
<1>2. /\ before \in Seq(Messages) /\ WellFormed(before) /\ before # <<>>
      /\ before[Len(before)].type = "ai"
      /\ CallsMade(before, Made) /\ AsksFor(before, t)
  BY <1>1, TurnIs
<1>3. s = before \o Answers(before[Len(before)].calls, turn[t].got, TRUE)
  BY DEF AnswersOf, Asked
<1> HIDE DEF before, s
<1>4. s \in Seq(Messages) /\ WellFormed(s) /\ CallsMade(s, Made) /\ AsksFor(s, t)
  BY <1>2, <1>3, AnswersAdded
<1>5. CallsMade(s, Made')
  BY <1>1, <1>4, MadeSame
<1> QED  BY <1>1, <1>4, <1>5, CheckpointFine DEF Types

\* A step that leaves the messages and the calls alone.
LEMMA QuietStep ==
    ASSUME IInv, TurnType', Stored(thread'),
           \A t \in Turns :
              /\ turn'[t].state = turn[t].state /\ turn'[t].calls = turn[t].calls
              /\ \/ turn'[t] = turn[t] \/ turn'[t].at = "cut"
                 \/ /\ turn[t].at = "tools" /\ turn'[t].at = "tools"
                    /\ LET s == turn[t].state IN turn'[t].got \subseteq ToSet(s[Len(s)].calls)
    PROVE  IInv'
<1>1. Made' = Made
  BY DEF Made
<1>2. Stored(thread)'
  BY <1>1 DEF Stored, Made
<1>3. ASSUME NEW t \in Turns PROVE TurnFine(t)'
  <2>1. TurnFine(t) /\ turn'[t].state = turn[t].state
    BY DEF IInv
  <2>2. Stored(turn[t].state)'
    BY <1>1, <2>1 DEF TurnFine, Stored, Made
  <2>3. CASE turn'[t] = turn[t]
    BY <2>1, <2>2, <2>3 DEF TurnFine, Active
  <2>4. CASE turn'[t].at = "cut"
    BY <2>2, <2>4 DEF TurnFine, Active
  <2>5. CASE /\ turn[t].at = "tools" /\ turn'[t].at = "tools"
             /\ LET s == turn[t].state IN turn'[t].got \subseteq ToSet(s[Len(s)].calls)
    BY <2>1, <2>2, <2>5 DEF TurnFine, Active
  <2> QED  BY <2>3, <2>4, <2>5
<1> QED  BY <1>2, <1>3 DEF IInv

LEMMA ToolAnswersStep ==
    ASSUME IInv, NEW t \in Turns, ToolAnswers(t)
    PROVE  IInv'
<1>1. PICK c \in ToSet(Asked(t)) \ turn[t].got :
           turn' = [turn EXCEPT ![t].got = turn[t].got \cup {c}]
  BY DEF ToolAnswers
<1>2. turn[t].at = "tools" /\ thread' = thread
  BY DEF ToolAnswers
<1>3. /\ turn[t].state \in Seq(Messages) /\ turn[t].state # <<>>
      /\ turn[t].state[Len(turn[t].state)].type = "ai"
      /\ turn[t].got \subseteq ToSet(Asked(t)) /\ TurnFine(t)
  BY <1>2 DEF IInv, TurnFine, Stored, Asked
<1>4. Asked(t) \in Seq(Calls)
  BY <1>3, Kinds DEF Asked
<1>5. c \in Calls
  BY <1>4 DEF ToSet
<1> DEFINE got == turn[t].got \cup {c}
<1>6. got \in SUBSET Calls /\ got \subseteq ToSet(Asked(t))
  BY <1>3, <1>5 DEF IInv, TurnType
<1>7. turn' = [turn EXCEPT ![t].got = got]
  BY <1>1
<1> HIDE DEF got
<1>8. TurnType'
  BY <1>6, <1>7 DEF IInv, TurnType
<1>9. ASSUME NEW u \in Turns
      PROVE  /\ turn'[u].state = turn[u].state /\ turn'[u].calls = turn[u].calls
             /\ turn'[u].at = turn[u].at
             /\ u # t => turn'[u] = turn[u]
             /\ u = t => turn'[u].got = got
  BY <1>7 DEF IInv, TurnType
<1>10. \A u \in Turns :
          /\ turn'[u].state = turn[u].state /\ turn'[u].calls = turn[u].calls
          /\ \/ turn'[u] = turn[u] \/ turn'[u].at = "cut"
             \/ /\ turn[u].at = "tools" /\ turn'[u].at = "tools"
                /\ LET s == turn[u].state IN turn'[u].got \subseteq ToSet(s[Len(s)].calls)
  BY <1>2, <1>6, <1>9 DEF Asked
<1>11. Stored(thread')
  BY <1>2 DEF IInv
<1> QED  BY <1>8, <1>10, <1>11, QuietStep

LEMMA CutStep ==
    ASSUME IInv, NEW t \in Turns, Cut(t)
    PROVE  IInv'
<1>1. turn' = [turn EXCEPT ![t].at = "cut", ![t].got = {}]
  BY DEF Cut
<1>2. TurnType'
  BY <1>1 DEF IInv, TurnType
<1>3. \A u \in Turns :
          /\ turn'[u].state = turn[u].state /\ turn'[u].calls = turn[u].calls
          /\ turn'[u] = turn[u] \/ turn'[u].at = "cut"
  BY <1>1 DEF IInv, TurnType
<1>4. Stored(thread')
  <2>1. CASE thread' = thread
    BY <2>1 DEF IInv
  <2>2. CASE /\ turn[t].at = "tools" /\ thread = turn[t].state
             /\ thread' = thread \o AnswersOf(t, turn[t].got)
    <3> DEFINE before == turn[t].state
               s == before \o AnswersOf(t, turn[t].got)
    <3>1. /\ before \in Seq(Messages) /\ WellFormed(before) /\ before # <<>>
          /\ before[Len(before)].type = "ai"
          /\ CallsMade(before, Made) /\ AsksFor(before, t)
      BY <2>2, TurnIs
    <3>2. s = before \o Answers(before[Len(before)].calls, turn[t].got, TRUE)
      BY DEF AnswersOf, Asked
    <3> HIDE DEF before, s
    <3>3. s \in Seq(Messages) /\ WellFormed(s) /\ CallsMade(s, Made)
      BY <3>1, <3>2, AnswersAdded
    <3>4. thread' = s
      BY <2>2 DEF s, before
    <3> QED  BY <3>3, <3>4 DEF Stored, Made
  <2> QED  BY <2>1, <2>2 DEF Cut
<1> QED  BY <1>2, <1>3, <1>4, QuietStep

\* The passing of the retention, and the sweep.
LEMMA SweepStep ==
    ASSUME IInv, Ages \/ SweepSelects \/ SweepDeletes \/ SweepFails
    PROVE  IInv'
<1>1. turn' = turn /\ (thread' = thread \/ thread' = <<>>)
  BY DEF Ages, SweepSelects, SweepDeletes, SweepFails
<1>2. TurnType'
  BY <1>1 DEF IInv, TurnType
<1>3. Stored(thread')
  <2>1. CASE thread' = thread
    BY <2>1 DEF IInv
  <2>2. CASE thread' = <<>>
    BY <2>2, EmptyFine DEF Stored
  <2> QED  BY <1>1, <2>1, <2>2
<1> QED  BY <1>1, <1>2, <1>3, QuietStep

LEMMA InvariantStep == IInv /\ [Next]_vars => IInv'
<1> SUFFICES ASSUME IInv, [Next]_vars PROVE IInv'
  OBVIOUS
<1>1. CASE UNCHANGED vars
  BY <1>1 DEF vars, IInv, TurnType, TurnFine, Stored, Active
<1>2. CASE \E t \in Turns : \/ TurnStarts(t) \/ BeforeModel(t) \/ Model(t)
                            \/ ToolAnswers(t) \/ ToolsEnd(t) \/ Cut(t)
  BY <1>2, StartsStep, BeforeModelStep, ModelStep, ToolAnswersStep, ToolsEndStep, CutStep
<1>3. CASE Ages \/ SweepSelects \/ SweepDeletes \/ SweepFails
  BY <1>3, SweepStep
<1> QED  BY <1>1, <1>2, <1>3 DEF Next

LEMMA InvariantHolds == Spec => []IInv
  BY InvariantInit, InvariantStep, PTL DEF Spec

-----------------------------------------------------------------------------
(* The properties.                                                         *)

\* What a turn sends to the model opens with a question, has the answers to the
\* calls of each assistant message right after it, each once, and nothing else
\* among them; it is the end of the stored history, from the question that begins
\* the earliest of the turns that fit; and no synthetic answer stands in it for a
\* result that came (middleware.py, InterruptedToolCallRepairMiddleware and
\* TrimTurnsMiddleware), however the turns of the thread overlap and are cut.
THEOREM RequestsAlwaysSound == Spec => []RequestsSound
<1>1. IInv => RequestsSound
  <2> SUFFICES ASSUME IInv, NEW t \in Turns, turn[t].at = "model"
               PROVE  LET r == Request(t)
                          s == turn[t].state
                          humans == Cardinality(Positions(s, "human"))
                      IN  /\ r[1].type = "human" /\ CallsAnswered(r) /\ AnswersCalled(r)
                          /\ Cardinality(Positions(r, "human"))
                               = IF humans < MaxTurns THEN humans ELSE MaxTurns
                          /\ \E i \in Positions(r, "human") : r[i].turn = t
                          /\ \E first \in DOMAIN s : r = SubSeq(s, first, Len(s))
                          /\ \A k \in Positions(r, "tool") :
                               ~r[k].real => Answer(r[k].call, TRUE) \notin ToSet(s)
    BY DEF RequestsSound, RequestsValid, RequestsWhole
  <2>1. /\ turn[t].state \in Seq(Messages) /\ WellFormed(turn[t].state)
        /\ Complete(turn[t].state) /\ AsksFor(turn[t].state, t)
    BY TurnIs
  <2> QED  BY <2>1, RequestFine DEF Request
<1> QED  BY <1>1, InvariantHolds, PTL

\* Messages added at the end leave the ones before them.
LEMMA GenuineMore ==
    ASSUME NEW s \in Seq(Messages), NEW r \in Seq(Messages), Len(s) <= Len(r),
           \A i \in 1..Len(s) : r[i] = s[i]
    PROVE  Genuine(s) \subseteq Genuine(r)
<1> SUFFICES ASSUME NEW i \in DOMAIN s, s[i].type = "tool" => s[i].real
             PROVE  s[i] \in Genuine(r)
  BY DEF Genuine
<1>1. i \in DOMAIN r /\ r[i] = s[i]
  OBVIOUS
<1> QED  BY <1>1 DEF Genuine

\* A checkpoint by a turn that saw the thread as it is, and only added to it.
Kept == \A t \in Turns :
           turn'[t].state # turn[t].state /\ (turn[t].at = "new" \/ turn[t].state = thread)
              => Genuine(thread) \subseteq Genuine(thread')

LEMMA CheckpointKeeps ==
    ASSUME IInv, NEW t \in Turns, NEW at, NEW s, NEW more, Checkpoints(t, at, s, more),
           turn[t].at = "new" \/ turn[t].state = thread => Genuine(thread) \subseteq Genuine(s)
    PROVE  Kept
<1> SUFFICES ASSUME NEW u \in Turns, turn'[u].state # turn[u].state,
                    turn[u].at = "new" \/ turn[u].state = thread
             PROVE  Genuine(thread) \subseteq Genuine(thread')
  BY DEF Kept
<1>1. u = t /\ thread' = s
  BY CheckpointIs
<1> QED  BY <1>1

\* No step of a turn that saw the newest checkpoint drops a question, an answer
\* of the model or a real tool result from the stored history: the repair only
\* inserts, and the trim is of what is sent, not of what is kept (middleware.py,
\* TrimTurnsMiddleware).  The sweep deletes, but no turn's step does.
THEOREM HistoryAlwaysKept == Spec => HistoryKept
<1>1. IInv /\ Next => Kept
  <2> SUFFICES ASSUME IInv, Next PROVE Kept
    OBVIOUS
  <2>0. thread \in Seq(Messages)
    BY DEF IInv, Stored
  <2>1. ASSUME NEW t \in Turns, TurnStarts(t) PROVE Kept
    <3> DEFINE s == Append(thread, Human(t))
    <3>1. Checkpoints(t, "before_model", s, 0)
      BY <2>1 DEF TurnStarts
    <3>2. Human(t) \in Messages
      BY DEF Human, Messages, Humans
    <3>3. s \in Seq(Messages) /\ Len(thread) <= Len(s) /\ \A i \in 1..Len(thread) : s[i] = thread[i]
      BY <2>0, <3>2
    <3> HIDE DEF s
    <3>4. Genuine(thread) \subseteq Genuine(s)
      BY <2>0, <3>3, GenuineMore
    <3> QED  BY <3>1, <3>4, CheckpointKeeps
  <2>2. ASSUME NEW t \in Turns, BeforeModel(t) PROVE Kept
    <3> DEFINE s == Repair(turn[t].state)
    <3>1. Checkpoints(t, "model", s, 0) /\ turn[t].at = "before_model"
      BY <2>2 DEF BeforeModel
    <3>2. /\ turn[t].state \in Seq(Messages) /\ WellFormed(turn[t].state)
          /\ CallsMade(turn[t].state, Made) /\ AsksFor(turn[t].state, t)
      BY <3>1, TurnIs
    <3>3. Genuine(turn[t].state) \subseteq Genuine(s)
      BY <3>2, RepairFine
    <3> HIDE DEF s
    <3>4. turn[t].at # "new"
      BY <3>1
    <3>5. turn[t].at = "new" \/ turn[t].state = thread => Genuine(thread) \subseteq Genuine(s)
      BY <3>3, <3>4
    <3> QED  BY <3>1, <3>5, CheckpointKeeps
  <2>3. ASSUME NEW t \in Turns, Model(t) PROVE Kept
    <3>1. PICK n \in 0..2 :
             Checkpoints(t, IF n = 0 THEN "over" ELSE "tools",
                         Append(turn[t].state, Ai(t, Batch(t, turn[t].calls, n))), n)
      BY <2>3 DEF Model
    <3> DEFINE m == Ai(t, Batch(t, turn[t].calls, n))
               before == turn[t].state
               s == Append(before, m)
               at == IF n = 0 THEN "over" ELSE "tools"
    <3>2. turn[t].at = "model" /\ before \in Seq(Messages)
      BY <2>3, TurnIs DEF Model
    <3>3. m \in Messages
      <4>1. n \in Nat
        OBVIOUS
      <4>2. Batch(t, turn[t].calls, n) \in Seq(Calls)
        BY <4>1, BatchIs
      <4> QED  BY <4>2 DEF Ai, Messages, Ais
    <3>4. Checkpoints(t, at, s, n)
      BY <3>1
    <3> HIDE DEF m, before, at
    <3>5. s \in Seq(Messages) /\ Len(before) <= Len(s) /\ \A i \in 1..Len(before) : s[i] = before[i]
      BY <3>2, <3>3
    <3> HIDE DEF s
    <3>6. Genuine(before) \subseteq Genuine(s)
      BY <3>2, <3>5, GenuineMore
    <3>7. turn[t].at = "new" \/ turn[t].state = thread => Genuine(thread) \subseteq Genuine(s)
      BY <3>2, <3>6 DEF before
    <3> QED  BY <3>4, <3>7, CheckpointKeeps
  <2>4. ASSUME NEW t \in Turns, ToolAnswers(t) PROVE Kept
    BY <2>4 DEF ToolAnswers, IInv, TurnType, Kept
  <2>5. ASSUME NEW t \in Turns, ToolsEnd(t) PROVE Kept
    <3> DEFINE before == turn[t].state
               s == before \o AnswersOf(t, turn[t].got)
    <3>1. Checkpoints(t, "before_model", s, 0) /\ turn[t].at = "tools"
      BY <2>5 DEF ToolsEnd
    <3>2. /\ before \in Seq(Messages) /\ WellFormed(before) /\ before # <<>>
          /\ before[Len(before)].type = "ai"
          /\ CallsMade(before, Made) /\ AsksFor(before, t)
      BY <3>1, TurnIs
    <3>3. s = before \o Answers(before[Len(before)].calls, turn[t].got, TRUE)
      BY DEF AnswersOf, Asked
    <3> HIDE DEF before, s
    <3>4. Genuine(before) \subseteq Genuine(s)
      BY <3>2, <3>3, AnswersAdded
    <3>5. turn[t].at = "new" \/ turn[t].state = thread => Genuine(thread) \subseteq Genuine(s)
      BY <3>1, <3>4 DEF before
    <3> QED  BY <3>1, <3>5, CheckpointKeeps
  <2>6. ASSUME NEW t \in Turns, Cut(t) PROVE Kept
    BY <2>6 DEF Cut, IInv, TurnType, Kept
  <2>7. CASE Ages \/ SweepSelects \/ SweepDeletes \/ SweepFails
    BY <2>7 DEF Ages, SweepSelects, SweepDeletes, SweepFails, Kept
  <2> QED  BY <2>1, <2>2, <2>3, <2>4, <2>5, <2>6, <2>7 DEF Next
<1>2. IInv /\ [Next]_vars => [Kept]_vars
  BY <1>1
<1> QED  BY <1>2, InvariantHolds, PTL DEF Spec, HistoryKept, Kept
=============================================================================
