------------------------- MODULE WaveManagerProofs -------------------------
(***************************************************************************)
(* Proofs about WaveManager, for any children and any blocking among them: *)
(* kahnWaves sorts the children by the longest chain of blockers, and the  *)
(* next ready wave holds nobody who waits for an open issue.               *)
(*                                                                         *)
(* What the recursion computes is proved from the smallest set of children *)
(* it has still to place (Smallest).                                       *)
(***************************************************************************)
EXTENDS WaveManager, FiniteSetTheorems, WellFoundedInduction, TLAPS

-----------------------------------------------------------------------------
(* Induction *)

\* A collection of subsets of a finite set has a smallest member.
LEMMA Smallest ==
    \A S, F : IsFiniteSet(S) /\ F \subseteq SUBSET S /\ F # {}
                => \E X \in F : \A Y \in F : Y \subseteq X => Y = X
<1> SUFFICES ASSUME NEW S, NEW F, IsFiniteSet(S), F \subseteq SUBSET S, F # {}
             PROVE  \E X \in F : \A Y \in F : Y \subseteq X => Y = X
  OBVIOUS
<1>1. IsWellFoundedOn(StrictSubsetOrdering(S), FiniteSubsetsOf(S))
  BY FS_StrictSubsetOrderingWellFounded
<1>2. F \subseteq FiniteSubsetsOf(S)
  BY FS_Subset DEF FiniteSubsetsOf
<1>3. \E X \in F : \A Y \in F : ~ (<<Y, X>> \in StrictSubsetOrdering(S))
  BY <1>1, <1>2, WFMin
<1> QED BY <1>3 DEF StrictSubsetOrdering

\* A set of natural numbers has a least one.
LEMMA Least ==
    ASSUME NEW T \in SUBSET Nat, T # {}
    PROVE  \E x \in T : \A y \in T : x <= y
<1>0. PICK n \in T : TRUE
  OBVIOUS
<1> DEFINE All == 1..n
           Prefixes == {1..k : k \in {m \in T : m <= n}}
<1>1. IsFiniteSet(All)
  BY FS_Interval
<1>2. Prefixes \subseteq SUBSET All
  <2>1. \A k \in T : k <= n => 1..k \subseteq 1..n
    OBVIOUS
  <2> QED BY <2>1
<1>3. Prefixes # {}
  OBVIOUS
<1>4. \E X \in Prefixes : \A Y \in Prefixes : Y \subseteq X => Y = X
  <2> HIDE DEF Prefixes, All
  <2> QED BY <1>1, <1>2, <1>3, Smallest
<1>5. PICK k \in T : /\ k <= n
                     /\ \A Y \in Prefixes : Y \subseteq 1..k => Y = 1..k
  BY <1>4
<1>6. \A m \in T : k <= m
  <2> SUFFICES ASSUME NEW m \in T, m < k PROVE FALSE
    OBVIOUS
  <2>1. 1..m \in Prefixes /\ 1..m \subseteq 1..k
    BY <1>5
  <2>2. 1..m = 1..k
    BY <1>5, <2>1
  <2> QED BY <2>2
<1> QED BY <1>6

-----------------------------------------------------------------------------
(* Kahn's algorithm *)

\* Waves of children.
Waves(preds) == Seq(SUBSET DOMAIN preds)

\* Those in the waves before the w-th.
Before(waves, w) == UNION {waves[v] : v \in 1..(w - 1)}

\* Each wave is the front that the earlier ones leave.
Layered(preds, waves) ==
    /\ waves \in Waves(preds)
    /\ \A w \in DOMAIN waves : /\ waves[w] = Front(preds, Before(waves, w))
                               /\ waves[w] # {}

\* The equation of the recursion in KahnWaves.
Grows(preds, f) ==
    f = [waves \in Waves(preds) |->
            IF Front(preds, Members(waves)) = {} THEN waves
            ELSE f[Append(waves, Front(preds, Members(waves)))]]

\* Fronts are added to waves until one is empty, and that gives result.
Extends(preds, waves, result) ==
    /\ result \in Waves(preds)
    /\ Len(waves) <= Len(result)
    /\ \A w \in 1..Len(waves) : result[w] = waves[w]
    /\ \A w \in (Len(waves) + 1)..Len(result) :
            /\ result[w] = Front(preds, Before(result, w))
            /\ result[w] # {}
    /\ Front(preds, Members(result)) = {}

LEMMA MembersBefore ==
    ASSUME NEW preds, NEW waves \in Waves(preds)
    PROVE  /\ Members(waves) = Before(waves, Len(waves) + 1)
           /\ Members(waves) \subseteq DOMAIN preds
BY DEF Members, Before, Waves

\* One more wave.
LEMMA AppendFront ==
    ASSUME NEW preds, NEW waves \in Waves(preds)
    PROVE  LET more == Append(waves, Front(preds, Members(waves)))
           IN  /\ more \in Waves(preds)
               /\ Members(more) = Members(waves) \cup Front(preds, Members(waves))
               /\ \A w \in 1..(Len(waves) + 1) : Before(more, w) = Before(waves, w)
<1> DEFINE front == Front(preds, Members(waves))
           more == Append(waves, front)
<1>1. front \subseteq DOMAIN preds
  BY DEF Front
<1>2. /\ more \in Waves(preds)
      /\ Len(more) = Len(waves) + 1
      /\ more[Len(more)] = front
      /\ \A w \in 1..Len(waves) : more[w] = waves[w]
  <2> HIDE DEF front
  <2> QED BY <1>1 DEF Waves
<1> HIDE DEF more, front
<1>3. Members(more) = Members(waves) \cup front
  <2>1. DOMAIN more = 1..(Len(waves) + 1) /\ DOMAIN waves = 1..Len(waves) /\ Len(waves) \in Nat
    BY <1>2 DEF Waves
  <2> QED BY <1>2, <2>1 DEF Members
<1>4. \A w \in 1..(Len(waves) + 1) : Before(more, w) = Before(waves, w)
  <2> SUFFICES ASSUME NEW w \in 1..(Len(waves) + 1)
               PROVE  Before(more, w) = Before(waves, w)
    OBVIOUS
  <2>1. \A v \in 1..(w - 1) : more[v] = waves[v]
    BY <1>2 DEF Waves
  <2> QED BY <2>1 DEF Before
<1> QED BY <1>2, <1>3, <1>4 DEF more, front

\* The recursion is well founded: its equation has a solution.
LEMMA KahnEquation ==
    ASSUME NEW preds
    PROVE  \E f : Grows(preds, f) /\ KahnWaves(preds) = f[<<>>]
<1> DEFINE g == [waves \in Waves(preds) |-> CHOOSE r : Extends(preds, waves, r)]
           f == CHOOSE h : Grows(preds, h)
<1>1. ASSUME NEW waves \in Waves(preds), Front(preds, Members(waves)) = {}
      PROVE  g[waves] = waves
  <2>1. Extends(preds, waves, waves)
    BY <1>1 DEF Extends, Waves
  <2>2. ASSUME NEW r, Extends(preds, waves, r) PROVE r = waves
    <3>1. ASSUME Len(r) > Len(waves) PROVE FALSE
      <4> DEFINE w == Len(waves) + 1
      <4>1. w \in (Len(waves) + 1)..Len(r)
        BY <2>2, <3>1 DEF Extends, Waves
      <4>2. r[w] = Front(preds, Before(r, w)) /\ r[w] # {}
        BY <2>2, <4>1 DEF Extends
      <4>3. Before(r, w) = Members(waves)
        <5>1. \A v \in 1..(w - 1) : r[v] = waves[v]
          BY <2>2 DEF Extends, Waves
        <5> QED BY <5>1, MembersBefore DEF Before
      <4> QED BY <1>1, <4>2, <4>3
    <3>2. Len(r) = Len(waves)
      BY <2>2, <3>1 DEF Extends, Waves
    <3> QED BY <2>2, <3>2 DEF Extends, Waves
  <2>3. (CHOOSE r : Extends(preds, waves, r)) = waves
    BY <2>1, <2>2
  <2> QED BY <2>3
<1>2. ASSUME NEW waves \in Waves(preds), Front(preds, Members(waves)) # {}
      PROVE  g[waves] = g[Append(waves, Front(preds, Members(waves)))]
  <2> DEFINE front == Front(preds, Members(waves))
             more == Append(waves, front)
  <2>1. /\ more \in Waves(preds)
        /\ \A w \in 1..(Len(waves) + 1) : Before(more, w) = Before(waves, w)
    BY AppendFront
  <2>2. /\ Len(more) = Len(waves) + 1 /\ Len(waves) \in Nat
        /\ more[Len(waves) + 1] = front
        /\ \A w \in 1..Len(waves) : more[w] = waves[w]
    BY DEF Waves
  <2>3. Members(waves) = Before(waves, Len(waves) + 1)
    BY MembersBefore
  <2> HIDE DEF front, more
  <2>4. ASSUME NEW r, \A w \in 1..Len(waves) : r[w] = waves[w]
        PROVE  Before(r, Len(waves) + 1) = Members(waves)
    <3>1. \A v \in 1..((Len(waves) + 1) - 1) : r[v] = waves[v]
      BY <2>2, <2>4
    <3> QED BY <2>3, <3>1 DEF Before
  <2>5. ASSUME NEW r, Extends(preds, waves, r) PROVE Extends(preds, more, r)
    <3>1. Len(r) # Len(waves)
      <4> SUFFICES ASSUME Len(r) = Len(waves) PROVE FALSE
        OBVIOUS
      <4>1. r = waves
        BY <2>5 DEF Extends, Waves
      <4> QED BY <1>2, <2>5, <4>1 DEF Extends
    <3>2. Len(r) \in Nat /\ Len(waves) + 1 <= Len(r)
      BY <2>2, <2>5, <3>1 DEF Extends, Waves
    <3>3. r[Len(waves) + 1] = front
      <4>1. Len(waves) + 1 \in (Len(waves) + 1)..Len(r)
        BY <2>2, <3>2
      <4>2. r[Len(waves) + 1] = Front(preds, Before(r, Len(waves) + 1))
        BY <2>5, <4>1 DEF Extends
      <4> QED BY <2>4, <2>5, <4>2 DEF Extends, front
    <3> QED BY <2>2, <2>5, <3>2, <3>3 DEF Extends
  <2>6. ASSUME NEW r, Extends(preds, more, r) PROVE Extends(preds, waves, r)
    <3>1. Len(r) \in Nat /\ Len(waves) + 1 <= Len(r)
      BY <2>2, <2>6 DEF Extends, Waves
    <3>2. \A w \in 1..Len(waves) : r[w] = waves[w]
      BY <2>2, <2>6 DEF Extends
    <3>3. r[Len(waves) + 1] = front
      BY <2>2, <2>6 DEF Extends
    <3>4. Before(r, Len(waves) + 1) = Members(waves)
      BY <2>4, <3>2
    <3>5. front # {}
      BY <1>2 DEF front
    <3>6. ASSUME NEW w \in (Len(waves) + 1)..Len(r)
          PROVE  r[w] = Front(preds, Before(r, w)) /\ r[w] # {}
      <4>1. CASE w = Len(waves) + 1
        BY <3>3, <3>4, <3>5, <4>1 DEF front
      <4>2. CASE w # Len(waves) + 1
        <5>1. w \in (Len(more) + 1)..Len(r)
          BY <2>2, <3>1, <4>2
        <5> QED BY <2>6, <5>1 DEF Extends
      <4> QED BY <4>1, <4>2
    <3> QED BY <2>2, <2>6, <3>1, <3>2, <3>6 DEF Extends
  <2>7. \A r : Extends(preds, waves, r) <=> Extends(preds, more, r)
    BY <2>5, <2>6
  <2>8. (CHOOSE r : Extends(preds, waves, r)) = (CHOOSE r : Extends(preds, more, r))
    BY <2>7, Zenon
  <2> QED BY <2>1, <2>8 DEF more, front
<1>3. Grows(preds, g)
  <2> DEFINE h == [waves \in Waves(preds) |->
                     IF Front(preds, Members(waves)) = {} THEN waves
                     ELSE g[Append(waves, Front(preds, Members(waves)))]]
  <2>1. \A waves \in Waves(preds) : g[waves] = h[waves]
    BY <1>1, <1>2
  <2>2. g = [waves \in Waves(preds) |-> g[waves]] /\ h = [waves \in Waves(preds) |-> h[waves]]
    OBVIOUS
  <2>3. g = h
    BY <2>1, <2>2
  <2> QED BY <2>3 DEF Grows
<1>4. Grows(preds, f)
  BY <1>3
<1>5. KahnWaves(preds) = f[<<>>]
  BY Zenon DEF KahnWaves, Grows, Waves
<1> QED BY <1>4, <1>5

\* The algorithm places children until its front is empty.
LEMMA KahnLayers ==
    ASSUME NEW preds, IsFiniteSet(DOMAIN preds)
    PROVE  /\ Layered(preds, KahnWaves(preds))
           /\ Front(preds, Members(KahnWaves(preds))) = {}
<1> DEFINE Done(waves) == Layered(preds, waves) /\ Front(preds, Members(waves)) = {}
           Rest(waves) == DOMAIN preds \ Members(waves)
<1>1. PICK f : Grows(preds, f) /\ KahnWaves(preds) = f[<<>>]
  BY KahnEquation
<1>2. \A waves \in Waves(preds) :
        f[waves] = IF Front(preds, Members(waves)) = {} THEN waves
                   ELSE f[Append(waves, Front(preds, Members(waves)))]
  BY <1>1 DEF Grows
<1> DEFINE Bad == {waves \in Waves(preds) : Layered(preds, waves) /\ ~Done(f[waves])}
<1>3. Bad = {}
  <2> SUFFICES ASSUME Bad # {} PROVE FALSE
    OBVIOUS
  <2> DEFINE Rests == {Rest(waves) : waves \in Bad}
  <2>1. Rests \subseteq SUBSET DOMAIN preds /\ Rests # {}
    OBVIOUS
  <2>2. PICK X \in Rests : \A Y \in Rests : Y \subseteq X => Y = X
    <3> HIDE DEF Rests
    <3> QED BY <2>1, Smallest
  <2>3. PICK waves \in Bad :
          \A other \in Bad : Rest(other) \subseteq Rest(waves) => Rest(other) = Rest(waves)
    <3>1. PICK waves \in Bad : X = Rest(waves)
      OBVIOUS
    <3>2. \A other \in Bad : Rest(other) \in Rests
      OBVIOUS
    <3> HIDE DEF Bad, Rest, Rests
    <3> QED BY <2>2, <3>1, <3>2
  <2>4. waves \in Waves(preds) /\ Layered(preds, waves) /\ ~Done(f[waves])
    OBVIOUS
  <2>5. CASE Front(preds, Members(waves)) = {}
    BY <1>2, <2>4, <2>5
  <2>6. CASE Front(preds, Members(waves)) # {}
    <3> DEFINE front == Front(preds, Members(waves))
               more == Append(waves, front)
    <3>1. /\ more \in Waves(preds)
          /\ Members(more) = Members(waves) \cup front
          /\ \A w \in 1..(Len(waves) + 1) : Before(more, w) = Before(waves, w)
      BY <2>4, AppendFront
    <3>2. front # {} /\ front \subseteq DOMAIN preds /\ front \cap Members(waves) = {}
      BY <2>6 DEF Front
    <3>3. f[waves] = f[more]
      BY <1>2, <2>4, <2>6
    <3>4. Layered(preds, more)
      <4>1. /\ Len(waves) \in Nat
            /\ DOMAIN waves = 1..Len(waves) /\ DOMAIN more = 1..(Len(waves) + 1)
            /\ more[Len(waves) + 1] = front
            /\ \A w \in 1..Len(waves) : more[w] = waves[w]
        BY <2>4 DEF Waves
      <4>2. Before(waves, Len(waves) + 1) = Members(waves)
        BY <2>4, MembersBefore
      <4> HIDE DEF more
      <4>3. ASSUME NEW w \in DOMAIN more
            PROVE  more[w] = Front(preds, Before(more, w)) /\ more[w] # {}
        <5>1. CASE w = Len(waves) + 1
          <6>1. Before(more, w) = Members(waves)
            BY <3>1, <4>1, <4>2, <5>1
          <6> QED BY <3>2, <4>1, <5>1, <6>1
        <5>2. CASE w \in 1..Len(waves)
          <6>1. Before(more, w) = Before(waves, w)
            BY <3>1, <4>1, <5>2
          <6>2. waves[w] = Front(preds, Before(waves, w)) /\ waves[w] # {}
            BY <2>4, <4>1, <5>2 DEF Layered
          <6> QED BY <4>1, <5>2, <6>1, <6>2
        <5> QED BY <4>1, <5>1, <5>2
      <4> QED BY <3>1, <4>3 DEF Layered
    <3>5. more \in Bad
      BY <2>4, <3>1, <3>3, <3>4
    <3>6. Rest(more) \subseteq Rest(waves) /\ Rest(more) # Rest(waves)
      BY <3>1, <3>2
    <3> QED BY <2>3, <3>5, <3>6
  <2> QED BY <2>5, <2>6
<1>4. <<>> \in Waves(preds) /\ Layered(preds, <<>>)
  BY DEF Waves, Layered
<1> QED BY <1>1, <1>3, <1>4

\* Where a child stands among the waves.
LEMMA LayerFacts ==
    ASSUME NEW preds, NEW waves, Layered(preds, waves)
    PROVE  /\ DOMAIN waves = 1..Len(waves) /\ Len(waves) \in Nat
           /\ \A w \in DOMAIN waves : waves[w] \subseteq DOMAIN preds
           /\ \A v, w \in DOMAIN waves : v # w => waves[v] \cap waves[w] = {}
           /\ \A w \in DOMAIN waves : \A c \in waves[w] : \A b \in preds[c] :
                    \E v \in 1..(w - 1) : b \in waves[v]
           /\ \A w \in DOMAIN waves : w > 1 =>
                    \A c \in waves[w] : \E b \in preds[c] : b \in waves[w - 1]
<1>1. /\ DOMAIN waves = 1..Len(waves) /\ Len(waves) \in Nat
      /\ \A w \in DOMAIN waves : waves[w] \subseteq DOMAIN preds
  BY DEF Layered, Waves
<1>2. ASSUME NEW w \in DOMAIN waves, NEW c \in waves[w]
      PROVE  /\ \A v \in 1..(w - 1) : c \notin waves[v]
             /\ \A b \in preds[c] : \E v \in 1..(w - 1) : b \in waves[v]
             /\ c \in DOMAIN preds
  BY DEF Layered, Front, Before
<1>3. \A v, w \in DOMAIN waves : v # w => waves[v] \cap waves[w] = {}
  <2> SUFFICES ASSUME NEW v \in DOMAIN waves, NEW w \in DOMAIN waves, v < w
               PROVE  waves[v] \cap waves[w] = {}
    BY <1>1
  <2>1. v \in 1..(w - 1)
    BY <1>1
  <2> QED BY <1>2, <2>1
<1>4. ASSUME NEW w \in DOMAIN waves, w > 1, NEW c \in waves[w]
      PROVE  \E b \in preds[c] : b \in waves[w - 1]
  <2>1. w - 1 \in DOMAIN waves /\ w \in Nat
    BY <1>1, <1>4
  <2>2. c \in DOMAIN preds /\ c \notin waves[w - 1]
    BY <1>2, <1>4, <2>1
  <2>3. c \notin Before(waves, w - 1)
    BY <1>2, <2>1 DEF Before
  <2>4. waves[w - 1] = Front(preds, Before(waves, w - 1))
    BY <2>1 DEF Layered
  <2>5. PICK b \in preds[c] : b \notin Before(waves, w - 1)
    BY <2>2, <2>3, <2>4 DEF Front
  <2>6. PICK v \in 1..(w - 1) : b \in waves[v]
    BY <1>2
  <2>7. v = w - 1
    BY <2>1, <2>5, <2>6 DEF Before
  <2> QED BY <2>6, <2>7
<1> QED BY <1>1, <1>2, <1>3, <1>4

-----------------------------------------------------------------------------
(* Chains of blockers *)

\* A list of children, each blocking the next: a chain, but for repetitions.
Linked(preds, s) ==
    /\ Len(s) \in Nat \ {0}
    /\ s \in [1..Len(s) -> DOMAIN preds]
    /\ \A i \in 1..Len(s) : i > 1 => s[i - 1] \in preds[s[i]]

\* A list without repetitions is no longer than there are children, so
\* Chains leaves none out.
LEMMA ChainCases ==
    ASSUME NEW preds, IsFiniteSet(DOMAIN preds), NEW c, NEW s
    PROVE  s \in Chains(preds, c) <=>
             /\ Linked(preds, s) /\ s[Len(s)] = c
             /\ \A i, j \in 1..Len(s) : i # j => s[i] # s[j]
<1>1. Cardinality(DOMAIN preds) \in Nat
  BY FS_CardinalityType
<1>2. ASSUME s \in Chains(preds, c)
      PROVE  /\ Linked(preds, s) /\ s[Len(s)] = c
             /\ \A i, j \in 1..Len(s) : i # j => s[i] # s[j]
  <2>1. PICK n \in 1..Cardinality(DOMAIN preds) : s \in [1..n -> DOMAIN preds]
    BY <1>2 DEF Chains
  <2>2. Len(s) = n /\ n \in Nat \ {0} /\ DOMAIN s = 1..n
    BY <1>1, <2>1
  <2> QED BY <1>2, <2>1, <2>2 DEF Chains, Linked
<1>3. ASSUME Linked(preds, s), s[Len(s)] = c,
             \A i, j \in 1..Len(s) : i # j => s[i] # s[j]
      PROVE  s \in Chains(preds, c)
  <2> DEFINE n == Len(s)
             Places == 1..n
  <2>1. n \in Nat \ {0} /\ DOMAIN s = 1..n
    BY <1>3 DEF Linked
  <2>2. s \in Injection(Places, DOMAIN preds)
    BY <1>3, <2>1 DEF Injection, IsInjective, Linked
  <2>3. Cardinality(Places) <= Cardinality(DOMAIN preds)
    <3> HIDE DEF Places
    <3> QED BY <2>2, FS_Injection
  <2>4. Cardinality(Places) = n
    BY <2>1, FS_Interval
  <2>5. n \in 1..Cardinality(DOMAIN preds)
    BY <1>1, <2>1, <2>3, <2>4
  <2> QED BY <1>3, <2>1, <2>5 DEF Chains, Linked
<1> QED BY <1>2, <1>3

\* Along a chain the waves go up, so it is no longer than its last child's
\* wave is late.
LEMMA ChainClimbs ==
    ASSUME NEW preds, NEW waves, Layered(preds, waves),
           NEW w \in DOMAIN waves, NEW s, Linked(preds, s), s[Len(s)] \in waves[w]
    PROVE  /\ Len(s) <= w
           /\ \E v \in 1..(w - (Len(s) - 1)) : s[1] \in waves[v]
<1> DEFINE n == Len(s)
           Placed(k) == \E v \in 1..(w - k) : s[n - k] \in waves[v]
           Gaps == {k \in 0..(n - 1) : ~Placed(k)}
<1>1. n \in Nat \ {0} /\ w \in Nat \ {0} /\ w <= Len(waves) /\ Len(waves) \in Nat
  BY LayerFacts DEF Linked
<1>2. Gaps = {}
  <2> SUFFICES ASSUME Gaps # {} PROVE FALSE
    OBVIOUS
  <2>1. PICK k \in Gaps : \A j \in Gaps : k <= j
    <3>1. Gaps \in SUBSET Nat
      OBVIOUS
    <3> HIDE DEF Gaps
    <3> QED BY <3>1, Least
  <2>2. k \in 0..(n - 1) /\ ~Placed(k)
    OBVIOUS
  <2>3. k # 0
    <3>1. Placed(0)
      BY <1>1
    <3> QED BY <2>2, <3>1
  <2>4. Placed(k - 1)
    <3>1. k - 1 \in 0..(n - 1) /\ ~(k <= k - 1)
      BY <1>1, <2>2, <2>3
    <3> QED BY <2>1, <3>1
  <2>5. PICK v \in 1..(w - (k - 1)) : s[n - (k - 1)] \in waves[v]
    BY <2>4
  <2>6. /\ n - (k - 1) \in 1..n /\ n - (k - 1) > 1
        /\ (n - (k - 1)) - 1 = n - k
    BY <1>1, <2>2, <2>3
  <2>7. s[n - k] \in preds[s[n - (k - 1)]]
    BY <2>6 DEF Linked
  <2>8. v \in DOMAIN waves /\ v \in Nat
    BY <1>1, <2>2, <2>3, <2>5, LayerFacts
  <2>9. PICK u \in 1..(v - 1) : s[n - k] \in waves[u]
    BY <2>5, <2>7, <2>8, LayerFacts
  <2>10. u \in 1..(w - k)
    BY <1>1, <2>2, <2>3, <2>5, <2>8, <2>9
  <2> QED BY <2>2, <2>9, <2>10
<1>3. Placed(n - 1)
  <2>1. n - 1 \in 0..(n - 1)
    BY <1>1
  <2> QED BY <1>2, <2>1
<1>4. n - (n - 1) = 1
  BY <1>1
<1>5. PICK v \in 1..(w - (n - 1)) : s[n - (n - 1)] \in waves[v]
  BY <1>3
<1> QED BY <1>1, <1>4, <1>5

\* A chain goes back from a child's wave to the first.
LEMMA ChainReaches ==
    ASSUME NEW preds, NEW waves, Layered(preds, waves),
           NEW w \in DOMAIN waves, NEW c \in waves[w]
    PROVE  \E s : /\ Linked(preds, s) /\ Len(s) = w /\ s[w] = c
                  /\ \A i \in 1..w : s[i] \in waves[i]
<1> DEFINE Leads(s, v, d) ==
             /\ Linked(preds, s) /\ Len(s) = v /\ s[v] = d
             /\ \A i \in 1..v : s[i] \in waves[i]
           Orphans == {v \in DOMAIN waves : \E d \in waves[v] : \A s : ~Leads(s, v, d)}
<1>1. DOMAIN waves = 1..Len(waves) /\ Len(waves) \in Nat
  BY LayerFacts
<1>2. Orphans = {}
  <2> SUFFICES ASSUME Orphans # {} PROVE FALSE
    OBVIOUS
  <2>1. PICK v \in Orphans : \A u \in Orphans : v <= u
    <3>1. Orphans \in SUBSET Nat
      BY <1>1
    <3> HIDE DEF Orphans
    <3> QED BY <3>1, Least
  <2>2. PICK d \in waves[v] : \A s : ~Leads(s, v, d)
    OBVIOUS
  <2>3. v \in DOMAIN waves /\ v \in 1..Len(waves) /\ d \in DOMAIN preds
    BY <1>1, <2>2, LayerFacts
  <2>4. CASE v = 1
    <3> DEFINE s == [i \in 1..1 |-> d]
    <3>1. Len(s) = 1 /\ s[1] = d /\ s \in [1..1 -> DOMAIN preds]
      BY <2>3
    <3> HIDE DEF s
    <3>2. Linked(preds, s)
      BY <3>1 DEF Linked
    <3>3. Leads(s, v, d)
      BY <2>2, <2>4, <3>1, <3>2
    <3> QED BY <2>2, <3>3
  <2>5. CASE v > 1
    <3>1. v - 1 \in DOMAIN waves /\ ~(v <= v - 1) /\ v \in Nat
      BY <1>1, <2>3, <2>5
    <3>2. PICK b \in preds[d] : b \in waves[v - 1]
      BY <2>2, <2>3, <2>5, LayerFacts
    <3>3. PICK r : Leads(r, v - 1, b)
      BY <2>1, <3>1, <3>2
    <3> DEFINE s == [i \in 1..v |-> IF i = v THEN d ELSE r[i]]
    <3>4. /\ Len(s) = v /\ s[v] = d
          /\ \A i \in 1..(v - 1) : s[i] = r[i]
      <4>1. v \in 1..v /\ \A i \in 1..(v - 1) : i \in 1..v /\ i # v
        BY <2>5, <3>1
      <4>2. DOMAIN s = 1..v
        OBVIOUS
      <4>3. s[v] = d /\ \A i \in 1..(v - 1) : s[i] = r[i]
        BY <4>1
      <4> HIDE DEF s
      <4>4. Len(s) = v
        BY <3>1, <4>2
      <4> QED BY <4>3, <4>4
    <3>5. s \in [1..v -> DOMAIN preds]
      BY <2>3, <3>1, <3>3 DEF Linked
    <3> HIDE DEF s
    <3>6. Linked(preds, s)
      <4>1. ASSUME NEW i \in 1..v, i > 1 PROVE s[i - 1] \in preds[s[i]]
        <5>1. CASE i = v
          BY <3>1, <3>2, <3>3, <3>4, <4>1, <5>1
        <5>2. CASE i # v
          <6>1. i \in 1..(v - 1) /\ i - 1 \in 1..(v - 1)
            BY <3>1, <4>1, <5>2
          <6> QED BY <3>3, <3>4, <4>1, <6>1 DEF Linked
        <5> QED BY <5>1, <5>2
      <4> QED BY <3>1, <3>4, <3>5, <4>1 DEF Linked
    <3>7. \A i \in 1..v : s[i] \in waves[i]
      <4> SUFFICES ASSUME NEW i \in 1..v PROVE s[i] \in waves[i]
        OBVIOUS
      <4>1. i = v \/ i \in 1..(v - 1)
        BY <3>1
      <4> QED BY <2>2, <3>3, <3>4, <4>1
    <3>8. Leads(s, v, d)
      BY <3>4, <3>6, <3>7
    <3> QED BY <2>2, <3>8
  <2> QED BY <1>1, <2>3, <2>4, <2>5
<1>3. \E s : Leads(s, w, c)
  BY <1>2
<1> QED BY <1>3

\* A child's wave is the length of the longest chain that ends in it.
LEMMA WaveIsLongest ==
    ASSUME NEW preds, IsFiniteSet(DOMAIN preds), NEW waves, Layered(preds, waves),
           NEW w \in DOMAIN waves, NEW c \in waves[w]
    PROVE  Longest(preds, c) = w
<1> DEFINE Lengths == {Len(s) : s \in Chains(preds, c)}
<1>1. w \in Nat
  BY LayerFacts
<1>2. \A n \in Lengths : n \in Nat /\ n <= w
  <2> SUFFICES ASSUME NEW s \in Chains(preds, c) PROVE Len(s) \in Nat /\ Len(s) <= w
    OBVIOUS
  <2>1. Linked(preds, s) /\ s[Len(s)] = c
    BY ChainCases
  <2> QED BY <2>1, ChainClimbs DEF Linked
<1>3. w \in Lengths
  <2>1. PICK s : /\ Linked(preds, s) /\ Len(s) = w /\ s[w] = c
                 /\ \A i \in 1..w : s[i] \in waves[i]
    BY ChainReaches
  <2>2. \A i, j \in 1..w : i # j => s[i] # s[j]
    <3>1. 1..w \subseteq DOMAIN waves
      BY <1>1, LayerFacts
    <3> QED BY <2>1, <3>1, LayerFacts
  <2>3. s \in Chains(preds, c)
    BY <2>1, <2>2, ChainCases
  <2> QED BY <2>1, <2>3
<1>4. Max(Lengths) = w
  <2> HIDE DEF Lengths
  <2>1. \A y \in Lengths : w >= y
    BY <1>1, <1>2
  <2>2. ASSUME NEW x \in Lengths, \A y \in Lengths : x >= y PROVE x = w
    BY <1>1, <1>2, <1>3, <2>2
  <2> QED BY <1>3, <2>1, <2>2 DEF Max
<1> QED BY <1>4 DEF Longest

\* On a cycle: a chain leads from a child it blocks back to it.
Circular(preds) ==
    {c \in DOMAIN preds : \E s \in Chains(preds, c) : c \in preds[s[1]]}

\* What is placed neither is on a cycle nor waits for one ...
LEMMA PlacedNotStuck ==
    ASSUME NEW preds, IsFiniteSet(DOMAIN preds), NEW waves, Layered(preds, waves)
    PROVE  Members(waves) \cap Stuck(preds) = {}
<1>1. ASSUME NEW w \in DOMAIN waves, NEW c \in waves[w], NEW s \in Chains(preds, c)
      PROVE  \E v \in 1..w : v \in DOMAIN waves /\ s[1] \in waves[v]
  <2>1. Linked(preds, s) /\ s[Len(s)] = c
    BY ChainCases
  <2>2. /\ w \in Nat /\ DOMAIN waves = 1..Len(waves) /\ Len(waves) \in Nat
        /\ Len(s) \in Nat \ {0}
    BY <2>1, LayerFacts DEF Linked
  <2>3. \E v \in 1..(w - (Len(s) - 1)) : s[1] \in waves[v]
    BY <2>1, ChainClimbs
  <2> QED BY <2>2, <2>3
<1>2. ASSUME NEW c \in Members(waves) PROVE c \notin Circular(preds)
  <2> SUFFICES ASSUME c \in Circular(preds) PROVE FALSE
    OBVIOUS
  <2>1. PICK w \in DOMAIN waves : c \in waves[w]
    BY DEF Members
  <2>2. PICK s \in Chains(preds, c) : c \in preds[s[1]]
    BY DEF Circular
  <2>3. PICK v \in 1..w : v \in DOMAIN waves /\ s[1] \in waves[v]
    BY <1>1, <2>1
  <2>4. PICK u \in 1..(v - 1) : c \in waves[u]
    BY <2>2, <2>3, LayerFacts
  <2>5. u \in DOMAIN waves /\ u # w
    BY <2>1, <2>3, <2>4, LayerFacts
  <2> QED BY <2>1, <2>4, <2>5, LayerFacts
<1>3. ASSUME NEW c \in Members(waves), c \in Stuck(preds) PROVE FALSE
  <2>1. PICK w \in DOMAIN waves : c \in waves[w]
    BY DEF Members
  <2>2. PICK s \in Chains(preds, c) : s[1] \in Circular(preds)
    BY <1>3 DEF Stuck, Circular
  <2>3. s[1] \in Members(waves)
    BY <1>1, <2>1 DEF Members
  <2> QED BY <1>2, <2>2, <2>3
<1> QED BY <1>3

\* ... and what is left is one or the other: going back from blocker to
\* blocker among those left comes round at last.
LEMMA LeftIsStuck ==
    ASSUME NEW preds, IsFiniteSet(DOMAIN preds),
           \A d \in DOMAIN preds : preds[d] \subseteq DOMAIN preds,
           NEW waves, Layered(preds, waves), Front(preds, Members(waves)) = {},
           NEW c \in DOMAIN preds \ Members(waves)
    PROVE  c \in Stuck(preds)
<1> DEFINE Left == DOMAIN preds \ Members(waves)
           Seen(s) == {s[i] : i \in 1..Len(s)}
           Back == {s \in Chains(preds, c) : Seen(s) \subseteq Left}
           Unseen == {Left \ Seen(s) : s \in Back}
<1>1. \A d \in Left : \E b \in preds[d] : b \in Left
  BY DEF Front
<1>2. Back # {}
  <2> DEFINE s == [i \in 1..1 |-> c]
  <2>1. Len(s) = 1 /\ s[1] = c /\ s \in [1..1 -> DOMAIN preds]
    OBVIOUS
  <2> HIDE DEF s
  <2>2. Linked(preds, s) /\ \A i, j \in 1..Len(s) : i # j => s[i] # s[j]
    BY <2>1 DEF Linked
  <2>3. s \in Chains(preds, c)
    BY <2>1, <2>2, ChainCases
  <2> QED BY <2>1, <2>3
<1>3. PICK s \in Back :
        \A r \in Back : Left \ Seen(r) \subseteq Left \ Seen(s)
                            => Left \ Seen(r) = Left \ Seen(s)
  <2>1. IsFiniteSet(Left) /\ Unseen \subseteq SUBSET Left /\ Unseen # {}
    <3>1. IsFiniteSet(Left)
      <4>1. Left \in SUBSET DOMAIN preds
        OBVIOUS
      <4> HIDE DEF Left
      <4> QED BY <4>1, FS_Subset
    <3>2. Unseen \subseteq SUBSET Left
      OBVIOUS
    <3>3. Unseen # {}
      <4>1. PICK s : s \in Back
        <5> HIDE DEF Back
        <5> QED BY <1>2
      <4>2. Left \ Seen(s) \in Unseen
        BY <4>1
      <4> QED BY <4>2
    <3> HIDE DEF Unseen, Left
    <3> QED BY <3>1, <3>2, <3>3
  <2>2. PICK X \in Unseen : \A Y \in Unseen : Y \subseteq X => Y = X
    <3> HIDE DEF Unseen, Left
    <3> QED BY <2>1, Smallest
  <2>3. PICK r \in Back : X = Left \ Seen(r)
    OBVIOUS
  <2>4. \A q \in Back : Left \ Seen(q) \in Unseen
    OBVIOUS
  <2> HIDE DEF Back, Left, Seen, Unseen
  <2>5. ASSUME NEW q \in Back, Left \ Seen(q) \subseteq Left \ Seen(r)
        PROVE  Left \ Seen(q) = Left \ Seen(r)
    <3>1. Left \ Seen(q) \subseteq X
      BY <2>3, <2>5
    <3> QED BY <2>2, <2>3, <2>4, <3>1
  <2> QED BY <2>5
<1> DEFINE n == Len(s)
<1>4. /\ Linked(preds, s) /\ s[n] = c
      /\ \A i, j \in 1..n : i # j => s[i] # s[j]
      /\ Seen(s) \subseteq Left
  BY <1>3, ChainCases
<1>5. n \in Nat \ {0} /\ s \in [1..n -> DOMAIN preds]
  BY <1>4 DEF Linked
<1>6. PICK p \in preds[s[1]] : p \in Left
  BY <1>1, <1>4, <1>5
<1>7. PICK i \in 1..n : p = s[i]
  <2> SUFFICES ASSUME p \notin Seen(s) PROVE FALSE
    OBVIOUS
  <2> DEFINE r == [j \in 1..(n + 1) |-> IF j = 1 THEN p ELSE s[j - 1]]
  <2>1. /\ DOMAIN r = 1..(n + 1) /\ r[1] = p
        /\ \A j \in 1..n : r[j + 1] = s[j]
    BY <1>5
  <2>2. r \in [1..(n + 1) -> DOMAIN preds]
    BY <1>5, <1>6
  <2> HIDE DEF r
  <2>3. Len(r) = n + 1
    BY <1>5, <2>1
  <2>4. \A j \in 1..(n + 1) : j = 1 \/ (j - 1 \in 1..n /\ r[j] = s[j - 1])
    BY <1>5, <2>1
  <2>5. Linked(preds, r)
    <3>1. ASSUME NEW j \in 1..(n + 1), j > 1 PROVE r[j - 1] \in preds[r[j]]
      <4>1. CASE j = 2
        BY <1>5, <1>6, <2>1, <2>4, <4>1
      <4>2. CASE j # 2
        <5>1. j - 1 \in 1..n /\ j - 1 > 1 /\ j - 1 \in 1..(n + 1) /\ j - 1 # 1
          BY <1>5, <3>1, <4>2
        <5>2. r[j] = s[j - 1] /\ r[j - 1] = s[(j - 1) - 1]
          BY <2>4, <5>1, <3>1
        <5> QED BY <1>4, <5>1, <5>2 DEF Linked
      <4> QED BY <4>1, <4>2
    <3> QED BY <1>5, <2>2, <2>3, <3>1 DEF Linked
  <2>6. r[n + 1] = c
    BY <1>4, <1>5, <2>1
  <2>7. \A j, k \in 1..(n + 1) : j # k => r[j] # r[k]
    <3>1. \A j \in 1..n : s[j] # p
      OBVIOUS
    <3> QED BY <1>4, <1>5, <2>1, <2>4, <3>1
  <2>8. r \in Chains(preds, c)
    BY <2>3, <2>5, <2>6, <2>7, ChainCases
  <2>9. Seen(r) = Seen(s) \cup {p}
    <3>1. \A j \in 1..n : j + 1 \in 1..(n + 1) /\ r[j + 1] = s[j]
      BY <1>5, <2>1
    <3>2. 1 \in 1..(n + 1)
      BY <1>5
    <3> QED BY <2>1, <2>3, <2>4, <3>1, <3>2
  <2>10. r \in Back
    BY <1>4, <1>6, <2>8, <2>9
  <2> QED BY <1>3, <1>6, <2>9, <2>10
<1>8. p \in Circular(preds)
  <2> DEFINE r == [j \in 1..i |-> s[j]]
  <2>1. DOMAIN r = 1..i /\ (\A j \in 1..i : r[j] = s[j]) /\ 1..i \subseteq 1..n /\ i \in Nat \ {0}
    BY <1>5
  <2>2. r \in [1..i -> DOMAIN preds]
    BY <1>5, <2>1
  <2> HIDE DEF r
  <2>3. Len(r) = i
    BY <2>1
  <2>4. Linked(preds, r)
    <3>1. \A j \in 1..i : j > 1 => j - 1 \in 1..i
      BY <2>1
    <3> QED BY <1>4, <2>1, <2>2, <2>3, <3>1 DEF Linked
  <2>5. r[i] = p /\ r[1] = s[1] /\ \A j, k \in 1..i : j # k => r[j] # r[k]
    BY <1>4, <1>7, <2>1
  <2>6. r \in Chains(preds, p)
    BY <2>3, <2>4, <2>5, ChainCases
  <2> QED BY <1>6, <2>5, <2>6 DEF Circular
<1>9. \E r \in Chains(preds, c) : r[1] = p
  <2> DEFINE m == n - i + 1
             r == [j \in 1..m |-> s[j + (i - 1)]]
  <2>1. /\ m \in Nat \ {0} /\ DOMAIN r = 1..m
        /\ \A j \in 1..m : r[j] = s[j + (i - 1)] /\ j + (i - 1) \in 1..n
        /\ 1 + (i - 1) = i /\ m + (i - 1) = n
    BY <1>5
  <2>2. r \in [1..m -> DOMAIN preds]
    BY <1>5, <2>1
  <2> HIDE DEF r, m
  <2>3. Len(r) = m
    BY <2>1
  <2>4. Linked(preds, r)
    <3>1. ASSUME NEW j \in 1..m, j > 1 PROVE r[j - 1] \in preds[r[j]]
      <4>1. /\ j - 1 \in 1..m /\ (j - 1) + (i - 1) = (j + (i - 1)) - 1
            /\ j + (i - 1) > 1
        BY <1>5, <2>1, <3>1
      <4> QED BY <1>4, <2>1, <4>1 DEF Linked
    <3> QED BY <2>1, <2>2, <2>3, <3>1 DEF Linked
  <2>5. r[m] = c /\ r[1] = p
    <3>1. 1 \in 1..m /\ m \in 1..m
      BY <2>1
    <3> QED BY <1>4, <1>7, <2>1, <3>1
  <2>6. \A j, k \in 1..m : j # k => r[j] # r[k]
    <3>1. \A j, k \in 1..m : j # k => j + (i - 1) # k + (i - 1)
      BY <1>5, <2>1
    <3> QED BY <1>4, <2>1, <3>1
  <2>7. r \in Chains(preds, c)
    BY <2>3, <2>4, <2>5, <2>6, ChainCases
  <2> QED BY <2>5, <2>7
<1> QED BY <1>8, <1>9 DEF Stuck, Circular

\* For every graph: the waves are the chains' lengths, and what is in none
\* is stuck.
LEMMA KahnSorts ==
    ASSUME NEW preds, IsFiniteSet(DOMAIN preds),
           \A d \in DOMAIN preds : preds[d] \subseteq DOMAIN preds
    PROVE  LET waves == KahnWaves(preds)
           IN  /\ Len(waves) \in Nat /\ DOMAIN waves = 1..Len(waves)
               /\ \A w \in DOMAIN waves :
                     /\ waves[w] # {}
                     /\ waves[w] = {c \in DOMAIN preds \ Stuck(preds) : Longest(preds, c) = w}
               /\ \A c \in DOMAIN preds \ Stuck(preds) : Longest(preds, c) \in DOMAIN waves
               /\ DOMAIN preds \ Members(waves) = Stuck(preds)
<1> DEFINE waves == KahnWaves(preds)
<1>1. Layered(preds, waves) /\ Front(preds, Members(waves)) = {}
  BY KahnLayers
<1> HIDE DEF waves
<1>2. Len(waves) \in Nat /\ DOMAIN waves = 1..Len(waves)
  BY <1>1, LayerFacts
<1>3. DOMAIN preds \ Members(waves) = Stuck(preds)
  <2>1. Stuck(preds) \subseteq DOMAIN preds
    BY DEF Stuck
  <2>2. Stuck(preds) \cap Members(waves) = {}
    BY <1>1, PlacedNotStuck
  <2>3. DOMAIN preds \ Members(waves) \subseteq Stuck(preds)
    BY <1>1, LeftIsStuck
  <2> QED BY <2>1, <2>2, <2>3
<1>4. \A w \in DOMAIN waves : \A c \in waves[w] :
        c \in DOMAIN preds \ Stuck(preds) /\ Longest(preds, c) = w
  <2> SUFFICES ASSUME NEW w \in DOMAIN waves, NEW c \in waves[w]
               PROVE  c \in DOMAIN preds \ Stuck(preds) /\ Longest(preds, c) = w
    OBVIOUS
  <2>1. c \in Members(waves) /\ c \in DOMAIN preds
    BY <1>1, LayerFacts DEF Members
  <2>2. Longest(preds, c) = w
    BY <1>1, WaveIsLongest
  <2> QED BY <1>3, <2>1, <2>2
<1>5. \A c \in DOMAIN preds \ Stuck(preds) : \E w \in DOMAIN waves : c \in waves[w]
  BY <1>3 DEF Members
<1>6. \A w \in DOMAIN waves :
        /\ waves[w] # {}
        /\ waves[w] = {c \in DOMAIN preds \ Stuck(preds) : Longest(preds, c) = w}
  <2> SUFFICES ASSUME NEW w \in DOMAIN waves
               PROVE  /\ waves[w] # {}
                      /\ waves[w] = {c \in DOMAIN preds \ Stuck(preds) : Longest(preds, c) = w}
    OBVIOUS
  <2>1. waves[w] # {}
    BY <1>1 DEF Layered
  <2>2. \A c \in DOMAIN preds \ Stuck(preds) : Longest(preds, c) = w => c \in waves[w]
    BY <1>4, <1>5
  <2> QED BY <1>4, <2>1, <2>2
<1>7. \A c \in DOMAIN preds \ Stuck(preds) : Longest(preds, c) \in DOMAIN waves
  BY <1>4, <1>5
<1> QED BY <1>2, <1>3, <1>6, <1>7 DEF waves

-----------------------------------------------------------------------------
(* The tool *)

\* What the children of a launch of "the next ready wave" wait for is closed.
\* The invariant of BlockersFirst: the promise is made when the plan is read,
\* and closed issues stay closed.
ReadyInv ==
    faults = 0 =>
        \A o \in Operator : call[o].next =>
            \A c \in call[o].todo : \A b \in blockers[c] : issue[b] = "closed"

IInv == TypeOK /\ ReadyInv

\* The plan is made of some of the children and of what blocks them there.
LEMMA KnownFacts ==
    ASSUME TypeOK, NEW unread \in SUBSET Child
    PROVE  LET preds == Known(unread)
           IN  /\ DOMAIN preds = Planned /\ Planned \subseteq Child
               /\ IsFiniteSet(DOMAIN preds)
               /\ \A c \in DOMAIN preds : preds[c] \subseteq DOMAIN preds
<1>1. Planned \subseteq Child
  BY DEF Planned
<1>2. IsFiniteSet(Planned)
  BY <1>1, FS_Subset, WaveAssumption
<1> QED BY <1>1, <1>2 DEF Known

\* A wave has children of the plan only.
LEMMA PlanFacts ==
    ASSUME TypeOK, NEW unread \in SUBSET Child
    PROVE  LET plan == Plan(Known(unread))
           IN  /\ Len(plan) \in Nat /\ DOMAIN plan = 1..Len(plan)
               /\ \A w \in DOMAIN plan : plan[w] \subseteq Child
<1> DEFINE preds == Known(unread)
           waves == KahnWaves(preds)
           rest == DOMAIN preds \ Members(waves)
<1>1. DOMAIN preds \subseteq Child /\ IsFiniteSet(DOMAIN preds)
  BY KnownFacts
<1>2. Layered(preds, waves)
  BY <1>1, KahnLayers
<1>3. kind = "jira" \/ kind = "github"
  BY DEF TypeOK
<1>4. waves \in Seq(SUBSET Child) /\ rest \subseteq Child
  BY <1>1, <1>2 DEF Layered, Waves
<1> HIDE DEF waves, rest
<1>5. Append(waves, rest) \in Seq(SUBSET Child) /\ <<>> \in Seq(SUBSET Child)
  BY <1>4
<1>6. Plan(preds) = IF rest = {} THEN waves
                    ELSE IF kind = "jira" THEN Append(waves, rest) ELSE <<>>
  BY DEF Plan, waves, rest
<1>7. Plan(preds) \in {waves, Append(waves, rest), <<>>}
  BY <1>3, <1>6
<1>8. Plan(preds) \in Seq(SUBSET Child)
  BY <1>4, <1>5, <1>7
<1> QED BY <1>8

LEMMA InitWave == Init => IInv
<1> SUFFICES ASSUME Init PROVE IInv
  OBVIOUS
<1>1. TypeOK
  <2>1. 0 \in 0..MaxLive /\ 0 \in 0..MaxFaults
    BY WaveAssumption
  <2>2. blockers \in [Child -> SUBSET Child]
    BY WaveAssumption DEF Init
  <2> QED BY <2>1, <2>2 DEF Init, TypeOK, Idle
<1>2. ReadyInv
  BY DEF Init, ReadyInv, Idle
<1> QED BY <1>1, <1>2 DEF IInv

\* A launch asks for children of the plan.
LEMMA LaunchTyped ==
    ASSUME TypeOK, NEW o \in Operator, NEW unread \in SUBSET Child,
           NEW todo \in SUBSET Child, NEW next \in BOOLEAN,
           faults + Cardinality(unread) <= MaxFaults, Launch(o, unread, todo, next)
    PROVE  /\ TypeOK'
           /\ faults' = 0 => faults = 0 /\ unread = {}
           /\ \A p \in Operator : call'[p] = IF p = o THEN Pending(todo, next) ELSE call[p]
<1>1. IsFiniteSet(unread) /\ Cardinality(unread) \in Nat
  BY FS_Subset, FS_CardinalityType, WaveAssumption
<1>2. faults \in Nat /\ faults' = faults + Cardinality(unread)
  BY WaveAssumption DEF TypeOK, Launch
<1>3. faults' \in 0..MaxFaults
  BY <1>1, <1>2, WaveAssumption
<1>4. faults' = 0 => faults = 0 /\ unread = {}
  BY <1>1, <1>2, FS_EmptySet
<1>5. Pending(todo, next) \in [todo : SUBSET Child, next : BOOLEAN]
  BY DEF Pending
<1> QED BY <1>3, <1>4, <1>5 DEF TypeOK, Launch

\* The next ready wave: what a child of it waits for is closed.  In Jira that
\* is the tool's own question; in GitHub every wave counts as ready, so it is
\* the first, whose children wait for nobody who is planned, and only closed
\* issues are not.
LEMMA NextWaveReady ==
    ASSUME TypeOK, NEW w \in DOMAIN Plan(Known({})),
           LET ready == {v \in DOMAIN Plan(Known({})) :
                            Ready(Known({}), Plan(Known({}))[v])}
           IN  w = Min(ready) /\ ready # {},
           NEW c \in Plan(Known({}))[w], NEW b \in blockers[c]
    PROVE  issue[b] = "closed"
<1> DEFINE preds == Known({})
           plan == Plan(preds)
           waves == KahnWaves(preds)
           ready == {v \in DOMAIN plan : Ready(preds, plan[v])}
<1>1. {} \in SUBSET Child
  OBVIOUS
<1>2. /\ DOMAIN preds = Planned /\ IsFiniteSet(DOMAIN preds)
      /\ \A d \in DOMAIN preds : preds[d] \subseteq DOMAIN preds
  BY <1>1, KnownFacts
<1>3. \A d \in Planned : preds[d] = blockers[d] \cap Planned
  BY DEF Known
<1>4. Len(plan) \in Nat /\ DOMAIN plan = 1..Len(plan) /\ c \in Child
  BY <1>1, PlanFacts
<1>5. b \in Child
  BY <1>4 DEF TypeOK
<1> HIDE DEF plan, preds, waves
<1>6. ready \subseteq 1..Len(plan) /\ ready # {} /\ w = Min(ready)
  BY <1>4 DEF plan, preds
<1>7. w \in ready /\ \A v \in ready : w <= v
  <2> HIDE DEF ready
  <2>1. ready \in SUBSET Nat
    BY <1>4, <1>6
  <2>2. \E v \in ready : \A u \in ready : v <= u
    BY <1>6, <2>1, Least
  <2> QED BY <1>6, <2>2 DEF Min
<1>8. CASE kind = "jira"
  <2>1. Planned = Child /\ preds[c] = blockers[c]
    BY <1>3, <1>4, <1>5, <1>8 DEF Planned, TypeOK
  <2>2. \A d \in plan[w] : \A x \in preds[d] : issue[x] = "closed"
    BY <1>7, <1>8 DEF Ready
  <2> QED BY <2>1, <2>2 DEF plan, preds
<1>9. CASE kind = "github"
  <2>1. ready = DOMAIN plan
    BY <1>9 DEF Ready
  <2>2. w = 1 /\ 1 \in DOMAIN plan
    <3>1. ready = 1..Len(plan)
      BY <1>4, <2>1
    <3> HIDE DEF ready
    <3>2. 1 \in ready
      BY <1>4, <1>6, <3>1
    <3>3. w <= 1 /\ w \in 1..Len(plan)
      BY <1>7, <3>1, <3>2
    <3> QED BY <1>4, <3>1, <3>2, <3>3
  <2>3. plan = waves
    <3>1. plan # <<>>
      BY <1>4, <2>2
    <3> QED BY <1>9, <3>1 DEF Plan, plan, waves
  <2>4. Layered(preds, waves)
    BY <1>2, KahnLayers DEF waves
  <2>5. waves[1] = Front(preds, Before(waves, 1))
    BY <2>2, <2>3, <2>4 DEF Layered
  <2>6. Before(waves, 1) = {}
    BY DEF Before
  <2>7. c \in DOMAIN preds /\ preds[c] = {}
    <3>1. c \in waves[1]
      BY <2>2, <2>3 DEF plan, preds
    <3> QED BY <2>5, <2>6, <3>1 DEF Front
  <2>8. b \notin Planned
    BY <1>2, <1>3, <2>7
  <2> QED BY <1>5, <1>9, <2>8 DEF Planned
<1> QED BY <1>8, <1>9 DEF TypeOK

LEMMA NextWave == IInv /\ [Next]_vars => IInv'
<1> SUFFICES ASSUME IInv, [Next]_vars PROVE IInv'
  OBVIOUS
<1>1. TypeOK /\ ReadyInv
  BY DEF IInv
<1>2. faults \in Nat /\ MaxFaults \in Nat /\ MaxLive \in Nat
  BY <1>1, WaveAssumption DEF TypeOK
<1>3. ASSUME NEW o \in Operator, NEW unread \in SUBSET Child, LaunchWave(o, unread)
      PROVE  IInv'
  <2> DEFINE plan == Plan(Known(unread))
  <2>1. PICK w \in DOMAIN plan : \E todo \in SUBSET plan[w] : Launch(o, unread, todo, FALSE)
    BY <1>3 DEF LaunchWave
  <2>2. PICK todo \in SUBSET plan[w] : Launch(o, unread, todo, FALSE)
    BY <2>1
  <2>3. todo \subseteq Child /\ FALSE \in BOOLEAN
    BY <1>1, PlanFacts
  <2>4. faults + Cardinality(unread) <= MaxFaults
    BY <1>3 DEF LaunchWave
  <2>5. /\ TypeOK' /\ (faults' = 0 => faults = 0)
        /\ \A p \in Operator : call'[p] = IF p = o THEN Pending(todo, FALSE) ELSE call[p]
    BY <1>1, <2>2, <2>3, <2>4, LaunchTyped
  <2>6. UNCHANGED <<blockers, issue>>
    BY <2>2 DEF Launch
  <2>7. ReadyInv'
    <3> SUFFICES ASSUME faults' = 0, NEW p \in Operator, call'[p].next,
                        NEW c \in call'[p].todo, NEW b \in blockers'[c]
                 PROVE  issue'[b] = "closed"
      BY DEF ReadyInv
    <3>1. p # o
      <4>1. ~Pending(todo, FALSE).next
        BY DEF Pending
      <4>2. p = o => call'[p] = Pending(todo, FALSE)
        BY <2>5
      <4> QED BY <4>1, <4>2
    <3> QED BY <1>1, <2>5, <2>6, <3>1 DEF ReadyInv
  <2> QED BY <2>5, <2>7 DEF IInv
<1>4. ASSUME NEW o \in Operator, NEW unread \in SUBSET Child, LaunchNext(o, unread)
      PROVE  IInv'
  <2> DEFINE plan == Plan(Known(unread))
             ready == {v \in DOMAIN plan : Ready(Known(unread), plan[v])}
  <2>1. ready # {} /\ faults + Cardinality(unread) <= MaxFaults
    BY <1>4 DEF LaunchNext
  <2>2. PICK todo \in SUBSET plan[Min(ready)] : Launch(o, unread, todo, TRUE)
    BY <1>4 DEF LaunchNext
  <2>3. Len(plan) \in Nat /\ DOMAIN plan = 1..Len(plan) /\ \A w \in DOMAIN plan : plan[w] \subseteq Child
    BY <1>1, PlanFacts
  <2>4. Min(ready) \in DOMAIN plan
    <3>1. ready \in SUBSET Nat /\ ready \subseteq DOMAIN plan
      BY <2>3
    <3> HIDE DEF ready, plan
    <3>2. \E v \in ready : \A u \in ready : v <= u
      BY <2>1, <3>1, Least
    <3>3. Min(ready) \in ready
      BY <3>2 DEF Min
    <3> QED BY <3>1, <3>3
  <2>5. todo \subseteq Child /\ TRUE \in BOOLEAN
    BY <2>3, <2>4
  <2>6. /\ TypeOK' /\ (faults' = 0 => faults = 0 /\ unread = {})
        /\ \A p \in Operator : call'[p] = IF p = o THEN Pending(todo, TRUE) ELSE call[p]
    BY <1>1, <2>1, <2>2, <2>5, LaunchTyped
  <2>7. UNCHANGED <<blockers, issue>>
    BY <2>2 DEF Launch
  <2>8. unread = {} => \A c \in todo : \A b \in blockers[c] : issue[b] = "closed"
    <3> SUFFICES ASSUME unread = {}, NEW c \in todo, NEW b \in blockers[c]
                 PROVE  issue[b] = "closed"
      OBVIOUS
    <3> DEFINE w == Min(ready)
    <3>1. w \in DOMAIN Plan(Known({})) /\ c \in Plan(Known({}))[w]
      BY <2>2, <2>4
    <3>2. LET front == {v \in DOMAIN Plan(Known({})) : Ready(Known({}), Plan(Known({}))[v])}
          IN  w = Min(front) /\ front # {}
      BY <2>1
    <3> HIDE DEF w
    <3> QED BY <1>1, <3>1, <3>2, NextWaveReady
  <2>9. ReadyInv'
    <3> SUFFICES ASSUME faults' = 0, NEW p \in Operator, call'[p].next,
                        NEW c \in call'[p].todo, NEW b \in blockers'[c]
                 PROVE  issue'[b] = "closed"
      BY DEF ReadyInv
    <3> HIDE DEF ready, plan
    <3>1. CASE p = o
      <4>1. call'[p].todo = todo
        <5>1. Pending(todo, TRUE).todo = todo
          BY DEF Pending
        <5>2. call'[p] = Pending(todo, TRUE)
          BY <2>6, <3>1
        <5> QED BY <5>1, <5>2
      <4> QED BY <2>6, <2>7, <2>8, <4>1
    <3>2. CASE p # o
      BY <1>1, <2>6, <2>7, <3>2 DEF ReadyInv
    <3> QED BY <3>1, <3>2
  <2> QED BY <2>6, <2>9 DEF IInv
<1>5. ASSUME NEW o \in Operator, NEW c \in Child, Start(o, c) \/ StartFails(o, c)
      PROVE  IInv'
  <2> DEFINE less == Pending(call[o].todo \ {c}, call[o].next)
  <2>1. /\ call' = [call EXCEPT ![o] = less]
        /\ UNCHANGED <<kind, blockers, issue>>
    BY <1>5 DEF Start, StartFails
  <2>2. less \in [todo : SUBSET Child, next : BOOLEAN]
    BY <1>1 DEF TypeOK, Pending
  <2>3. less.todo \subseteq call[o].todo /\ (less.next => call[o].next)
    BY DEF Pending
  <2> HIDE DEF less
  <2>4. /\ live' \in [Child -> 0..MaxLive] /\ faults' \in 0..MaxFaults
        /\ faults' = 0 => faults = 0
    BY <1>1, <1>2, <1>5 DEF Start, StartFails, TypeOK
  <2>5. TypeOK'
    BY <1>1, <2>1, <2>2, <2>4 DEF TypeOK
  <2>6. \A p \in Operator : /\ call'[p].todo \subseteq call[p].todo
                            /\ call'[p].next => call[p].next
    BY <1>1, <2>1, <2>3 DEF TypeOK
  <2>7. ReadyInv'
    BY <1>1, <2>1, <2>4, <2>6 DEF ReadyInv
  <2> QED BY <2>5, <2>7 DEF IInv
<1>6. ASSUME NEW c \in Child, Completes(c) \/ Fails(c) \/ Close(c)
      PROVE  IInv'
  <2>1. UNCHANGED <<kind, blockers, call, faults>>
    BY <1>6 DEF Completes, Fails, Close
  <2>2. live' \in [Child -> 0..MaxLive]
    BY <1>1, <1>2, <1>6 DEF Completes, Fails, Close, TypeOK
  <2>3. /\ issue' \in [Child -> {"open", "delivered", "closed"}]
        /\ \A b \in Child : issue[b] = "closed" => issue'[b] = "closed"
    BY <1>1, <1>6 DEF Completes, Fails, Close, TypeOK
  <2>4. TypeOK'
    BY <1>1, <2>1, <2>2, <2>3 DEF TypeOK
  <2>5. ReadyInv'
    BY <1>1, <2>1, <2>3 DEF ReadyInv, TypeOK
  <2> QED BY <2>4, <2>5 DEF IInv
<1>7. CASE UNCHANGED vars
  BY <1>1, <1>7 DEF vars, IInv, TypeOK, ReadyInv
<1> QED BY <1>3, <1>4, <1>5, <1>6, <1>7 DEF Next

\* The invariant behind the promises of this module.
THEOREM Inductive == Spec => []IInv
BY InitWave, NextWave, PTL DEF Spec

\* The tool and the people around it keep everything well typed.
THEOREM TypeCorrect == Spec => []TypeOK
<1>1. IInv => TypeOK
  BY DEF IInv
<1> QED BY <1>1, Inductive, PTL

\* For every set of children and every way in which they block one another,
\* at any time: the plan sorts them by the longest chain of blockers, and what
\* a cycle blocks fails the plan or makes its last wave.
THEOREM PlansAreLayered == Spec => []PlanIsLayered
<1>1. ASSUME TypeOK PROVE PlanIsLayered
  <2> DEFINE preds == Known({})
             plan == Plan(preds)
             stuck == Stuck(preds)
             waves == KahnWaves(preds)
             rest == DOMAIN preds \ Members(waves)
  <2>1. {} \in SUBSET Child
    OBVIOUS
  <2>2. /\ DOMAIN preds = Planned /\ IsFiniteSet(DOMAIN preds)
        /\ \A d \in DOMAIN preds : preds[d] \subseteq DOMAIN preds
    BY <1>1, <2>1, KnownFacts
  <2> HIDE DEF preds
  <2>3. /\ Len(waves) \in Nat /\ DOMAIN waves = 1..Len(waves)
        /\ \A w \in DOMAIN waves :
              /\ waves[w] # {}
              /\ waves[w] = {c \in Planned \ stuck : Longest(preds, c) = w}
        /\ \A c \in Planned \ stuck : Longest(preds, c) \in DOMAIN waves
        /\ rest = stuck
    BY <2>2, KahnSorts
  <2>4. waves \in Seq(SUBSET DOMAIN preds)
    BY <2>2, KahnLayers DEF Layered, Waves
  <2>5. rest \subseteq DOMAIN preds
    OBVIOUS
  <2>6. plan = IF rest = {} THEN waves
               ELSE IF kind = "jira" THEN Append(waves, rest) ELSE <<>>
    BY DEF Plan
  <2>7. kind = "jira" \/ kind = "github"
    BY <1>1 DEF TypeOK
  <2> DEFINE Sorted(p) ==
        \A w \in 1..Cardinality(Child) :
            \/ /\ w \in DOMAIN p
               /\ p[w] = {c \in Planned \ stuck : Longest(preds, c) = w}
               /\ p[w] # {}
            \/ /\ w = Len(p)
               /\ p[w] = stuck
               /\ stuck # {}
            \/ /\ w > Len(p)
               /\ \A c \in Planned \ stuck : Longest(preds, c) # w
  <2> HIDE DEF stuck, waves, rest
  <2>8. Cardinality(Child) \in Nat
    BY FS_CardinalityType, WaveAssumption
  <2>9. CASE stuck = {}
    <3>1. plan = waves
      BY <2>3, <2>6, <2>9
    <3> HIDE DEF plan
    <3>2. ASSUME NEW w \in 1..Cardinality(Child), w \in DOMAIN waves
          PROVE  /\ waves[w] = {c \in Planned \ stuck : Longest(preds, c) = w}
                 /\ waves[w] # {}
      BY <2>3, <3>2
    <3>3. ASSUME NEW w \in 1..Cardinality(Child), w \notin DOMAIN waves
          PROVE  /\ w > Len(waves)
                 /\ \A c \in Planned \ stuck : Longest(preds, c) # w
      <4>1. w > Len(waves)
        BY <2>3, <2>8, <3>3
      <4> QED BY <2>3, <3>3, <4>1
    <3>4. Sorted(waves)
      BY <3>2, <3>3
    <3> QED BY <2>9, <3>1, <3>4 DEF PlanIsLayered, preds, stuck, plan
  <2>10. CASE stuck # {} /\ kind = "jira"
    <3>1. plan = Append(waves, rest)
      BY <2>3, <2>6, <2>10
    <3>2. /\ Len(plan) = Len(waves) + 1 /\ DOMAIN plan = 1..(Len(waves) + 1)
          /\ plan[Len(waves) + 1] = stuck
          /\ \A w \in 1..Len(waves) : plan[w] = waves[w]
      BY <2>3, <2>4, <2>5, <3>1
    <3> HIDE DEF plan
    <3>3. Sorted(plan)
      BY <2>3, <2>8, <2>10, <3>2
    <3> QED BY <2>10, <3>3 DEF PlanIsLayered, preds, stuck, plan
  <2>11. CASE stuck # {} /\ kind = "github"
    <3>1. plan = <<>>
      BY <2>3, <2>6, <2>11
    <3> QED BY <2>11, <3>1 DEF PlanIsLayered, preds, stuck
  <2> QED BY <2>7, <2>9, <2>10, <2>11
<1> QED BY <1>1, TypeCorrect, PTL

\* A launch of the next ready wave starts a child only when all that blocks it
\* is closed, for any number of operators launching at once and whatever is
\* closed or completed in between.
THEOREM BlockersClosed == Spec => BlockersFirst
<1> DEFINE A == faults' = 0 =>
                  \A o \in Operator, c \in Child :
                      Start(o, c) /\ call[o].next =>
                          \A b \in blockers[c] : issue[b] = "closed"
<1>1. ASSUME IInv PROVE A
  <2> SUFFICES ASSUME faults' = 0, NEW o \in Operator, NEW c \in Child,
                      Start(o, c), call[o].next
               PROVE  \A b \in blockers[c] : issue[b] = "closed"
    OBVIOUS
  <2>1. c \in call[o].todo /\ faults = 0
    BY DEF Start
  <2> QED BY <1>1, <2>1 DEF IInv, ReadyInv
<1>2. IInv /\ [Next]_vars => [A]_vars
  BY <1>1
<1>3. Spec => [][A]_vars
  BY <1>2, Inductive, PTL DEF Spec
<1> QED BY <1>3 DEF BlockersFirst
=============================================================================
