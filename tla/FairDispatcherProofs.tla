------------------------ MODULE FairDispatcherProofs ------------------------
(***************************************************************************)
(* Proofs about FairDispatcher, for any number of tasks, correlations and  *)
(* slots.  The invariant adds to the accounting what the list of waiters   *)
(* holds: tasks that wait, are not admitted, and stand in it once.         *)
(***************************************************************************)
EXTENDS FairDispatcher, FiniteSetTheorems, WellFoundedInduction, TLAPS

USE DispatcherAssumption

\* n counts the tasks of S by correlation.
Counts(n, S) ==
    /\ n \in [Correlation -> Nat]
    /\ \A c \in Correlation : n[c] = Cardinality({t \in S : CorrOf[t] = c})

\* s has no task twice.
Distinct(s) == \A i, j \in 1..Len(s) : s[i] = s[j] => i = j

Listed(s) == {s[i] : i \in 1..Len(s)}

WaitersInv ==
    /\ Distinct(waiters)
    /\ \A t \in Listed(waiters) : pc[t] \in Waiting /\ t \notin admitted
    /\ \A t \in admitted : pc[t] \in Waiting

IInv == TypeOK /\ SlotsAccounted /\ CapHolds /\ WaitersInv

-----------------------------------------------------------------------------
(* The operators *)

\* removeWaiter takes out one task and keeps the others, each once.
LEMMA RemoveWaiterOK ==
    ASSUME NEW s \in Seq(Task), NEW t \in Task, Distinct(s)
    PROVE  /\ RemoveWaiter(s, t) \in Seq(Task)
           /\ Distinct(RemoveWaiter(s, t))
           /\ Listed(RemoveWaiter(s, t)) = Listed(s) \ {t}
<1>1. CASE ~ \E i \in 1..Len(s) : s[i] = t
  BY <1>1 DEF RemoveWaiter, Listed
<1>2. CASE \E i \in 1..Len(s) : s[i] = t
  <2> DEFINE k == CHOOSE i \in 1..Len(s) : s[i] = t
             r == [j \in 1..(Len(s) - 1) |-> IF j < k THEN s[j] ELSE s[j + 1]]
  <2>1. k \in 1..Len(s) /\ s[k] = t
    BY <1>2
  <2>2. RemoveWaiter(s, t) = r
    BY <1>2 DEF RemoveWaiter
  <2> HIDE DEF k
  <2>3. Len(s) \in Nat /\ Len(s) - 1 \in Nat
    BY <2>1
  <2>4. r \in [1..(Len(s) - 1) -> Task]
    BY <2>1, <2>3
  <2>5. r \in Seq(Task) /\ Len(r) = Len(s) - 1
    BY <2>3, <2>4
  <2>6. Distinct(r)
    BY <2>1, <2>3, <2>5 DEF Distinct
  <2>7. Listed(r) = Listed(s) \ {t}
    <3>1. ASSUME NEW x \in Listed(r) PROVE x \in Listed(s) \ {t}
      BY <2>1, <2>3, <2>5 DEF Listed, Distinct
    <3>2. ASSUME NEW x \in Listed(s) \ {t} PROVE x \in Listed(r)
      <4>1. PICK i \in 1..Len(s) : s[i] = x
        BY DEF Listed
      <4>2. i # k
        BY <4>1, <2>1
      <4>3. CASE i < k
        <5>1. i \in 1..Len(r) /\ r[i] = x
          BY <4>1, <4>3, <2>1, <2>3, <2>5
        <5> QED BY <5>1 DEF Listed
      <4>4. CASE i > k
        <5>1. (i - 1) \in 1..Len(r) /\ r[i - 1] = x
          BY <4>1, <4>4, <2>1, <2>3, <2>5
        <5> QED BY <5>1 DEF Listed
      <4> QED BY <4>2, <4>3, <4>4, <2>1
    <3> QED BY <3>1, <3>2
  <2> QED BY <2>2, <2>5, <2>6, <2>7
<1> QED BY <1>1, <1>2

\* A non-empty set of positions has a first one: take a minimal one of its
\* initial segments, which strict inclusion orders well.
LEMMA FirstPosition ==
    ASSUME NEW n \in Nat, NEW S, S \subseteq 1..n, S # {}
    PROVE  \E i \in S : \A j \in S : i <= j
<1> DEFINE UpTo(i) == {j \in S : j <= i}
           Segments == {UpTo(i) : i \in S}
<1>1. IsFiniteSet(S)
  <2>1. IsFiniteSet(1..n)
    BY FS_Interval
  <2> QED BY <2>1, FS_Subset
<1>2. IsWellFoundedOn(StrictSubsetOrdering(S), SUBSET S)
  BY <1>1, FS_FiniteSubsetsOfFinite, FS_StrictSubsetOrderingWellFounded
<1>3. Segments \subseteq SUBSET S
  OBVIOUS
<1>4. \A i \in S : UpTo(i) \in Segments
  OBVIOUS
<1>5. PICK T \in Segments :
        \A U \in Segments : <<U, T>> \notin StrictSubsetOrdering(S)
  <2>1. Segments # {}
    <3> HIDE DEF UpTo, Segments
    <3> QED BY <1>4
  <2> HIDE DEF Segments
  <2> QED BY <1>2, <1>3, <2>1, WFMin
<1>6. PICK i \in S : T = UpTo(i)
  OBVIOUS
<1>7. \A k \in S : k \in Int
  OBVIOUS
<1>8. ASSUME NEW j \in S, j < i PROVE FALSE
  <2>1. UpTo(j) \subseteq UpTo(i)
    <3>1. \A k \in S : k <= j => k <= i
      BY <1>7, <1>8
    <3> QED BY <3>1
  <2>2. i \in UpTo(i) /\ i \notin UpTo(j)
    BY <1>7, <1>8
  <2>3. UpTo(j) \in SUBSET S /\ UpTo(i) \in SUBSET S
    OBVIOUS
  <2>4. <<UpTo(j), UpTo(i)>> \in StrictSubsetOrdering(S)
    <3> HIDE DEF UpTo
    <3> QED BY <2>1, <2>2, <2>3 DEF StrictSubsetOrdering
  <2> HIDE DEF Segments
  <2> QED BY <1>4, <1>5, <1>6, <2>4
<1> QED BY <1>7, <1>8

\* Sets of tasks are finite and are counted.
LEMMA TaskSets ==
    ASSUME NEW S, S \subseteq Task
    PROVE  IsFiniteSet(S) /\ Cardinality(S) \in Nat
BY FS_Subset, FS_CardinalityType

\* A share is a slot at least.
LEMMA ShareAtLeastOne ==
    ASSUME NEW held \in [Correlation -> Nat], NEW c \in Correlation
    PROVE  FairShare(held, c) \in Nat \ {0}
<1>1. /\ IsFiniteSet(Active(held, c))
      /\ Active(held, c) # {}
  BY FS_Subset DEF Active
<1>2. Cardinality(Active(held, c)) \in Nat \ {0}
  BY <1>1, FS_CardinalityType, FS_EmptySet
<1>3. Cap \div Cardinality(Active(held, c)) \in Nat
  BY <1>2
<1> QED BY <1>3 DEF FairShare

LEMMA ListedTasks == ASSUME NEW s \in Seq(Task) PROVE Listed(s) \subseteq Task
BY DEF Listed

\* One task more, one task less.
LEMMA CountsAdd ==
    ASSUME NEW n, NEW S, S \subseteq Task, Counts(n, S), NEW t \in Task \ S
    PROVE  /\ Cardinality(S \cup {t}) = Cardinality(S) + 1
           /\ Counts([n EXCEPT ![CorrOf[t]] = @ + 1], S \cup {t})
<1> DEFINE For(c) == {u \in S : CorrOf[u] = c}
           ForNew(c) == {u \in S \cup {t} : CorrOf[u] = c}
<1>1. CorrOf[t] \in Correlation /\ n \in [Correlation -> Nat]
  BY DEF Counts
<1>2. Cardinality(S \cup {t}) = Cardinality(S) + 1
  BY TaskSets, FS_AddElement
<1>3. ASSUME NEW c \in Correlation
      PROVE  [n EXCEPT ![CorrOf[t]] = @ + 1][c] = Cardinality(ForNew(c))
  <2>1. IsFiniteSet(For(c)) /\ t \notin For(c) /\ n[c] = Cardinality(For(c))
    BY TaskSets DEF Counts
  <2>2. CASE c = CorrOf[t]
    <3>1. ForNew(c) = For(c) \cup {t}
      BY <2>2
    <3> HIDE DEF For, ForNew
    <3>2. Cardinality(For(c) \cup {t}) = Cardinality(For(c)) + 1
      <4> DEFINE F == For(c)
      <4>1. IsFiniteSet(F) /\ t \notin F
        BY <2>1
      <4> HIDE DEF F
      <4>2. Cardinality(F \cup {t}) = Cardinality(F) + 1
        BY <4>1, FS_AddElement
      <4> QED BY <4>2 DEF F
    <3>3. Cardinality(ForNew(c)) = n[c] + 1
      BY <2>1, <3>1, <3>2
    <3> QED BY <1>1, <2>2, <3>3
  <2>3. CASE c # CorrOf[t]
    <3>1. ForNew(c) = For(c)
      BY <2>3
    <3> QED BY <1>1, <2>1, <2>3, <3>1
  <2> QED BY <2>2, <2>3
<1>4. [n EXCEPT ![CorrOf[t]] = @ + 1] \in [Correlation -> Nat]
  BY <1>1
<1> QED BY <1>2, <1>3, <1>4 DEF Counts

LEMMA CountsRemove ==
    ASSUME NEW n, NEW S, S \subseteq Task, Counts(n, S), NEW t \in S
    PROVE  /\ Cardinality(S \ {t}) = Cardinality(S) - 1
           /\ Counts([n EXCEPT ![CorrOf[t]] = @ - 1], S \ {t})
<1> DEFINE For(c) == {u \in S : CorrOf[u] = c}
           ForNew(c) == {u \in S \ {t} : CorrOf[u] = c}
<1>1. CorrOf[t] \in Correlation /\ n \in [Correlation -> Nat]
  BY DEF Counts
<1>2. Cardinality(S \ {t}) = Cardinality(S) - 1
  BY TaskSets, FS_RemoveElement
<1>3. ASSUME NEW c \in Correlation
      PROVE  /\ [n EXCEPT ![CorrOf[t]] = @ - 1][c] = Cardinality(ForNew(c))
             /\ Cardinality(ForNew(c)) \in Nat
  <2>1. IsFiniteSet(For(c)) /\ n[c] = Cardinality(For(c))
    BY TaskSets DEF Counts
  <2>2. Cardinality(ForNew(c)) \in Nat
    BY TaskSets
  <2>3. CASE c = CorrOf[t]
    <3>1. ForNew(c) = For(c) \ {t} /\ t \in For(c)
      BY <2>3
    <3> HIDE DEF For, ForNew
    <3>2. Cardinality(For(c) \ {t}) = Cardinality(For(c)) - 1
      <4> DEFINE F == For(c)
      <4>1. IsFiniteSet(F) /\ t \in F
        BY <2>1, <3>1
      <4> HIDE DEF F
      <4>2. Cardinality(F \ {t}) = Cardinality(F) - 1
        BY <4>1, FS_RemoveElement
      <4> QED BY <4>2 DEF F
    <3>3. Cardinality(ForNew(c)) = n[c] - 1
      BY <2>1, <3>1, <3>2
    <3> QED BY <1>1, <2>2, <2>3, <3>3
  <2>4. CASE c # CorrOf[t]
    <3>1. ForNew(c) = For(c)
      BY <2>4
    <3> QED BY <1>1, <2>1, <2>2, <2>4, <3>1
  <2> QED BY <2>3, <2>4
<1>4. [n EXCEPT ![CorrOf[t]] = @ - 1] \in [Correlation -> Nat]
  <2>1. [n EXCEPT ![CorrOf[t]] = @ - 1] \in [Correlation -> Int]
    BY <1>1
  <2>2. \A c \in Correlation : [n EXCEPT ![CorrOf[t]] = @ - 1][c] \in Nat
    BY <1>3
  <2> QED BY <2>1, <2>2
<1> QED BY <1>2, <1>3, <1>4 DEF Counts

-----------------------------------------------------------------------------
(* The steps *)

LEMMA AccountedCounts ==
    ASSUME TypeOK
    PROVE  SlotsAccounted <=> total = Cardinality(Busy) /\ Counts(inflight, Busy)
BY DEF TypeOK, SlotsAccounted, Counts

LEMMA InitIInv == Init => IInv
<1> SUFFICES ASSUME Init PROVE IInv
  OBVIOUS
<1>1. TypeOK
  <2>1. waiters \in Seq(Task)
    BY DEF Init
  <2> QED BY <2>1 DEF Init, TypeOK
<1>2. Busy = {}
  BY DEF Init, Busy, Waiting
<1>3. SlotsAccounted
  BY <1>2, FS_EmptySet DEF Init, SlotsAccounted
<1>4. CapHolds /\ WaitersInv
  BY DEF Init, CapHolds, WaitersInv, Distinct, Listed
<1> QED BY <1>1, <1>3, <1>4 DEF IInv

\* A step that moves no slot and takes nobody into the list.
LEMMA QuietStep ==
    ASSUME IInv, TypeOK', Busy' = Busy, UNCHANGED <<total, inflight>>,
           WaitersInv'
    PROVE  IInv'
BY DEF IInv, SlotsAccounted, CapHolds

LEMMA AcquireOK ==
    ASSUME IInv, NEW t \in Task, Acquire(t)
    PROVE  IInv'
<1> USE DEF IInv
<1>1. t \notin Busy /\ t \notin Listed(waiters) /\ t \notin admitted
  BY DEF Acquire, Busy, Waiting, WaitersInv
<1>2. CASE FastPath(t) /\ pc' = [pc EXCEPT ![t] = "holding"]
           /\ total' = total + 1
           /\ inflight' = [inflight EXCEPT ![CorrOf[t]] = @ + 1]
           /\ UNCHANGED <<mutex, waiters, helper, admitted, cancelled>>
  <2>1. TypeOK'
    BY <1>2 DEF TypeOK
  <2>2. Busy' = Busy \cup {t}
    BY <1>1, <1>2 DEF TypeOK, Busy
  <2>3. total' = Cardinality(Busy') /\ Counts(inflight', Busy')
    <3>1. total = Cardinality(Busy) /\ Counts(inflight, Busy)
      BY AccountedCounts
    <3>2. Busy \subseteq Task
      BY DEF Busy
    <3> QED BY <1>1, <1>2, <2>2, <3>1, <3>2, CountsAdd
  <2>4. SlotsAccounted'
    BY <2>3 DEF SlotsAccounted, Counts
  <2>5. CapHolds'
    BY <1>2 DEF FastPath, CapHolds, TypeOK
  <2>6. WaitersInv'
    BY <1>1, <1>2 DEF WaitersInv, TypeOK
  <2> QED BY <2>1, <2>4, <2>5, <2>6
<1>3. CASE pc' = [pc EXCEPT ![t] = "checking"] /\ mutex' = t
           /\ waiters' = Append(waiters, t) /\ helper' = helper \cup {t}
           /\ UNCHANGED <<total, inflight, admitted, cancelled>>
  <2>1. TypeOK'
    BY <1>3 DEF TypeOK, Waiting
  <2>2. Busy' = Busy
    BY <1>1, <1>3 DEF TypeOK, Busy, Waiting, Acquire
  <2>3. WaitersInv'
    <3>1. Distinct(waiters')
      BY <1>1, <1>3 DEF TypeOK, WaitersInv, Distinct, Listed
    <3>2. Listed(waiters') \subseteq Listed(waiters) \cup {t}
      BY <1>3 DEF TypeOK, Listed
    <3> QED BY <1>1, <1>3, <3>1, <3>2 DEF WaitersInv, TypeOK, Waiting
  <2> QED BY <1>3, <2>1, <2>2, <2>3, QuietStep
<1> QED BY <1>2, <1>3 DEF Acquire

LEMMA CheckOK ==
    ASSUME IInv, NEW t \in Task, Check(t)
    PROVE  IInv'
<1> USE DEF IInv
<1>1. pc[t] = "checking" /\ UNCHANGED <<total, inflight, cancelled>>
  BY DEF Check
<1>2. CASE t \in admitted /\ Leave(t, "holding") /\ UNCHANGED waiters
  <2>1. TypeOK'
    BY <1>1, <1>2 DEF TypeOK, Leave
  <2>2. Busy' = Busy
    BY <1>1, <1>2 DEF TypeOK, Leave, Busy, Waiting
  <2>3. WaitersInv'
    BY <1>1, <1>2 DEF TypeOK, Leave, WaitersInv
  <2> QED BY <1>1, <2>1, <2>2, <2>3, QuietStep
<1>3. CASE t \notin admitted /\ Leave(t, "gone")
           /\ waiters' = RemoveWaiter(waiters, t)
  <2>1. /\ waiters' \in Seq(Task)
        /\ Distinct(waiters')
        /\ Listed(waiters') = Listed(waiters) \ {t}
    BY <1>3, RemoveWaiterOK DEF TypeOK, WaitersInv
  <2>2. TypeOK'
    BY <1>1, <1>3, <2>1 DEF TypeOK, Leave
  <2>3. Busy' = Busy
    BY <1>1, <1>3 DEF TypeOK, Leave, Busy, Waiting
  <2>4. WaitersInv'
    BY <1>1, <1>3, <2>1 DEF TypeOK, Leave, WaitersInv
  <2> QED BY <1>1, <2>2, <2>3, <2>4, QuietStep
<1>4. CASE pc' = [pc EXCEPT ![t] = "parking"]
           /\ UNCHANGED <<mutex, helper, waiters, admitted>>
  <2>1. TypeOK'
    BY <1>1, <1>4 DEF TypeOK, Waiting
  <2>2. Busy' = Busy
    BY <1>1, <1>4 DEF TypeOK, Busy, Waiting
  <2>3. WaitersInv'
    BY <1>1, <1>4 DEF TypeOK, WaitersInv, Waiting
  <2> QED BY <1>1, <2>1, <2>2, <2>3, QuietStep
<1> QED BY <1>2, <1>3, <1>4 DEF Check, TakesAdmission

LEMMA ParkOK ==
    ASSUME IInv, NEW t \in Task, Park(t)
    PROVE  IInv'
<1> USE DEF IInv, Park
<1>1. TypeOK'
  BY DEF TypeOK, Waiting
<1>2. Busy' = Busy
  BY DEF TypeOK, Busy, Waiting
<1>3. WaitersInv'
  BY DEF TypeOK, WaitersInv, Waiting
<1> QED BY <1>1, <1>2, <1>3, QuietStep

LEMMA AwakenOK ==
    ASSUME IInv, NEW t \in Task, Awaken(t)
    PROVE  IInv'
<1> USE DEF IInv, Awaken
<1>1. TypeOK'
  BY DEF TypeOK, Waiting
<1>2. Busy' = Busy
  BY DEF TypeOK, Busy, Waiting
<1>3. WaitersInv'
  BY DEF TypeOK, WaitersInv, Waiting
<1> QED BY <1>1, <1>2, <1>3, QuietStep

LEMMA HelpOK ==
    ASSUME IInv, NEW t \in Task, Help(t)
    PROVE  IInv'
<1> USE DEF IInv, Help
<1>1. \A u \in Task : pc'[u] = IF pc[u] = "asleep" THEN "woken" ELSE pc[u]
  BY DEF Broadcast
<1>2. TypeOK'
  BY DEF TypeOK, Waiting, Broadcast
<1>3. Busy' = Busy
  BY <1>1 DEF TypeOK, Busy, Waiting
<1>4. WaitersInv'
  BY <1>1, ListedTasks DEF TypeOK, WaitersInv, Waiting
<1> QED BY <1>2, <1>3, <1>4, QuietStep

\* Whom admitOne picks stands in the list.
LEMMA PicksListed ==
    ASSUME TypeOK, NEW held, NEW i \in Picks(held)
    PROVE  /\ i \in 1..Len(waiters)
           /\ waiters[i] \in Listed(waiters)
           /\ waiters[i] \in Task
<1>1. i \in 1..Len(waiters)
  BY DEF Picks, UnderShareWaiters
<1> QED BY <1>1 DEF TypeOK, Listed

\* What release does before it looks for a waiter.
LEMMA ReleaseFacts ==
    ASSUME IInv, NEW t \in Task, pc[t] = "holding",
           NEW held, held = [inflight EXCEPT ![CorrOf[t]] = @ - 1]
    PROVE  /\ t \in Busy /\ t \notin Listed(waiters) /\ t \notin admitted
           /\ Busy \subseteq Task
           /\ Cardinality(Busy \ {t}) = total - 1
           /\ Cardinality(Busy \ {t}) \in Nat
           /\ Counts(held, Busy \ {t})
<1>1. /\ t \in Busy /\ t \notin Listed(waiters) /\ t \notin admitted
      /\ Busy \subseteq Task
  BY DEF IInv, Busy, WaitersInv, Waiting
<1>2. total = Cardinality(Busy) /\ Counts(inflight, Busy)
  BY AccountedCounts DEF IInv
<1>3. Cardinality(Busy \ {t}) \in Nat
  BY <1>1, TaskSets
<1> QED BY <1>1, <1>2, <1>3, CountsRemove

LEMMA ReleaseOK ==
    ASSUME IInv, NEW t \in Task, Release(t)
    PROVE  IInv'
<1> DEFINE held == [inflight EXCEPT ![CorrOf[t]] = @ - 1]
           where == Released(t)
<1>1. /\ pc[t] = "holding" /\ UNCHANGED <<mutex, helper, cancelled>>
      /\ where = [pc EXCEPT ![t] = "idle"]
  BY DEF Release, Released
<1>2. /\ t \in Busy /\ t \notin Listed(waiters) /\ t \notin admitted
      /\ Busy \subseteq Task
      /\ Cardinality(Busy \ {t}) = total - 1
      /\ Cardinality(Busy \ {t}) \in Nat
      /\ Counts(held, Busy \ {t})
  BY <1>1, ReleaseFacts
<1>3. CASE \E i \in Picks(held) : Admit(waiters[i], held, where)
  <2>1. PICK i \in Picks(held) : Admit(waiters[i], held, where)
    BY <1>3
  <2> DEFINE w == waiters[i]
  <2>2. w \in Listed(waiters) /\ w \in Task
    BY PicksListed DEF IInv
  <2>3. pc[w] \in Waiting /\ w \notin admitted /\ w \notin Busy
    BY <2>2 DEF IInv, WaitersInv, Busy, Waiting
  <2>4. /\ waiters' \in Seq(Task)
        /\ Distinct(waiters')
        /\ Listed(waiters') = Listed(waiters) \ {w}
    BY <2>1, <2>2, RemoveWaiterOK DEF IInv, TypeOK, WaitersInv, Admit
  <2> HIDE DEF held, w
  <2>5. /\ total' = total
        /\ inflight' = [held EXCEPT ![CorrOf[w]] = @ + 1]
        /\ admitted' = admitted \cup {w}
        /\ pc' = Broadcast(where)
    BY <2>1 DEF Admit, w
  <2>6. /\ pc' \in [Task -> {"idle", "holding", "gone"} \cup Waiting]
        /\ pc'[t] = "idle"
        /\ \A u \in Task \ {t} :
                pc'[u] = IF pc[u] = "asleep" THEN "woken" ELSE pc[u]
    BY <1>1, <2>5 DEF IInv, TypeOK, Broadcast, Waiting
  <2>7. Busy' = (Busy \ {t}) \cup {w}
    BY <1>1, <1>2, <2>2, <2>3, <2>5, <2>6 DEF Busy, Waiting
  <2>8. total' = Cardinality(Busy') /\ Counts(inflight', Busy')
    <3>1. w \in Task \ (Busy \ {t})
      BY <2>2, <2>3
    <3>2. total \in Nat
      BY DEF IInv, TypeOK
    <3>3. /\ Cardinality((Busy \ {t}) \cup {w}) = Cardinality(Busy \ {t}) + 1
          /\ Counts(inflight', (Busy \ {t}) \cup {w})
      BY <1>2, <2>5, <3>1, CountsAdd
    <3> QED BY <1>2, <2>5, <2>7, <3>2, <3>3
  <2>9. TypeOK'
    BY <1>1, <2>2, <2>4, <2>5, <2>6, <2>8 DEF IInv, TypeOK, Counts
  <2>10. SlotsAccounted' /\ CapHolds'
    BY <2>5, <2>8 DEF IInv, SlotsAccounted, CapHolds, Counts
  <2>11. WaitersInv'
    <3>1. Listed(waiters) \subseteq Task \ {t}
      BY <1>2, ListedTasks DEF IInv, TypeOK
    <3> QED BY <1>2, <2>2, <2>3, <2>4, <2>5, <2>6, <3>1
            DEF IInv, TypeOK, WaitersInv, Waiting
  <2> QED BY <2>9, <2>10, <2>11 DEF IInv
<1>4. CASE total' = total - 1 /\ inflight' = held /\ pc' = where
           /\ UNCHANGED <<admitted, waiters>>
  <2> HIDE DEF held
  <2>1. /\ pc' \in [Task -> {"idle", "holding", "gone"} \cup Waiting]
        /\ \A u \in Task : pc'[u] = IF u = t THEN "idle" ELSE pc[u]
    BY <1>1, <1>4 DEF IInv, TypeOK
  <2>2. Busy' = Busy \ {t}
    BY <1>1, <1>2, <1>4, <2>1 DEF Busy, Waiting
  <2>3. TypeOK'
    BY <1>1, <1>2, <1>4, <2>1 DEF IInv, TypeOK, Counts
  <2>4. SlotsAccounted' /\ CapHolds'
    BY <1>2, <1>4, <2>2 DEF IInv, TypeOK, SlotsAccounted, CapHolds, Counts
  <2>5. WaitersInv'
    BY <1>2, <1>4, <2>1, ListedTasks DEF IInv, TypeOK, WaitersInv
  <2> QED BY <2>3, <2>4, <2>5 DEF IInv
<1> QED BY <1>3, <1>4 DEF Release

LEMMA NextIInv == IInv /\ [Next]_vars => IInv'
<1> SUFFICES ASSUME IInv, [Next]_vars PROVE IInv'
  OBVIOUS
<1>1. CASE \E t \in Task : Acquire(t)
  BY <1>1, AcquireOK
<1>2. CASE \E t \in Task : Check(t)
  BY <1>2, CheckOK
<1>3. CASE \E t \in Task : Park(t)
  BY <1>3, ParkOK
<1>4. CASE \E t \in Task : Awaken(t)
  BY <1>4, AwakenOK
<1>5. CASE \E t \in Task : Release(t)
  BY <1>5, ReleaseOK
<1>6. CASE \E t \in Task : Help(t)
  BY <1>6, HelpOK
<1>7. CASE Cancel
  BY <1>7 DEF Cancel, IInv, TypeOK, SlotsAccounted, CapHolds, WaitersInv, Busy
<1>8. CASE UNCHANGED vars
  BY <1>8 DEF vars, IInv, TypeOK, SlotsAccounted, CapHolds, WaitersInv, Busy
<1> QED BY <1>1, <1>2, <1>3, <1>4, <1>5, <1>6, <1>7, <1>8 DEF Next

LEMMA Inductive == Spec => []IInv
BY InitIInv, NextIInv, PTL DEF Spec

-----------------------------------------------------------------------------
(* The theorems *)

\* Every reachable state of the dispatcher is well typed; in particular the
\* list, the counters and the goroutines' places never go out of range.
THEOREM DispatcherTypes == Spec => []TypeOK
<1>1. IInv => TypeOK
  BY DEF IInv
<1> QED BY <1>1, Inductive, PTL

\* However acquire, release, admission and cancellation interleave, total and
\* inflight count exactly the tasks that hold or have been given a slot.
THEOREM SlotsConserved == Spec => []SlotsAccounted
<1>1. IInv => SlotsAccounted
  BY DEF IInv
<1> QED BY <1>1, Inductive, PTL

\* The dispatcher never lets more than Cap handlers run.
THEOREM CapRespected == Spec => []CapHolds
<1>1. IInv => CapHolds
  BY DEF IInv
<1> QED BY <1>1, Inductive, PTL

\* admitOne's two passes overtake nobody of the same correlation, and nobody
\* whose correlation holds no slot, for any number of waiters.
THEOREM Fifo == Spec => NotOvertaken
<1> DEFINE Overtakes(i, j) ==
        i < j /\ waiters[j] \in admitted' \ admitted
<1>1. ASSUME IInv, [Next]_vars,
             NEW i \in 1..Len(waiters), NEW j \in 1..Len(waiters),
             Overtakes(i, j)
      PROVE  /\ CorrOf[waiters[i]] # CorrOf[waiters[j]]
             /\ inflight'[CorrOf[waiters[i]]] > 0
  <2>1. PICK t \in Task : Release(t)
    BY <1>1 DEF Next, vars, Acquire, Check, Leave, Park, Awaken, Help, Cancel
  <2> DEFINE held == [inflight EXCEPT ![CorrOf[t]] = @ - 1]
  <2>2. PICK k \in Picks(held) : Admit(waiters[k], held, Released(t))
    BY <1>1, <2>1 DEF Release
  <2>3. held \in [Correlation -> Nat]
    BY <1>1, <2>1, ReleaseFacts DEF Counts, Release
  <2> HIDE DEF held
  <2>4. k \in 1..Len(waiters) /\ waiters[k] = waiters[j]
    BY <1>1, <2>2, PicksListed DEF Admit, IInv
  <2>5. k = j
    BY <1>1, <2>4 DEF IInv, WaitersInv, Distinct
  <2>6. /\ waiters[i] \in Task /\ waiters[j] \in Task
        /\ CorrOf[waiters[i]] \in Correlation
        /\ CorrOf[waiters[j]] \in Correlation
    BY <1>1 DEF IInv, TypeOK
  <2>7. j \in UnderShareWaiters(held) /\ i \notin UnderShareWaiters(held)
    BY <1>1, <2>2, <2>5 DEF Picks, UnderShareWaiters
  <2>8. /\ UnderShare(held, CorrOf[waiters[j]])
        /\ ~ UnderShare(held, CorrOf[waiters[i]])
    BY <1>1, <2>7 DEF UnderShareWaiters
  <2>9. CorrOf[waiters[i]] # CorrOf[waiters[j]]
    BY <2>8
  <2>10. held[CorrOf[waiters[i]]] > 0
    BY <2>3, <2>6, <2>8, ShareAtLeastOne DEF UnderShare
  <2>11. inflight'[CorrOf[waiters[i]]] = held[CorrOf[waiters[i]]]
    BY <2>2, <2>3, <2>5, <2>6, <2>9 DEF Admit
  <2> QED BY <2>9, <2>10, <2>11
<1>2. IInv /\ [Next]_vars =>
        [\A i, j \in 1..Len(waiters) : Overtakes(i, j) =>
            /\ CorrOf[waiters[i]] # CorrOf[waiters[j]]
            /\ inflight'[CorrOf[waiters[i]]] > 0]_vars
  BY <1>1
<1> QED BY <1>2, Inductive, PTL DEF Spec, NotOvertaken

\* release returns a slot to the pool only when the list of waiters is empty:
\* admitOne's second pass takes what the first leaves, for any list.
THEOREM HandedOn == Spec => SlotHandedOn
<1>1. ASSUME IInv, [Next]_vars, total' < total
      PROVE  waiters = <<>>
  <2>1. PICK t \in Task : Release(t)
    BY <1>1 DEF Next, vars, Acquire, Check, Leave, Park, Awaken, Help, Cancel,
                IInv, TypeOK
  <2> DEFINE held == [inflight EXCEPT ![CorrOf[t]] = @ - 1]
             under == UnderShareWaiters(held)
  <2>2. Picks(held) = {}
    <3>1. ~ \E i \in Picks(held) : Admit(waiters[i], held, Released(t))
      BY <1>1 DEF Admit, IInv, TypeOK
    <3> QED BY <2>1, <3>1 DEF Release
  <2>3. waiters \in Seq(Task) /\ Len(waiters) \in Nat
    BY <1>1 DEF IInv, TypeOK
  <2>4. under \subseteq 1..Len(waiters)
    BY DEF UnderShareWaiters
  <2> HIDE DEF held, under
  <2>5. under = {}
    <3> SUFFICES ASSUME under # {} PROVE FALSE
      OBVIOUS
    <3>1. PICK i \in under : \A j \in under : i <= j
      BY <2>3, <2>4, FirstPosition
    <3>2. i \in Picks(held)
      BY <2>3, <2>4, <3>1 DEF Picks, under
    <3> QED BY <2>2, <3>2
  <2>6. 1 \notin 1..Len(waiters)
    BY <2>2, <2>5 DEF Picks, under
  <2> QED BY <2>3, <2>6
<1>2. IInv /\ [Next]_vars => [total' < total => waiters = <<>>]_vars
  BY <1>1
<1> QED BY <1>2, Inductive, PTL DEF Spec, SlotHandedOn
=============================================================================
