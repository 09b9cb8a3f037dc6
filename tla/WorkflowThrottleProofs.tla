----------------------- MODULE WorkflowThrottleProofs -----------------------
(***************************************************************************)
(* Proofs about WorkflowThrottle, for any number of requests, slots and    *)
(* troubles.  What the runs check is not inductive: the invariants below   *)
(* add where a request is while it has not been decided upon, what the     *)
(* engine knows of the workflow it decides about, and what recovery has    *)
(* read and not used yet.                                                  *)
(***************************************************************************)
EXTENDS WorkflowThrottle, FiniteSetTheorems, TLAPS

USE ThrottleAssumption

\* The engine has a request in hand: out of the channel or of the queue, and
\* not decided upon.
HasRequest ==
    \/ task.at = "dequeued"
    \/ task.at = "deciding" /\ task.type = "requested"

\* Nothing is about a workflow that was not requested.
KnownInv ==
    /\ \A e \in ToSet(inbox) : status[e.wf] # "none"
    /\ \A w \in ToSet(queued) \cup ToSet(loaded) \cup rows : status[w] # "none"
    /\ task.at \in {"dequeued", "deciding"} =>
            task.wf \in Workflow /\ status[task.wf] # "none"

\* What the engine loaded is still so, unless somebody appended since.
TaskInv ==
    task.at = "deciding" =>
        /\ task.type \in {"requested", "reported", "resumed"}
        /\ task.seen # "none"
        /\ ~moved => status[task.wf] = task.seen
        /\ moved => status[task.wf] # "requested"
        /\ task.seen # "requested" => status[task.wf] # "requested"

\* A cancelled workflow comes back by a retry or a resume only.
CancelInv ==
    \A w \in Workflow :
        Ev("cancelled", w) \in ToSet(inbox) =>
            status[w] # "requested" /\ (status[w] \in Live => w \in readmitted)

\* What runs or is paused is listed so, and has a slot, or will after recovery.
HoldersInv ==
    \A w \in Workflow :
        status[w] \in Live /\ w \notin readmitted =>
            /\ listed[w] \in Live
            /\ phase = "scanned" => w \in running \cup snapshot
            /\ phase \in {"warmed", "loading", "up"} => w \in running

\* A request in the queue, or on its way there, has its row or is in hand.
StoredInv ==
    ~faulty =>
        \A w \in ToSet(queued) \cup ToSet(loaded) :
            status[w] = "requested" => w \in rows \/ (HasRequest /\ task.wf = w)

\* In the first life of the process a request is taken in hand only when there
\* is a slot for it, and the queue is left alone only when there is none.
SlotsInv ==
    ~crashed =>
        /\ phase = "up"
        /\ Cardinality(running) <= MaxConcurrent
        /\ HasRequest => ~Full
        /\ task.at = "idle" \/ (task.at = "deciding" /\ ~task.nested) =>
                queued = <<>> \/ Full

\* A request that waits is in the engine's hand, in the queue or in the channel,
Placed(v) ==
    \/ HasRequest /\ task.wf = v
    \/ v \in ToSet(queued)
    \/ Ev("requested", v) \in ToSet(inbox)

Increasing(s) == \A i, j \in DOMAIN s : i < j => s[i] < s[j]

RequestsIncrease(s) ==
    \A i, j \in DOMAIN s :
        i < j /\ s[i].type = "requested" /\ s[j].type = "requested"
            => s[i].wf < s[j].wf

\* and requests pass from the one to the other in their order.
OrderInv ==
    ~crashed =>
        /\ \A v \in Workflow : status[v] = "requested" => Placed(v)
        /\ HasRequest =>
              /\ \A v \in ToSet(queued) : task.wf < v
              /\ \A v \in Workflow : Ev("requested", v) \in ToSet(inbox) => task.wf < v
        /\ \A u \in ToSet(queued), v \in Workflow :
              Ev("requested", v) \in ToSet(inbox) => u < v
        /\ Increasing(queued)
        /\ RequestsIncrease(inbox)

IInv ==
    /\ TypeOK /\ KnownInv /\ TaskInv /\ CancelInv /\ HoldersInv /\ StoredInv
    /\ NoLeakedSlot /\ SlotsInv /\ OrderInv

-----------------------------------------------------------------------------
(* The operators *)

\* Nothing waits.
LEMMA EmptyOK == \A S : <<>> \in Seq(S)
OBVIOUS

LEMMA WorkflowNumbers == Workflow \subseteq Nat /\ None \notin Workflow
BY DEF Workflow, None

\* Sets of workflows are finite and are counted.
LEMMA WorkflowSets ==
    ASSUME NEW S, S \subseteq Workflow
    PROVE  IsFiniteSet(S) /\ Cardinality(S) \in Nat
<1>1. MaxRequests \in Int /\ 1 \in Int
  BY DEF ThrottleAssumption
<1>2. IsFiniteSet(1..MaxRequests)
  BY <1>1, FS_Interval
<1>3. IsFiniteSet(S)
  BY <1>2, FS_Subset DEF Workflow
<1> QED BY <1>3, FS_CardinalityType

\* At the end of a sequence.
LEMMA AppendOK ==
    ASSUME NEW S, NEW s \in Seq(S), NEW x \in S
    PROVE  /\ Append(s, x) \in Seq(S)
           /\ ToSet(Append(s, x)) = ToSet(s) \cup {x}
           /\ Append(s, x) # <<>>
<1>1. ASSUME NEW y \in ToSet(Append(s, x)) PROVE y \in ToSet(s) \cup {x}
  BY DEF ToSet
<1>2. ASSUME NEW y \in ToSet(s) PROVE y \in ToSet(Append(s, x))
  BY DEF ToSet
<1>3. x \in ToSet(Append(s, x))
  <2>1. Len(s) + 1 \in DOMAIN Append(s, x) /\ Append(s, x)[Len(s) + 1] = x
    OBVIOUS
  <2> QED BY <2>1 DEF ToSet
<1> QED BY <1>1, <1>2, <1>3

\* The first of a sequence and the rest.
LEMMA HeadTailOK ==
    ASSUME NEW S, NEW s \in Seq(S), s # <<>>
    PROVE  /\ Head(s) \in S /\ Head(s) = s[1] /\ Head(s) \in ToSet(s)
           /\ Tail(s) \in Seq(S)
           /\ ToSet(s) = {Head(s)} \cup ToSet(Tail(s))
<1>1. Head(s) \in S /\ Head(s) = s[1] /\ Tail(s) \in Seq(S)
  OBVIOUS
<1>2. 1 \in DOMAIN s
  OBVIOUS
<1>3. Head(s) \in ToSet(s)
  BY <1>1, <1>2 DEF ToSet
<1>4. ASSUME NEW y \in ToSet(Tail(s)) PROVE y \in ToSet(s)
  <2>1. PICK i \in DOMAIN Tail(s) : Tail(s)[i] = y
    BY DEF ToSet
  <2>2. i + 1 \in DOMAIN s /\ s[i + 1] = y
    BY <2>1
  <2> QED BY <2>2 DEF ToSet
<1>5. ASSUME NEW y \in ToSet(s), y # Head(s) PROVE y \in ToSet(Tail(s))
  <2>1. PICK i \in DOMAIN s : s[i] = y
    BY DEF ToSet
  <2>2. i # 1
    BY <1>1, <1>5, <2>1
  <2>3. i - 1 \in DOMAIN Tail(s) /\ Tail(s)[i - 1] = y
    BY <2>1, <2>2
  <2> QED BY <2>3 DEF ToSet
<1> QED BY <1>1, <1>3, <1>4, <1>5

\* One place less.
LEMMA CutOK ==
    ASSUME NEW s \in Seq(Workflow), NEW k \in DOMAIN s
    PROVE  /\ Cut(s, k) \in Seq(Workflow)
           /\ ToSet(Cut(s, k)) \subseteq ToSet(s)
           /\ ToSet(s) \ {s[k]} \subseteq ToSet(Cut(s, k))
           /\ Increasing(s) => Increasing(Cut(s, k))
<1>1. Len(s) \in Nat /\ DOMAIN s = 1..Len(s) /\ Len(s) - 1 \in Nat /\ k \in 1..Len(s)
  OBVIOUS
<1>2. Cut(s, k) \in [1..(Len(s) - 1) -> Workflow]
  BY <1>1 DEF Cut
<1>3. Cut(s, k) \in Seq(Workflow) /\ DOMAIN Cut(s, k) = 1..(Len(s) - 1)
  BY <1>1, <1>2
<1>4. ASSUME NEW i \in 1..(Len(s) - 1) PROVE Cut(s, k)[i] \in ToSet(s)
  BY <1>1 DEF ToSet, Cut
<1>5. ASSUME NEW y \in ToSet(s) \ {s[k]} PROVE y \in ToSet(Cut(s, k))
  <2>1. PICK i \in DOMAIN s : s[i] = y
    BY DEF ToSet
  <2>2. CASE i < k
    <3>1. i \in 1..(Len(s) - 1) /\ Cut(s, k)[i] = y
      BY <1>1, <2>1, <2>2 DEF Cut
    <3> QED BY <1>3, <3>1 DEF ToSet
  <2>3. CASE i > k
    <3>1. (i - 1) \in 1..(Len(s) - 1) /\ Cut(s, k)[i - 1] = y
      BY <1>1, <2>1, <2>3 DEF Cut
    <3> QED BY <1>3, <3>1 DEF ToSet
  <2> QED BY <1>1, <2>1, <2>2, <2>3
<1>6. ASSUME Increasing(s) PROVE Increasing(Cut(s, k))
  BY <1>1, <1>3, <1>6 DEF Increasing, Cut
<1>7. ToSet(Cut(s, k)) \subseteq ToSet(s)
  BY <1>3, <1>4 DEF ToSet
<1> QED BY <1>3, <1>5, <1>6, <1>7

\* The channel and the queue, in the terms the proofs use.
LEMMA ChannelAndQueue ==
    ASSUME TypeOK
    PROVE  /\ \A e \in Event : /\ Append(inbox, e) \in Seq(Event)
                               /\ ToSet(Append(inbox, e)) = ToSet(inbox) \cup {e}
           /\ inbox # <<>> => /\ Head(inbox) \in Event
                              /\ Tail(inbox) \in Seq(Event)
                              /\ ToSet(inbox) = {Head(inbox)} \cup ToSet(Tail(inbox))
           /\ \A w \in Workflow : /\ Append(queued, w) \in Seq(Workflow)
                                  /\ ToSet(Append(queued, w)) = ToSet(queued) \cup {w}
           /\ queued # <<>> => /\ Head(queued) \in Workflow /\ Head(queued) = NextQueued
                               /\ Tail(queued) \in Seq(Workflow)
                               /\ ToSet(queued) = {NextQueued} \cup ToSet(Tail(queued))
           /\ ToSet(inbox) \subseteq Event
           /\ ToSet(queued) \subseteq Workflow
           /\ ToSet(loaded) \subseteq Workflow
           /\ ToSet(<<>>) = {}
<1>1. inbox \in Seq(Event) /\ queued \in Seq(Workflow) /\ loaded \in Seq(Workflow)
  BY DEF TypeOK
<1>2. /\ ToSet(inbox) \subseteq Event
      /\ ToSet(queued) \subseteq Workflow
      /\ ToSet(loaded) \subseteq Workflow
      /\ ToSet(<<>>) = {}
  BY <1>1 DEF ToSet
<1>3. queued # <<>> => Head(queued) = NextQueued
  BY <1>1, HeadTailOK DEF NextQueued
<1> QED BY <1>1, <1>2, <1>3, AppendOK, HeadTailOK

LEMMA EventsOK ==
    /\ \A t \in EventType, w \in Workflow :
            Ev(t, w) \in Event /\ Ev(t, w).type = t /\ Ev(t, w).wf = w
    /\ \A e \in Event : e.type \in EventType /\ e.wf \in Workflow /\ e = Ev(e.type, e.wf)
    /\ {"requested", "reported", "cancelled", "resumed", "noted"} = EventType
BY DEF Ev, Event, EventType

\* What becomes of the queue when a workflow is cancelled.
LEMMA RemoveQueuedOK ==
    ASSUME TypeOK, NEW w \in Workflow, RemoveQueued(w)
    PROVE  /\ queued' \in Seq(Workflow)
           /\ ToSet(queued)' \subseteq ToSet(queued)
           /\ ToSet(queued) \ {w} \subseteq ToSet(queued)'
           /\ Increasing(queued) => Increasing(queued)'
           /\ rows' \in {rows, rows \ {w}}
<1>1. queued \in Seq(Workflow)
  BY DEF TypeOK
<1>2. rows' \in {rows, rows \ {w}}
  BY DEF RemoveQueued, DeleteRow, Fault
<1>3. CASE queued' = queued
  BY <1>1, <1>2, <1>3
<1>4. CASE queued' # queued
  <2>1. PICK i \in DOMAIN queued : queued[i] = w /\ queued' = Cut(queued, i)
    BY <1>4 DEF RemoveQueued
  <2> QED BY <1>1, <1>2, <2>1, CutOK
<1> QED BY <1>3, <1>4

\* The tasks the engine takes up.
LEMMA TasksOK ==
    /\ \A place \in {"idle", "draining"} : At(place) \in Task /\ At(place).at = place
    /\ \A w \in Workflow :
          LET d == [At("dequeued") EXCEPT !.wf = w]
          IN  d \in Task /\ d.at = "dequeued" /\ d.wf = w
    /\ \A e \in Event, seen \in Status, nested \in BOOLEAN :
          [at |-> "deciding", type |-> e.type, wf |-> e.wf, seen |-> seen,
           nested |-> nested] \in Task
    /\ Live \subseteq Status
BY DEF At, Task, Event, EventType, Status, Live

-----------------------------------------------------------------------------
(* Types *)

\* A bounded trouble more, or as many as before.
FaultTypeOK ==
    /\ rows' \subseteq Workflow
    /\ trouble' \in 0..MaxTrouble /\ faulty' \in BOOLEAN
    /\ faulty' => trouble' > 0 
    /\ trouble' >= trouble

LEMMA TroubleType ==
    ASSUME TypeOK, Trouble
    PROVE  trouble' \in 0..MaxTrouble /\ trouble' > 0
BY DEF TypeOK, Trouble

LEMMA FaultKept ==
    ASSUME TypeOK, UNCHANGED fault, rows' \subseteq Workflow
    PROVE  FaultTypeOK
<1>1. trouble' = trouble /\ faulty' = faulty
  BY DEF fault
<1>2. trouble \in 0..MaxTrouble /\ faulty \in BOOLEAN /\ (faulty => trouble > 0)
  BY DEF TypeOK
<1> QED BY <1>1, <1>2 DEF FaultTypeOK

LEMMA FaultHappens ==
    ASSUME TypeOK, Fault
    PROVE  FaultTypeOK
<1>1. trouble' \in 0..MaxTrouble /\ trouble' > 0 /\ trouble' >= trouble
  BY DEF TypeOK, Fault, Trouble
<1>2. rows' \subseteq Workflow /\ faulty' = TRUE
  BY DEF TypeOK, Fault
<1> QED BY <1>1, <1>2 DEF FaultTypeOK

LEMMA DeleteRowType ==
    ASSUME TypeOK, NEW w \in Workflow, DeleteRow(w)
    PROVE  FaultTypeOK
<1>1. CASE rows' = rows \ {w} /\ UNCHANGED fault
  <2>1. rows' \subseteq Workflow
    BY <1>1 DEF TypeOK
  <2> QED BY <1>1, <2>1, FaultKept
<1>2. CASE Fault
  BY <1>2, FaultHappens
<1> QED BY <1>1, <1>2 DEF DeleteRow

LEMMA ProcessType ==
    ASSUME TypeOK, NEW e \in Event, NEW nested \in BOOLEAN, Process(e, nested)
    PROVE  /\ FaultTypeOK
           /\ running' \subseteq Workflow
           /\ queued' \in Seq(Workflow)
           /\ task' \in Task
           /\ moved' \in BOOLEAN
           /\ kept' \subseteq Workflow
<1>1. e.wf \in Workflow /\ status[e.wf] \in Status
  BY EventsOK DEF TypeOK
<1>2. CASE e.type = "requested" /\ Full /\ Enqueue(e.wf) /\ ReturnEarly(nested)
             /\ UNCHANGED <<running, moved>>
  <2>1. queued' \in Seq(Workflow)
    BY <1>1, <1>2, ChannelAndQueue DEF Enqueue
  <2>2. FaultTypeOK /\ kept' \subseteq Workflow
    <3>1. CASE rows' = rows \cup {e.wf} /\ kept' = kept \cup {e.wf} /\ UNCHANGED fault
      BY <1>1, <3>1, FaultKept DEF TypeOK
    <3>2. CASE Fault /\ UNCHANGED kept
      BY <3>2, FaultHappens DEF TypeOK
    <3> QED BY <1>2, <3>1, <3>2 DEF Enqueue
  <2>3. task' \in Task
    BY <1>2, TasksOK DEF ReturnEarly
  <2> QED BY <1>2, <2>1, <2>2, <2>3 DEF TypeOK
<1>3. CASE ReleaseCancelled(e.wf) /\ Done /\ UNCHANGED <<moved, kept>>
  <2>1. queued' \in Seq(Workflow)
    BY <1>1, <1>3, RemoveQueuedOK DEF ReleaseCancelled
  <2>2. FaultTypeOK
    BY <1>1, <1>3, DeleteRowType DEF ReleaseCancelled, RemoveQueued
  <2>3. task' \in Task
    BY <1>3, TasksOK DEF Done
  <2> QED BY <1>3, <2>1, <2>2, <2>3 DEF TypeOK, ReleaseCancelled
<1>4. CASE Done /\ UNCHANGED <<rows, fault, kept, running, queued, moved>>
  <2>1. task' \in Task
    BY <1>4, TasksOK DEF Done
  <2>2. FaultTypeOK
    BY <1>4, FaultKept DEF TypeOK
  <2> QED BY <1>4, <2>1, <2>2 DEF TypeOK
<1>5. CASE /\ task' = [at |-> "deciding", type |-> e.type, wf |-> e.wf,
                       seen |-> status[e.wf], nested |-> nested]
           /\ moved' = FALSE
           /\ UNCHANGED <<rows, fault, kept, running, queued>>
  <2>1. task' \in Task
    BY <1>1, <1>5, TasksOK
  <2>2. FaultTypeOK
    BY <1>5, FaultKept DEF TypeOK
  <2> QED BY <1>5, <2>1, <2>2 DEF TypeOK
<1> QED BY <1>2, <1>3, <1>4, <1>5 DEF Process

\* What the engine decides is a status, and never "none" or "requested".
LEMMA DecisionsOK ==
    ASSUME NEW type \in {"requested", "reported", "resumed"}, NEW w, NEW seen,
           NEW new \in Decisions(type, w, seen)
    PROVE  /\ new \in Status /\ new \notin {"none", "requested"}
           /\ type = "requested" =>
                 \/ w \in Unknown /\ new = "failed"
                 \/ seen = "requested" /\ new = "running"
           /\ type = "reported" =>
                 \/ seen = "running" /\ new \in {"completed", "failed", "paused"}
                 \/ seen = "paused" /\ new = "failed"
           /\ type = "resumed" => new = "running"
BY DEF Decisions, Status, Live

LEMMA InitType == Init => TypeOK
<1> SUFFICES ASSUME Init PROVE TypeOK
  OBVIOUS
<1>1. task \in Task
  BY TasksOK DEF Init
<1>2. status \in [Workflow -> Status] /\ listed \in [Workflow -> Status]
  BY DEF Init, Status
<1>3. trouble \in 0..MaxTrouble /\ crashed = FALSE /\ faulty = FALSE
  BY DEF Init, ThrottleAssumption
<1>4. loaded \in Seq(Workflow) /\ inbox \in Seq(Event) /\ queued \in Seq(Workflow)
  BY EmptyOK DEF Init
<1> QED BY <1>1, <1>2, <1>3, <1>4 DEF Init, TypeOK

LEMMA NextType == TypeOK /\ KnownInv /\ TaskInv /\ [Next]_vars => TypeOK'
<1> SUFFICES ASSUME TypeOK, KnownInv, TaskInv, [Next]_vars PROVE TypeOK'
  OBVIOUS
<1>1. CASE Receive
  <2>1. Head(inbox) \in Event /\ Tail(inbox) \in Seq(Event)
    BY <1>1, ChannelAndQueue DEF Receive
  <2>2. /\ FaultTypeOK /\ running' \subseteq Workflow /\ queued' \in Seq(Workflow)
        /\ task' \in Task /\ moved' \in BOOLEAN /\ kept' \subseteq Workflow
    BY <1>1, <2>1, ProcessType DEF Receive
  <2> QED BY <1>1, <2>1, <2>2 DEF TypeOK, Receive, FaultTypeOK, boot
<1>2. CASE Commit
  <2>1. task.wf \in Workflow /\ task.type \in {"requested", "reported", "resumed"}
    BY <1>2 DEF Commit, KnownInv, TaskInv
  <2>2. PICK new \in Decisions(task.type, task.wf, task.seen) :
          /\ status' = [status EXCEPT ![task.wf] = new]
          /\ listed' = IF task.type = "resumed" THEN listed
                       ELSE [listed EXCEPT ![task.wf] = new]
          /\ running' = TrackSlot(task.type, task.wf, new)
          /\ inbox' = Echo(task.type, task.wf, new)
          /\ readmitted' = IF task.type = "resumed" /\ task.seen \notin Live
                           THEN readmitted \cup {task.wf} ELSE readmitted
    BY <1>2 DEF Commit
  <2>3. new \in Status
    BY <2>1, DecisionsOK
  <2>4. status' \in [Workflow -> Status] /\ listed' \in [Workflow -> Status]
    BY <2>1, <2>2, <2>3 DEF TypeOK
  <2>5. inbox' \in Seq(Event)
    BY <2>1, <2>2, ChannelAndQueue, EventsOK DEF Echo, TypeOK
  <2>6. running' \subseteq Workflow /\ readmitted' \subseteq Workflow
    BY <2>1, <2>2 DEF TrackSlot, TypeOK
  <2>7. task' \in Task
    BY <1>2, TasksOK DEF Commit, Done
  <2> QED BY <1>2, <2>4, <2>5, <2>6, <2>7 DEF TypeOK, Commit, boot, counters, fault
<1>3. CASE NoDecision
  BY <1>3, TasksOK DEF TypeOK, NoDecision, Done, store, boot, counters, fault
<1>4. CASE Conflict
  BY <1>4, TasksOK DEF TypeOK, Conflict, ReturnEarly, store, boot, counters, fault
<1>5. CASE EndDrain
  BY <1>5, TasksOK DEF TypeOK, EndDrain, store, boot, counters, fault
<1>6. CASE Dequeue
  <2>1. NextQueued \in Workflow /\ Tail(queued) \in Seq(Workflow)
    BY <1>6, ChannelAndQueue DEF Dequeue
  <2>2. FaultTypeOK
    BY <1>6, <2>1, DeleteRowType DEF Dequeue
  <2>3. task' \in Task
    BY <1>6, <2>1, TasksOK DEF Dequeue
  <2> QED BY <1>6, <2>1, <2>2, <2>3 DEF TypeOK, Dequeue, FaultTypeOK, boot
<1>7. CASE Redecide
  <2>1. Ev("requested", task.wf) \in Event
    BY <1>7, EventsOK DEF Redecide, KnownInv
  <2>2. /\ FaultTypeOK /\ running' \subseteq Workflow /\ queued' \in Seq(Workflow)
        /\ task' \in Task /\ moved' \in BOOLEAN /\ kept' \subseteq Workflow
    BY <1>7, <2>1, ProcessType DEF Redecide
  <2> QED BY <1>7, <2>2 DEF TypeOK, Redecide, FaultTypeOK, boot
<1>8. CASE Sweep
  <2>1. /\ status' \in [Workflow -> Status] /\ listed' \in [Workflow -> Status]
        /\ running' \subseteq Workflow
    BY <1>8 DEF TypeOK, Sweep, Status
  <2> QED BY <1>8, <2>1, TasksOK DEF TypeOK, Sweep, AfterSweep, boot, counters, fault
<1>9. ASSUME NEW w \in Workflow, Request(w) PROVE TypeOK'
  <2>1. inbox' \in Seq(Event)
    BY <1>9, ChannelAndQueue, EventsOK DEF Request
  <2> QED BY <1>9, <2>1 DEF TypeOK, Request, Status, boot, counters, fault
<1>10. ASSUME NEW w \in Workflow, Report(w) PROVE TypeOK'
  <2>1. inbox' \in Seq(Event)
    BY <1>10, ChannelAndQueue, EventsOK DEF Report
  <2> QED BY <1>10, <2>1 DEF TypeOK, Report, store, boot, counters, fault
<1>11. ASSUME NEW w \in Workflow, NEW type \in EventType, Publish(w, type),
              status' \in [Workflow -> Status], listed' \in [Workflow -> Status],
              readmitted' \subseteq Workflow
       PROVE  TypeOK'
  <2>1. inbox' \in Seq(Event)
    BY <1>11, ChannelAndQueue, EventsOK DEF Publish
  <2>2. trouble' \in 0..MaxTrouble /\ trouble' > 0
    BY <1>11, TroubleType DEF Publish
  <2>3. moved' \in BOOLEAN
    BY <1>11 DEF Publish, TypeOK
  <2> QED BY <1>11, <2>1, <2>2, <2>3 DEF TypeOK, Publish, boot
<1>12. ASSUME NEW w \in Workflow, NEW new \in Status, SetStatus(w, new)
       PROVE  status' \in [Workflow -> Status] /\ listed' \in [Workflow -> Status]
  BY <1>12 DEF SetStatus, TypeOK
<1>13. ASSUME NEW w \in Workflow, NEW type \in EventType, NEW new \in Status,
              Inject(w, type, new)
       PROVE  TypeOK'
  <2>1. readmitted' \subseteq Workflow
    BY <1>13 DEF Inject, TypeOK
  <2> QED BY <1>11, <1>12, <1>13, <2>1 DEF Inject
<1>14. ASSUME NEW w \in Workflow, CancelWorkflow(w) PROVE TypeOK'
  <2>1. "cancelled" \in EventType /\ "cancelled" \in Status /\ readmitted' \subseteq Workflow
    BY <1>14 DEF EventType, Status, CancelWorkflow, TypeOK
  <2> QED BY <1>11, <1>12, <1>14, <2>1 DEF CancelWorkflow, Command
<1>15. ASSUME NEW w \in Workflow, PauseWorkflow(w) PROVE TypeOK'
  <2>1. "noted" \in EventType /\ "paused" \in Status /\ readmitted' \subseteq Workflow
    BY <1>15 DEF EventType, Status, Live, PauseWorkflow, TypeOK
  <2> QED BY <1>11, <1>12, <1>15, <2>1 DEF PauseWorkflow, Command
<1>16. ASSUME NEW w \in Workflow, ResumeWorkflow(w) PROVE TypeOK'
  <2>1. "resumed" \in EventType /\ "running" \in Status /\ readmitted' \subseteq Workflow
    BY <1>16 DEF EventType, Status, Live, ResumeWorkflow, TypeOK
  <2> QED BY <1>11, <1>12, <1>16, <2>1 DEF ResumeWorkflow, Command
<1>17. ASSUME NEW w \in Workflow, RetryWorkflow(w) PROVE TypeOK'
  <2>1. /\ "noted" \in EventType
        /\ status' \in [Workflow -> Status] /\ listed' \in [Workflow -> Status]
        /\ readmitted' \subseteq Workflow
    BY <1>17 DEF EventType, Status, Live, RetryWorkflow, TypeOK
  <2> QED BY <1>11, <1>17, <2>1 DEF RetryWorkflow, Command
<1>18. CASE Crash
  <2>1. trouble' \in 0..MaxTrouble /\ trouble' > 0
    BY <1>18, TroubleType DEF Crash
  <2>2. task' \in Task
    BY <1>18, TasksOK DEF Crash
  <2>3. loaded' \in Seq(Workflow) /\ inbox' \in Seq(Event) /\ queued' \in Seq(Workflow)
    BY <1>18, EmptyOK DEF Crash
  <2> QED BY <1>18, <2>1, <2>2, <2>3 DEF TypeOK, Crash, store
<1>19. CASE Restart \/ Scan \/ Warm
  BY <1>19 DEF TypeOK, Restart, Scan, Warm, Boot, ListedLive, store, counters, fault
<1>20. CASE ReadRows
  <2>1. loaded' \in Seq(Workflow)
    <3>1. rows \subseteq Workflow
      BY DEF TypeOK
    <3>2. Cardinality(rows) \in Nat
      BY <3>1, WorkflowSets
    <3>3. loaded' \in [1..Cardinality(rows) -> rows]
      BY <1>20 DEF ReadRows, InOrder
    <3> QED BY <3>1, <3>2, <3>3
  <2> QED BY <1>20, <2>1 DEF TypeOK, ReadRows, Boot, store, counters, fault
<1>21. CASE LoadQueue
  BY <1>21 DEF TypeOK, LoadQueue, Boot, store, counters, fault
<1>22. CASE UNCHANGED vars
  BY <1>22 DEF TypeOK, vars, store, boot, counters, fault
<1> QED BY <1>1, <1>2, <1>3, <1>4, <1>5, <1>6, <1>7, <1>8, <1>9, <1>10, <1>13,
           <1>14, <1>15, <1>16, <1>17, <1>18, <1>19, <1>20, <1>21, <1>22
        DEF Next, Engine

-----------------------------------------------------------------------------
(* What the callers do, in one form *)

\* Somebody appends to a workflow that was requested, and says so.
Told(w, type, new) ==
    /\ Publish(w, type) /\ ToSet(inbox)' = ToSet(inbox) \cup {Ev(type, w)}
    /\ type \in {"cancelled", "noted", "resumed"} /\ new \in {"cancelled"} \cup Live
    /\ type = "cancelled" <=> new = "cancelled"
    /\ status[w] # "none"
    /\ status' = [status EXCEPT ![w] = new]
    /\ listed' = [listed EXCEPT ![w] = new] \/ (listed' = listed /\ w \in readmitted')
    /\ readmitted' \in {readmitted, readmitted \cup {w}}
    /\ new \in Live /\ status[w] \notin Live => w \in readmitted'

\* Every injection and every command is that.
LEMMA ToldSteps ==
    ASSUME TypeOK, NEW w \in Workflow,
           \/ \E type \in EventType, new \in Status : Inject(w, type, new)
           \/ CancelWorkflow(w) \/ PauseWorkflow(w) \/ ResumeWorkflow(w)
           \/ RetryWorkflow(w)
    PROVE  \E type \in EventType, new \in Status : Told(w, type, new)
<1>1. {"cancelled", "noted", "resumed"} \subseteq EventType
      /\ {"cancelled", "running", "paused"} \subseteq Status
  BY DEF EventType, Status, Live
<1>2. ASSUME NEW type \in EventType, Publish(w, type)
      PROVE  ToSet(inbox)' = ToSet(inbox) \cup {Ev(type, w)}
  <2>1. Ev(type, w) \in Event
    BY EventsOK
  <2> QED BY <1>2, <2>1, ChannelAndQueue DEF Publish
<1>3. ASSUME NEW type \in EventType, NEW new \in Status, Inject(w, type, new)
      PROVE  Told(w, type, new)
  BY <1>2, <1>3 DEF Inject, SetStatus, Told, Live
<1>4. CASE CancelWorkflow(w)
  <2>1. Told(w, "cancelled", "cancelled")
    BY <1>1, <1>2, <1>4 DEF CancelWorkflow, Command, SetStatus, Told, Live
  <2> QED BY <1>1, <2>1
<1>5. CASE PauseWorkflow(w)
  <2>1. Told(w, "noted", "paused")
    BY <1>1, <1>2, <1>5 DEF PauseWorkflow, Command, SetStatus, Told, Live
  <2> QED BY <1>1, <2>1
<1>6. CASE ResumeWorkflow(w)
  <2>1. Told(w, "resumed", "running")
    BY <1>1, <1>2, <1>6 DEF ResumeWorkflow, Command, SetStatus, Told, Live
  <2> QED BY <1>1, <2>1
<1>7. CASE RetryWorkflow(w)
  <2>1. Told(w, "noted", "running")
    BY <1>1, <1>2, <1>7 DEF RetryWorkflow, Command, Told, Live
  <2> QED BY <1>1, <2>1
<1> QED BY <1>3, <1>4, <1>5, <1>6, <1>7

\* A request, and a report, wait in the channel.
LEMMA SaidOK ==
    ASSUME TypeOK, NEW w \in Workflow
    PROVE  /\ Request(w) =>
                /\ ToSet(inbox)' = ToSet(inbox) \cup {Ev("requested", w)}
                /\ inbox' = Append(inbox, Ev("requested", w))
           /\ Report(w) =>
                /\ ToSet(inbox)' = ToSet(inbox) \cup {Ev("reported", w)}
                /\ inbox' = Append(inbox, Ev("reported", w))
<1>1. Ev("requested", w) \in Event /\ Ev("reported", w) \in Event
  BY EventsOK
<1> QED BY <1>1, ChannelAndQueue DEF Request, Report

\* The steps of Next.
LEMMA Steps ==
    ASSUME TypeOK, [Next]_vars
    PROVE  \/ Receive \/ Commit \/ NoDecision \/ Conflict \/ EndDrain \/ Dequeue
           \/ Redecide \/ Sweep
           \/ \E w \in Workflow : Request(w) \/ Report(w)
           \/ \E w \in Workflow, type \in EventType, new \in Status : Told(w, type, new)
           \/ Crash \/ Restart \/ Scan \/ Warm \/ ReadRows \/ LoadQueue
           \/ UNCHANGED vars
<1>1. CASE \E w \in Workflow :
              \/ \E type \in EventType, new \in Status : Inject(w, type, new)
              \/ CancelWorkflow(w) \/ PauseWorkflow(w) \/ ResumeWorkflow(w)
              \/ RetryWorkflow(w)
  BY <1>1, ToldSteps
<1> QED BY <1>1 DEF Next, Engine

\* What the engine decided, for the workflow of its task.
Decided(new) ==
    /\ task.wf \in Workflow /\ new \in Status /\ new \notin {"none", "requested"}
    /\ status[task.wf] = task.seen
    /\ status' = [status EXCEPT ![task.wf] = new]
    /\ running' = TrackSlot(task.type, task.wf, new)
    /\ \/ inbox' = inbox
       \/ /\ inbox' = Append(inbox, Ev("noted", task.wf))
          /\ ToSet(inbox)' = ToSet(inbox) \cup {Ev("noted", task.wf)}
    /\ \/ /\ task.type = "requested"
          /\ new = "failed" \/ (new = "running" /\ task.seen = "requested")
       \/ /\ task.type = "reported" /\ task.seen \in Live
          /\ new \in {"completed", "failed"} \/ (new = "paused" /\ task.seen = "running")
       \/ task.type = "resumed" /\ new = "running"
    /\ IF task.type = "resumed" THEN listed' = listed
       ELSE listed' = [listed EXCEPT ![task.wf] = new]
    /\ IF task.type = "resumed" /\ task.seen \notin Live
       THEN readmitted' = readmitted \cup {task.wf} ELSE readmitted' = readmitted

LEMMA CommitOK ==
    ASSUME TypeOK, KnownInv, TaskInv, Commit
    PROVE  \E new \in Status : Decided(new)
<1>1. /\ task.wf \in Workflow /\ task.type \in {"requested", "reported", "resumed"}
      /\ status[task.wf] = task.seen
  BY DEF Commit, KnownInv, TaskInv
<1>2. PICK new \in Decisions(task.type, task.wf, task.seen) :
        /\ status' = [status EXCEPT ![task.wf] = new]
        /\ listed' = IF task.type = "resumed" THEN listed
                     ELSE [listed EXCEPT ![task.wf] = new]
        /\ running' = TrackSlot(task.type, task.wf, new)
        /\ inbox' = Echo(task.type, task.wf, new)
        /\ readmitted' = IF task.type = "resumed" /\ task.seen \notin Live
                         THEN readmitted \cup {task.wf} ELSE readmitted
  BY DEF Commit
<1>3. /\ new \in Status /\ new \notin {"none", "requested"}
      /\ task.type = "requested" =>
            \/ task.wf \in Unknown /\ new = "failed"
            \/ task.seen = "requested" /\ new = "running"
      /\ task.type = "reported" =>
            \/ task.seen = "running" /\ new \in {"completed", "failed", "paused"}
            \/ task.seen = "paused" /\ new = "failed"
      /\ task.type = "resumed" => new = "running"
  BY <1>1, DecisionsOK
<1>4. \/ inbox' = inbox
      \/ /\ inbox' = Append(inbox, Ev("noted", task.wf))
         /\ ToSet(inbox)' = ToSet(inbox) \cup {Ev("noted", task.wf)}
  <2>1. Ev("noted", task.wf) \in Event
    BY <1>1, EventsOK
  <2> QED BY <1>2, <2>1, ChannelAndQueue DEF Echo
<1>5. Decided(new)
  BY <1>1, <1>2, <1>3, <1>4 DEF Decided, Live
<1> QED BY <1>3, <1>5

\* When the engine gives a request up, it is a request no longer.
LEMMA GivenUpOK ==
    ASSUME TypeOK, TaskInv, NoDecision \/ Conflict, task.type = "requested"
    PROVE  task.at = "deciding" /\ status[task.wf] # "requested"
<1>1. CASE NoDecision
  <2>1. Decisions("requested", task.wf, task.seen) = {} /\ task.at = "deciding"
    BY <1>1 DEF NoDecision
  <2>2. task.seen # "requested"
    BY <2>1 DEF Decisions
  <2> QED BY <2>1, <2>2 DEF TaskInv
<1>2. CASE Conflict
  BY <1>2 DEF Conflict, TaskInv
<1> QED BY <1>1, <1>2

\* What processDecision begins with an event, and with a request of the queue.
Queue(w) ==
    /\ Full /\ running' = running
    /\ ToSet(queued)' = ToSet(queued) \cup {w} /\ queued' = Append(queued, w)
    /\ \/ rows' = rows \cup {w} /\ faulty' = faulty
       \/ rows' = rows /\ faulty' = TRUE

Release(w) ==
    /\ running' = running \ {w}
    /\ ToSet(queued)' \subseteq ToSet(queued)
    /\ ToSet(queued) \ {w} \subseteq ToSet(queued)'
    /\ Increasing(queued) => Increasing(queued)'
    /\ \/ rows' \in {rows, rows \ {w}} /\ faulty' = faulty
       \/ rows' = rows /\ faulty' = TRUE
    /\ task'.at = "draining"

Load(type, w, nested) ==
    /\ type \in {"requested", "reported", "resumed"}
    /\ type = "requested" => ~Full
    /\ task'.at = "deciding" /\ task'.type = type /\ task'.wf = w
    /\ task'.seen = status[w] /\ task'.nested = nested
    /\ moved' = FALSE
    /\ UNCHANGED <<rows, faulty, running, queued>>

LEMMA ProcessOK ==
    ASSUME TypeOK, NEW e \in Event, NEW nested \in BOOLEAN, Process(e, nested)
    PROVE  \/ /\ e.type = "requested" /\ Queue(e.wf)
              /\ task'.at = IF nested THEN "draining" ELSE "idle"
           \/ e.type = "cancelled" /\ Release(e.wf)
           \/ /\ e.type = "noted" /\ task'.at = "draining"
              /\ UNCHANGED <<rows, faulty, running, queued>>
           \/ Load(e.type, e.wf, nested)
<1>1. e.wf \in Workflow
  BY EventsOK
<1>2. CASE /\ e.type = "requested" /\ Full /\ Enqueue(e.wf) /\ ReturnEarly(nested)
           /\ UNCHANGED <<running, moved>>
  <2>1. queued' = Append(queued, e.wf) /\ ToSet(queued)' = ToSet(queued) \cup {e.wf}
    BY <1>1, <1>2, ChannelAndQueue DEF Enqueue
  <2>2. \/ rows' = rows \cup {e.wf} /\ faulty' = faulty
        \/ rows' = rows /\ faulty' = TRUE
    BY <1>2 DEF Enqueue, Fault, fault
  <2>3. task'.at = IF nested THEN "draining" ELSE "idle"
    BY <1>2, TasksOK DEF ReturnEarly
  <2> QED BY <1>2, <2>1, <2>2, <2>3 DEF Queue
<1>3. CASE /\ e.type = "cancelled" /\ ReleaseCancelled(e.wf) /\ Done
           /\ UNCHANGED <<moved, kept>>
  <2>1. task'.at = "draining"
    BY <1>3, TasksOK DEF Done
  <2>2. \/ rows' \in {rows, rows \ {e.wf}} /\ faulty' = faulty
        \/ rows' = rows /\ faulty' = TRUE
    BY <1>3 DEF ReleaseCancelled, RemoveQueued, DeleteRow, Fault, fault
  <2> QED BY <1>1, <1>3, <2>1, <2>2, RemoveQueuedOK DEF Release, ReleaseCancelled
<1>4. CASE /\ e.type = "noted" /\ Done
           /\ UNCHANGED <<rows, fault, kept, running, queued, moved>>
  BY <1>4, TasksOK DEF Done, fault
<1>5. CASE /\ e.type = "requested" => ~Full
           /\ e.type \in {"requested", "reported", "resumed"}
           /\ task' = [at |-> "deciding", type |-> e.type, wf |-> e.wf,
                       seen |-> status[e.wf], nested |-> nested]
           /\ moved' = FALSE
           /\ UNCHANGED <<rows, fault, kept, running, queued>>
  BY <1>5 DEF Load, fault
<1> QED BY <1>2, <1>3, <1>4, <1>5 DEF Process

\* The event that processLoop takes, and those it leaves.
LEMMA ReceiveOK ==
    ASSUME TypeOK, Receive
    PROVE  \E type \in EventType, w \in Workflow :
              /\ Ev(type, w) \in ToSet(inbox) /\ Head(inbox) = Ev(type, w)
              /\ ToSet(inbox) = {Ev(type, w)} \cup ToSet(inbox)'
              /\ inbox' = Tail(inbox) /\ inbox # <<>>
              /\ task.at = "idle"
              /\ UNCHANGED <<status, listed, phase, snapshot, loaded, readmitted, crashed>>
              /\ \/ type = "requested" /\ Queue(w) /\ task'.at = "idle"
                 \/ type = "cancelled" /\ Release(w)
                 \/ /\ type = "noted" /\ task'.at = "draining"
                    /\ UNCHANGED <<rows, faulty, running, queued>>
                 \/ Load(type, w, FALSE)
<1> DEFINE e == Head(inbox)
<1>1. inbox # <<>> /\ inbox' = Tail(inbox)
  BY DEF Receive
<1>2. e \in Event /\ ToSet(inbox) = {e} \cup ToSet(inbox)'
  BY <1>1, ChannelAndQueue
<1>3. e.type \in EventType /\ e.wf \in Workflow /\ e = Ev(e.type, e.wf)
  BY <1>2, EventsOK
<1>4. /\ task.at = "idle" /\ Process(e, FALSE)
      /\ UNCHANGED <<status, listed, phase, snapshot, loaded, readmitted, crashed>>
  BY DEF Receive, boot
<1>5. \/ e.type = "requested" /\ Queue(e.wf) /\ task'.at = "idle"
      \/ e.type = "cancelled" /\ Release(e.wf)
      \/ /\ e.type = "noted" /\ task'.at = "draining"
         /\ UNCHANGED <<rows, faulty, running, queued>>
      \/ Load(e.type, e.wf, FALSE)
  <2> HIDE DEF e
  <2> QED BY <1>2, <1>4, ProcessOK
<1> HIDE DEF e
<1>6. Head(inbox) = e
  BY DEF e
<1> QED BY <1>1, <1>2, <1>3, <1>4, <1>5, <1>6

\* The request out of the queue, in the engine's hand.
LEMMA RedecideOK ==
    ASSUME TypeOK, KnownInv, Redecide
    PROVE  /\ task.wf \in Workflow /\ task.at = "dequeued"
           /\ UNCHANGED <<status, listed, phase, snapshot, loaded, inbox, readmitted,
                          crashed>>
           /\ \/ Queue(task.wf) /\ task'.at = "draining"
              \/ Load("requested", task.wf, TRUE)
<1>1. task.wf \in Workflow /\ task.at = "dequeued" /\ Process(Ev("requested", task.wf), TRUE)
  BY DEF Redecide, KnownInv
<1>2. /\ Ev("requested", task.wf) \in Event /\ Ev("requested", task.wf).wf = task.wf
      /\ Ev("requested", task.wf).type = "requested"
  BY <1>1, EventsOK
<1> QED BY <1>1, <1>2, ProcessOK DEF Redecide, boot

LEMMA DequeueOK ==
    ASSUME TypeOK, Dequeue
    PROVE  /\ NextQueued \in Workflow /\ NextQueued \in ToSet(queued)
           /\ ToSet(queued) = {NextQueued} \cup ToSet(queued)'
           /\ task'.at = "dequeued" /\ task'.wf = NextQueued
           /\ \/ rows' = rows \ {NextQueued} /\ UNCHANGED fault
              \/ rows' = rows /\ faulty' = TRUE
<1>1. queued # <<>> /\ queued' = Tail(queued)
  BY DEF Dequeue
<1>2. NextQueued \in Workflow /\ ToSet(queued) = {NextQueued} \cup ToSet(queued)'
  BY <1>1, ChannelAndQueue
<1>3. task'.at = "dequeued" /\ task'.wf = NextQueued
  BY <1>2, TasksOK DEF Dequeue
<1> QED BY <1>2, <1>3 DEF Dequeue, DeleteRow, Fault

LEMMA AtOK ==
    /\ At("idle").at = "idle" /\ At("draining").at = "draining"
    /\ \A nested \in BOOLEAN : ReturnEarly(nested) => task'.at \in {"idle", "draining"}
    /\ Done => task'.at = "draining"
BY TasksOK DEF ReturnEarly, Done

-----------------------------------------------------------------------------
(* The invariants, step by step *)

\* A workflow that was requested was requested for good.
LEMMA StaysKnown ==
    ASSUME TypeOK, KnownInv, TaskInv, [Next]_vars,
           NEW w \in Workflow, status[w] # "none"
    PROVE  status'[w] # "none"
<1>1. CASE Commit
  BY <1>1, CommitOK DEF Decided, TypeOK
<1>2. CASE Sweep
  BY <1>2 DEF Sweep, TypeOK
<1>3. ASSUME NEW v \in Workflow, Request(v) PROVE status'[w] # "none"
  BY <1>3 DEF Request, TypeOK
<1>4. ASSUME NEW v \in Workflow, NEW type \in EventType, NEW new \in Status,
             Told(v, type, new)
      PROVE  status'[w] # "none"
  BY <1>4 DEF Told, TypeOK, Live
<1>5. CASE UNCHANGED status
  BY <1>5
<1> QED BY <1>1, <1>2, <1>3, <1>4, <1>5, Steps
        DEF Receive, NoDecision, Conflict, EndDrain, Dequeue, Redecide, Report,
            Crash, Restart, Scan, Warm, ReadRows, LoadQueue, Boot, store, vars

LEMMA KnownNext == TypeOK /\ KnownInv /\ TaskInv /\ [Next]_vars => KnownInv'
<1> SUFFICES ASSUME TypeOK, KnownInv, TaskInv, [Next]_vars PROVE KnownInv'
  OBVIOUS
<1> DEFINE Known(w) == w \in Workflow /\ status[w] # "none"
<1>1. \A w : Known(w) => w \in Workflow /\ status'[w] # "none"
  BY StaysKnown
<1>2. /\ \A e \in ToSet(inbox) : Known(e.wf)
      /\ \A w \in ToSet(queued) \cup ToSet(loaded) \cup rows : Known(w)
      /\ task.at \in {"dequeued", "deciding"} => Known(task.wf)
  <2>1. ToSet(inbox) \subseteq Event /\ ToSet(queued) \subseteq Workflow
        /\ ToSet(loaded) \subseteq Workflow /\ rows \subseteq Workflow
    BY ChannelAndQueue DEF TypeOK
  <2> QED BY <2>1, EventsOK DEF KnownInv
<1> HIDE DEF Known
<1> DEFINE Goal ==
        /\ \A e \in ToSet(inbox)' :
              e \in ToSet(inbox) \/ (e.wf \in Workflow /\ status'[e.wf] # "none")
        /\ \A w \in (ToSet(queued) \cup ToSet(loaded) \cup rows)' :
              w \in ToSet(queued) \cup ToSet(loaded) \cup rows \/ Known(w)
        /\ task'.at \in {"dequeued", "deciding"} => Known(task'.wf)
<1>3. SUFFICES Goal
  BY <1>1, <1>2 DEF KnownInv
<1>4. CASE Receive
  <2>1. PICK type \in EventType, w \in Workflow :
           /\ Ev(type, w) \in ToSet(inbox) /\ ToSet(inbox)' \subseteq ToSet(inbox)
           /\ UNCHANGED <<status, loaded>>
           /\ \/ Queue(w) /\ task'.at = "idle"
              \/ Release(w)
              \/ task'.at = "draining" /\ UNCHANGED <<rows, queued>>
              \/ Load(type, w, FALSE)
    BY <1>4, ReceiveOK
  <2>2. Known(w)
    BY <1>2, <2>1, EventsOK
  <2> QED BY <2>1, <2>2 DEF Queue, Release, Load
<1>5. CASE Commit
  <2>1. PICK new \in Status : Decided(new)
    BY <1>5, CommitOK
  <2>2. Ev("noted", task.wf).wf = task.wf /\ Known(task.wf)
    BY <1>2, <1>5, <2>1, EventsOK DEF Commit, Decided
  <2>3. ToSet(inbox)' \subseteq ToSet(inbox) \cup {Ev("noted", task.wf)}
    BY <2>1 DEF Decided
  <2>4. /\ task'.at = "draining" /\ UNCHANGED <<loaded, queued, rows>>
    BY <1>5, AtOK DEF Commit, boot
  <2> QED BY <1>1, <2>2, <2>3, <2>4
<1>6. CASE NoDecision \/ Conflict \/ EndDrain
  BY <1>6, AtOK DEF NoDecision, Conflict, EndDrain, boot, store, TypeOK, Task
<1>7. CASE Dequeue
  <2>1. Known(NextQueued)
    BY <1>2, <1>7, DequeueOK
  <2> QED BY <1>7, <2>1, DequeueOK DEF Dequeue, boot
<1>8. CASE Redecide
  <2>1. /\ Known(task.wf)
        /\ \/ Queue(task.wf) /\ task'.at = "draining"
           \/ Load("requested", task.wf, TRUE)
        /\ UNCHANGED <<inbox, loaded>>
    BY <1>2, <1>8, RedecideOK
  <2> QED BY <2>1 DEF Queue, Load
<1>9. CASE Sweep
  BY <1>9, AtOK DEF Sweep, AfterSweep, boot
<1>10. ASSUME NEW w \in Workflow, Request(w) \/ Report(w)
       PROVE  Goal
  <2>1. PICK type \in EventType : ToSet(inbox)' = ToSet(inbox) \cup {Ev(type, w)}
    BY <1>10, EventsOK, SaidOK
  <2>2. Ev(type, w).wf = w /\ status'[w] # "none"
    BY <1>10, EventsOK DEF Request, Report, store, TypeOK
  <2> QED BY <1>2, <1>10, <2>1, <2>2 DEF Request, Report, boot, store
<1>11. ASSUME NEW w \in Workflow, NEW type \in EventType, NEW new \in Status,
              Told(w, type, new)
       PROVE  Goal
  <2>1. Ev(type, w).wf = w /\ status'[w] # "none"
    BY <1>11, EventsOK DEF Told, TypeOK, Live
  <2> QED BY <1>2, <1>11, <2>1 DEF Told, Publish, boot
<1>12. CASE Crash
  BY <1>12, AtOK, ChannelAndQueue DEF Crash, store
<1>13. CASE ReadRows
  <2>1. ToSet(loaded)' \subseteq rows
    <3>1. rows \subseteq Workflow
      BY DEF TypeOK
    <3>2. loaded' \in [1..Cardinality(rows) -> rows]
      BY <1>13 DEF ReadRows, InOrder
    <3> QED BY <3>1, <3>2 DEF ToSet
  <2> QED BY <1>2, <1>13, <2>1 DEF ReadRows, Boot, store
<1>14. CASE Restart \/ Scan \/ Warm
  BY <1>2, <1>14 DEF Restart, Scan, Warm, Boot, store
<1>15. CASE LoadQueue
  BY <1>2, <1>15, ChannelAndQueue DEF LoadQueue, Boot, store
<1>16. CASE UNCHANGED vars
  BY <1>2, <1>16 DEF vars, store, boot
<1> QED BY <1>4, <1>5, <1>6, <1>7, <1>8, <1>9, <1>10, <1>11, <1>12, <1>13, <1>14,
           <1>15, <1>16, Steps

LEMMA TaskNext == TypeOK /\ KnownInv /\ TaskInv /\ [Next]_vars => TaskInv'
<1> SUFFICES ASSUME TypeOK, KnownInv, TaskInv, [Next]_vars PROVE TaskInv'
  OBVIOUS
<1>1. ASSUME UNCHANGED <<task, moved, status>> PROVE TaskInv'
  BY <1>1 DEF TaskInv
<1>2. ASSUME task'.at # "deciding" PROVE TaskInv'
  BY <1>2 DEF TaskInv
<1>3. ASSUME NEW type \in EventType, NEW w \in Workflow, NEW nested \in BOOLEAN,
             Load(type, w, nested), UNCHANGED status, status[w] # "none"
      PROVE  TaskInv'
  BY <1>3 DEF Load, TaskInv
<1>4. CASE Receive
  <2>1. PICK type \in EventType, w \in Workflow :
           /\ Ev(type, w) \in ToSet(inbox) /\ UNCHANGED status
           /\ task'.at # "deciding" \/ Load(type, w, FALSE)
    BY <1>4, ReceiveOK DEF Release
  <2>2. status[w] # "none"
    BY <2>1, EventsOK DEF KnownInv
  <2> QED BY <1>2, <1>3, <2>1, <2>2
<1>5. CASE Redecide
  <2>1. /\ task.wf \in Workflow /\ UNCHANGED status /\ status[task.wf] # "none"
        /\ task'.at # "deciding" \/ Load("requested", task.wf, TRUE)
    BY <1>5, RedecideOK DEF KnownInv
  <2>2. "requested" \in EventType
    BY DEF EventType
  <2>3. Load("requested", task.wf, TRUE) => TaskInv'
    BY <1>3, <2>1, <2>2
  <2> QED BY <1>2, <2>1, <2>3
<1>6. CASE Commit \/ NoDecision \/ Conflict \/ EndDrain \/ Dequeue \/ Sweep \/ Crash
  <2>1. CASE Dequeue
    BY <1>2, <2>1, DequeueOK
  <2>2. CASE Conflict
    <3>1. task'.at \in {"idle", "draining"}
      BY <2>2, AtOK DEF Conflict, TypeOK, Task
    <3> QED BY <1>2, <3>1
  <2> QED BY <1>2, <1>6, <2>1, <2>2, AtOK
          DEF Commit, NoDecision, EndDrain, Sweep, AfterSweep, Crash
<1>7. ASSUME NEW w \in Workflow, Request(w) PROVE TaskInv'
  <2>1. \A v \in Workflow : v = w \/ status'[v] = status[v]
    BY <1>7 DEF Request, TypeOK
  <2>2. status[w] = "none"
    BY <1>7, WorkflowNumbers DEF Request
  <2>3. task.at = "deciding" => status'[task.wf] = status[task.wf]
    BY <2>1, <2>2 DEF KnownInv
  <2> QED BY <1>7, <2>3 DEF Request, TaskInv
<1>8. ASSUME NEW w \in Workflow, NEW type \in EventType, NEW new \in Status,
             Told(w, type, new)
      PROVE  TaskInv'
  <2>1. task' = task
    BY <1>8 DEF Told, Publish
  <2>2. CASE task.at = "deciding" /\ task.wf = w
    <3>1. moved' = TRUE
      BY <1>8, <2>2 DEF Told, Publish
    <3>2. status'[task.wf] # "requested"
      BY <1>8, <2>2 DEF Told, TypeOK, Live
    <3> QED BY <2>1, <3>1, <3>2 DEF TaskInv
  <2>3. CASE task.at = "deciding" /\ task.wf # w
    <3>1. moved' = moved
      BY <1>8, <2>3 DEF Told, Publish, TypeOK
    <3>2. status'[task.wf] = status[task.wf]
      BY <1>8, <2>3 DEF Told, TypeOK, KnownInv
    <3> QED BY <2>1, <3>1, <3>2 DEF TaskInv
  <2> QED BY <1>2, <2>1, <2>2, <2>3
<1>9. CASE \/ \E w \in Workflow : Report(w)
           \/ Restart \/ Scan \/ Warm \/ ReadRows \/ LoadQueue \/ UNCHANGED vars
  BY <1>1, <1>9 DEF Report, Restart, Scan, Warm, ReadRows, LoadQueue, Boot, vars, store
<1> QED BY <1>4, <1>5, <1>6, <1>7, <1>8, <1>9, Steps

LEMMA CancelNext ==
    TypeOK /\ KnownInv /\ TaskInv /\ CancelInv /\ [Next]_vars => CancelInv'
<1> SUFFICES ASSUME TypeOK, KnownInv, TaskInv, CancelInv, [Next]_vars,
                    NEW w \in Workflow, Ev("cancelled", w) \in ToSet(inbox)'
             PROVE  /\ status'[w] # "requested"
                    /\ status'[w] \in Live => w \in readmitted'
  BY DEF CancelInv
<1>1. Ev("cancelled", w).type = "cancelled" /\ Ev("cancelled", w).wf = w
  BY EventsOK
<1>2. Ev("cancelled", w) \in ToSet(inbox) =>
         status[w] # "requested" /\ (status[w] \in Live => w \in readmitted)
  BY DEF CancelInv
<1>3. CASE ToSet(inbox)' \subseteq ToSet(inbox) /\ UNCHANGED <<status, readmitted>>
  BY <1>2, <1>3
<1>4. CASE Receive
  BY <1>3, <1>4, ReceiveOK
<1>5. CASE Commit
  <2>1. PICK new \in Status : Decided(new)
    BY <1>5, CommitOK
  <2>2. Ev("noted", task.wf).type = "noted"
    BY <2>1, EventsOK DEF Decided
  <2>3. Ev("cancelled", w) \in ToSet(inbox)
    BY <1>1, <2>1, <2>2 DEF Decided
  <2>4. CASE task.wf # w
    BY <1>2, <2>1, <2>3, <2>4 DEF Decided, TypeOK
  <2>5. CASE task.wf = w
    <3>1. status'[w] = new /\ new # "requested" /\ status[w] = task.seen
      BY <2>1, <2>5 DEF Decided, TypeOK
    <3>2. new \in Live => w \in readmitted'
      BY <1>2, <2>1, <2>3, <2>5, <3>1 DEF Decided, Live
    <3> QED BY <3>1, <3>2
  <2> QED BY <2>4, <2>5
<1>6. CASE NoDecision \/ Conflict \/ EndDrain
  BY <1>3, <1>6 DEF NoDecision, Conflict, EndDrain, store
<1>7. CASE Dequeue
  BY <1>3, <1>7 DEF Dequeue
<1>8. CASE Redecide
  BY <1>3, <1>8, RedecideOK
<1>9. CASE Sweep
  BY <1>2, <1>9 DEF Sweep, Live, TypeOK
<1>10. ASSUME NEW v \in Workflow, Request(v)
       PROVE  status'[w] # "requested" /\ (status'[w] \in Live => w \in readmitted')
  <2>1. Ev("requested", v).type = "requested"
    BY EventsOK
  <2>2. Ev("cancelled", w) \in ToSet(inbox)
    BY <1>1, <1>10, <2>1, SaidOK
  <2>3. status[w] # "none" /\ status[v] = "none"
    BY <1>1, <1>10, <2>2, WorkflowNumbers DEF KnownInv, Request
  <2> QED BY <1>2, <1>10, <2>2, <2>3 DEF Request, TypeOK
<1>11. ASSUME NEW v \in Workflow, Report(v)
       PROVE  status'[w] # "requested" /\ (status'[w] \in Live => w \in readmitted')
  <2>1. Ev("reported", v).type = "reported"
    BY EventsOK
  <2>2. Ev("cancelled", w) \in ToSet(inbox)
    BY <1>1, <1>11, <2>1, SaidOK
  <2> QED BY <1>2, <1>11, <2>2 DEF Report, store
<1>12. ASSUME NEW v \in Workflow, NEW type \in EventType, NEW new \in Status,
              Told(v, type, new)
       PROVE  status'[w] # "requested" /\ (status'[w] \in Live => w \in readmitted')
  <2>1. Ev(type, v).type = type /\ Ev(type, v).wf = v
    BY EventsOK
  <2>2. CASE v # w
    <3>1. Ev("cancelled", w) \in ToSet(inbox)
      BY <1>1, <1>12, <2>1, <2>2 DEF Told
    <3> QED BY <1>2, <1>12, <2>2, <3>1 DEF Told, TypeOK
  <2>3. CASE v = w
    <3>1. status'[w] = new /\ new # "requested"
      BY <1>12, <2>3 DEF Told, TypeOK, Live
    <3>2. new \in Live => w \in readmitted'
      <4>1. ASSUME new \in Live PROVE Ev("cancelled", w) \in ToSet(inbox)
        BY <1>1, <1>12, <2>1, <4>1 DEF Told, Live
      <4> QED BY <1>2, <1>12, <2>3, <4>1 DEF Told
    <3> QED BY <3>1, <3>2
  <2> QED BY <2>2, <2>3
<1>13. CASE Crash
  BY <1>13, ChannelAndQueue DEF Crash
<1>14. CASE Restart \/ Scan \/ Warm \/ ReadRows \/ LoadQueue \/ UNCHANGED vars
  BY <1>3, <1>14 DEF Restart, Scan, Warm, ReadRows, LoadQueue, Boot, vars, store
<1> QED BY <1>4, <1>5, <1>6, <1>7, <1>8, <1>9, <1>10, <1>11, <1>12, <1>13, <1>14, Steps

LEMMA HoldersNext ==
    /\ TypeOK /\ KnownInv /\ TaskInv /\ CancelInv /\ HoldersInv
    /\ [Next]_vars
    => HoldersInv'
<1> DEFINE Held(w) ==
        /\ listed[w] \in Live
        /\ phase = "scanned" => w \in running \cup snapshot
        /\ phase \in {"warmed", "loading", "up"} => w \in running
<1> SUFFICES ASSUME TypeOK, KnownInv, TaskInv, CancelInv, HoldersInv, [Next]_vars,
                    NEW w \in Workflow, status'[w] \in Live, w \notin readmitted'
             PROVE  Held(w)'
  BY DEF HoldersInv
<1>1. status[w] \in Live /\ w \notin readmitted => Held(w)
  BY DEF HoldersInv
<1>2. CASE /\ UNCHANGED <<status, listed, readmitted, phase, snapshot>>
           /\ w \in running => w \in running'
  BY <1>1, <1>2
<1>3. CASE Receive
  <2>1. PICK type \in EventType, v \in Workflow :
           /\ Ev(type, v) \in ToSet(inbox)
           /\ UNCHANGED <<status, listed, readmitted, phase, snapshot>>
           /\ running' = running \/ (type = "cancelled" /\ running' = running \ {v})
    BY <1>3, ReceiveOK DEF Queue, Release, Load
  <2>2. type = "cancelled" => v # w
    BY <2>1 DEF CancelInv
  <2> QED BY <1>2, <2>1, <2>2
<1>4. CASE Commit
  <2>1. PICK new \in Status : Decided(new)
    BY <1>4, CommitOK
  <2>2. UNCHANGED <<phase, snapshot>>
    BY <1>4 DEF Commit, boot
  <2>3. CASE task.wf # w
    <3>1. UNCHANGED <<status[w], listed[w]>> /\ w \notin readmitted
      BY <2>1, <2>3 DEF Decided, TypeOK
    <3>2. w \in running => w \in running'
      BY <2>1, <2>3 DEF Decided, TrackSlot
    <3> QED BY <1>1, <2>2, <3>1, <3>2
  <2>4. CASE task.wf = w
    <3>1. status'[w] = new /\ new \in {"running", "paused"} /\ w \notin readmitted
          /\ task.seen = status[w]
      BY <2>1, <2>4 DEF Decided, TypeOK, Live
    <3>2. CASE task.type = "requested"
      BY <2>1, <2>4, <3>1, <3>2 DEF Decided, TrackSlot, TypeOK, Live
    <3>3. CASE task.type # "requested"
      <4>1. status[w] \in Live /\ running' = running
        BY <2>1, <2>4, <3>1, <3>3 DEF Decided, TrackSlot, Live
      <4>2. listed'[w] \in Live
        BY <1>1, <2>1, <2>4, <3>1, <4>1 DEF Decided, TypeOK, Live
      <4> QED BY <1>1, <2>2, <3>1, <4>1, <4>2
    <3> QED BY <3>2, <3>3
  <2> QED BY <2>3, <2>4
<1>5. CASE NoDecision \/ Conflict \/ EndDrain
  BY <1>2, <1>5 DEF NoDecision, Conflict, EndDrain, store, boot
<1>6. CASE Dequeue
  BY <1>2, <1>6 DEF Dequeue, boot
<1>7. CASE Redecide
  BY <1>2, <1>7, RedecideOK DEF Queue, Load
<1>8. CASE Sweep
  <2>1. PICK stalled \in SUBSET running :
           /\ status' = [v \in Workflow |-> IF v \in stalled THEN "failed" ELSE status[v]]
           /\ listed' = [v \in Workflow |-> IF v \in stalled THEN "failed" ELSE listed[v]]
           /\ running' = running \ stalled
    BY <1>8 DEF Sweep
  <2>2. w \notin stalled
    BY <2>1 DEF Live
  <2>3. UNCHANGED <<status[w], listed[w], phase, snapshot, readmitted>>
        /\ (w \in running => w \in running')
    BY <1>8, <2>1, <2>2 DEF Sweep, boot
  <2> QED BY <1>1, <2>3
<1>9. ASSUME NEW v \in Workflow, Request(v) PROVE Held(w)'
  <2>1. v # w
    BY <1>9 DEF Request, TypeOK, Live
  <2>2. UNCHANGED <<status[w], listed[w], running, phase, snapshot, readmitted>>
    BY <1>9, <2>1 DEF Request, boot, TypeOK
  <2> QED BY <1>1, <2>2
<1>10. ASSUME NEW v \in Workflow, Report(v) PROVE Held(w)'
  BY <1>2, <1>10 DEF Report, store, boot
<1>11. ASSUME NEW v \in Workflow, NEW type \in EventType, NEW new \in Status,
              Told(v, type, new)
       PROVE  Held(w)'
  <2>1. UNCHANGED <<running, phase, snapshot>> /\ w \notin readmitted
    BY <1>11 DEF Told, Publish, boot
  <2>2. CASE v # w
    <3>1. UNCHANGED <<status[w], listed[w]>>
      BY <1>11, <2>2 DEF Told, TypeOK
    <3> QED BY <1>1, <2>1, <3>1
  <2>3. CASE v = w
    <3>1. status'[w] = new /\ status[w] \in Live /\ listed'[w] = new
      BY <1>11, <2>3 DEF Told, TypeOK
    <3> QED BY <1>1, <2>1, <3>1
  <2> QED BY <2>2, <2>3
<1>12. CASE Crash
  BY <1>1, <1>12 DEF Crash, store
<1>13. CASE Restart
  BY <1>1, <1>13 DEF Restart, Boot, store
<1>14. CASE Scan
  <2>1. w \in snapshot'
    BY <1>1, <1>14 DEF Scan, Boot, store, ListedLive
  <2> QED BY <1>1, <1>14, <2>1 DEF Scan, Boot, store
<1>15. CASE Warm
  BY <1>1, <1>15 DEF Warm, Boot, store
<1>16. CASE ReadRows \/ LoadQueue
  BY <1>1, <1>16 DEF ReadRows, LoadQueue, Boot, store
<1>17. CASE UNCHANGED vars
  BY <1>2, <1>17 DEF vars, store, boot
<1> QED BY <1>3, <1>4, <1>5, <1>6, <1>7, <1>8, <1>9, <1>10, <1>11, <1>12, <1>13,
           <1>14, <1>15, <1>16, <1>17, Steps

LEMMA StoredNext ==
    /\ TypeOK /\ KnownInv /\ TaskInv /\ CancelInv /\ StoredInv
    /\ [Next]_vars
    => StoredInv'
<1> DEFINE Safe(w) ==
        status[w] = "requested" => w \in rows \/ (HasRequest /\ task.wf = w)
<1> SUFFICES ASSUME TypeOK, KnownInv, TaskInv, CancelInv, StoredInv, [Next]_vars,
                    ~faulty', NEW w \in (ToSet(queued) \cup ToSet(loaded))'
             PROVE  Safe(w)'
  BY DEF StoredInv
<1>1. ~faulty /\ w \in ToSet(queued) \cup ToSet(loaded) => Safe(w)
  BY DEF StoredInv
<1>2. CASE /\ status' = status /\ faulty' = faulty /\ rows' = rows
           /\ ToSet(queued)' \subseteq ToSet(queued) /\ loaded' = loaded
           /\ ~HasRequest \/ task' = task
  BY <1>1, <1>2 DEF HasRequest
<1>3. CASE Receive
  <2>1. PICK type \in EventType, v \in Workflow :
           /\ Ev(type, v) \in ToSet(inbox)
           /\ task.at = "idle" /\ UNCHANGED <<status, loaded>>
           /\ \/ Queue(v)
              \/ type = "cancelled" /\ Release(v)
              \/ UNCHANGED <<rows, faulty, queued>>
    BY <1>3, ReceiveOK DEF Load
  <2>2. ~HasRequest
    BY <2>1 DEF HasRequest
  <2>3. CASE Queue(v)
    BY <1>1, <2>1, <2>2, <2>3 DEF Queue
  <2>4. CASE type = "cancelled" /\ Release(v)
    <3>1. status[v] # "requested"
      BY <2>1, <2>4 DEF CancelInv
    <3> QED BY <1>1, <2>1, <2>2, <2>4, <3>1 DEF Release
  <2> QED BY <1>2, <2>1, <2>2, <2>3, <2>4
<1>4. CASE Commit
  <2>1. PICK new \in Status : Decided(new)
    BY <1>4, CommitOK
  <2>2. UNCHANGED <<rows, faulty, queued, loaded>>
    BY <1>4 DEF Commit, boot, counters, fault
  <2>3. status'[w] = "requested" => w # task.wf /\ status[w] = "requested"
    BY <2>1 DEF Decided, TypeOK
  <2> QED BY <1>1, <2>2, <2>3
<1>5. CASE NoDecision \/ Conflict
  <2>1. UNCHANGED <<rows, faulty, queued, loaded, status>> /\ task.at = "deciding"
    BY <1>5 DEF NoDecision, Conflict, boot, store, counters, fault
  <2>2. HasRequest => status[task.wf] # "requested"
    BY <1>5, <2>1, GivenUpOK DEF HasRequest
  <2> QED BY <1>1, <2>1, <2>2
<1>6. CASE EndDrain
  <2>1. ~HasRequest
    BY <1>6 DEF EndDrain, DrainEnds, HasRequest
  <2> QED BY <1>2, <1>6, <2>1 DEF EndDrain, store, boot, counters, fault
<1>7. CASE Dequeue
  <2>1. /\ ~HasRequest /\ HasRequest' /\ task'.wf = NextQueued
        /\ rows' = rows \ {NextQueued} /\ faulty' = faulty
        /\ ToSet(queued)' \subseteq ToSet(queued)
    BY <1>7, DequeueOK DEF Dequeue, HasRequest, fault
  <2>2. UNCHANGED <<status, loaded>>
    BY <1>7 DEF Dequeue, boot
  <2> QED BY <1>1, <2>1, <2>2
<1>8. CASE Redecide
  <2>1. /\ task.at = "dequeued" /\ UNCHANGED <<status, loaded>>
        /\ Queue(task.wf) \/ Load("requested", task.wf, TRUE)
    BY <1>8, RedecideOK
  <2>2. HasRequest
    BY <2>1 DEF HasRequest
  <2>3. CASE Queue(task.wf)
    BY <1>1, <2>1, <2>2, <2>3 DEF Queue
  <2>4. CASE Load("requested", task.wf, TRUE)
    <3>1. HasRequest' /\ task'.wf = task.wf
      BY <2>4 DEF Load, HasRequest
    <3> QED BY <1>1, <2>1, <2>4, <3>1 DEF Load
  <2> QED BY <2>1, <2>3, <2>4
<1>9. CASE Sweep
  <2>1. ~HasRequest /\ UNCHANGED <<rows, faulty, queued, loaded>>
    BY <1>9 DEF Sweep, HasRequest, boot, counters, fault
  <2>2. w \in Workflow
    BY <2>1, ChannelAndQueue
  <2>3. status'[w] = "requested" => status[w] = "requested"
    BY <1>9, <2>2 DEF Sweep
  <2> QED BY <1>1, <2>1, <2>3
<1>10. ASSUME NEW v \in Workflow, Request(v) PROVE Safe(w)'
  <2>1. UNCHANGED <<task, rows, faulty, queued, loaded>>
    BY <1>10 DEF Request, boot, counters, fault
  <2>2. w \in Workflow /\ status[w] # "none" /\ status[v] = "none"
    BY <1>10, <2>1, ChannelAndQueue, WorkflowNumbers DEF Request, KnownInv
  <2>3. status'[w] = status[w]
    BY <1>10, <2>2 DEF Request, TypeOK
  <2> QED BY <1>1, <2>1, <2>3 DEF HasRequest
<1>11. ASSUME NEW v \in Workflow, Report(v) PROVE Safe(w)'
  BY <1>2, <1>11 DEF Report, store, boot, counters, fault
<1>12. ASSUME NEW v \in Workflow, NEW type \in EventType, NEW new \in Status,
              Told(v, type, new)
       PROVE  Safe(w)'
  <2>1. UNCHANGED <<task, rows, faulty, queued, loaded>>
    BY <1>12 DEF Told, Publish, boot
  <2>2. w \in Workflow
    BY <2>1, ChannelAndQueue
  <2>3. status'[w] = "requested" => status[w] = "requested"
    BY <1>12, <2>2 DEF Told, TypeOK, Live
  <2> QED BY <1>1, <2>1, <2>3 DEF HasRequest
<1>13. CASE Crash
  BY <1>13, ChannelAndQueue DEF Crash
<1>14. CASE ReadRows
  <2>1. /\ UNCHANGED <<status, rows, queued, task, faulty>>
        /\ loaded' \in [1..Cardinality(rows) -> rows]
    BY <1>14 DEF ReadRows, Boot, InOrder, store, counters, fault
  <2>2. ToSet(loaded)' \subseteq rows
    BY <2>1 DEF ToSet
  <2> QED BY <1>1, <2>1, <2>2 DEF HasRequest
<1>15. CASE LoadQueue
  <2>1. /\ UNCHANGED <<status, rows, task, faulty>>
        /\ queued' = loaded /\ loaded' = <<>>
    BY <1>15 DEF LoadQueue, Boot, store, counters, fault
  <2> QED BY <1>1, <2>1, ChannelAndQueue DEF HasRequest
<1>16. CASE Restart \/ Scan \/ Warm \/ UNCHANGED vars
  BY <1>2, <1>16 DEF Restart, Scan, Warm, Boot, vars, store, boot, counters, fault
<1> QED BY <1>3, <1>4, <1>5, <1>6, <1>7, <1>8, <1>9, <1>10, <1>11, <1>12, <1>13,
           <1>14, <1>15, <1>16, Steps

LEMMA LeakNext ==
    /\ TypeOK /\ KnownInv /\ TaskInv /\ NoLeakedSlot /\ SlotsInv
    /\ [Next]_vars
    => NoLeakedSlot'
<1> DEFINE Due(w) == status[w] \in Live \/ Ev("cancelled", w) \in ToSet(inbox)
<1> SUFFICES ASSUME TypeOK, KnownInv, TaskInv, NoLeakedSlot, SlotsInv, [Next]_vars,
                    ~crashed', NEW w \in running'
             PROVE  Due(w)'
  BY DEF NoLeakedSlot
<1>1. ~crashed /\ w \in running => Due(w)
  BY DEF NoLeakedSlot
<1>2. CASE /\ UNCHANGED <<status, crashed>> /\ running' \subseteq running
           /\ ToSet(inbox) \subseteq ToSet(inbox)'
  BY <1>1, <1>2
<1>3. CASE Receive
  <2>1. PICK type \in EventType, v \in Workflow :
           /\ UNCHANGED <<status, crashed>>
           /\ ToSet(inbox) = {Ev(type, v)} \cup ToSet(inbox)'
           /\ \/ type # "cancelled" /\ running' = running
              \/ running' = running \ {v}
    BY <1>3, ReceiveOK DEF Queue, Release, Load
  <2>2. running \subseteq Workflow
    BY DEF TypeOK
  <2>3. Ev(type, v).type = type /\ Ev(type, v).wf = v
        /\ Ev("cancelled", w).type = "cancelled" /\ Ev("cancelled", w).wf = w
    BY <2>1, <2>2, EventsOK
  <2>4. Ev(type, v) # Ev("cancelled", w)
    BY <2>1, <2>3
  <2> QED BY <1>1, <2>1, <2>4
<1>4. CASE Commit
  <2>1. PICK new \in Status : Decided(new)
    BY <1>4, CommitOK
  <2>2. crashed' = crashed /\ ToSet(inbox) \subseteq ToSet(inbox)'
    BY <1>4, <2>1 DEF Commit, counters, Decided
  <2>3. CASE w # task.wf
    <3>1. w \in running /\ w \in Workflow
      BY <2>1, <2>3 DEF Decided, TrackSlot, TypeOK
    <3>2. status'[w] = status[w]
      BY <2>1, <2>3, <3>1 DEF Decided, TypeOK
    <3> QED BY <1>1, <2>2, <3>1, <3>2
  <2>4. CASE w = task.wf
    <3>1. new \in Live
      BY <2>1, <2>4 DEF Decided, TrackSlot, Live
    <3>2. status'[w] = new
      BY <2>1, <2>4 DEF Decided, TypeOK
    <3> QED BY <3>1, <3>2
  <2> QED BY <2>3, <2>4
<1>5. CASE NoDecision \/ Conflict \/ EndDrain
  BY <1>2, <1>5 DEF NoDecision, Conflict, EndDrain, store, counters
<1>6. CASE Dequeue
  BY <1>2, <1>6 DEF Dequeue
<1>7. CASE Redecide
  BY <1>2, <1>7, RedecideOK DEF Queue, Load
<1>8. CASE Sweep
  <2>1. PICK stalled \in SUBSET running :
           /\ status' = [v \in Workflow |-> IF v \in stalled THEN "failed" ELSE status[v]]
           /\ running' = running \ stalled
    BY <1>8 DEF Sweep
  <2>2. w \in running /\ status'[w] = status[w]
    BY <2>1 DEF TypeOK
  <2> QED BY <1>1, <1>8, <2>2 DEF Sweep, counters
<1>9. ASSUME NEW v \in Workflow, Request(v) PROVE Due(w)'
  <2>1. w \in running /\ ~crashed
    BY <1>9 DEF Request, counters
  <2>2. ToSet(inbox) \subseteq ToSet(inbox)'
    BY <1>9, SaidOK
  <2>3. status[v] \notin Live
    BY <1>9, WorkflowNumbers DEF Request, Live
  <2>4. w # v => status'[w] = status[w]
    BY <1>9, <2>1 DEF Request, TypeOK
  <2> QED BY <1>1, <2>1, <2>2, <2>3, <2>4
<1>10. ASSUME NEW v \in Workflow, Report(v) PROVE Due(w)'
  BY <1>2, <1>10, SaidOK DEF Report, store, counters
<1>11. ASSUME NEW v \in Workflow, NEW type \in EventType, NEW new \in Status,
              Told(v, type, new)
       PROVE  Due(w)'
  <2>1. w \in running /\ ~crashed /\ ToSet(inbox) \subseteq ToSet(inbox)'
        /\ Ev(type, v) \in ToSet(inbox)'
    BY <1>11 DEF Told, Publish
  <2>2. CASE w # v
    BY <1>1, <1>11, <2>1, <2>2 DEF Told, TypeOK
  <2>3. CASE w = v
    <3>1. status'[w] = new /\ (new \in Live \/ type = "cancelled")
      BY <1>11, <2>3 DEF Told, TypeOK, Live
    <3> QED BY <2>1, <2>3, <3>1
  <2> QED BY <2>2, <2>3
<1>12. CASE Crash
  BY <1>12 DEF Crash
<1>13. CASE Warm
  BY <1>13 DEF Warm, Boot, counters, SlotsInv
<1>14. CASE Restart \/ Scan \/ ReadRows \/ LoadQueue \/ UNCHANGED vars
  BY <1>2, <1>14 DEF Restart, Scan, ReadRows, LoadQueue, Boot, vars, store, counters
<1> QED BY <1>3, <1>4, <1>5, <1>6, <1>7, <1>8, <1>9, <1>10, <1>11, <1>12, <1>13,
           <1>14, Steps

\* Slots that are given and given back.
LEMMA SlotsCount ==
    ASSUME TypeOK, Cardinality(running) <= MaxConcurrent, NEW w
    PROVE  /\ \A S : S \subseteq running => Cardinality(S) <= MaxConcurrent
           /\ ~Full => Cardinality(running \cup {w}) <= MaxConcurrent
<1>1. IsFiniteSet(running) /\ Cardinality(running) \in Nat
  BY WorkflowSets DEF TypeOK
<1>2. ASSUME NEW S, S \subseteq running PROVE Cardinality(S) <= MaxConcurrent
  <2>1. IsFiniteSet(S) /\ Cardinality(S) <= Cardinality(running)
    BY <1>1, <1>2, FS_Subset
  <2>2. Cardinality(S) \in Nat
    BY <2>1, FS_CardinalityType
  <2> QED BY <1>1, <2>1, <2>2
<1>3. Cardinality(running \cup {w}) \in {Cardinality(running), Cardinality(running) + 1}
  BY <1>1, FS_AddElement
<1> QED BY <1>1, <1>2, <1>3 DEF Full

LEMMA SlotsNext ==
    /\ TypeOK /\ KnownInv /\ TaskInv /\ SlotsInv
    /\ [Next]_vars
    => SlotsInv'
<1> SUFFICES ASSUME TypeOK, KnownInv, TaskInv, SlotsInv, [Next]_vars, ~crashed'
             PROVE  /\ phase' = "up"
                    /\ Cardinality(running)' <= MaxConcurrent
                    /\ HasRequest' => ~Full'
                    /\ task'.at = "idle" \/ (task'.at = "deciding" /\ ~task'.nested) =>
                          queued' = <<>> \/ Full'
  BY DEF SlotsInv
<1> DEFINE Goal == /\ phase' = "up"
                   /\ Cardinality(running)' <= MaxConcurrent
                   /\ HasRequest' => ~Full'
                   /\ task'.at = "idle" \/ (task'.at = "deciding" /\ ~task'.nested) =>
                         queued' = <<>> \/ Full'
<1>1. ~crashed =>
        /\ phase = "up"
        /\ Cardinality(running) <= MaxConcurrent
        /\ HasRequest => ~Full
        /\ task.at = "idle" \/ (task.at = "deciding" /\ ~task.nested) =>
                queued = <<>> \/ Full
  BY DEF SlotsInv
<1>2. ASSUME UNCHANGED <<phase, running, queued, task, crashed>> PROVE Goal
  BY <1>1, <1>2 DEF HasRequest, Full
<1>3. ASSUME UNCHANGED <<phase, crashed>>, running' \subseteq running,
             task'.at = "draining"
      PROVE  Goal
  BY <1>1, <1>3, SlotsCount DEF HasRequest
<1>4. CASE Receive
  <2>1. PICK type \in EventType, w \in Workflow :
           /\ task.at = "idle" /\ UNCHANGED <<phase, crashed>>
           /\ \/ Queue(w) /\ task'.at = "idle"
              \/ Release(w)
              \/ task'.at = "draining" /\ running' = running
              \/ Load(type, w, FALSE)
    BY <1>4, ReceiveOK
  <2>2. CASE Queue(w) /\ task'.at = "idle"
    BY <1>1, <2>1, <2>2 DEF Queue, HasRequest, Full
  <2>3. CASE Release(w) \/ (task'.at = "draining" /\ running' = running)
    BY <1>3, <2>1, <2>3 DEF Release
  <2>4. CASE Load(type, w, FALSE)
    BY <1>1, <2>1, <2>4 DEF Load, HasRequest, Full
  <2> QED BY <2>1, <2>2, <2>3, <2>4
<1>5. CASE Commit
  <2>1. PICK new \in Status : Decided(new)
    BY <1>5, CommitOK
  <2>2. task.at = "deciding" /\ task'.at = "draining" /\ UNCHANGED <<phase, crashed>>
    BY <1>5, AtOK DEF Commit, boot, counters
  <2>3. \/ running' \subseteq running
        \/ HasRequest /\ running' = running \cup {task.wf}
    BY <2>1, <2>2 DEF Decided, TrackSlot, HasRequest
  <2>4. Cardinality(running)' <= MaxConcurrent
    BY <1>1, <2>2, <2>3, SlotsCount
  <2> QED BY <1>1, <2>2, <2>4 DEF HasRequest
<1>6. CASE NoDecision
  BY <1>3, <1>6, AtOK DEF NoDecision, boot, counters
<1>7. CASE Conflict
  <2>1. task.at = "deciding" /\ task.nested \in BOOLEAN
    BY <1>7 DEF Conflict, TypeOK, Task
  <2>2. UNCHANGED <<phase, crashed, running, queued>>
    BY <1>7 DEF Conflict, boot, counters
  <2>3. task'.at = IF task.nested THEN "draining" ELSE "idle"
    BY <1>7, AtOK DEF Conflict, ReturnEarly
  <2> QED BY <1>1, <2>1, <2>2, <2>3 DEF HasRequest, Full
<1>8. CASE EndDrain
  <2>1. task'.at = "idle" /\ (queued' = <<>> \/ Full')
        /\ UNCHANGED <<phase, crashed, running>>
    BY <1>8, AtOK DEF EndDrain, DrainEnds, boot, counters, Full
  <2> QED BY <1>1, <2>1 DEF HasRequest
<1>9. CASE Dequeue
  <2>1. task'.at = "dequeued" /\ ~Full /\ UNCHANGED <<phase, crashed, running>>
    BY <1>9, DequeueOK DEF Dequeue, boot
  <2> QED BY <1>1, <2>1 DEF Full
<1>10. CASE Redecide
  <2>1. /\ UNCHANGED <<phase, crashed>>
        /\ \/ Queue(task.wf) /\ task'.at = "draining"
           \/ Load("requested", task.wf, TRUE)
    BY <1>10, RedecideOK
  <2>2. CASE Queue(task.wf) /\ task'.at = "draining"
    BY <1>3, <2>1, <2>2 DEF Queue
  <2>3. CASE Load("requested", task.wf, TRUE)
    BY <1>1, <2>1, <2>3 DEF Load, Full
  <2> QED BY <2>1, <2>2, <2>3
<1>11. CASE Sweep
  BY <1>3, <1>11, AtOK DEF Sweep, AfterSweep, boot, counters
<1>12. ASSUME NEW w \in Workflow, Request(w) \/ Report(w) PROVE Goal
  BY <1>2, <1>12 DEF Request, Report, boot, counters
<1>13. ASSUME NEW w \in Workflow, NEW type \in EventType, NEW new \in Status,
              Told(w, type, new)
       PROVE  Goal
  BY <1>2, <1>13 DEF Told, Publish, boot
<1>14. CASE Crash
  BY <1>14 DEF Crash
<1>15. CASE Restart \/ Scan \/ Warm \/ ReadRows \/ LoadQueue
  BY <1>1, <1>15 DEF Restart, Scan, Warm, ReadRows, LoadQueue, Boot, counters
<1>16. CASE UNCHANGED vars
  BY <1>2, <1>16 DEF vars, boot, counters
<1> QED BY <1>4, <1>5, <1>6, <1>7, <1>8, <1>9, <1>10, <1>11, <1>12, <1>13, <1>14,
           <1>15, <1>16, Steps

\* The queue in order: at its end, and without its first.
LEMMA IncreasingOK ==
    ASSUME NEW s \in Seq(Workflow), Increasing(s)
    PROVE  /\ \A w \in Workflow :
                 (\A v \in ToSet(s) : v < w) => Increasing(Append(s, w))
           /\ s # <<>> => /\ Increasing(Tail(s))
                          /\ \A v \in ToSet(Tail(s)) : s[1] < v
<1>1. ASSUME NEW w \in Workflow, \A v \in ToSet(s) : v < w
      PROVE  Increasing(Append(s, w))
  <2> SUFFICES ASSUME NEW i \in DOMAIN Append(s, w), NEW j \in DOMAIN Append(s, w), i < j
               PROVE  Append(s, w)[i] < Append(s, w)[j]
    BY DEF Increasing
  <2>1. i \in 1..Len(s) /\ Append(s, w)[i] = s[i]
    OBVIOUS
  <2>2. CASE j \in 1..Len(s)
    BY <2>1, <2>2 DEF Increasing
  <2>3. CASE j = Len(s) + 1
    <3>1. Append(s, w)[j] = w /\ s[i] \in ToSet(s)
      BY <2>1, <2>3 DEF ToSet
    <3> QED BY <1>1, <2>1, <3>1
  <2> QED BY <2>2, <2>3
<1>2. ASSUME s # <<>> PROVE Increasing(Tail(s))
  <2> SUFFICES ASSUME NEW i \in DOMAIN Tail(s), NEW j \in DOMAIN Tail(s), i < j
               PROVE  Tail(s)[i] < Tail(s)[j]
    BY DEF Increasing
  <2>1. /\ i + 1 \in DOMAIN s /\ j + 1 \in DOMAIN s /\ i + 1 < j + 1
        /\ Tail(s)[i] = s[i + 1] /\ Tail(s)[j] = s[j + 1]
    BY <1>2
  <2> QED BY <2>1 DEF Increasing
<1>3. ASSUME s # <<>>, NEW v \in ToSet(Tail(s)) PROVE s[1] < v
  <2>1. PICK j \in DOMAIN Tail(s) : Tail(s)[j] = v
    BY DEF ToSet
  <2>2. 1 \in DOMAIN s /\ j + 1 \in DOMAIN s /\ 1 < j + 1 /\ v = s[j + 1]
    BY <1>3, <2>1
  <2> QED BY <2>2 DEF Increasing
<1> QED BY <1>1, <1>2, <1>3

\* The same for the requests in the channel.
LEMMA RequestsIncreaseOK ==
    ASSUME NEW s \in Seq(Event), RequestsIncrease(s)
    PROVE  /\ \A e \in Event :
                 (e.type = "requested" =>
                     \A v \in Workflow : Ev("requested", v) \in ToSet(s) => v < e.wf)
                 => RequestsIncrease(Append(s, e))
           /\ s # <<>> =>
                 /\ RequestsIncrease(Tail(s))
                 /\ \A v, w \in Workflow :
                       Head(s) = Ev("requested", w) /\ Ev("requested", v) \in ToSet(Tail(s))
                           => w < v
<1>1. ASSUME NEW e \in Event,
             e.type = "requested" =>
                \A v \in Workflow : Ev("requested", v) \in ToSet(s) => v < e.wf
      PROVE  RequestsIncrease(Append(s, e))
  <2> SUFFICES ASSUME NEW i \in DOMAIN Append(s, e), NEW j \in DOMAIN Append(s, e), i < j,
                      Append(s, e)[i].type = "requested",
                      Append(s, e)[j].type = "requested"
               PROVE  Append(s, e)[i].wf < Append(s, e)[j].wf
    BY DEF RequestsIncrease
  <2>1. i \in 1..Len(s) /\ Append(s, e)[i] = s[i]
    OBVIOUS
  <2>2. CASE j \in 1..Len(s)
    BY <2>1, <2>2 DEF RequestsIncrease
  <2>3. CASE j = Len(s) + 1
    <3>1. Append(s, e)[j] = e /\ s[i] \in ToSet(s) /\ s[i] \in Event
      BY <2>1, <2>3 DEF ToSet
    <3>2. s[i] = Ev("requested", s[i].wf) /\ s[i].wf \in Workflow
      BY <2>1, <3>1, EventsOK
    <3> QED BY <1>1, <2>1, <3>1, <3>2
  <2> QED BY <2>2, <2>3
<1>2. ASSUME s # <<>> PROVE RequestsIncrease(Tail(s))
  <2> SUFFICES ASSUME NEW i \in DOMAIN Tail(s), NEW j \in DOMAIN Tail(s), i < j,
                      Tail(s)[i].type = "requested", Tail(s)[j].type = "requested"
               PROVE  Tail(s)[i].wf < Tail(s)[j].wf
    BY DEF RequestsIncrease
  <2>1. /\ i + 1 \in DOMAIN s /\ j + 1 \in DOMAIN s /\ i + 1 < j + 1
        /\ Tail(s)[i] = s[i + 1] /\ Tail(s)[j] = s[j + 1]
    BY <1>2
  <2> QED BY <2>1 DEF RequestsIncrease
<1>3. ASSUME s # <<>>, NEW v \in Workflow, NEW w \in Workflow,
             Head(s) = Ev("requested", w), Ev("requested", v) \in ToSet(Tail(s))
      PROVE  w < v
  <2>1. PICK j \in DOMAIN Tail(s) : Tail(s)[j] = Ev("requested", v)
    BY <1>3 DEF ToSet
  <2>2. /\ 1 \in DOMAIN s /\ j + 1 \in DOMAIN s /\ 1 < j + 1
        /\ s[1] = Ev("requested", w) /\ s[j + 1] = Ev("requested", v)
    BY <1>3, <2>1
  <2>3. /\ s[1].type = "requested" /\ s[1].wf = w
        /\ s[j + 1].type = "requested" /\ s[j + 1].wf = v
    BY <2>2, EventsOK DEF EventType
  <2> QED BY <2>2, <2>3 DEF RequestsIncrease
<1> QED BY <1>1, <1>2, <1>3

LEMMA OrderNext ==
    /\ TypeOK /\ KnownInv /\ TaskInv /\ CancelInv /\ SlotsInv /\ OrderInv
    /\ [Next]_vars
    => OrderInv'
<1> DEFINE Waits(v) == Ev("requested", v) \in ToSet(inbox)
           Goal == /\ \A v \in Workflow : status'[v] = "requested" => Placed(v)'
                   /\ HasRequest' =>
                         /\ \A v \in ToSet(queued)' : task'.wf < v
                         /\ \A v \in Workflow : Waits(v)' => task'.wf < v
                   /\ \A u \in ToSet(queued)', v \in Workflow : Waits(v)' => u < v
                   /\ Increasing(queued')
                   /\ RequestsIncrease(inbox')
<1> SUFFICES ASSUME TypeOK, KnownInv, TaskInv, CancelInv, SlotsInv, OrderInv,
                    [Next]_vars, ~crashed'
             PROVE  Goal
  BY DEF OrderInv
<1>1. ~crashed =>
        /\ \A v \in Workflow : status[v] = "requested" => Placed(v)
        /\ HasRequest =>
              /\ \A v \in ToSet(queued) : task.wf < v
              /\ \A v \in Workflow : Waits(v) => task.wf < v
        /\ \A u \in ToSet(queued), v \in Workflow : Waits(v) => u < v
        /\ Increasing(queued)
        /\ RequestsIncrease(inbox)
  BY DEF OrderInv
<1>2. inbox \in Seq(Event) /\ queued \in Seq(Workflow) /\ "requested" \in EventType
      /\ ToSet(queued) \subseteq Workflow
  BY ChannelAndQueue DEF TypeOK, EventType
<1>3. \A type \in EventType, v, w \in Workflow :
         Ev(type, w) = Ev("requested", v) => type = "requested" /\ v = w
  BY <1>2, EventsOK
\* A step after which nobody waits who did not, and nobody's place is lost.
<1>4. ASSUME crashed' = crashed,
             \A v \in Workflow : status'[v] = "requested" =>
                 status[v] = "requested" /\ (Placed(v) => Placed(v)'),
             HasRequest' => HasRequest /\ task'.wf = task.wf,
             ToSet(queued)' \subseteq ToSet(queued),
             \A v \in Workflow : Waits(v)' => Waits(v),
             Increasing(queued) => Increasing(queued'),
             RequestsIncrease(inbox) => RequestsIncrease(inbox')
      PROVE  Goal
  BY <1>1, <1>4
\* The same, for a step that leaves queue and channel alone.
<1>5. ASSUME UNCHANGED <<crashed, queued, inbox>>,
             \A v \in Workflow : status'[v] = "requested" =>
                 status[v] = "requested" /\ ~(HasRequest /\ task.wf = v),
             ~HasRequest'
      PROVE  Goal
  <2>1. \A v \in Workflow : status'[v] = "requested" =>
            status[v] = "requested" /\ (Placed(v) => Placed(v)')
    BY <1>5 DEF Placed
  <2> QED BY <1>4, <1>5, <2>1
\* The same, for one that puts something else into the channel.
<1>6. ASSUME UNCHANGED <<crashed, queued>>,
             NEW type \in EventType, NEW w \in Workflow, type # "requested",
             inbox' = Append(inbox, Ev(type, w)),
             ToSet(inbox)' = ToSet(inbox) \cup {Ev(type, w)},
             \A v \in Workflow : status'[v] = "requested" =>
                 status[v] = "requested" /\ (HasRequest /\ task.wf = v => HasRequest' /\ task'.wf = v),
             HasRequest' => HasRequest /\ task'.wf = task.wf
      PROVE  Goal
  <2>1. \A v \in Workflow : Waits(v)' <=> Waits(v)
    BY <1>3, <1>6
  <2>2. Ev(type, w) \in Event /\ Ev(type, w).type # "requested"
    BY <1>6, EventsOK
  <2>3. RequestsIncrease(inbox) => RequestsIncrease(inbox')
    BY <1>2, <1>6, <2>2, RequestsIncreaseOK
  <2>4. \A v \in Workflow : status'[v] = "requested" =>
            status[v] = "requested" /\ (Placed(v) => Placed(v)')
    BY <1>6, <2>1 DEF Placed
  <2> QED BY <1>4, <1>6, <2>1, <2>3, <2>4
<1>7. CASE Receive
  <2>1. PICK type \in EventType, w \in Workflow :
           /\ Ev(type, w) \in ToSet(inbox) /\ Head(inbox) = Ev(type, w)
           /\ ToSet(inbox) = {Ev(type, w)} \cup ToSet(inbox)'
           /\ inbox' = Tail(inbox) /\ inbox # <<>>
           /\ task.at = "idle" /\ UNCHANGED <<status, crashed>>
           /\ \/ type = "requested" /\ Queue(w) /\ task'.at = "idle"
              \/ type = "cancelled" /\ Release(w)
              \/ task'.at = "draining" /\ type = "noted" /\ UNCHANGED queued
              \/ Load(type, w, FALSE)
    BY <1>7, ReceiveOK
  <2>2. ~HasRequest
    BY <2>1 DEF HasRequest
  <2>3. RequestsIncrease(inbox')
    BY <1>1, <1>2, <2>1, RequestsIncreaseOK
  <2>4. \A v \in Workflow : Waits(v)' => Waits(v)
    BY <2>1
  <2>5. \A v \in Workflow : Waits(v) => Waits(v)' \/ (type = "requested" /\ v = w)
    BY <1>3, <2>1
  <2>6. CASE type = "requested"
    <3>1. \A v \in Workflow : Waits(v)' => w < v
      BY <1>1, <1>2, <2>1, <2>6, RequestsIncreaseOK
    <3>2. \A u \in ToSet(queued) : u < w
      BY <1>1, <2>1, <2>6
    <3>3. CASE Queue(w) /\ task'.at = "idle"
      <4>1. Increasing(queued')
        BY <1>1, <1>2, <2>1, <3>2, <3>3, IncreasingOK DEF Queue
      <4>2. ~HasRequest' /\ ToSet(queued)' = ToSet(queued) \cup {w}
        BY <3>3 DEF HasRequest, Queue
      <4>3. \A v \in Workflow : Placed(v) => Placed(v)'
        BY <2>2, <2>5, <4>2 DEF Placed
      <4> QED BY <1>1, <2>1, <2>3, <2>4, <3>1, <4>1, <4>2, <4>3
    <3>4. CASE Load("requested", w, FALSE)
      <4>1. HasRequest' /\ task'.wf = w /\ queued' = queued
        BY <3>4 DEF Load, HasRequest
      <4>2. queued = <<>>
        BY <2>1, <3>4 DEF Load, SlotsInv
      <4>3. ToSet(queued)' = {}
        BY <4>1, <4>2, ChannelAndQueue
      <4>4. \A v \in Workflow : Placed(v) => Placed(v)'
        BY <2>2, <2>5, <4>1 DEF Placed
      <4>5. Increasing(queued')
        BY <1>1, <2>1, <4>1
      <4> QED BY <1>1, <2>1, <2>3, <3>1, <4>1, <4>3, <4>4, <4>5
    <3> QED BY <2>1, <2>6, <3>3, <3>4
  <2>7. CASE type # "requested"
    <3>1. ~HasRequest'
      BY <2>1, <2>7 DEF Release, Load, HasRequest
    <3>2. /\ ToSet(queued)' \subseteq ToSet(queued)
          /\ Increasing(queued) => Increasing(queued')
          /\ \A v \in ToSet(queued) : status[v] = "requested" => v \in ToSet(queued)'
      <4>1. CASE queued' = queued
        BY <4>1
      <4>2. CASE type = "cancelled" /\ Release(w)
        <5>1. status[w] # "requested"
          BY <2>1, <4>2 DEF CancelInv
        <5> QED BY <4>2, <5>1 DEF Release
      <4> QED BY <2>1, <2>7, <4>1, <4>2 DEF Load
    <3>3. \A v \in Workflow : status'[v] = "requested" =>
             status[v] = "requested" /\ (Placed(v) => Placed(v)')
      BY <2>1, <2>2, <2>5, <2>7, <3>2 DEF Placed
    <3> QED BY <1>4, <2>1, <2>3, <2>4, <3>1, <3>2, <3>3
  <2> QED BY <2>6, <2>7
<1>8. CASE Commit
  <2>1. PICK new \in Status : Decided(new)
    BY <1>8, CommitOK
  <2>2. task'.at = "draining" /\ UNCHANGED <<crashed, queued>>
    BY <1>8, AtOK DEF Commit, counters
  <2>3. \A v \in Workflow : status'[v] = "requested" =>
           status[v] = "requested" /\ task.wf # v
    BY <2>1 DEF Decided, TypeOK
  <2>4. ~HasRequest'
    BY <2>2 DEF HasRequest
  <2>5. CASE inbox' = inbox
    BY <1>5, <2>2, <2>3, <2>4, <2>5
  <2>6. CASE /\ inbox' = Append(inbox, Ev("noted", task.wf))
             /\ ToSet(inbox)' = ToSet(inbox) \cup {Ev("noted", task.wf)}
    <3>1. "noted" \in EventType /\ task.wf \in Workflow
      BY <2>1 DEF EventType, Decided
    <3> QED BY <1>6, <2>2, <2>3, <2>4, <2>6, <3>1
  <2> QED BY <2>1, <2>5, <2>6 DEF Decided
<1>9. CASE NoDecision \/ Conflict
  <2>1. UNCHANGED <<status, inbox, crashed, queued>> /\ ~HasRequest'
    BY <1>9, AtOK DEF NoDecision, Conflict, store, counters, HasRequest, TypeOK, Task
  <2>2. task.at = "deciding"
    BY <1>9 DEF NoDecision, Conflict
  <2>3. HasRequest => status[task.wf] # "requested"
    BY <1>9, <2>2, GivenUpOK DEF HasRequest
  <2> QED BY <1>5, <2>1, <2>3
<1>10. CASE EndDrain
  <2>1. UNCHANGED <<status, inbox, crashed, queued>> /\ ~HasRequest' /\ ~HasRequest
    BY <1>10, AtOK DEF EndDrain, DrainEnds, store, counters, HasRequest
  <2> QED BY <1>5, <2>1
<1>11. CASE Dequeue
  <2>1. /\ ~HasRequest /\ HasRequest' /\ task'.wf = NextQueued
        /\ ToSet(queued) = {NextQueued} \cup ToSet(queued)'
        /\ NextQueued \in ToSet(queued)
    BY <1>11, DequeueOK DEF Dequeue, HasRequest
  <2>2. UNCHANGED <<status, inbox, crashed>> /\ queued' = Tail(queued) /\ queued # <<>>
    BY <1>11 DEF Dequeue
  <2>3. Increasing(queued') /\ \A v \in ToSet(queued)' : NextQueued < v
    BY <1>1, <1>2, <2>2, IncreasingOK DEF NextQueued
  <2>4. \A v \in Workflow : Placed(v) => Placed(v)'
    BY <2>1, <2>2 DEF Placed
  <2> QED BY <1>1, <2>1, <2>2, <2>3, <2>4
<1>12. CASE Redecide
  <2>1. /\ UNCHANGED <<crashed, status, inbox>> /\ task.at = "dequeued"
        /\ Queue(task.wf) \/ Load("requested", task.wf, TRUE)
    BY <1>12, RedecideOK
  <2>2. HasRequest
    BY <2>1 DEF HasRequest
  <2>3. ~Full
    BY <2>1, <2>2 DEF SlotsInv
  <2>4. HasRequest' /\ task'.wf = task.wf /\ queued' = queued
    BY <2>1, <2>3 DEF Queue, Load, HasRequest
  <2>5. \A v \in Workflow : Placed(v) => Placed(v)'
    BY <2>1, <2>2, <2>4 DEF Placed
  <2> QED BY <1>4, <2>1, <2>2, <2>4, <2>5
<1>13. CASE Sweep
  <2>1. UNCHANGED <<inbox, crashed, queued>> /\ ~HasRequest' /\ ~HasRequest
    BY <1>13, AtOK DEF Sweep, AfterSweep, counters, HasRequest
  <2>2. \A v \in Workflow : status'[v] = "requested" => status[v] = "requested"
    BY <1>13 DEF Sweep
  <2> QED BY <1>5, <2>1, <2>2
<1>14. ASSUME NEW w \in Workflow, Request(w) PROVE Goal
  <2>1. /\ inbox' = Append(inbox, Ev("requested", w))
        /\ ToSet(inbox)' = ToSet(inbox) \cup {Ev("requested", w)}
        /\ UNCHANGED <<queued, task, crashed>>
    BY <1>14, SaidOK DEF Request, counters
  <2>2. \A v \in Workflow : status[v] # "none" => v < w
    BY <1>14, WorkflowNumbers DEF Request
  <2>3. \A v \in Workflow : Waits(v) => v < w
    BY <2>2, <1>2, EventsOK DEF KnownInv
  <2>4. \A v \in ToSet(queued) : v < w
    BY <1>2, <2>2 DEF KnownInv
  <2>5. HasRequest => task.wf < w
    BY <2>2 DEF KnownInv, HasRequest
  <2>6. HasRequest' <=> HasRequest
    BY <2>1 DEF HasRequest
  <2>7. \A v \in Workflow : Waits(v)' <=> Waits(v) \/ v = w
    BY <1>2, <1>3, <2>1
  <2>8. RequestsIncrease(inbox')
    <3>1. Ev("requested", w) \in Event /\ Ev("requested", w).wf = w
      BY <1>2, EventsOK
    <3> QED BY <1>1, <1>2, <2>1, <2>3, <3>1, RequestsIncreaseOK
  <2>9. \A v \in Workflow : status'[v] = "requested" => Placed(v)'
    <3>1. \A v \in Workflow : v = w \/ status'[v] = status[v]
      BY <1>14 DEF Request, TypeOK
    <3>2. \A v \in Workflow : Placed(v) => Placed(v)'
      BY <2>1, <2>6, <2>7 DEF Placed
    <3>3. Placed(w)'
      BY <2>7 DEF Placed
    <3> QED BY <1>1, <2>1, <3>1, <3>2, <3>3
  <2> QED BY <1>1, <2>1, <2>4, <2>5, <2>6, <2>7, <2>8, <2>9
<1>15. ASSUME NEW w \in Workflow, Report(w) PROVE Goal
  <2>1. "reported" \in EventType
    BY DEF EventType
  <2>2. UNCHANGED <<queued, task, crashed, status>>
    BY <1>15 DEF Report, store, counters
  <2>3. HasRequest' <=> HasRequest
    BY <2>2 DEF HasRequest
  <2> QED BY <1>6, <1>15, <2>1, <2>2, <2>3, SaidOK
<1>16. ASSUME NEW w \in Workflow, NEW type \in EventType, NEW new \in Status,
              Told(w, type, new)
       PROVE  Goal
  <2>1. /\ UNCHANGED <<queued, task, crashed>> /\ type # "requested"
        /\ inbox' = Append(inbox, Ev(type, w))
        /\ ToSet(inbox)' = ToSet(inbox) \cup {Ev(type, w)}
    BY <1>16 DEF Told, Publish
  <2>2. \A v \in Workflow : status'[v] = "requested" => status[v] = "requested"
    BY <1>16 DEF Told, TypeOK, Live
  <2>3. HasRequest' <=> HasRequest
    BY <2>1 DEF HasRequest
  <2> QED BY <1>6, <2>1, <2>2, <2>3
<1>17. CASE Crash
  BY <1>17 DEF Crash
<1>18. CASE Restart \/ Scan \/ Warm \/ ReadRows \/ LoadQueue
  BY <1>18 DEF Restart, Scan, Warm, ReadRows, LoadQueue, Boot, counters, SlotsInv
<1>19. CASE UNCHANGED vars
  <2>1. UNCHANGED <<status, task, queued, inbox, crashed>>
    BY <1>19 DEF vars, store, counters
  <2>2. (HasRequest' <=> HasRequest) /\ (\A v \in Workflow : Placed(v)' <=> Placed(v))
    BY <2>1 DEF HasRequest, Placed
  <2> QED BY <1>4, <2>1, <2>2
<1> QED BY <1>7, <1>8, <1>9, <1>10, <1>11, <1>12, <1>13, <1>14, <1>15, <1>16, <1>17,
           <1>18, <1>19, Steps

-----------------------------------------------------------------------------
(* The theorems *)

LEMMA InitInv == Init => IInv
<1> SUFFICES ASSUME Init PROVE IInv
  OBVIOUS
<1>1. TypeOK
  BY InitType
<1>2. /\ ToSet(inbox) = {} /\ ToSet(queued) = {} /\ ToSet(loaded) = {} /\ rows = {}
      /\ task.at = "idle"
  BY <1>1, ChannelAndQueue, AtOK DEF Init
<1>3. KnownInv /\ TaskInv /\ CancelInv /\ StoredInv /\ NoLeakedSlot
  BY <1>2 DEF Init, KnownInv, TaskInv, CancelInv, StoredInv, NoLeakedSlot
<1>4. HoldersInv
  BY DEF Init, HoldersInv, Live
<1>5. SlotsInv
  <2>1. Cardinality(running) <= MaxConcurrent
    BY FS_EmptySet DEF Init, ThrottleAssumption
  <2> QED BY <1>2, <2>1 DEF Init, SlotsInv, HasRequest
<1>6. OrderInv
  <2>1. Increasing(queued) /\ RequestsIncrease(inbox)
    BY DEF Init, Increasing, RequestsIncrease
  <2>2. \A v \in Workflow : status[v] # "requested"
    BY DEF Init
  <2> QED BY <1>2, <2>1, <2>2 DEF OrderInv, HasRequest
<1> QED BY <1>1, <1>3, <1>4, <1>5, <1>6 DEF IInv

\* The invariants together are inductive.
THEOREM Inductive == Spec => []IInv
<1>1. IInv /\ [Next]_vars => IInv'
  BY NextType, KnownNext, TaskNext, CancelNext, HoldersNext, StoredNext, LeakNext,
     SlotsNext, OrderNext DEF IInv
<1> QED BY InitInv, <1>1, PTL DEF Spec

\* The types of the throttle, of the table and of what the engine is at.
THEOREM TypeCorrect == Spec => []TypeOK
<1>1. IInv => TypeOK
  BY DEF IInv
<1> QED BY <1>1, Inductive, PTL

\* Whoever runs or is paused has a slot, in the process that started them and in
\* every later one once it has warmed its throttle, whatever crashed between two
\* steps of the start, of the drain or of the recovery.
THEOREM SlotsHeld == Spec => []SlotHolders
<1>1. IInv => SlotHolders
  BY DEF IInv, HoldersInv, SlotHolders
<1> QED BY <1>1, Inductive, PTL

\* The limit on concurrent workflows holds.
THEOREM CapKept == Spec => []CapHolds
<1>1. ASSUME IInv, ~crashed
      PROVE  Cardinality({w \in Workflow : status[w] \in Live} \ readmitted) <= MaxConcurrent
  <2>1. TypeOK /\ phase = "up" /\ Cardinality(running) <= MaxConcurrent
    BY <1>1 DEF IInv, SlotsInv
  <2>2. {w \in Workflow : status[w] \in Live} \ readmitted \subseteq running
    BY <1>1, <2>1 DEF IInv, HoldersInv
  <2> QED BY <2>1, <2>2, SlotsCount
<1>2. IInv => CapHolds
  BY <1>1 DEF CapHolds
<1> QED BY <1>2, Inductive, PTL

\* No slot is held for a workflow that has ended, unless its cancellation waits
\* in the channel.
THEOREM SlotsFreed == Spec => []NoLeakedSlot
<1>1. IInv => NoLeakedSlot
  BY DEF IInv
<1> QED BY <1>1, Inductive, PTL

\* The engine never rests beside a free slot and a request that waits.
THEOREM NobodyForgotten == Spec => []WorkConserving
<1>1. IInv => WorkConserving
  BY DEF IInv, SlotsInv, WorkConserving
<1> QED BY <1>1, Inductive, PTL

\* The queue in memory is never ahead of the table.
THEOREM QueueBacked == Spec => []QueueStored
<1>1. IInv => QueueStored
  BY DEF IInv, StoredInv, QueueStored
<1> QED BY <1>1, Inductive, PTL

\* Workflows start in the order in which they were requested.
THEOREM OldestFirst == Spec => StartsInOrder
<1> DEFINE A == ~crashed =>
        \A w \in Workflow \ readmitted' :
            status[w] = "requested" /\ status'[w] \in {"running", "failed"} =>
                \A v \in 1..(w - 1) : status[v] # "requested"
<1>1. ASSUME IInv, [Next]_vars PROVE A
  <2> SUFFICES ASSUME ~crashed, NEW w \in Workflow, w \notin readmitted',
                      status[w] = "requested", status'[w] \in {"running", "failed"},
                      NEW v \in 1..(w - 1), status[v] = "requested"
               PROVE  FALSE
    OBVIOUS
  <2>1. TypeOK /\ KnownInv /\ TaskInv /\ v \in Workflow /\ v < w
    BY <1>1, WorkflowNumbers DEF IInv, Workflow, ThrottleAssumption
  <2>2. /\ Placed(v)
        /\ HasRequest =>
              /\ \A u \in ToSet(queued) : task.wf < u
              /\ \A u \in Workflow : Ev("requested", u) \in ToSet(inbox) => task.wf < u
    BY <1>1, <2>1 DEF IInv, OrderInv
  <2>3. ASSUME HasRequest, task.wf = w PROVE FALSE
    BY <2>1, <2>2, <2>3, WorkflowNumbers DEF Placed
  <2>4. CASE Commit
    <3>1. PICK new \in Status : Decided(new)
      BY <2>1, <2>4, CommitOK
    <3>2. task.wf = w
      BY <2>1, <3>1 DEF Decided, TypeOK
    <3>3. task.type = "requested"
      BY <3>1, <3>2 DEF Decided, Live
    <3> QED BY <2>3, <2>4, <3>2, <3>3 DEF Commit, HasRequest
  <2>5. CASE Sweep
    <3>1. status'[w] = status[w]
      BY <2>5 DEF Sweep
    <3> QED BY <3>1
  <2>6. ASSUME NEW u \in Workflow, Request(u) PROVE FALSE
    BY <2>1, <2>6 DEF Request, TypeOK
  <2>7. ASSUME NEW u \in Workflow, NEW type \in EventType, NEW new \in Status,
               Told(u, type, new)
        PROVE  FALSE
    BY <2>1, <2>7 DEF Told, TypeOK, Live
  <2>8. CASE UNCHANGED status
    BY <2>8
  <2>9. \/ Commit \/ Sweep \/ UNCHANGED status
        \/ \E u \in Workflow : Request(u)
        \/ \E u \in Workflow, type \in EventType, new \in Status : Told(u, type, new)
    BY <1>1, <2>1, Steps
       DEF Receive, NoDecision, Conflict, EndDrain, Dequeue, Redecide, Report, Crash,
           Restart, Scan, Warm, ReadRows, LoadQueue, Boot, store, vars
  <2> QED BY <2>4, <2>5, <2>6, <2>7, <2>8, <2>9
<1>2. IInv /\ [Next]_vars => [A]_vars
  BY <1>1
<1>3. Spec => [][A]_vars
  BY <1>2, Inductive, PTL DEF Spec
<1> QED BY <1>3 DEF StartsInOrder
=============================================================================
