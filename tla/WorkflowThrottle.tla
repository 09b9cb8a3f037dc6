-------------------------- MODULE WorkflowThrottle --------------------------
(***************************************************************************)
(* The limit on concurrent workflows (internal/engine/throttle.go), the    *)
(* engine goroutine that owns it (processDecision, drainThrottleQueue, the *)
(* watchdog), the table that keeps its queue (workflow_queue), and what    *)
(* recovery puts back after a crash, while the engine already runs.        *)
(*                                                                         *)
(* A workflow is its status; workflows are numbered in the order in which  *)
(* they are requested.  What a persona's event makes the engine decide is  *)
(* left open (WorkflowEngine says what it may be).  An append and the      *)
(* publication that follows it are one step.                               *)
(***************************************************************************)
EXTENDS Integers, FiniteSets, Sequences

CONSTANTS
    MaxRequests,    \* bound: workflows requested
    Unknown,        \* workflows whose definition nobody registered
    MaxConcurrent,  \* RICK_MAX_WORKFLOWS
    MaxTrouble,     \* bound: commands and injections, failing writes of
                    \* workflow_queue and crashes, together
    MaxBacklog      \* bound: personas report while fewer events wait

ASSUME ThrottleAssumption ==
    /\ MaxRequests \in Nat
    /\ Unknown \subseteq 1..MaxRequests
    /\ MaxConcurrent \in Nat \ {0}
    /\ MaxTrouble \in Nat /\ MaxBacklog \in Nat

VARIABLES
    status,     \* what each workflow's stored stream folds to
    listed,     \* the status WorkflowStatusProjection shows
    rows,       \* workflow_queue
    phase,      \* how far the process has come
    snapshot,   \* runningIDs, while recovery scans
    loaded,     \* the rows LoadQueuedWorkflows has read
    inbox,      \* eventCh
    running,    \* throttle.running
    queued,     \* throttle.queued
    task,       \* what the engine goroutine is at
    moved,      \* somebody appended since it loaded the workflow
    readmitted, \* set running by a retry or an injected event, which ask no
                \* slot (history)
    kept,       \* workflows whose row was written (history)
    trouble,    \* commands, failed writes and crashes so far
    crashed,    \* one of them was a crash (history)
    faulty      \* one of them was a failed write (history)

store == <<status, listed, rows>>
boot == <<phase, snapshot, loaded>>
fault == <<trouble, faulty>>
counters == <<fault, crashed>>
vars == <<store, boot, inbox, running, queued, task, moved, readmitted, kept,
          counters>>

Workflow == 1..MaxRequests
None == 0

Live == {"running", "paused"}
Status == {"none", "requested", "completed", "failed", "cancelled"} \cup Live
EventType == {"requested", "reported", "cancelled", "resumed", "noted"}
Event == [type : EventType, wf : Workflow]

\* "noted" stands for WorkflowPaused and WorkflowRetried, "reported" for what
\* comes from a persona.
Ev(type, w) == [type |-> type, wf |-> w]

\* nested: the request came from the queue, inside drainThrottleQueue.
Task == [at : {"idle", "dequeued", "deciding", "draining"},
         type : EventType, wf : Workflow \cup {None},
         seen : Status, nested : BOOLEAN]
At(place) == [at |-> place, type |-> "noted", wf |-> None, seen |-> "none",
              nested |-> FALSE]

ToSet(s) == {s[i] : i \in DOMAIN s}

TypeOK ==
    /\ status \in [Workflow -> Status]
    /\ listed \in [Workflow -> Status]
    /\ rows \subseteq Workflow
    /\ phase \in {"down", "booting", "scanned", "warmed", "loading", "up"}
    /\ snapshot \subseteq Workflow
    /\ loaded \in Seq(Workflow)
    /\ inbox \in Seq(Event)
    /\ running \subseteq Workflow
    /\ queued \in Seq(Workflow)
    /\ task \in Task
    /\ moved \in BOOLEAN
    /\ readmitted \subseteq Workflow
    /\ kept \subseteq Workflow
    /\ trouble \in 0..MaxTrouble
    /\ crashed \in BOOLEAN
    /\ faulty \in BOOLEAN
    /\ crashed \/ faulty => trouble > 0

\* A process that has come up on an empty store.
Init ==
    /\ status = [w \in Workflow |-> "none"]
    /\ listed = status
    /\ rows = {}
    /\ phase = "up"
    /\ snapshot = {}
    /\ loaded = <<>>
    /\ inbox = <<>>
    /\ running = {}
    /\ queued = <<>>
    /\ task = At("idle")
    /\ moved = FALSE
    /\ readmitted = {}
    /\ kept = {}
    /\ trouble = 0 /\ crashed = FALSE /\ faulty = FALSE

-----------------------------------------------------------------------------
(* The throttle *)

\* Mutant: the slot beyond the last is given too.
FullBeyond == Cardinality(running) > MaxConcurrent

\* shouldQueue
Full == Cardinality(running) >= MaxConcurrent

\* One of the events the bound counts.
Trouble == trouble < MaxTrouble /\ trouble' = trouble + 1

\* A write of workflow_queue fails, which is logged.
Fault ==
    /\ Trouble
    /\ faulty' = TRUE
    /\ UNCHANGED rows

\* Mutant: the request waits in memory only.
EnqueueInMemory(w) ==
    /\ UNCHANGED <<rows, fault, kept>>
    /\ queued' = Append(queued, w)

\* enqueue: the row, then the slice, even if the row could not be written.
Enqueue(w) ==
    /\ \/ rows' = rows \cup {w} /\ kept' = kept \cup {w} /\ UNCHANGED fault
       \/ Fault /\ UNCHANGED kept
    /\ queued' = Append(queued, w)

\* DeleteQueuedWorkflow
DeleteRow(w) ==
    \/ rows' = rows \ {w} /\ UNCHANGED fault
    \/ Fault

\* s without its place i.
Cut(s, i) == [j \in 1..(Len(s) - 1) |-> IF j < i THEN s[j] ELSE s[j + 1]]

\* removeQueued: the first place in the queue that is w's, and the row (also a
\* row the slice has no trace of).
RemoveQueued(w) ==
    /\ \/ w \notin ToSet(queued) /\ UNCHANGED queued
       \/ \E i \in DOMAIN queued :
             /\ queued[i] = w /\ \A j \in 1..(i - 1) : queued[j] # w
             /\ queued' = Cut(queued, i)
    /\ DeleteRow(w)

-----------------------------------------------------------------------------
(* The engine goroutine *)

\* After the batch of task: the rest of processDecision drains the queue.
Done == task' = At("draining")

\* A request that found no room, or an error: processDecision returns early,
\* to processLoop or to the drain it was called from.
ReturnEarly(nested) == task' = At(IF nested THEN "draining" ELSE "idle")

\* Mutant: a cancelled workflow keeps its slot.
ReleaseQueuedOnly(w) ==
    /\ UNCHANGED running
    /\ RemoveQueued(w)

\* An operator's cancellation: the slot, the place in the queue and the row.
ReleaseCancelled(w) ==
    /\ running' = running \ {w}
    /\ RemoveQueued(w)

\* processDecision up to loadAggregate.
Process(e, nested) ==
    \/ /\ e.type = "requested"
       /\ Full
       /\ Enqueue(e.wf)
       /\ ReturnEarly(nested)
       /\ UNCHANGED <<running, moved>>
    \/ /\ e.type = "cancelled"
       /\ ReleaseCancelled(e.wf)
       /\ Done
       /\ UNCHANGED <<moved, kept>>
    \/ /\ e.type = "noted"
       /\ Done
       /\ UNCHANGED <<rows, fault, kept, running, queued, moved>>
    \/ /\ e.type = "requested" => ~Full
       /\ e.type \in {"requested", "reported", "resumed"}
       /\ task' = [at |-> "deciding", type |-> e.type, wf |-> e.wf,
                   seen |-> status[e.wf], nested |-> nested]
       /\ moved' = FALSE
       /\ UNCHANGED <<rows, fault, kept, running, queued>>

\* processLoop takes an event.
Receive ==
    /\ phase # "down"
    /\ task.at = "idle"
    /\ inbox # <<>>
    /\ inbox' = Tail(inbox)
    /\ Process(Head(inbox), FALSE)
    /\ UNCHANGED <<status, listed, boot, readmitted, crashed>>

\* The status each decision of Decide would give the workflow ("running" for
\* a resume is WorkflowRetried, whatever the status it finds).
Decisions(type, w, seen) ==
    CASE type = "requested" /\ w \in Unknown -> {"failed"}
      [] type = "requested" /\ w \notin Unknown ->
            IF seen = "requested" THEN {"running"} ELSE {}
      [] type = "reported" ->
            CASE seen = "running" -> {"completed", "failed", "paused"}
              [] seen = "paused" -> {"failed"}
              [] OTHER -> {}
      [] type = "resumed" -> {"running"}

\* Mutant: the slot is entered under the empty correlation.
TrackUnderNone(type, w, new) ==
    CASE type = "requested" /\ new = "running" -> running \cup {None}
      [] new \in {"completed", "failed"} -> running \ {w}
      [] OTHER -> running

\* addRunning and removeRunning, for what was decided and stored.
TrackSlot(type, w, new) ==
    CASE type = "requested" /\ new = "running" -> running \cup {w}
      [] new \in {"completed", "failed"} -> running \ {w}
      [] OTHER -> running

\* The engine hears its own WorkflowPaused and WorkflowRetried again.
Echo(type, w, new) ==
    IF new = "paused" \/ type = "resumed"
    THEN Append(inbox, Ev("noted", w)) ELSE inbox

\* The batch goes in at the version that was loaded.
Commit ==
    LET w == task.wf
    IN /\ task.at = "deciding"
       /\ ~moved
       /\ \E new \in Decisions(task.type, w, task.seen) :
             /\ status' = [status EXCEPT ![w] = new]
             /\ listed' = IF task.type = "resumed" THEN listed
                          ELSE [listed EXCEPT ![w] = new]
             /\ running' = TrackSlot(task.type, w, new)
             /\ inbox' = Echo(task.type, w, new)
             /\ readmitted' = IF task.type = "resumed" /\ task.seen \notin Live
                              THEN readmitted \cup {w} ELSE readmitted
       /\ Done
       /\ UNCHANGED <<rows, boot, queued, moved, kept, counters>>

\* Nothing to append.
NoDecision ==
    /\ task.at = "deciding"
    /\ task.type = "requested" => Decisions("requested", task.wf, task.seen) = {}
    /\ Done
    /\ UNCHANGED <<store, boot, inbox, running, queued, moved, readmitted,
                   kept, counters>>

\* The append fails with a version conflict.
Conflict ==
    /\ task.at = "deciding"
    /\ moved
    /\ task.type = "reported" \/ Decisions(task.type, task.wf, task.seen) # {}
    /\ ReturnEarly(task.nested)
    /\ UNCHANGED <<store, boot, inbox, running, queued, moved, readmitted,
                   kept, counters>>

\* The drain is over: no slot is free, or nobody waits.
DrainEnds == task.at = "draining" /\ (Full \/ queued = <<>>)

EndDrain ==
    /\ DrainEnds
    /\ task' = At("idle")
    /\ UNCHANGED <<store, boot, inbox, running, queued, moved, readmitted,
                   kept, counters>>

\* Mutant: the youngest request is taken.
NextLast == queued[Len(queued)]

\* The request dequeue takes.
NextQueued == queued[1]

\* dequeue: the row, then the slice.
Dequeue ==
    /\ task.at = "draining"
    /\ ~Full
    /\ queued # <<>>
    /\ DeleteRow(NextQueued)
    /\ queued' = Tail(queued)
    /\ task' = [At("dequeued") EXCEPT !.wf = NextQueued]
    /\ UNCHANGED <<status, listed, boot, inbox, running, moved,
                   readmitted, kept, crashed>>

\* processDecision for the request that was dequeued.
Redecide ==
    /\ task.at = "dequeued"
    /\ Process(Ev("requested", task.wf), TRUE)
    /\ UNCHANGED <<status, listed, boot, inbox, readmitted,
                   crashed>>

\* Mutant: a sweep leaves the queue to the next event.
AfterSweepIdle == At("idle")

\* runWatchdogSweep drains when it had candidates.
AfterSweep == At("draining")

\* runWatchdogSweep and reclaimStalledSlot: slots whose workflow runs and has
\* been silent for too long are freed; those whose append conflicts are not.
Sweep ==
    /\ phase # "down"
    /\ task.at = "idle"
    /\ \E stalled \in SUBSET {w \in running : status[w] = "running"} \ {{}} :
          /\ status' = [w \in Workflow |->
                            IF w \in stalled THEN "failed" ELSE status[w]]
          /\ listed' = [w \in Workflow |->
                            IF w \in stalled THEN "failed" ELSE listed[w]]
          /\ running' = running \ stalled
    /\ task' = AfterSweep
    /\ UNCHANGED <<rows, boot, inbox, queued, moved, readmitted,
                   kept, counters>>

-----------------------------------------------------------------------------
(* Callers: the gRPC server is up before recovery, the MCP server after. *)

\* A workflow is requested.
Request(w) ==
    /\ phase # "down"
    /\ \A v \in Workflow : status[v] = "none" <=> v >= w
    /\ phase # "up" => w \notin Unknown  \* injected, and checked
    /\ status' = [status EXCEPT ![w] = "requested"]
    /\ listed' = [listed EXCEPT ![w] = "requested"]
    /\ inbox' = Append(inbox, Ev("requested", w))
    /\ UNCHANGED <<rows, boot, running, queued, task, moved, readmitted, kept,
                   counters>>

\* A persona of w completes, fails, hints or renders a verdict, however late;
\* until recovery sets them going, only those of a workflow started since.
Report(w) ==
    /\ phase # "down"
    /\ phase = "booting" => w \in running
    /\ status[w] \notin {"none", "requested"}
    /\ Len(inbox) < MaxBacklog
    /\ inbox' = Append(inbox, Ev("reported", w))
    /\ UNCHANGED <<store, boot, running, queued, task, moved, readmitted, kept,
                   counters>>

\* Somebody appends to w and publishes an event of this type.
Publish(w, type) ==
    /\ Trouble
    /\ moved' = (moved \/ (task.at = "deciding" /\ task.wf = w))
    /\ inbox' = Append(inbox, Ev(type, w))
    /\ UNCHANGED <<rows, boot, running, queued, task, kept, crashed,
                   faulty>>

SetStatus(w, new) ==
    /\ status' = [status EXCEPT ![w] = new]
    /\ listed' = [listed EXCEPT ![w] = new]

\* A remote handler injects a cancellation, a pause or a resume into a
\* workflow that has not ended (EventInjector.Inject, which tries again after
\* a conflict).  One still in the queue is live then, and has no slot.
Inject(w, type, new) ==
    /\ phase # "down"
    /\ <<type, new>> \in {<<"cancelled", "cancelled">>, <<"noted", "paused">>,
                          <<"resumed", "running">>}
    /\ status[w] \in {"requested"} \cup Live
    /\ Publish(w, type)
    /\ SetStatus(w, new)
    /\ readmitted' = IF status[w] = "requested" /\ new \in Live
                     THEN readmitted \cup {w} ELSE readmitted

\* An operator, by the tools.
Command(w, type) == phase = "up" /\ Publish(w, type)

CancelWorkflow(w) ==
    /\ Command(w, "cancelled")
    /\ status[w] \in {"requested"} \cup Live
    /\ SetStatus(w, "cancelled")
    /\ UNCHANGED readmitted

PauseWorkflow(w) ==
    /\ Command(w, "noted")
    /\ status[w] = "running"
    /\ SetStatus(w, "paused")
    /\ UNCHANGED readmitted

ResumeWorkflow(w) ==
    /\ Command(w, "resumed")
    /\ status[w] = "paused"
    /\ SetStatus(w, "running")
    /\ UNCHANGED readmitted

\* resumeWorkflowFromPhase: no slot is asked for, and the projection does not
\* know the event.
RetryWorkflow(w) ==
    /\ Command(w, "noted")
    /\ status[w] \in {"failed", "cancelled"}
    /\ w \notin Unknown
    /\ status' = [status EXCEPT ![w] = "running"]
    /\ readmitted' = readmitted \cup {w}
    /\ UNCHANGED listed

-----------------------------------------------------------------------------
(* Crash and recovery *)

\* The process dies: what was in memory is gone.
Crash ==
    /\ phase # "down"
    /\ Trouble
    /\ crashed' = TRUE
    /\ phase' = "down"
    /\ snapshot' = {} /\ loaded' = <<>>
    /\ inbox' = <<>>
    /\ running' = {} /\ queued' = <<>>
    /\ task' = At("idle")
    /\ moved' = FALSE
    /\ UNCHANGED <<store, readmitted, kept, faulty>>

\* Recovery advances on the main goroutine while the engine runs.
Boot(from, to) ==
    /\ phase = from
    /\ phase' = to
    /\ UNCHANGED <<store, inbox, task, moved, readmitted, kept, counters>>

\* serve starts the engine, catches the projections up, and serves gRPC.
Restart == Boot("down", "booting") /\ UNCHANGED <<snapshot, loaded, running, queued>>

\* Mutant: paused workflows are left out.
ListedRunning == {w \in Workflow : listed[w] = "running"}

\* The workflows the projection shows as running or paused.
ListedLive == {w \in Workflow : listed[w] \in Live}

\* Recover collects them and sets their handlers going.
Scan ==
    /\ Boot("booting", "scanned")
    /\ snapshot' = ListedLive
    /\ UNCHANGED <<loaded, running, queued>>

\* WarmThrottle
Warm ==
    /\ Boot("scanned", "warmed")
    /\ running' = running \cup snapshot
    /\ snapshot' = {}
    /\ UNCHANGED <<loaded, queued>>

\* By enqueued_at: the engine takes the requests in their order.
InOrder(ws) ==
    {s \in [1..Cardinality(ws) -> ws] : \A i, j \in DOMAIN s : i < j => s[i] < s[j]}

\* LoadQueuedWorkflows reads the table ...
ReadRows ==
    /\ Boot("warmed", "loading")
    /\ loaded' \in InOrder(rows)
    /\ UNCHANGED <<snapshot, running, queued>>

\* ... and replaces the slice.
LoadQueue ==
    /\ Boot("loading", "up")
    /\ queued' = loaded
    /\ loaded' = <<>>
    /\ UNCHANGED <<snapshot, running>>

-----------------------------------------------------------------------------

Engine ==
    \/ Receive
    \/ Commit
    \/ NoDecision
    \/ Conflict
    \/ EndDrain
    \/ Dequeue
    \/ Redecide

Next ==
    \/ Engine
    \/ Sweep
    \/ \E w \in Workflow : Request(w)
    \/ \E w \in Workflow : Report(w)
    \/ \E w \in Workflow, type \in EventType, new \in Status : Inject(w, type, new)
    \/ \E w \in Workflow : CancelWorkflow(w)
    \/ \E w \in Workflow : PauseWorkflow(w)
    \/ \E w \in Workflow : ResumeWorkflow(w)
    \/ \E w \in Workflow : RetryWorkflow(w)
    \/ Crash
    \/ Restart
    \/ Scan
    \/ Warm
    \/ ReadRows
    \/ LoadQueue

Spec == Init /\ [][Next]_vars

\* The engine goroutine keeps running, and a workflow does not report for
\* ever (its iterations are bounded): one that neither ends nor pauses is
\* silent at last, and a sweep finds it.
FairSpec == Spec /\ WF_vars(Engine) /\ SF_vars(Sweep)

-----------------------------------------------------------------------------
(* Properties.  Those that end at a restart say so: see the findings. *)

\* A workflow that runs or is paused holds a slot, after a restart too, so
\* nobody is started in its place; retries and injections are the exception.
SlotHolders ==
    phase \in {"warmed", "loading", "up"} =>
        \A w \in Workflow :
            status[w] \in Live /\ w \notin readmitted => w \in running

\* No more than MaxConcurrent workflows run or are paused, but for those.
CapHolds ==
    ~crashed =>
        Cardinality({w \in Workflow : status[w] \in Live} \ readmitted)
            <= MaxConcurrent

\* A slot belongs to a live workflow, or its cancellation is on the way.
NoLeakedSlot ==
    ~crashed =>
        \A w \in running :
            status[w] \in Live \/ Ev("cancelled", w) \in ToSet(inbox)

\* The engine never rests while a request waits and a slot is free, whichever
\* way the slot was freed: no path back to processLoop forgets the drain.
WorkConserving ==
    ~crashed /\ task.at = "idle" => queued = <<>> \/ Full

\* Whoever waits in memory waits in the table, unless a write failed, or the
\* engine has the request in hand: the slice is never ahead of the table
\* ("crash safety guarantee").
QueueStored ==
    ~faulty =>
        \A w \in ToSet(queued) :
            status[w] = "requested" => w \in rows \/ task.wf = w

\* Workflows start, or are refused, in the order of their requests, but for
\* one that an injected resume sets running.
StartsInOrder ==
    [][~crashed =>
        \A w \in Workflow \ readmitted' :
            status[w] = "requested" /\ status'[w] \in {"running", "failed"} =>
                \A v \in 1..(w - 1) : status[v] # "requested"]_vars

\* Whoever is queued leaves the queue, until it is empty, unless a paused
\* workflow keeps its slot.
LeavesQueue ==
    (queued # <<>> /\ ~crashed) ~>
        \/ queued = <<>>
        \/ crashed
        \/ \E v \in running : status[v] = "paused"

\* "For terminal states the legitimate path will remove it": once the engine
\* has handled everything, no slot is held for a workflow that has ended.
SlotsComeBack ==
    phase = "up" /\ task.at = "idle" /\ inbox = <<>> =>
        \A w \in running : status[w] \in Live

\* "A crash after the DB write but before the slice update is safe": a
\* request whose row was written has its row, or is in hand, or has begun.
QueuedSurvives ==
    \A w \in kept : status[w] # "requested" \/ w \in rows \/ task.wf = w
=============================================================================
