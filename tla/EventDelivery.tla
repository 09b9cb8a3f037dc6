--------------------------- MODULE EventDelivery ---------------------------
(***************************************************************************)
(* How stored events reach subscribers: the in-process bus                 *)
(* (internal/eventbus/channel.go) or the outbox that polls the store       *)
(* (outbox.go), the retry and idempotency middleware around every handler  *)
(* (middleware.go), dead letters and their republication                   *)
(* (internal/eventstore/deadletter.go), Close, and crashes.  Which bus and *)
(* which middleware a process has is chosen at the start.                  *)
(*                                                                         *)
(* Event e is the one at global position e.  What keeps LastPosition()     *)
(* across restarts is the embedding program.  Left out: subscriptions that *)
(* change while the bus runs, WithSync (its handler runs before Publish    *)
(* returns, one of the interleavings below), and the middleware that only  *)
(* observes or bounds a call.                                              *)
(***************************************************************************)
EXTENDS Naturals, FiniteSets

CONSTANTS
    Setups,       \* the pairs <<bus, chain>> a process may be built with
    Subscriber,   \* the subscriptions, all of every event
    MaxEvents,    \* bound: events appended
    Batch,        \* batchSize of the outbox
    MaxRetries,   \* RetryMiddleware's maxRetries
    MaxMarks,     \* IdempotencyMiddleware's maxSize
    MaxTrouble    \* bound: dead letters published again, dead letters
                  \* that cannot be written, and crashes

ASSUME DeliveryAssumption ==
    /\ Setups \subseteq {"channel", "outbox"} \X {"retry", "dedup"}
    /\ IsFiniteSet(Subscriber)
    /\ MaxEvents \in Nat /\ Batch \in Nat \ {0}
    /\ MaxRetries \in Nat /\ MaxMarks \in Nat \ {0}
    /\ MaxTrouble \in Nat

VARIABLES
    bus,        \* "channel" or "outbox"
    chain,      \* "retry" (none at all is MaxRetries = 0), or "dedup": retry
                \* around idempotency, the order the documentation shows
    stored,     \* events in the store
    letters,    \* dead letters in the store
    checkpoint, \* what the program last kept of LastPosition()
    up,         \* "running", or "closed": after Close
    unpublished,\* channel: appended, Publish not called yet
    position,   \* outbox: lastPosition
    upto,       \* outbox: the position of the last polled event
    left,       \* outbox: who is still to get the event at position + 1
    calls,      \* handler calls in progress
    marks,      \* subscriber -> IdempotencyMiddleware's processed
    redo,       \* RetryDeadLetters: letters still to be published
    redone,     \* RetryDeadLetters: the letter published and not deleted yet
    republished,\* letters published again so far
    faults,     \* failed writes so far
    crashes,    \* crashes so far
    handled,    \* subscriber -> events its handler has succeeded on (history)
    cut         \* Close found the outbox inside a batch (history)

choice == <<bus, chain>>
durable == <<stored, letters, checkpoint>>
polling == <<position, upto, left>>
retrying == <<redo, redone, republished>>
counters == <<faults, crashes>>
vars == <<choice, durable, up, unpublished, polling, calls, marks, retrying,
          counters, handled, cut>>

Events == 1..MaxEvents
Letter == [sub: Subscriber, ev: Events, pub: 0..MaxTrouble]
Call == [sub: Subscriber, ev: Events, pub: 0..MaxTrouble,
         at: {"enter", "handler", "letter"}, tries: 0..MaxRetries]

TypeOK ==
    /\ <<bus, chain>> \in Setups
    /\ stored \in 0..MaxEvents /\ letters \subseteq Letter
    /\ up \in {"running", "closed"}
    /\ checkpoint <= stored /\ position <= upto /\ upto <= stored
    /\ unpublished \subseteq 1..stored
    /\ left \subseteq Subscriber /\ (left # {} => position < upto)
    /\ calls \subseteq Call
    /\ bus = "outbox" => Cardinality(calls) <= 1
    /\ marks \in [Subscriber -> SUBSET Events]
    /\ redo \subseteq Letter /\ redone \subseteq Letter
    /\ handled \in [Subscriber -> SUBSET Events]

\* Is the bound on disturbances not reached yet?
Trouble == republished + faults + crashes < MaxTrouble

NewCall(s, e, n) ==
    [sub |-> s, ev |-> e, pub |-> n,
     at |-> IF chain = "dedup" THEN "enter" ELSE "handler", tries |-> 0]

\* What a process starts with.
Fresh(from) ==
    /\ up' = "running"
    /\ unpublished' = {}
    /\ position' = from /\ upto' = from /\ left' = {}
    /\ calls' = {}
    /\ marks' = [s \in Subscriber |-> {}]
    /\ redo' = {} /\ redone' = {}

Init ==
    /\ \E setup \in Setups : bus = setup[1] /\ chain = setup[2]
    /\ stored = 0 /\ letters = {} /\ checkpoint = 0
    /\ up = "running"
    /\ unpublished = {}
    /\ position = 0 /\ upto = 0 /\ left = {}
    /\ calls = {}
    /\ marks = [s \in Subscriber |-> {}]
    /\ redo = {} /\ redone = {} /\ republished = 0
    /\ faults = 0 /\ crashes = 0
    /\ handled = [s \in Subscriber |-> {}]
    /\ cut = FALSE

-----------------------------------------------------------------------------
(* Publishing and polling *)

\* An emitter appends; it publishes after that, in a step of its own.
Append ==
    /\ up = "running" /\ stored < MaxEvents
    /\ stored' = stored + 1
    /\ unpublished' =
            IF bus = "channel" THEN unpublished \cup {stored + 1} ELSE {}
    /\ UNCHANGED <<choice, letters, checkpoint, up, polling, calls, marks,
                   retrying, counters, handled, cut>>

\* ChannelBus.Publish: a goroutine per subscriber; none once it is closed.
Publish(e) ==
    /\ e \in unpublished
    /\ up = "running"
    /\ unpublished' = unpublished \ {e}
    /\ calls' = calls \cup {NewCall(s, e, 0) : s \in Subscriber}
    /\ UNCHANGED <<choice, durable, up, polling, marks, retrying, counters,
                   handled, cut>>

Least(a, b) == IF a < b THEN a ELSE b

\* pollOnce: the next events after lastPosition, a batch at most.
pollOnce ==
    /\ bus = "outbox" /\ up = "running"
    /\ position = upto /\ stored > position
    /\ upto' = Least(stored, position + Batch)
    /\ left' = Subscriber
    /\ UNCHANGED <<choice, durable, up, unpublished, position, calls, marks,
                   retrying, counters, handled, cut>>

\* Mutant: a goroutine per subscriber, as in the in-process bus.
DispatchAsync(s) ==
    /\ s \in left
    /\ left' = left \ {s}
    /\ calls' = calls \cup {NewCall(s, position + 1, 0)}
    /\ UNCHANGED <<choice, durable, up, unpublished, position, upto, marks,
                   retrying, counters, handled, cut>>

\* dispatchEvent: one subscriber after the other, in the poll goroutine.
dispatchEvent(s) ==
    /\ s \in left /\ calls = {}
    /\ left' = left \ {s}
    /\ calls' = {NewCall(s, position + 1, 0)}
    /\ UNCHANGED <<choice, durable, up, unpublished, position, upto, marks,
                   retrying, counters, handled, cut>>

\* Mutant: the position is stored when the event is taken up.
AdvanceEarly ==
    /\ bus = "outbox" /\ position < upto /\ left = {}
    /\ position' = position + 1
    /\ left' = IF position' < upto THEN Subscriber ELSE {}
    /\ UNCHANGED <<choice, durable, up, unpublished, upto, calls, marks,
                   retrying, counters, handled, cut>>

\* The event went to everyone, however that ended: lastPosition moves on.
Advance ==
    /\ bus = "outbox" /\ position < upto /\ left = {} /\ calls = {}
    /\ position' = position + 1
    /\ left' = IF position' < upto THEN Subscriber ELSE {}
    /\ UNCHANGED <<choice, durable, up, unpublished, upto, calls, marks,
                   retrying, counters, handled, cut>>

\* The program keeps LastPosition(), at any time.
Checkpoint ==
    /\ bus = "outbox" /\ checkpoint' = position
    /\ UNCHANGED <<choice, stored, letters, up, unpublished, polling, calls,
                   marks, retrying, counters, handled, cut>>

-----------------------------------------------------------------------------
(* A call: retry around idempotency around the handler *)

CallFrame == UNCHANGED <<choice, stored, checkpoint, up, unpublished, polling,
                         retrying, crashes, cut>>

\* IdempotencyMiddleware: an event seen before counts as handled.  One that is
\* new is marked, before its handler runs; beyond the capacity half of the
\* marks, any half, is cleared.
Skip(c) ==
    /\ c.at = "enter"
    /\ c.ev \in marks[c.sub]
    /\ calls' = calls \ {c}
    /\ CallFrame /\ UNCHANGED <<letters, marks, faults, handled>>

Half == IF MaxMarks < 4 THEN 1 ELSE MaxMarks \div 2

Mark(c) ==
    /\ c.at = "enter"
    /\ c.ev \notin marks[c.sub]
    /\ calls' = (calls \ {c}) \cup {[c EXCEPT !.at = "handler"]}
    /\ LET all == marks[c.sub] \cup {c.ev} IN
       IF Cardinality(all) <= MaxMarks
       THEN marks' = [marks EXCEPT ![c.sub] = all]
       ELSE \E gone \in SUBSET all :
               /\ Cardinality(gone) = Half
               /\ marks' = [marks EXCEPT ![c.sub] = all \ gone]
    /\ CallFrame /\ UNCHANGED <<letters, faults, handled>>

Succeed(c) ==
    /\ c.at = "handler"
    /\ calls' = calls \ {c}
    /\ handled' = [handled EXCEPT ![c.sub] = @ \cup {c.ev}]
    /\ CallFrame /\ UNCHANGED <<letters, marks, faults>>

\* Mutant: a call whose retries are used up is forgotten.
FailSilently(c) ==
    /\ c.at = "handler"
    /\ calls' = (calls \ {c}) \cup
            (IF c.tries < MaxRetries
             THEN {[NewCall(c.sub, c.ev, c.pub) EXCEPT !.tries = c.tries + 1]}
             ELSE {})
    /\ CallFrame /\ UNCHANGED <<letters, marks, faults, handled>>

\* An error: again, while RetryMiddleware has attempts left and the context
\* lives (Close cancels the outbox's); then a dead letter.
Fail(c) ==
    LET again == /\ c.tries < MaxRetries
                 /\ ~(bus = "outbox" /\ up = "closed")
    IN /\ c.at = "handler"
       /\ calls' = (calls \ {c}) \cup
            {IF again
             THEN [NewCall(c.sub, c.ev, c.pub) EXCEPT !.tries = c.tries + 1]
             ELSE [c EXCEPT !.at = "letter"]}
       /\ CallFrame /\ UNCHANGED <<letters, marks, faults, handled>>

\* recordDeadLetter, which the store may refuse and does refuse once the
\* outbox's context is cancelled.
recordDeadLetter(c) ==
    /\ c.at = "letter"
    /\ calls' = calls \ {c}
    /\ \/ /\ ~(bus = "outbox" /\ up = "closed")
          /\ letters' = letters \cup {[sub |-> c.sub, ev |-> c.ev, pub |-> c.pub]}
          /\ UNCHANGED faults
       \/ /\ bus = "outbox" /\ up = "closed"
          /\ UNCHANGED <<letters, faults>>
       \/ /\ Trouble /\ faults' = faults + 1
          /\ UNCHANGED letters
    /\ CallFrame /\ UNCHANGED <<marks, handled>>

CallStep(c) == Skip(c) \/ Mark(c) \/ Succeed(c) \/ Fail(c) \/ recordDeadLetter(c)

-----------------------------------------------------------------------------
(* RetryDeadLetters: load, then publish and delete one letter at a time *)

RetryFrame == UNCHANGED <<choice, stored, checkpoint, up, unpublished, polling,
                          marks, crashes, handled, cut>>

LoadDeadLetters ==
    /\ redo = {} /\ redone = {} /\ letters # {}
    /\ Trouble
    /\ redo' = letters
    /\ RetryFrame /\ UNCHANGED <<letters, calls, redone, republished, faults>>

\* To every subscriber, not just the one that failed; the outbox only takes
\* it as a hint to poll.  A closed bus refuses, and the letter stays.
Republish(l) ==
    /\ l \in redo /\ redone = {}
    /\ redo' = redo \ {l}
    /\ \/ /\ up = "running" /\ Trouble
          /\ republished' = republished + 1
          /\ redone' = {l}
          /\ calls' = IF bus = "channel"
                      THEN calls \cup {NewCall(s, l.ev, republished + 1) :
                                            s \in Subscriber}
                      ELSE calls
       \/ up = "closed" /\ UNCHANGED <<republished, redone, calls>>
    /\ RetryFrame /\ UNCHANGED <<letters, faults>>

\* The letter is deleted, or cannot be and is published again one day.
DeleteDeadLetter(l) ==
    /\ l \in redone
    /\ redone' = {}
    /\ letters' \in {letters, letters \ {l}}
    /\ RetryFrame /\ UNCHANGED <<calls, redo, republished, faults>>

-----------------------------------------------------------------------------
(* The end of a process *)

\* Close refuses publishers; it cancels the outbox's context, but a batch the
\* poll goroutine is in is walked through to its end.
Close ==
    /\ up = "running"
    /\ up' = "closed"
    /\ cut' = (cut \/ position < upto)
    /\ UNCHANGED <<choice, durable, unpublished, polling, calls, marks,
                   retrying, counters, handled>>

\* Everything in memory is gone; the outbox starts from what was kept.
Crash ==
    /\ Trouble
    /\ crashes' = crashes + 1
    /\ Fresh(checkpoint)
    /\ UNCHANGED <<choice, durable, republished, faults, handled, cut>>

Progress ==
    \/ \E e \in Events : Publish(e)
    \/ pollOnce \/ Advance
    \/ \E s \in Subscriber : dispatchEvent(s)
    \/ \E c \in calls : CallStep(c)

Next ==
    \/ Progress
    \/ Append \/ Checkpoint
    \/ LoadDeadLetters
    \/ \E l \in redo : Republish(l)
    \/ \E l \in redone : DeleteDeadLetter(l)
    \/ Close \/ Crash

\* Publishers, the poll goroutine and handlers get their turn; the rest is up
\* to the program.
Spec == Init /\ [][Next]_vars /\ WF_vars(Progress)

-----------------------------------------------------------------------------
(* Properties *)

Settled(s, e) == e \in handled[s] \/ \E l \in letters : l.sub = s /\ l.ev = e

Called(s, e) == \E c \in calls : c.sub = s /\ c.ev = e

\* Still to be delivered, by what the process holds in memory.
Ahead(s, e) ==
    \/ e \in unpublished
    \/ /\ bus = "outbox" /\ e > position
       /\ e = position + 1 /\ position < upto => s \in left

\* The cases in which delivery is at least once.  Excepted are the documented
\* order of the middleware, where a retry finds the mark of its own first
\* attempt and reports success; a crash of the in-process bus; the
\* republication of a dead letter through the outbox, which deletes the letter
\* and delivers nothing; and a Close inside the outbox's batch.
Reliable ==
    /\ chain # "dedup" /\ faults = 0
    /\ bus = "channel" => crashes = 0
    /\ bus = "outbox" => republished = 0 /\ ~cut

\* At-least-once delivery (docs/event-bus-integration.md): every stored event
\* was handled by each subscriber, is its dead letter, or is still on its way,
\* also after a crash and a restart from the kept position, and while dead
\* letters are published again.
NothingLost ==
    Reliable => \A s \in Subscriber, e \in 1..stored :
        Settled(s, e) \/ Called(s, e) \/ Ahead(s, e)

\* Per-subscriber ordering of the outbox: nobody has handled an event, or
\* failed on it, before each earlier one.
InOrder ==
    Reliable /\ bus = "outbox" =>
        \A s \in Subscriber, e \in 1..stored :
            Settled(s, e) => \A f \in 1..e : Settled(s, f)

\* A process that is not closed delivers.
Delivered ==
    \A s \in Subscriber, e \in Events :
        e <= stored /\ Reliable ~> Settled(s, e) \/ up = "closed" \/ ~Reliable
=============================================================================
