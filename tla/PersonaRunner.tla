--------------------------- MODULE PersonaRunner ---------------------------
(***************************************************************************)
(* The persona runner (internal/engine/persona_runner.go) on one workflow, *)
(* closed with the engine's aggregate: every delivery to a handler is a    *)
(* goroutine of its own, every handler has a priority queue that one drain *)
(* goroutine empties, the engine answers what handlers publish, operators  *)
(* pause, resume and cancel, and the process restarts.                     *)
(*                                                                         *)
(* The engine takes an event, appends and publishes its answer in one step *)
(* (its interleavings with other appends are WorkflowEngine's subject),    *)
(* and a concurrency slot is a counter (its fairness is FairDispatcher's). *)
(* Left out: the chain depth limit, which no run of an acyclic graph gets  *)
(* near, and the eviction of the 10000-entry dedup cache.                  *)
(***************************************************************************)
EXTENDS CorrelationLog, Sequences

CONSTANTS
    Hinter,       \* the personas registered with a hint phase
    Outcomes,     \* persona -> how its runs may end
    MaxActive,    \* slots this workflow can have at once
    MaxMail,      \* capacity of the engine's channel
    MaxFeedback,  \* bound: feedback rounds after which reviewers pass
    MaxTrouble    \* bound: operator commands, store errors and restarts

Outcome == {"complete", "pass", "fail", "advisory", "transient", "rate_limited",
            "other", "incomplete", "hint", "unsure", "merged"}

ASSUME RunnerAssumption ==
    /\ Hinter \subseteq Persona
    /\ Outcomes \in [Persona -> SUBSET (Outcome \ {"merged"})]
    /\ \A p \in Persona : Outcomes[p] \cap {"pass", "fail", "advisory"} # {} =>
            \E t \in Persona : <<p, t>> \in VerdictPairs
    /\ MaxActive \in Nat \ {0} /\ MaxMail \in Nat \ {0, 1}
    /\ MaxFeedback \in Nat /\ MaxTrouble \in Nat

VARIABLES
    agg,       \* the workflow aggregate its stream folds to
    log,       \* what the correlation's events fold to
    runs,      \* persona -> runs that emitted events (numbers its events)
    wraps,     \* delivery goroutines: in wrap, or in wrap's addBlocked
    seen,      \* idempotencyCache: deliveries and join fingerprints
    cached,    \* the resolver knows the correlation's workflow
    paused,    \* pauseController.paused
    blocked,   \* pauseController.blocked
    queue,     \* persona -> its dispatchQueue's items
    draining,  \* the personas whose dispatchQueue.draining is set
    drains,    \* drain goroutines
    mail,      \* the engine's channel
    inbox,     \* asynchronous deliveries to the runner's own subscriptions
    asked,     \* operator commands so far
    faults,    \* store errors so far
    restarts,  \* restarts so far
    held,      \* advisory completions nobody has answered (history)
    answered,  \* rounds the consolidator has sent back (history)
    waiting    \* personas that returned ErrIncomplete (history)

persistent == <<agg, log, runs>>
dispatch == <<wraps, seen, cached, paused, blocked, queue, draining, drains>>
counters == <<asked, faults, restarts>>
history == <<held, answered, waiting>>
vars == <<persistent, dispatch, mail, inbox, counters, history>>

-----------------------------------------------------------------------------
(* Types *)

Env == [type: {"started", "completed", "feedback", "approved"},
        persona: Persona \cup {None}, n: Nat]

\* plain goroutines come from enqueueAndDrain, approved ones from a hint's
\* approval.  live: the correlation context it runs under is not cancelled.
Drain == [h: Persona, kind: {"plain", "approved"},
          at: {"check", "park", "slot", "run", "publish"},
          env: Env, live: BOOLEAN, out: Outcome]

Message == [type: {"resume", "cancel", "evict", "retry", "approved"},
            persona: Persona \cup {None}, env: Env]

AggregateEvent ==
    {Requested, Started, Resumed}
        \cup {PersonaCompleted(p, own) : p \in Persona, own \in BOOLEAN}
        \cup {PersonaFailed(p, kind) : p \in Persona, kind \in FailureKind}
        \cup {Verdict(vp, o, adv, f) : vp \in VerdictPairs,
                o \in {"pass", "fail"}, adv \in BOOLEAN, f \in Fingerprint}
        \cup {HintRejected(p, "skip") : p \in Persona}

\* HintEmitted, with what the hint is about.
Hinted(p, confident, env) ==
    [type |-> "HintEmitted", persona |-> p, confident |-> confident, on |-> env]

EngineLetter ==
    AggregateEvent \cup
        [type: {"HintEmitted"}, persona: Persona, confident: BOOLEAN, on: Env]

\* The goroutines that hold a concurrency slot.
Running == {d \in drains : d.at \in {"run", "publish"}}

TypeOK ==
    /\ agg \in Aggregate
    /\ log.latest \in [Persona -> Nat] /\ log.stored \in [Persona -> Nat]
    /\ log.stale \cup log.failing \cup log.since \subseteq Persona
    /\ log.hints \subseteq Persona \X Env
    /\ runs \in [Persona -> Nat]
    /\ wraps \subseteq [h: Persona, env: Env, at: {"wrap", "park"}]
    /\ seen.events \subseteq Persona \X Env
    /\ \A j \in seen.joins : j[1] \in Persona
    /\ cached \in BOOLEAN /\ paused \in BOOLEAN
    /\ blocked \subseteq Persona \X Env
    /\ queue \in [Persona -> Seq(Env)]
    /\ draining \subseteq Persona
    /\ drains \subseteq Drain /\ Cardinality(Running) \in 0..MaxActive
    /\ mail \in Seq(EngineLetter)
    /\ inbox \subseteq Message
    /\ asked \in Nat /\ faults \in Nat /\ restarts \in Nat
    /\ held \subseteq Persona \X Nat /\ answered \subseteq Env
    /\ waiting \subseteq Persona

\* Is the bound on disturbances not reached yet?
Trouble == asked + faults + restarts < MaxTrouble

Init ==
    /\ agg = NewWorkflowAggregate(TRUE)
    /\ log = NewLog
    /\ runs = [p \in Persona |-> 0]
    /\ wraps = {}
    /\ seen = [events |-> {}, joins |-> {}]
    /\ cached = FALSE
    /\ paused = FALSE
    /\ blocked = {}
    /\ queue = [p \in Persona |-> <<>>]
    /\ draining = {}
    /\ drains = {}
    /\ mail = <<Requested>>
    /\ inbox = {}
    /\ asked = 0 /\ faults = 0 /\ restarts = 0
    /\ held = {} /\ answered = {} /\ waiting = {}

-----------------------------------------------------------------------------
(* The dispatch queues *)

\* eventPriority: the lower number is taken first.
Priority(env) ==
    CASE env.type = "approved"  -> 0
      [] env.type = "feedback"  -> 10
      [] env.type = "completed" -> 20
      [] env.type = "started"   -> 30

\* dispatchQueue.push: before the first item of a lower priority.
Push(items, env) ==
    LET behind(i) == \E j \in 1..i : Priority(items[j]) > Priority(env)
    IN [i \in 1..(Len(items) + 1) |->
            IF i <= Len(items) /\ ~behind(i) THEN items[i]
            ELSE IF i = 1 \/ ~behind(i - 1) THEN env ELSE items[i - 1]]

NewDrain(h, kind) ==
    [h |-> h, kind |-> kind, at |-> "check", env |-> WorkflowStartedEnv,
     live |-> TRUE, out |-> "complete"]

\* A drain goroutine holds the queue's mutex while it empties it.
QueueFree(h) == \A d \in drains : d.h = h => d.at # "park"

\* Mutant: every push starts a drain goroutine.
EnqueueAlwaysDrains(h, env, kind) ==
    /\ QueueFree(h)
    /\ queue' = [queue EXCEPT ![h] = Push(@, env)]
    /\ draining' = draining \cup {h}
    /\ drains' = drains \cup {NewDrain(h, kind)}

\* enqueueAndDrain: at most one drain goroutine per queue.
Enqueue(h, env, kind) ==
    /\ QueueFree(h)
    /\ queue' = [queue EXCEPT ![h] = Push(@, env)]
    /\ draining' = draining \cup {h}
    /\ drains' = IF h \in draining THEN drains
                 ELSE drains \cup {NewDrain(h, kind)}

\* Deliveries of an envelope to those of H that are subscribed to it.
Deliver(H, env) == {[h |-> h, env |-> env, at |-> "wrap"] : h \in H}

Successors(p) == {h \in DOMAIN Graph : p \in Graph[h]}
Roots == {h \in DOMAIN Graph : Graph[h] = {}}

-----------------------------------------------------------------------------
(* wrap *)

\* The checks before the dedup cache: is the delivery any of h's business?
Relevant(h, env) ==
    CASE env.type = "completed" -> cached /\ env.persona \in Predecessors(h)
      [] env.type = "feedback"  -> cached /\ h \in RetriggeredBy
      [] OTHER                  -> TRUE

\* Is this the second completion that satisfies the same join?
JoinGated(h, env) ==
    Cardinality(Predecessors(h)) > 1 /\ env.type = "completed"

SeenWith(h, env) ==
    [events |-> seen.events \cup {<<h, env>>},
     joins |-> IF JoinGated(h, env)
               THEN seen.joins \cup {<<h, JoinFingerprint(log, h)>>}
               ELSE seen.joins]

AdmitFrame ==
    UNCHANGED <<persistent, cached, paused, blocked, mail, inbox, history>>

\* Not relevant, seen before, joined before: nothing is left of it.
Drop(w) ==
    /\ w.at = "wrap"
    /\ \/ ~Relevant(w.h, w.env) /\ UNCHANGED seen
       \/ <<w.h, w.env>> \in seen.events /\ UNCHANGED seen
       \/ /\ Relevant(w.h, w.env) /\ <<w.h, w.env>> \notin seen.events
          /\ \/ ~JoinSatisfied(log, w.h)
             \/ /\ JoinGated(w.h, w.env)
                /\ <<w.h, JoinFingerprint(log, w.h)>> \in seen.joins
          /\ seen' = [seen EXCEPT !.events = @ \cup {<<w.h, w.env>>}]
    /\ wraps' = wraps \ {w}
    /\ AdmitFrame /\ UNCHANGED <<queue, draining, drains, counters>>

\* The join check cannot read the store: the delivery is forgotten.
JoinError(w) ==
    /\ w.at = "wrap" /\ Trouble
    /\ Relevant(w.h, w.env) /\ <<w.h, w.env>> \notin seen.events
    /\ Predecessors(w.h) # {}
    /\ wraps' = wraps \ {w}
    /\ faults' = faults + 1
    /\ AdmitFrame
    /\ UNCHANGED <<seen, queue, draining, drains, asked, restarts>>

\* A new, relevant delivery whose join is satisfied for the first time.
Admitted(w) ==
    /\ Relevant(w.h, w.env) /\ <<w.h, w.env>> \notin seen.events
    /\ JoinSatisfied(log, w.h)
    /\ JoinGated(w.h, w.env) =>
            <<w.h, JoinFingerprint(log, w.h)>> \notin seen.joins
    /\ seen' = SeenWith(w.h, w.env)

\* The pause check, and on to the queue or towards the blocked list.
Admit(w) ==
    /\ w.at = "wrap"
    /\ Admitted(w)
    /\ IF paused
       THEN /\ wraps' = (wraps \ {w}) \cup {[w EXCEPT !.at = "park"]}
            /\ UNCHANGED <<queue, draining, drains>>
       ELSE /\ wraps' = wraps \ {w}
            /\ Enqueue(w.h, w.env, "plain")
    /\ AdmitFrame /\ UNCHANGED counters

\* addBlocked, a critical section of its own.
Park(w) ==
    /\ w.at = "park"
    /\ wraps' = wraps \ {w}
    /\ blocked' = blocked \cup {<<w.h, w.env>>}
    /\ UNCHANGED <<persistent, seen, cached, paused, queue, draining, drains,
                   mail, inbox, counters, history>>

-----------------------------------------------------------------------------
(* The drain goroutines *)

Turn(d, e) == drains' = (drains \ {d}) \cup {e}

DrainFrame ==
    UNCHANGED <<persistent, wraps, seen, cached, mail, inbox, counters,
                history>>

\* The next item, unless the workflow is paused; a hint's approval does not
\* look.
Take(d) ==
    /\ d.at = "check"
    /\ queue[d.h] # <<>>
    /\ d.kind = "plain" => ~paused
    /\ queue' = [queue EXCEPT ![d.h] = Tail(@)]
    /\ Turn(d, [d EXCEPT !.at = "slot", !.env = Head(queue[d.h])])
    /\ DrainFrame /\ UNCHANGED <<paused, blocked, draining>>

\* Mutant: the goroutine ends and leaves the flag behind.
StopKeepsFlag(d) ==
    /\ d.at = "check"
    /\ queue[d.h] = <<>>
    /\ drains' = drains \ {d}
    /\ DrainFrame /\ UNCHANGED <<paused, blocked, queue, draining>>

\* Nothing left: the goroutine ends.
Stop(d) ==
    /\ d.at = "check"
    /\ queue[d.h] = <<>>
    /\ draining' = draining \ {d.h}
    /\ drains' = drains \ {d}
    /\ DrainFrame /\ UNCHANGED <<paused, blocked, queue>>

\* Paused: the items are to be moved to the blocked list ...
FindPaused(d) ==
    /\ d.at = "check"
    /\ d.kind = "plain" /\ paused
    /\ Turn(d, [d EXCEPT !.at = "park"])
    /\ DrainFrame /\ UNCHANGED <<paused, blocked, queue, draining>>

\* ... and are, whether or not it is still paused by then.
ParkQueue(d) ==
    /\ d.at = "park"
    /\ blocked' = blocked \cup
            {<<d.h, queue[d.h][i]>> : i \in DOMAIN queue[d.h]}
    /\ queue' = [queue EXCEPT ![d.h] = <<>>]
    /\ draining' = draining \ {d.h}
    /\ drains' = drains \ {d}
    /\ DrainFrame /\ UNCHANGED paused

\* Mutant: nobody waits for a slot.
AcquireAlways(d) ==
    /\ d.at = "slot"
    /\ Turn(d, [d EXCEPT !.at = "run", !.live = TRUE])
    /\ DrainFrame /\ UNCHANGED <<paused, blocked, queue, draining>>

\* A slot, and only then the correlation's context: after a cancel it is a
\* fresh one.
Acquire(d) ==
    /\ d.at = "slot"
    /\ Cardinality(Running) < MaxActive
    /\ Turn(d, [d EXCEPT !.at = "run", !.live = TRUE])
    /\ DrainFrame /\ UNCHANGED <<paused, blocked, queue, draining>>

\* Is this run the hint phase?
Hinting(d) ==
    d.kind = "plain" /\ d.h \in Hinter /\ d.env.type # "approved"

Target(h) == CHOOSE t \in Persona : <<h, t>> \in VerdictPairs

\* How the run may end: the consolidator's result follows from the log, and
\* a cancelled context usually is an error.
Ends(d) ==
    IF Hinting(d) THEN Outcomes[d.h] \cap {"hint", "unsure", "other"}
    ELSE IF d.h = ReviewConsolidator
    THEN {IF RoundFails(log) THEN "merged" ELSE "complete"}
    ELSE (Outcomes[d.h] \ {"hint", "unsure"})
            \cup (IF d.live THEN {} ELSE {"other"})

\* What the batch of a run that ended in out does to the log.
Stored(l, d, out, n) ==
    LET h == d.h
        done == StoreCompleted(l, h, n)
    IN CASE out = "complete" -> done
         [] out \in {"pass", "advisory"} -> StoreVerdict(done, h, d.env, FALSE)
         [] out = "fail" -> StoreVerdict(done, h, d.env, TRUE)
         [] out = "merged" ->
                StoreCompleted(StoreFeedback(l, Developer), h, n)
         [] out \in FailureKind -> StoreFailed(l, h, n)
         [] out \in {"hint", "unsure"} -> StoreHint(l, h, d.env)

\* persistAndPublish's three attempts to append; when all fail the events are
\* published all the same.
Persist(d, out) ==
    /\ runs' = [runs EXCEPT ![d.h] = @ + 1]
    /\ \/ log' = Stored(log, d, out, runs[d.h] + 1) /\ UNCHANGED faults
       \/ Trouble /\ faults' = faults + 1 /\ UNCHANGED log

\* An advisory failure the engine is going to answer with a pause.
Escalates(d, out) ==
    out = "advisory" /\ cached /\ Target(d.h) \in Required

\* Mutant: the pause is left to the engine.
LeftToEngine(d, out) == UNCHANGED paused

\* The pause ahead of the engine's, before anything is stored.
frontRunAdvisoryPause(d, out) == paused' = (paused \/ Escalates(d, out))

\* The handler returned; its events are stored.
End(d, out) ==
    /\ d.at = "run" /\ out \in Ends(d) \ {"incomplete"}
    /\ d.live \/ ~paused \/ Hinting(d)
    /\ out = "fail" => log.feedback < MaxFeedback
    /\ frontRunAdvisoryPause(d, out)
    /\ Persist(d, out)
    /\ Turn(d, [d EXCEPT !.at = "publish", !.out = out])
    /\ held' = IF Escalates(d, out)
               THEN held \cup {<<d.h, runs[d.h] + 1>>} ELSE held
    /\ answered' =
            IF out = "merged" THEN answered \cup {log.round} ELSE answered
    /\ UNCHANGED <<agg, wraps, seen, cached, blocked, queue, draining, mail,
                   inbox, asked, restarts, waiting>>

\* ErrIncomplete: neither a completion nor a failure, until more events come.
EndIncomplete(d) ==
    /\ d.at = "run" /\ "incomplete" \in Ends(d)
    /\ Turn(d, [d EXCEPT !.at = "check"])
    /\ waiting' = waiting \cup {d.h}
    /\ UNCHANGED <<persistent, wraps, seen, cached, mail, inbox, counters, held,
                   answered, paused, blocked, queue, draining>>

\* Cancelled while it ran: the result is dropped.
EndCancelled(d) ==
    /\ d.at = "run" /\ ~Hinting(d)
    /\ ~d.live /\ paused
    /\ Turn(d, [d EXCEPT !.at = "check"])
    /\ DrainFrame /\ UNCHANGED <<paused, blocked, queue, draining>>

Emitted(d) == Envelope("completed", d.h, runs[d.h])

\* The deliveries the runner's handlers get of the batch ...
Deliveries(d) ==
    CASE d.out \in {"complete", "pass", "fail", "advisory"} ->
            Deliver(Successors(d.h), Emitted(d))
      [] d.out = "merged" ->
            Deliver(Successors(d.h), Emitted(d)) \cup
            Deliver(RetriggeredBy, Envelope("feedback", d.h, runs[d.h]))
      [] OTHER -> {}

\* ... and what the engine's channel gets.  The consolidator's feedback is
\* not on the workflow's stream, and the engine does not subscribe to it.
Letters(d) ==
    LET h == d.h
        judged(outcome, advisory) ==
            {<<Verdict(<<h, Target(h)>>, outcome, advisory, f),
               PersonaCompleted(h, FALSE)>> : f \in Fingerprint}
    IN CASE d.out \in {"complete", "merged"} -> {<<PersonaCompleted(h, FALSE)>>}
         [] d.out = "pass"     -> judged("pass", FALSE)
         [] d.out = "fail"     -> judged("fail", FALSE)
         [] d.out = "advisory" -> judged("fail", TRUE)
         [] d.out \in FailureKind -> {<<PersonaFailed(h, d.out)>>}
         [] d.out \in {"hint", "unsure"} ->
                {<<Hinted(h, d.out = "hint", d.env)>>}

\* The batch goes out, the slot is released, and the goroutine looks for the
\* next item.
Publish(d) ==
    /\ d.at = "publish"
    /\ wraps' = wraps \cup Deliveries(d)
    /\ \E letters \in Letters(d) :
            Len(mail) + Len(letters) <= MaxMail /\ mail' = mail \o letters
    /\ Turn(d, [d EXCEPT !.at = "check"])
    /\ UNCHANGED <<persistent, seen, cached, paused, blocked, queue, draining,
                   inbox, counters, history>>

DrainStep(d) ==
    \/ Take(d) \/ Stop(d) \/ FindPaused(d) \/ ParkQueue(d) \/ Acquire(d)
    \/ (\E out \in Outcome : End(d, out)) \/ EndIncomplete(d)
    \/ EndCancelled(d)
    \/ Publish(d)

-----------------------------------------------------------------------------
(* The engine: one event, its decision appended and published. *)

Post(type, p, env) == [type |-> type, persona |-> p, env |-> env]

\* What the runner sees of the decision d on e.  A pause is delivered to it
\* before Publish returns, everything else by goroutines of its own.
Answer(d, e) ==
    LET n == log.feedback + 1
        told(m) == inbox' = inbox \cup {m}
        kept == UNCHANGED <<log, runs, wraps, cached, paused>>
    IN CASE d.type = "WorkflowStarted" ->
              /\ cached' = TRUE
              /\ wraps' = wraps \cup Deliver(Roots, WorkflowStartedEnv)
              /\ mail' = Tail(mail) /\ UNCHANGED <<log, runs, paused, inbox>>
         [] d.type = "FeedbackGenerated" ->
              /\ log' = StoreFeedback(log, d.target)
              /\ wraps' = wraps \cup
                    Deliver(RetriggeredBy, Envelope("feedback", None, n))
              /\ mail' = Tail(mail) /\ UNCHANGED <<runs, cached, paused, inbox>>
         [] d.type = "WorkflowPaused" ->
              /\ paused' = TRUE
              /\ mail' = Tail(mail) /\ UNCHANGED <<log, runs, wraps, cached, inbox>>
         [] d.type \in {"WorkflowCompleted", "WorkflowFailed"} ->
              /\ told(Post("evict", None, WorkflowStartedEnv)) /\ kept
              /\ mail' = Tail(mail)
         [] d.type = "WorkflowRetried" ->
              /\ told(Post("retry", d.persona, WorkflowStartedEnv)) /\ kept
              /\ mail' = Tail(mail)
         [] d.type = "HintApproved" ->
              /\ log' = WithoutHint(log, e.persona)
              /\ told(Post("approved", e.persona, e.on))
              /\ mail' = Tail(mail)
              /\ UNCHANGED <<runs, wraps, cached, paused>>
         [] d.type = "PersonaCompleted" ->
              /\ runs' = [runs EXCEPT ![d.persona] = @ + 1]
              /\ log' = StoreCompleted(log, d.persona, runs[d.persona] + 1)
              /\ wraps' = wraps \cup Deliver(Successors(d.persona),
                    Envelope("completed", d.persona, runs[d.persona] + 1))
              /\ mail' = Append(Tail(mail), d)
              /\ UNCHANGED <<cached, paused, inbox>>
         [] d.type = "none" -> kept /\ mail' = Tail(mail) /\ UNCHANGED inbox

Engine ==
    /\ mail # <<>>
    /\ \E d \in Decide(Track(agg, Head(mail)), Head(mail)) :
          /\ agg' = Handled(agg, Head(mail), d)
          /\ Answer(d, Head(mail))
    /\ UNCHANGED <<seen, blocked, queue, draining, drains, counters, history>>

-----------------------------------------------------------------------------
(* The runner's own subscriptions *)

\* A cancelled context reaches the handlers that run under it.
Interrupted ==
    {IF d.at = "run" THEN [d EXCEPT !.live = FALSE] ELSE d : d \in drains}

\* WorkflowResumed: what was blocked goes through wrap again.
OnResumed ==
    /\ Post("resume", None, WorkflowStartedEnv) \in inbox
    /\ inbox' = inbox \ {Post("resume", None, WorkflowStartedEnv)}
    /\ paused' = FALSE
    /\ blocked' = {}
    /\ seen' = [seen EXCEPT !.events = @ \ blocked]
    /\ wraps' = wraps \cup
            {[h |-> b[1], env |-> b[2], at |-> "wrap"] : b \in blocked}
    /\ held' = {}
    /\ UNCHANGED <<persistent, cached, queue, draining, drains, mail, counters,
                   answered, waiting>>

\* WorkflowCancelled: paused for good, and nothing is kept for a resume.
OnCancelled ==
    /\ Post("cancel", None, WorkflowStartedEnv) \in inbox
    /\ inbox' = inbox \ {Post("cancel", None, WorkflowStartedEnv)}
    /\ paused' = TRUE
    /\ blocked' = {}
    /\ drains' = Interrupted
    /\ UNCHANGED <<persistent, wraps, seen, cached, queue, draining, mail,
                   counters, history>>

\* The second subscription to the three terminal events.
OnTerminal ==
    /\ Post("evict", None, WorkflowStartedEnv) \in inbox
    /\ inbox' = inbox \ {Post("evict", None, WorkflowStartedEnv)}
    /\ cached' = FALSE
    /\ drains' = Interrupted
    /\ UNCHANGED <<persistent, wraps, seen, paused, blocked, queue, draining,
                   mail, counters, history>>

\* WorkflowRetried: what is blocked is discarded with the pause, the phase
\* goes straight to its queue, and a phase that cannot start has failed.
OnRetried(p) ==
    LET m == Post("retry", p, WorkflowStartedEnv)
        wedged == mail' = Append(mail, PersonaFailed(p, "other"))
    IN /\ m \in inbox
       /\ inbox' = inbox \ {m}
       /\ cached' = TRUE
       /\ IF RetryTriggers(log, p) = {}
          THEN /\ wedged
               /\ UNCHANGED <<paused, blocked, queue, draining, drains, held>>
          ELSE /\ paused' = FALSE
               /\ blocked' = {}
               /\ held' = {}
               /\ IF JoinSatisfied(log, p)
                  THEN /\ \E env \in RetryTriggers(log, p) :
                            Enqueue(p, env, "plain")
                       /\ UNCHANGED mail
                  ELSE wedged /\ UNCHANGED <<queue, draining, drains>>
       /\ UNCHANGED <<persistent, wraps, seen, counters, answered, waiting>>

\* HintApproved: straight to the queue as well.
OnApproved(p) ==
    \E m \in inbox :
        /\ m.type = "approved" /\ m.persona = p
        /\ inbox' = inbox \ {m}
        /\ seen' = [seen EXCEPT !.events = @ \ {<<p, m.env>>}]
        /\ Enqueue(p, Envelope("approved", p, runs[p]), "approved")
        /\ UNCHANGED <<persistent, wraps, cached, paused, blocked, mail,
                       counters, history>>

-----------------------------------------------------------------------------
(* Operators (internal/mcp): the status is checked, the event appended and  *)
(* published.                                                               *)

Command ==
    /\ Trouble
    /\ asked' = asked + 1
    /\ UNCHANGED <<runs, wraps, seen, cached, blocked, queue, draining, drains,
                   faults, restarts, history>>

PauseWorkflow ==
    /\ Command
    /\ agg.status = "running"
    /\ agg' = Apply(agg, Paused(None, None, None))
    /\ paused' = TRUE
    /\ UNCHANGED <<log, mail, inbox>>

\* The resume is decided upon by the engine and delivered to the runner.
ResumeWith(letters, messages) ==
    /\ agg' = Apply(agg, Resumed)
    /\ mail' = mail \o Append(letters, Resumed)
    /\ inbox' = inbox \cup messages
                    \cup {Post("resume", None, WorkflowStartedEnv)}

ResumeWorkflow ==
    /\ Command
    /\ agg.status = "paused"
    /\ ResumeWith(<<>>, {})
    /\ UNCHANGED <<log, paused>>

CancelWorkflow ==
    /\ Command
    /\ agg.status \in {"requested", "running", "paused"}
    /\ agg' = Apply(agg, Cancelled)
    /\ inbox' = inbox \cup {Post("cancel", None, WorkflowStartedEnv),
                            Post("evict", None, WorkflowStartedEnv)}
    /\ UNCHANGED <<log, paused, mail>>

\* A pending hint is approved, or rejected with the action skip; either
\* resumes a paused workflow.  Bound: operators answer hints once the engine
\* has decided on them and no handler runs.
ApproveHint ==
    \E k \in log.hints :
        /\ Command /\ mail = <<>> /\ drains = {}
        /\ agg.status \in {"running", "paused"}
        /\ log' = WithoutHint(log, k[1])
        /\ IF agg.status = "paused"
           THEN ResumeWith(<<>>, {Post("approved", k[1], k[2])})
           ELSE /\ inbox' = inbox \cup {Post("approved", k[1], k[2])}
                /\ UNCHANGED <<agg, mail>>
        /\ UNCHANGED paused

RejectHint ==
    \E k \in log.hints :
        /\ Command /\ mail = <<>> /\ drains = {}
        /\ log' = WithoutHint(log, k[1])
        /\ IF agg.status = "paused"
           THEN ResumeWith(<<HintRejected(k[1], "skip")>>, {})
           ELSE /\ mail' = Append(mail, HintRejected(k[1], "skip"))
                /\ UNCHANGED <<agg, inbox>>
        /\ UNCHANGED paused

-----------------------------------------------------------------------------
(* A restart: everything but the stored events is gone, and the recovery    *)
(* scanner (internal/engine/recovery.go) looks at the workflow once.        *)

Ready ==
    {p \in DOMAIN Graph : JoinSatisfied(log, p) /\ EligibleOn(log, agg, p) # {}}

\* Paused, or waiting for a hint's review: only the pause is restored.  All
\* required personas done: the last completion is published again.  Otherwise
\* every eligible handler whose join is satisfied is dispatched.
Restart ==
    LET candidate == agg.status \in {"running", "paused"}
        onhold == candidate /\ (agg.status = "paused" \/ log.hints # {})
        done == Required \subseteq agg.completed /\ log.last # None
        republished == candidate /\ ~onhold /\ done
        go == IF candidate /\ ~onhold /\ ~done THEN Ready ELSE {}
    IN /\ Trouble
       /\ restarts' = restarts + 1
       /\ cached' = candidate
       /\ paused' = onhold
       /\ mail' = IF republished
                  THEN <<PersonaCompleted(log.last, FALSE)>> ELSE <<>>
       /\ wraps' = IF republished
                   THEN Deliver(Successors(log.last),
                                Envelope("completed", log.last,
                                         log.stored[log.last]))
                   ELSE {}
       /\ \E env \in [go -> UNION {EligibleOn(log, agg, p) : p \in go}] :
             /\ \A p \in go : env[p] \in EligibleOn(log, agg, p)
             /\ queue' = [p \in Persona |->
                            IF p \in go THEN <<env[p]>> ELSE <<>>]
       /\ draining' = go
       /\ drains' = {NewDrain(p, "plain") : p \in go}
       /\ seen' = [events |-> {}, joins |-> {}]
       /\ blocked' = {} /\ inbox' = {} /\ held' = {}
       /\ UNCHANGED <<persistent, asked, faults, answered, waiting>>

-----------------------------------------------------------------------------

Progress ==
    \/ \E w \in wraps : Drop(w) \/ Admit(w) \/ Park(w)
    \/ \E d \in drains : DrainStep(d)
    \/ Engine
    \/ OnResumed \/ OnCancelled \/ OnTerminal
    \/ \E p \in Persona : OnRetried(p) \/ OnApproved(p)

Operator ==
    PauseWorkflow \/ ResumeWorkflow \/ CancelWorkflow \/ ApproveHint \/ RejectHint

Next ==
    \/ Progress
    \/ Operator
    \/ \E w \in wraps : JoinError(w)
    \/ Restart

\* Goroutines are scheduled and handlers return; operators, restarts and
\* store errors are owed nothing.
Spec == Init /\ [][Next]_vars /\ WF_vars(Progress)

-----------------------------------------------------------------------------
(* Properties *)

\* A handler never runs concurrently on the same workflow, and a queue is
\* marked as draining exactly while a goroutine drains it: otherwise an item
\* pushed behind a stale mark would wait forever
\* (docs/event-bus-integration.md, "Dispatch queue").
OneDrain ==
    /\ \A d, e \in drains : d.h = e.h => d = e
    /\ draining = {d.h : d \in drains}
    /\ \A p \in Persona : queue[p] # <<>> => p \in draining

\* The deliveries this step puts into a queue.
Queued == IF queue' # queue THEN wraps \ wraps' ELSE {}

\* Nothing is queued on a completion that came with an advisory failure before
\* the workflow was resumed or retried, however the deliveries of that batch,
\* of its siblings and of the engine's pause interleave.  A restart may break
\* this: a verdict the engine has not seen by then is lost.
AdvisoryHold ==
    [][\A w \in Queued : restarts' = 0 =>
        \A p \in Predecessors(w.h) : <<p, log.latest[p]>> \notin held]_vars

Merges == \E d \in drains' \ drains : d.at = "publish" /\ d.out = "merged"

\* No restart, no store error, no automatic retry and no feedback of the
\* engine's own so far, and nothing that makes a resume a retry.
Undisturbed ==
    /\ restarts = 0 /\ faults = 0
    /\ asked = 0 \/ ~RateLimitAutopause
    /\ \A p \in Persona : agg.autoRetries[p] = 0 /\ agg.feedbackCount[p] = 0

\* The consolidator sends a developer run back at most once, and only when
\* every reviewer has judged that very run; unless a retry ran a reviewer
\* again (two resumes after a rate limit may both retry it), a verdict was
\* published that could not be stored, or the engine itself sent a persona
\* back, as it does for the quality gate and for the resume of a workflow
\* that reached its limit.
RoundAnsweredOnce ==
    [][Merges /\ Undisturbed =>
        /\ log.round \notin answered
        /\ {v.source : v \in RoundVerdicts(log)} = ConsolidatedReviewers]_vars

\* The shape of the definitions that have the barrier: personas that follow
\* one another lead up to the developer, the reviewers follow the developer,
\* the consolidator joins them.  A reviewer that succeeds renders a verdict,
\* and nobody has a hint phase.
LeadsUp(U) ==
    /\ U \cap (ConsolidatedReviewers \cup {ReviewConsolidator, Developer}) = {}
    /\ \A p \in U \cup {Developer} :
            p \in DOMAIN Graph /\ (Graph[p] = {} \/ \E q \in U : Graph[p] = {q})

Barrier ==
    /\ ~PartialReviewOnFailure /\ Hinter = {} /\ RetriggeredBy = {Developer}
    /\ \E U \in SUBSET Persona : LeadsUp(U)
    /\ Developer \notin ConsolidatedReviewers
    /\ \A r \in ConsolidatedReviewers :
            /\ r \in DOMAIN Graph /\ Graph[r] = {Developer}
            /\ "complete" \notin Outcomes[r]
    /\ Cardinality(ConsolidatedReviewers) > 1
    /\ ReviewConsolidator \in DOMAIN Graph \ {Developer}
    /\ Graph[ReviewConsolidator] = ConsolidatedReviewers

Quiet == wraps = {} /\ drains = {} /\ mail = <<>> /\ inbox = {}

\* When nothing is in flight any more, the workflow is not running: it was
\* decided upon, or an operator is asked.  A handler that waits for more, an
\* operator's resume and a store error may leave it running with nothing to
\* come, and so may a restart with a hint to review or inside the synchronous
\* barrier.
NoWedge ==
    Quiet /\ asked = 0 /\ faults = 0 /\ waiting = {}
        /\ (restarts = 0 \/ ~(SynchronousFeedback \/ paused)) =>
            agg.status # "running"

\* And it comes to that.
Settles ==
    [](asked = 0 /\ faults = 0 /\ restarts = 0 /\ waiting = {}) =>
        <>(agg.status \notin {"requested", "running"})

\* What workflow_resolver.go says of a resume: the blocked-replay path drives
\* the downstream handlers, so that none whose join is satisfied is left out.
ResumeDrivesJoins ==
    Quiet /\ blocked = {} /\ faults = 0 /\ restarts = 0 /\ agg.status = "running" =>
        \A h \in DOMAIN Graph :
            Predecessors(h) # {} /\ JoinSatisfied(log, h) => log.latest[h] > 0
=============================================================================
