--------------------------- MODULE WorkflowEngine ---------------------------
(***************************************************************************)
(* The engine goroutine (internal/engine/engine.go) and the operator tools *)
(* (internal/mcp) on one workflow's event stream.  agg is what the stored  *)
(* stream folds to.  The engine handles one event at a time: it loads the  *)
(* stream, decides, and appends its batch at the version it loaded, so an  *)
(* operator's append in between makes the append fail, and the decision is *)
(* logged and lost.                                                        *)
(*                                                                         *)
(* The environment is open: any persona may complete, fail, hint or render *)
(* a verdict at any time, as late or as often as it likes.  Whatever holds *)
(* here holds for every behaviour of the persona runner, of the buses and  *)
(* of a restarted process that delivers an event again.                    *)
(***************************************************************************)
EXTENDS WorkflowAggregate

CONSTANTS
    HintPersona,    \* the personas that implement Hinter
    FailingPersona, \* the personas whose failures the environment tries
    MaxCommands     \* bound: operator commands in a behaviour

ASSUME EngineAssumption ==
    /\ HintPersona \subseteq Persona
    /\ FailingPersona \subseteq Persona
    /\ MaxCommands \in Nat
    /\ PartialReviewOnFailure =>
            \A vp \in VerdictPairs : vp[2] \notin CategoryReviewers

VARIABLES
    agg,       \* the aggregate the stored stream folds to
    busy,      \* the own event processDecision has loaded the stream for
    moved,     \* somebody appended since that load
    owed,      \* events published by operators or the engine, not yet handled
    commands,  \* operator commands so far
    resumes    \* WorkflowResumed events appended so far (history)

vars == <<agg, busy, moved, owed, commands, resumes>>

Rejections ==
    {HintRejected(p, action) : p \in HintPersona, action \in {"skip", "fail"}}
Skips == {PersonaCompleted(p, TRUE) : p \in HintPersona}

\* Events the engine is handed because of its own or an operator's append.
OwnEvent == {Requested, Resumed} \cup Rejections \cup Skips

Completions == {PersonaCompleted(p, FALSE) : p \in Persona}
Failures ==
    {PersonaFailed(p, kind) : p \in FailingPersona, kind \in FailureKind}
Verdicts ==
    {Verdict(vp, outcome, advisory, f) :
        vp \in VerdictPairs, outcome \in {"pass", "fail"},
        advisory \in BOOLEAN, f \in Fingerprint}
Hints == {HintEmitted(p, confident) : p \in HintPersona, confident \in BOOLEAN}

\* Events that reach the engine from the personas' own streams.
PersonaEvent == Completions \cup Failures \cup Verdicts \cup Hints

TypeOK ==
    /\ agg \in Aggregate
    /\ busy \in OwnEvent \cup {Nothing}
    /\ moved \in BOOLEAN
    /\ owed \in [OwnEvent -> Nat]
    /\ commands \in 0..MaxCommands
    /\ resumes \in Nat

Init ==
    /\ \E hasDef \in BOOLEAN : agg = NewWorkflowAggregate(hasDef)
    /\ busy = Nothing
    /\ moved = FALSE
    /\ owed = [e \in OwnEvent |-> IF e = Requested THEN 1 ELSE 0]
    /\ commands = 0
    /\ resumes = 0

-----------------------------------------------------------------------------
(* The engine goroutine *)

\* The batch for e is appended and the decision published.  Of the engine's
\* own decisions only a skipped hint's PersonaCompleted is decided upon again.
AppendBatch(e) ==
    \E decision \in Decide(Track(agg, e), e) :
        /\ agg' = Handled(agg, e, decision)
        /\ owed' = IF decision \in OwnEvent
                   THEN [owed EXCEPT ![decision] = @ + 1]
                   ELSE owed

\* processDecision for an event of a persona, load to append.  A conflicting
\* append in between loses the event, which is the behaviour in which the
\* open environment never sent it.
HandlePersona(e) ==
    /\ busy = Nothing
    /\ AppendBatch(e)
    /\ UNCHANGED <<busy, moved, commands, resumes>>

\* Mutant: an event taken again after it was handled.
LoadOwnAgain(e) ==
    /\ busy = Nothing
    /\ busy' = e
    /\ owed' = [owed EXCEPT ![e] = @ - 1]
    /\ UNCHANGED <<agg, moved, commands, resumes>>

\* An event published by an operator or by the engine: the stream is loaded.
LoadOwn(e) ==
    /\ busy = Nothing
    /\ owed[e] > 0
    /\ busy' = e
    /\ owed' = [owed EXCEPT ![e] = @ - 1]
    /\ UNCHANGED <<agg, moved, commands, resumes>>

\* Nobody appended since: the batch goes in.
Commit ==
    /\ busy # Nothing
    /\ ~moved
    /\ AppendBatch(busy)
    /\ busy' = Nothing
    /\ UNCHANGED <<moved, commands, resumes>>

\* The append fails with a version conflict: nothing is stored or published.
Conflict ==
    /\ busy # Nothing
    /\ moved
    /\ busy' = Nothing
    /\ moved' = FALSE
    /\ UNCHANGED <<agg, owed, commands, resumes>>

\* reclaimStalledSlot: the watchdog, on the engine's goroutine, fails a
\* running workflow it has not heard of for too long.
Reclaim ==
    /\ busy = Nothing
    /\ agg.status = "running"
    /\ agg' = Apply(agg, WorkflowFailed)
    /\ UNCHANGED <<busy, moved, owed, commands, resumes>>

-----------------------------------------------------------------------------
(* Operator commands: load, check the status, append at that version. *)

\* One command appends: the engine's load, if there is one, is out of date.
Command ==
    /\ commands < MaxCommands
    /\ commands' = commands + 1
    /\ moved' = (busy # Nothing)
    /\ UNCHANGED busy

AppendResumed ==
    /\ agg' = Apply(agg, Resumed)
    /\ resumes' = resumes + 1

CancelWorkflow ==
    /\ Command
    /\ agg.status \in {"requested", "running", "paused"}
    /\ agg' = Apply(agg, Cancelled)
    /\ UNCHANGED <<owed, resumes>>

PauseWorkflow ==
    /\ Command
    /\ agg.status = "running"
    /\ agg' = Apply(agg, Paused(None, None, None))
    /\ UNCHANGED <<owed, resumes>>

\* toolResumeWorkflow, and guidance or an approved hint on a paused workflow.
ResumeWorkflow ==
    /\ Command
    /\ agg.status = "paused"
    /\ AppendResumed
    /\ owed' = [owed EXCEPT ![Resumed] = @ + 1]

\* Guidance, or a hint approved on a running workflow: an append that leaves
\* the aggregate as it is.
AnnotateWorkflow ==
    /\ Command
    /\ agg.status \in {"running", "paused"}
    /\ UNCHANGED <<agg, owed, resumes>>

\* toolRejectHint checks no status, and resumes a paused workflow.
RejectHint(p, action) ==
    /\ Command
    /\ IF agg.status = "paused"
       THEN /\ AppendResumed
            /\ owed' = [owed EXCEPT ![HintRejected(p, action)] = @ + 1,
                                    ![Resumed] = @ + 1]
       ELSE /\ owed' = [owed EXCEPT ![HintRejected(p, action)] = @ + 1]
            /\ UNCHANGED <<agg, resumes>>

\* resumeWorkflowFromPhase
RetryWorkflow(p) ==
    /\ Command
    /\ agg.status \in {"failed", "cancelled"}
    /\ agg.hasDef
    /\ agg' = Apply(agg, Retried(p, FALSE))
    /\ UNCHANGED <<owed, resumes>>

-----------------------------------------------------------------------------

Next ==
    \/ \E e \in PersonaEvent : HandlePersona(e)
    \/ \E e \in OwnEvent : LoadOwn(e)
    \/ Commit
    \/ Conflict
    \/ Reclaim
    \/ CancelWorkflow
    \/ PauseWorkflow
    \/ ResumeWorkflow
    \/ AnnotateWorkflow
    \/ \E p \in HintPersona, action \in {"skip", "fail"} : RejectHint(p, action)
    \/ \E p \in DOMAIN Graph : RetryWorkflow(p)

Spec == Init /\ [][Next]_vars

-----------------------------------------------------------------------------
(* Properties *)

\* Resumes the engine has been told of and has not acted on.
ResumesOwed == owed[Resumed] + (IF busy = Resumed THEN 1 ELSE 0)

\* A target is sent back at most MaxIterations times, plus once for every
\* resume an operator granted: late or repeated verdicts, and resumes that
\* race with them, never buy another round (decideVerdictRendered's limit
\* and the resume path that may exceed it).
IterationBound ==
    \A p \in Persona : agg.feedbackCount[p] <= MaxIterations + resumes

\* The engine retries a persona on its own at most once, whatever operators
\* retry in between.
AutoRetryBound ==
    \A p \in Persona : agg.autoRetries[p] <= MaxAutoRetriesPerPersona

\* Personas completed by other means than a run: a hint an operator skips,
\* and a category reviewer's absorbed failure.
Excused ==
    HintPersona \cup (IF PartialReviewOnFailure THEN CategoryReviewers ELSE {})

\* While s waits for t in a feedback round, t has not re-completed and s is
\* not counted as complete: a completion of s that was queued before the
\* round began is never tracked (FeedbackPending, isStaleAfterFeedback).
GateHolds ==
    \A s \in Persona :
        agg.feedbackPending[s] # None =>
            /\ agg.feedbackPending[s] \in Required \ agg.completed
            /\ s \notin agg.completed \ Excused

\* A workflow never completes inside a feedback round: when it does, every
\* required persona is complete and no gate is closed.
CompletesOutsideRounds ==
    [][agg'.status = "completed" /\ agg.status # "completed" =>
        /\ Required \subseteq agg'.completed
        /\ \A s \in Persona : agg'.feedbackPending[s] = None]_vars

Lifecycle ==
    INSTANCE WorkflowLifecycle WITH
        status <- agg.status,
        begun <- owed[Requested] = 0 /\ busy # Requested,
        owed <- ResumesOwed

\* The engine and the operator tools only ever move the status the way
\* WorkflowLifecycle allows.
LifecycleSpec == Lifecycle!Spec
=============================================================================
