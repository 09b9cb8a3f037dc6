------------------------- MODULE WorkflowAggregate -------------------------
(***************************************************************************)
(* The workflow aggregate (internal/engine/aggregate.go) as pure           *)
(* functions: Apply folds one stored event into the aggregate, Decide is   *)
(* the set of events the aggregate may answer a delivered event with, and  *)
(* Track is the storage-only copy tryProcessDecision makes of a persona's  *)
(* event before it decides.                                                *)
(*                                                                         *)
(* Left out: prompts, tickets, token counts (nothing in the repository     *)
(* emits TokenBudgetExceeded), reasons and diagnostics.                    *)
(***************************************************************************)
EXTENDS WorkflowDef

CONSTANTS
    VerdictPairs,        \* <<source, target>> of the verdicts handlers render
    Fingerprint,         \* what verdictFingerprint tells apart
    RateLimitAutopause   \* RICK_RATE_LIMIT_AUTOPAUSE is not "0"

ASSUME AggregateAssumption ==
    /\ VerdictPairs \subseteq Persona \X Persona
    /\ None \notin Fingerprint
    /\ RateLimitAutopause \in BOOLEAN

MaxAutoRetriesPerPersona == 1

Status == {"requested", "running", "completed", "failed", "cancelled", "paused"}

\* The kinds classifyDispatchFailure yields, by what the aggregate does with
\* them: failureKindIsAutoRetryable, rate_limited, every other kind.
FailureKind == {"transient", "rate_limited", "other"}

\* skipped and lastFailing are kept as in the code: neither a retry nor a
\* resume empties them.  feedbackPending[s] = t is the gate "s may not be
\* tracked before t re-completes"; lastFailing[t] is the source of t's last
\* failing verdict.  The three resume fields are the Pending* pair and phase.
Aggregate ==
    [status: Status,
     hasDef: BOOLEAN,
     completed: SUBSET Persona,
     skipped: SUBSET Persona,
     feedbackCount: [Persona -> Nat],
     feedbackPending: [Persona -> Persona \cup {None}],
     autoRetries: [Persona -> Nat],
     lastFingerprint: [VerdictPairs -> Fingerprint \cup {None}],
     lastFailing: [Persona -> Persona \cup {None}],
     resumeRetarget: Persona \cup {None},
     resumeSource: Persona \cup {None},
     resumeRetryFrom: Persona \cup {None}]

\* NewWorkflowAggregate after WorkflowRequested; hasDef says whether the
\* registry has a definition for the requested id.
NewWorkflowAggregate(hasDef) ==
    [status |-> "requested",
     hasDef |-> hasDef,
     completed |-> {},
     skipped |-> {},
     feedbackCount |-> [p \in Persona |-> 0],
     feedbackPending |-> [p \in Persona |-> None],
     autoRetries |-> [p \in Persona |-> 0],
     lastFingerprint |-> [vp \in VerdictPairs |-> None],
     lastFailing |-> [p \in Persona |-> None],
     resumeRetarget |-> None,
     resumeSource |-> None,
     resumeRetryFrom |-> None]

-----------------------------------------------------------------------------
(* Events: those delivered to the engine, and those only the stream holds. *)

Requested == [type |-> "WorkflowRequested"]
Started == [type |-> "WorkflowStarted"]
WorkflowDone == [type |-> "WorkflowCompleted"]
WorkflowFailed == [type |-> "WorkflowFailed"]
Cancelled == [type |-> "WorkflowCancelled"]
Resumed == [type |-> "WorkflowResumed"]
Approved == [type |-> "HintApproved"]
Nothing == [type |-> "none"]

Paused(retarget, source, retryFrom) ==
    [type |-> "WorkflowPaused", retarget |-> retarget, source |-> source,
     retryFrom |-> retryFrom]

Retried(p, automatic) ==
    [type |-> "WorkflowRetried", persona |-> p, automatic |-> automatic,
     invalidated |-> PersonasToInvalidateFor(p)]

Feedback(target, source) ==
    [type |-> "FeedbackGenerated", target |-> target, source |-> source]

\* own: the event is already on the workflow's stream (a skipped hint), not
\* on the persona's.
PersonaCompleted(p, own) ==
    [type |-> "PersonaCompleted", persona |-> p, own |-> own]

PersonaFailed(p, kind) ==
    [type |-> "PersonaFailed", persona |-> p, kind |-> kind]

Verdict(vp, outcome, advisory, fingerprint) ==
    [type |-> "VerdictRendered", source |-> vp[1], target |-> vp[2],
     outcome |-> outcome, advisory |-> advisory, fingerprint |-> fingerprint]

HintEmitted(p, confident) ==
    [type |-> "HintEmitted", persona |-> p, confident |-> confident]

HintRejected(p, action) ==
    [type |-> "HintRejected", persona |-> p, action |-> action]

-----------------------------------------------------------------------------
(* Apply *)

\* WorkflowRetried: forget the completions and the gates the invalidated
\* personas are part of, and charge an automatic retry to its phase.
ApplyRetried(a, e) ==
    [a EXCEPT
        !.completed = @ \ e.invalidated,
        !.feedbackPending =
            [s \in Persona |->
                IF s \in e.invalidated \/ @[s] \in e.invalidated
                THEN None ELSE @[s]],
        !.autoRetries[e.persona] = IF e.automatic THEN @ + 1 ELSE @,
        !.status = "running"]

\* PersonaCompleted and its PersonaTracked copy: open the gates waiting for p.
ApplyCompleted(a, p) ==
    [a EXCEPT
        !.completed = @ \cup {p},
        !.feedbackPending =
            [s \in Persona |-> IF @[s] = p THEN None ELSE @[s]]]

\* PersonaFailedTracked: a category reviewer's failure is absorbed as a skip.
ApplyFailed(a, p) ==
    IF a.hasDef /\ PartialReviewOnFailure /\ p \in CategoryReviewers
    THEN [a EXCEPT !.completed = @ \cup {p}, !.skipped = @ \cup {p}]
    ELSE a

\* Mutant: feedback that does not send the target back to work.
FeedbackKeepsTarget(a, e) ==
    [a EXCEPT
        !.feedbackCount[e.target] = @ + 1,
        !.completed = @ \ {e.source},
        !.feedbackPending =
            [s \in Persona |-> IF s = e.source THEN e.target ELSE @[s]]]

\* FeedbackGenerated: target and source must run again, the source after the
\* target.
ApplyFeedback(a, e) ==
    [a EXCEPT
        !.feedbackCount[e.target] = @ + 1,
        !.completed = @ \ {e.target, e.source},
        !.feedbackPending =
            [s \in Persona |-> IF s = e.source THEN e.target ELSE @[s]]]

\* VerdictTracked: remember a failing verdict, forget it on a pass.
ApplyVerdict(a, e) ==
    LET fails == e.outcome = "fail" IN
    [a EXCEPT
        !.lastFingerprint[<<e.source, e.target>>] =
            IF fails THEN e.fingerprint ELSE None,
        !.lastFailing[e.target] = IF fails THEN e.source ELSE None]

ApplyPaused(a, e) ==
    [a EXCEPT
        !.status = "paused",
        !.resumeRetarget = e.retarget,
        !.resumeSource = e.source,
        !.resumeRetryFrom = e.retryFrom]

Apply(a, e) ==
    CASE e.type = "WorkflowStarted"    -> [a EXCEPT !.status = "running"]
      [] e.type = "WorkflowCompleted"  -> [a EXCEPT !.status = "completed"]
      [] e.type = "WorkflowFailed"     -> [a EXCEPT !.status = "failed"]
      [] e.type = "WorkflowCancelled"  -> [a EXCEPT !.status = "cancelled"]
      [] e.type = "WorkflowResumed"    -> [a EXCEPT !.status = "running"]
      [] e.type = "WorkflowPaused"     -> ApplyPaused(a, e)
      [] e.type = "WorkflowRetried"    -> ApplyRetried(a, e)
      [] e.type = "FeedbackGenerated"  -> ApplyFeedback(a, e)
      [] e.type = "PersonaCompleted"   -> ApplyCompleted(a, e.persona)
      [] OTHER                         -> a

-----------------------------------------------------------------------------
(* Decide: the set of alternatives, Nothing when no event is produced. *)

isRequiredPersona(a, p) == a.hasDef /\ p \in Required

\* Mutant: the gate looks at the source's own completion.
StaleWhileIncomplete(a, p) ==
    /\ a.feedbackPending[p] # None
    /\ p \in a.completed

\* p was cleared by feedback and its target has not re-completed.
isStaleAfterFeedback(a, p) ==
    /\ a.feedbackPending[p] # None
    /\ a.feedbackPending[p] \notin a.completed

\* Mutant: completion whatever the status.
CompletedInAnyStatus(a) ==
    IF a.hasDef /\ Required \subseteq a.completed
    THEN {WorkflowDone} ELSE {Nothing}

\* maybeEmitWorkflowCompleted
DecideCompleted(a) ==
    IF a.hasDef /\ a.status = "running" /\ Required \subseteq a.completed
    THEN {WorkflowDone} ELSE {Nothing}

DecideRequested(a) ==
    CASE ~a.hasDef               -> {WorkflowFailed}
      [] a.hasDef /\ a.status = "requested" -> {Started}
      [] OTHER                   -> {Nothing}

\* Mutant: the cap on automatic retries is off by one.
AutoRetryOnceMore(a, e) ==
    /\ e.kind = "transient"
    /\ a.autoRetries[e.persona] <= MaxAutoRetriesPerPersona
    /\ e.persona \in DOMAIN Graph

maybeAutoRetry(a, e) ==
    /\ e.kind = "transient"
    /\ a.autoRetries[e.persona] < MaxAutoRetriesPerPersona
    /\ e.persona \in DOMAIN Graph

maybeRateLimitPause(e) ==
    /\ e.kind = "rate_limited"
    /\ RateLimitAutopause
    /\ e.persona \in DOMAIN Graph

DecideFailed(a, e) ==
    IF a.status # "running" \/ ~isRequiredPersona(a, e.persona)
    THEN {Nothing}
    ELSE CASE maybeAutoRetry(a, e)   -> {Retried(e.persona, TRUE)}
           [] maybeRateLimitPause(e) -> {Paused(None, None, e.persona)}
           [] ~maybeAutoRetry(a, e) /\ ~maybeRateLimitPause(e) ->
                IF PartialReviewOnFailure /\ e.persona \in CategoryReviewers
                THEN DecideCompleted(a) ELSE {WorkflowFailed}

\* The same failure twice in a row after at least one feedback round.
Repeats(a, e) ==
    /\ a.feedbackCount[e.target] >= 1
    /\ a.lastFingerprint[<<e.source, e.target>>] = e.fingerprint

\* Mutant: the limit is compared with the rounds so far, not with the next.
LimitPassed(a, p) == a.feedbackCount[p] > MaxIterations

\* The next round's number would exceed the limit.
LimitReached(a, p) == a.feedbackCount[p] + 1 > MaxIterations

\* The escape hatches in their order, then the barrier, then a new round.
DecideVerdict(a, e) ==
    IF \/ a.status # "running"
       \/ e.outcome # "fail"
       \/ ~isRequiredPersona(a, e.target)
    THEN {Nothing}
    ELSE IF e.advisory THEN {Paused(None, None, None)}
    ELSE IF Repeats(a, e) THEN {Paused(e.target, e.source, None)}
    ELSE IF LimitReached(a, e.target)
         THEN IF EscalateOnMaxIter THEN {Paused(e.target, e.source, None)}
                                   ELSE {WorkflowFailed}
    ELSE IF IsConsolidatedReviewer(e.source) THEN {Nothing}
    ELSE {Feedback(e.target, e.source)}

\* No guard on the status: the resume was accepted when it was appended.
DecideResumed(a) ==
    LET retarget == a.resumeRetarget
        overLimit == {p \in Persona : /\ a.feedbackCount[p] > 0
                                      /\ a.feedbackCount[p] >= MaxIterations}
    IN IF a.hasDef /\ a.resumeRetryFrom \in DOMAIN Graph
       THEN {Retried(a.resumeRetryFrom, FALSE)}
       ELSE IF isRequiredPersona(a, retarget)
       THEN {Feedback(retarget, IF a.resumeSource # None
                                THEN a.resumeSource
                                ELSE a.lastFailing[retarget])}
       ELSE IF overLimit # {}
       THEN {Feedback(p, a.lastFailing[p]) : p \in overLimit}
       ELSE {Nothing}

DecideHintEmitted(a, e) ==
    CASE a.status # "running"                 -> {Nothing}
      [] a.status = "running" /\ e.confident  -> {Approved}
      [] a.status = "running" /\ ~e.confident -> {Paused(None, None, None)}

DecideHintRejected(a, e) ==
    CASE a.status \notin {"running", "paused"} -> {Nothing}
      [] a.status \in {"running", "paused"}    ->
            IF e.action = "skip" THEN {PersonaCompleted(e.persona, TRUE)}
                                 ELSE {WorkflowFailed}

Decide(a, e) ==
    CASE e.type = "WorkflowRequested" -> DecideRequested(a)
      [] e.type = "PersonaCompleted"  -> DecideCompleted(a)
      [] e.type = "PersonaFailed"     -> DecideFailed(a, e)
      [] e.type = "VerdictRendered"   -> DecideVerdict(a, e)
      [] e.type = "WorkflowResumed"   -> DecideResumed(a)
      [] e.type = "HintEmitted"       -> DecideHintEmitted(a, e)
      [] e.type = "HintRejected"      -> DecideHintRejected(a, e)
      [] OTHER                        -> {Nothing}

-----------------------------------------------------------------------------
(* tryProcessDecision: one batch, appended atomically. *)

\* The tracking copy stored, and applied, before Decide.
Track(a, e) ==
    IF /\ e.type = "PersonaCompleted" /\ ~e.own
       /\ e.persona \notin a.completed
       /\ ~isStaleAfterFeedback(a, e.persona)
    THEN ApplyCompleted(a, e.persona)
    ELSE IF /\ e.type = "PersonaFailed"
            /\ a.status = "running" /\ isRequiredPersona(a, e.persona)
    THEN ApplyFailed(a, e.persona)
    ELSE a

\* The verdict's copy is stored after the decision, so that a verdict is
\* compared with earlier ones only.
Mirror(a, e) == IF e.type = "VerdictRendered" THEN ApplyVerdict(a, e) ELSE a

\* The aggregate the stream folds to once the batch for e is appended.
Handled(a, e, decision) == Mirror(Apply(Track(a, e), decision), e)
=============================================================================
