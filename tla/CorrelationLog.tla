--------------------------- MODULE CorrelationLog ---------------------------
(***************************************************************************)
(* What the dispatch side reads from the events stored under one           *)
(* correlation id.  The code folds the whole log again on every question:  *)
(* the join check (internal/engine/workflow_resolver.go), the review       *)
(* consolidator (internal/handler/review_consolidator.go), the retry       *)
(* trigger and the recovery scanner (internal/engine/recovery.go).  Here   *)
(* each stored event is folded once, when it is appended.                  *)
(*                                                                         *)
(* Left out: before-hooks, which only add predecessors to Graph, and the   *)
(* trigger lists of handlers that are in no workflow's graph.              *)
(***************************************************************************)
EXTENDS WorkflowAggregate

CONSTANTS
    ReviewConsolidator,  \* WorkflowDef.ReviewConsolidator, or None
    RetriggeredBy,       \* the personas FeedbackGenerated runs again
    Developer            \* the consolidator's targetPersona

ASSUME LogAssumption ==
    /\ ReviewConsolidator \in Persona \cup {None}
    /\ RetriggeredBy \subseteq Persona
    /\ Developer \in Persona

\* Envelopes, by who emitted them and the number of the run that did.
Envelope(type, p, n) == [type |-> type, persona |-> p, n |-> n]
WorkflowStartedEnv == Envelope("started", None, 0)

\* latest, stale, target and failing are the maps of checkJoinCondition:
\* latestByPersona (0: no entry), pendingStale, retriggerTarget, and the
\* personas with an active verdict that is not advisory.  verdicts and round
\* are what pickRoundVerdicts finds: the latest verdict of a reviewer per
\* DevTriggerID, and the DevTriggerID of the last one.  stored and last are
\* the last completions, per persona and of all; since holds who completed
\* after the last feedback, hints the hints neither approved nor rejected, with
\* what they were triggered by.
NewLog ==
    [latest |-> [p \in Persona |-> 0],
     stale |-> {},
     target |-> None,
     failing |-> {},
     verdicts |-> {},
     round |-> WorkflowStartedEnv,
     stored |-> [p \in Persona |-> 0],
     last |-> None,
     since |-> {},
     feedback |-> 0,
     hints |-> {}]

-----------------------------------------------------------------------------
(* Appending *)

StrictDownstream(p) == Downstream[p] \ {p}

\* Who is still owed a fresh completion when p's is folded.
StaleAt(l, p) ==
    IF p = l.target THEN l.stale \ StrictDownstream(p) ELSE l.stale

\* A completion that was in flight when feedback sent its round back counts
\* as the last one for triggers, but not for the join.  One that comes with a
\* verdict is followed by StoreVerdict.
StoreCompleted(l, p, n) ==
    [l EXCEPT
        !.stale = StaleAt(l, p),
        !.target = IF p = @ THEN None ELSE @,
        !.latest[p] = IF p \in StaleAt(l, p) THEN @ ELSE n,
        !.failing = IF p \in StaleAt(l, p) THEN @ ELSE @ \ {p},
        !.stored[p] = n,
        !.last = p,
        !.since = @ \cup {p}]

\* A failure is a satisfied predecessor where the definition absorbs it.
StoreFailed(l, p, n) ==
    IF PartialReviewOnFailure THEN [l EXCEPT !.latest[p] = n] ELSE l

\* A verdict of p on the run env: it replaces p's last one, and a reviewer's
\* makes env the round.
StoreVerdict(l, p, env, fails) ==
    [l EXCEPT
        !.failing = IF fails THEN @ \cup {p} ELSE @ \ {p},
        !.verdicts = {v \in @ : v.source # p \/ v.round # env}
                        \cup {[source |-> p, round |-> env, fails |-> fails]},
        !.round = IF p \in ConsolidatedReviewers THEN env ELSE @]

\* A hint, and its approval or rejection.
WithoutHint(l, p) == [l EXCEPT !.hints = {k \in @ : k[1] # p}]
StoreHint(l, p, env) ==
    [WithoutHint(l, p) EXCEPT !.hints = @ \cup {<<p, env>>}]

\* Feedback for target un-completes what is downstream of it.
StoreFeedback(l, target) ==
    LET D == StrictDownstream(target) IN
    [l EXCEPT
        !.latest = [p \in Persona |-> IF p \in D THEN 0 ELSE @[p]],
        !.failing = @ \ D,
        !.stale = @ \cup D,
        !.target = target,
        !.since = {},
        !.feedback = @ + 1]

-----------------------------------------------------------------------------
(* Reading *)

Predecessors(h) == IF h \in DOMAIN Graph THEN Graph[h] ELSE {}

\* Mutant: the consolidator waits for the verdicts it is there to answer.
NoBypass(h, p) == FALSE

\* The consolidator may start on the failing verdicts it is to answer.
isConsolidatorBypass(h, p) ==
    h = ReviewConsolidator /\ IsConsolidatedReviewer(p)

\* Mutant: one predecessor is enough.
AnyPredecessor(l, h) ==
    Predecessors(h) # {} => \E p \in Predecessors(h) : l.latest[p] > 0

\* checkJoinCondition for the handler's predecessors.
JoinSatisfied(l, h) ==
    \A p \in Predecessors(h) :
        /\ l.latest[p] > 0
        /\ p \in l.failing /\ RetriggeredBy # {} => isConsolidatorBypass(h, p)

\* The completions a satisfied join stands on.
JoinFingerprint(l, h) == [p \in Predecessors(h) |-> l.latest[p]]

RoundVerdicts(l) ==
    {v \in l.verdicts : v.round = l.round /\ v.source \in ConsolidatedReviewers}

\* ReviewConsolidator.Handle: is there a failing verdict to merge?
RoundFails(l) == \E v \in RoundVerdicts(l) : v.fails

\* findRetryTrigger and findPredecessorCompleted: the last completion of a
\* predecessor, WorkflowStarted for a root.  Between several predecessors the
\* choice is open: only the dedup cache, which these callers bypass, sees it.
RetryTriggers(l, p) ==
    IF Predecessors(p) = {}
    THEN {WorkflowStartedEnv}
    ELSE {Envelope("completed", q, l.stored[q]) :
            q \in {q \in Predecessors(p) : l.stored[q] > 0}}

\* isFeedbackRetrigger: a retriggered handler that feedback found and that
\* has not completed since.
isFeedbackRetrigger(l, p) ==
    p \in RetriggeredBy /\ l.feedback > 0 /\ p \notin l.since

\* findEligibleHandlers, with what each is to be dispatched on.
EligibleOn(l, a, p) ==
    CASE p \in a.completed -> {}
      [] p \notin a.completed /\ isFeedbackRetrigger(l, p) ->
            {Envelope("feedback", None, l.feedback)}
      [] p \notin a.completed /\ ~isFeedbackRetrigger(l, p) ->
            IF Predecessors(p) \subseteq a.completed
            THEN RetryTriggers(l, p) ELSE {}
=============================================================================
