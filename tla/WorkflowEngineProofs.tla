------------------------ MODULE WorkflowEngineProofs ------------------------
(***************************************************************************)
(* Proofs about WorkflowEngine, for every workflow definition and every    *)
(* environment of the engine.                                              *)
(*                                                                         *)
(* AggregateInv is the part of the inductive invariant that speaks of the  *)
(* aggregate alone: every operator of WorkflowAggregate preserves it.      *)
(* RoundsInv relates the feedback counters to the resumes still owed.      *)
(* The last part shows that WorkflowEngine implements WorkflowLifecycle:   *)
(* each step of the engine goroutine or of an operator tool is a step of   *)
(* the lifecycle or leaves it alone.                                       *)
(***************************************************************************)
EXTENDS WorkflowEngine, TLAPS

USE DefAssumption, AggregateAssumption, EngineAssumption

\* The personas feedback can be aimed at.
Targets == {vp[2] : vp \in VerdictPairs} \cap Required

TargetsInv(a) ==
    /\ \A p \in Persona : a.feedbackCount[p] > 0 => p \in Targets
    /\ a.resumeRetarget \in Targets \cup {None}

GateInv(a) ==
    \A s \in Persona :
        a.feedbackPending[s] # None =>
            /\ a.feedbackPending[s] \in Targets \ a.completed
            /\ s \notin a.completed \ Excused

AutoRetryInv(a) ==
    \A p \in Persona : a.autoRetries[p] <= MaxAutoRetriesPerPersona

AggregateInv(a) ==
    a \in Aggregate /\ TargetsInv(a) /\ GateInv(a) /\ AutoRetryInv(a)

\* What the storage-only copies leave alone.
SameCounters(b, a) ==
    /\ b.feedbackCount = a.feedbackCount
    /\ b.autoRetries = a.autoRetries
    /\ b.status = a.status
    /\ b.hasDef = a.hasDef

Event == OwnEvent \cup PersonaEvent

\* What Decide may answer.
Pauses ==
    {Paused(t, s, r) : t \in Targets \cup {None},
                       s \in Persona \cup {None}, r \in Persona \cup {None}}
Retries == {Retried(p, automatic) : p \in Persona, automatic \in BOOLEAN}
Feedbacks == {Feedback(t, s) : t \in Targets, s \in Persona \cup {None}}

Decision ==
    {Nothing, Started, WorkflowDone, WorkflowFailed, Approved}
        \cup Pauses \cup Retries \cup Feedbacks \cup Skips

RoundsInv ==
    /\ ResumesOwed <= resumes
    /\ \A p \in Persona :
        agg.feedbackCount[p] + ResumesOwed <= MaxIterations + resumes

IInv == TypeOK /\ AggregateInv(agg) /\ RoundsInv

-----------------------------------------------------------------------------
(* The operators of the aggregate preserve AggregateInv *)

\* Targets are personas a partial-review workflow never skips.
LEMMA TargetFacts ==
    /\ Targets \subseteq Required
    /\ Targets \subseteq Persona
    /\ PartialReviewOnFailure => Targets \cap CategoryReviewers = {}
    /\ None \notin Targets
BY DEF Targets

\* Tracking a completion that is not stale, or that skips a hint.
LEMMA ApplyCompletedOK ==
    ASSUME NEW a, AggregateInv(a), NEW p \in Persona,
           ~isStaleAfterFeedback(a, p) \/ p \in Excused
    PROVE  AggregateInv(ApplyCompleted(a, p))
<1> DEFINE b == ApplyCompleted(a, p)
<1> USE TargetFacts DEF AggregateInv, ApplyCompleted
<1>1. /\ b \in Aggregate
      /\ b.completed = a.completed \cup {p}
      /\ b.feedbackCount = a.feedbackCount
      /\ b.resumeRetarget = a.resumeRetarget
      /\ b.autoRetries = a.autoRetries
      /\ b.feedbackPending = [s \in Persona |->
            IF a.feedbackPending[s] = p THEN None ELSE a.feedbackPending[s]]
  BY DEF Aggregate
<1>2. TargetsInv(b)
  BY <1>1 DEF TargetsInv
<1>3. AutoRetryInv(b)
  BY <1>1 DEF AutoRetryInv
<1>4. GateInv(b)
  BY <1>1 DEF GateInv, isStaleAfterFeedback
<1> QED BY <1>1, <1>2, <1>3, <1>4

\* Absorbing a category reviewer's failure.
LEMMA ApplyFailedOK ==
    ASSUME NEW a, AggregateInv(a), NEW p \in Persona
    PROVE  AggregateInv(ApplyFailed(a, p))
<1> DEFINE b == ApplyFailed(a, p)
<1> USE TargetFacts DEF AggregateInv, ApplyFailed
<1>1. CASE ~(a.hasDef /\ PartialReviewOnFailure /\ p \in CategoryReviewers)
  BY <1>1
<1>2. CASE a.hasDef /\ PartialReviewOnFailure /\ p \in CategoryReviewers
  <2>1. /\ b \in Aggregate
        /\ b.completed = a.completed \cup {p}
        /\ b.feedbackCount = a.feedbackCount
        /\ b.resumeRetarget = a.resumeRetarget
        /\ b.autoRetries = a.autoRetries
        /\ b.feedbackPending = a.feedbackPending
    BY <1>2 DEF Aggregate
  <2>2. TargetsInv(b) /\ AutoRetryInv(b)
    BY <2>1 DEF TargetsInv, AutoRetryInv
  <2>3. GateInv(b)
    BY <1>2, <2>1 DEF GateInv, Excused
  <2> QED BY <2>1, <2>2, <2>3
<1> QED BY <1>1, <1>2

\* A retry, charged to its phase only when that phase has one left.
LEMMA ApplyRetriedOK ==
    ASSUME NEW a, AggregateInv(a), NEW p \in Persona, NEW automatic \in BOOLEAN,
           automatic => a.autoRetries[p] < MaxAutoRetriesPerPersona
    PROVE  AggregateInv(ApplyRetried(a, Retried(p, automatic)))
<1> DEFINE e == Retried(p, automatic)
           b == ApplyRetried(a, e)
<1> USE TargetFacts DEF AggregateInv
<1>1. e.persona = p /\ e.automatic = automatic
  BY DEF Retried
<1> HIDE DEF e
<1>a. /\ a.completed \ e.invalidated \in SUBSET Persona
      /\ [a.autoRetries EXCEPT ![p] = IF automatic THEN @ + 1 ELSE @]
            \in [Persona -> Nat]
      /\ [s \in Persona |->
            IF s \in e.invalidated \/ a.feedbackPending[s] \in e.invalidated
            THEN None ELSE a.feedbackPending[s]]
                \in [Persona -> Persona \cup {None}]
  BY DEF Aggregate
<1>2. /\ b \in Aggregate
      /\ b.completed = a.completed \ e.invalidated
      /\ b.feedbackCount = a.feedbackCount
      /\ b.resumeRetarget = a.resumeRetarget
      /\ b.autoRetries =
            [a.autoRetries EXCEPT ![p] = IF automatic THEN @ + 1 ELSE @]
      /\ b.feedbackPending = [s \in Persona |->
            IF s \in e.invalidated \/ a.feedbackPending[s] \in e.invalidated
            THEN None ELSE a.feedbackPending[s]]
  BY <1>1, <1>a DEF Aggregate, ApplyRetried, Status
<1>3. TargetsInv(b)
  BY <1>2 DEF TargetsInv
<1>4. AutoRetryInv(b)
  BY <1>2 DEF AutoRetryInv, Aggregate, MaxAutoRetriesPerPersona
<1>5. GateInv(b)
  BY <1>2 DEF GateInv
<1> QED BY <1>2, <1>3, <1>4, <1>5 DEF e

\* A feedback round: the target loses its completion, and so does the source,
\* which is gated until the target is back.
LEMMA ApplyFeedbackOK ==
    ASSUME NEW a, AggregateInv(a),
           NEW t \in Targets, NEW s \in Persona \cup {None}
    PROVE  AggregateInv(ApplyFeedback(a, Feedback(t, s)))
<1> DEFINE b == ApplyFeedback(a, Feedback(t, s))
<1> USE TargetFacts DEF AggregateInv
<1>a. /\ a.completed \ {t, s} \in SUBSET Persona
      /\ [a.feedbackCount EXCEPT ![t] = @ + 1] \in [Persona -> Nat]
      /\ [q \in Persona |-> IF q = s THEN t ELSE a.feedbackPending[q]]
            \in [Persona -> Persona \cup {None}]
  BY DEF Aggregate
<1>1. /\ b \in Aggregate
      /\ b.completed = a.completed \ {t, s}
      /\ b.feedbackCount = [a.feedbackCount EXCEPT ![t] = @ + 1]
      /\ b.resumeRetarget = a.resumeRetarget
      /\ b.autoRetries = a.autoRetries
      /\ b.feedbackPending = [q \in Persona |->
            IF q = s THEN t ELSE a.feedbackPending[q]]
  BY <1>a DEF Aggregate, ApplyFeedback, Feedback
<1>2. TargetsInv(b)
  BY <1>1 DEF TargetsInv, Aggregate
<1>3. AutoRetryInv(b)
  BY <1>1 DEF AutoRetryInv
<1>4. GateInv(b)
  BY <1>1 DEF GateInv
<1> QED BY <1>1, <1>2, <1>3, <1>4

\* Storing the copy of a verdict.
LEMMA ApplyVerdictOK ==
    ASSUME NEW a, AggregateInv(a), NEW vp \in VerdictPairs,
           NEW outcome \in {"pass", "fail"}, NEW advisory \in BOOLEAN,
           NEW f \in Fingerprint
    PROVE  LET b == ApplyVerdict(a, Verdict(vp, outcome, advisory, f)) IN
           /\ AggregateInv(b)
           /\ SameCounters(b, a)
           /\ b.completed = a.completed
<1> DEFINE b == ApplyVerdict(a, Verdict(vp, outcome, advisory, f))
<1> USE TargetFacts DEF AggregateInv
<1>1. vp[1] \in Persona /\ vp[2] \in Persona /\ <<vp[1], vp[2]>> = vp
  OBVIOUS
<1>2. /\ b \in Aggregate
      /\ b.completed = a.completed
      /\ b.feedbackCount = a.feedbackCount
      /\ b.resumeRetarget = a.resumeRetarget
      /\ b.autoRetries = a.autoRetries
      /\ b.feedbackPending = a.feedbackPending
      /\ b.status = a.status
      /\ b.hasDef = a.hasDef
  <2> DEFINE last == [a.lastFingerprint EXCEPT
                            ![vp] = IF outcome = "fail" THEN f ELSE None]
             failing == [a.lastFailing EXCEPT
                            ![vp[2]] = IF outcome = "fail" THEN vp[1] ELSE None]
  <2>1. b = [a EXCEPT !.lastFingerprint = last, !.lastFailing = failing]
    BY <1>1 DEF ApplyVerdict, Verdict
  <2>2. a \in Aggregate
    OBVIOUS
  <2>3. /\ last \in [VerdictPairs -> Fingerprint \cup {None}]
        /\ failing \in [Persona -> Persona \cup {None}]
    BY <1>1, <2>2 DEF Aggregate
  <2> HIDE DEF last, failing
  <2> QED BY <2>1, <2>2, <2>3 DEF Aggregate
<1>3. TargetsInv(b) /\ AutoRetryInv(b) /\ GateInv(b)
  BY <1>2 DEF TargetsInv, AutoRetryInv, GateInv
<1> QED BY <1>2, <1>3 DEF SameCounters

\* Events that move the status only, and the pauses.
LEMMA ApplyStatusOK ==
    ASSUME NEW a, AggregateInv(a), NEW status \in Status
    PROVE  AggregateInv([a EXCEPT !.status = status])
<1> DEFINE b == [a EXCEPT !.status = status]
<1> USE DEF AggregateInv
<1>1. /\ b \in Aggregate
      /\ b.completed = a.completed
      /\ b.feedbackCount = a.feedbackCount
      /\ b.resumeRetarget = a.resumeRetarget
      /\ b.autoRetries = a.autoRetries
      /\ b.feedbackPending = a.feedbackPending
  BY DEF Aggregate
<1>2. TargetsInv(b) /\ AutoRetryInv(b) /\ GateInv(b)
  BY <1>1 DEF TargetsInv, AutoRetryInv, GateInv
<1> QED BY <1>1, <1>2

LEMMA ApplyPausedOK ==
    ASSUME NEW a, AggregateInv(a), NEW t \in Targets \cup {None},
           NEW s \in Persona \cup {None}, NEW r \in Persona \cup {None}
    PROVE  AggregateInv(ApplyPaused(a, Paused(t, s, r)))
<1> DEFINE b == ApplyPaused(a, Paused(t, s, r))
<1> USE TargetFacts DEF AggregateInv
<1>1. /\ b \in Aggregate
      /\ b.completed = a.completed
      /\ b.feedbackCount = a.feedbackCount
      /\ b.resumeRetarget = t
      /\ b.autoRetries = a.autoRetries
      /\ b.feedbackPending = a.feedbackPending
  BY DEF Aggregate, ApplyPaused, Paused, Status
<1>2. TargetsInv(b) /\ AutoRetryInv(b) /\ GateInv(b)
  BY <1>1 DEF TargetsInv, AutoRetryInv, GateInv
<1> QED BY <1>1, <1>2

-----------------------------------------------------------------------------
(* Track and Decide *)

\* The events the engine may be handed, one kind at a time.
LEMMA EventCases ==
    ASSUME NEW e \in Event
    PROVE  \/ e = Requested
           \/ e = Resumed
           \/ \E p \in HintPersona, action \in {"skip", "fail"} :
                e = HintRejected(p, action)
           \/ \E p \in Persona, own \in BOOLEAN : e = PersonaCompleted(p, own)
           \/ \E p \in Persona, kind \in FailureKind : e = PersonaFailed(p, kind)
           \/ \E vp \in VerdictPairs, outcome \in {"pass", "fail"},
                 advisory \in BOOLEAN, f \in Fingerprint :
                e = Verdict(vp, outcome, advisory, f)
           \/ \E p \in HintPersona, confident \in BOOLEAN :
                e = HintEmitted(p, confident)
<1>1. CASE e \in {Requested, Resumed}
  BY <1>1
<1>2. CASE e \in Rejections
  BY <1>2 DEF Rejections
<1>3. CASE e \in Skips
  BY <1>3 DEF Skips
<1>4. CASE e \in Completions
  BY <1>4 DEF Completions
<1>5. CASE e \in Failures
  BY <1>5 DEF Failures
<1>6. CASE e \in Verdicts
  BY <1>6 DEF Verdicts
<1>7. CASE e \in Hints
  BY <1>7 DEF Hints
<1> QED
  BY <1>1, <1>2, <1>3, <1>4, <1>5, <1>6, <1>7 DEF Event, OwnEvent, PersonaEvent

\* The tracking copy keeps the invariant and touches neither the counters nor
\* the status.
LEMMA TrackOK ==
    ASSUME NEW a, AggregateInv(a), NEW e \in Event
    PROVE  /\ AggregateInv(Track(a, e))
           /\ SameCounters(Track(a, e), a)
<1>1. CASE /\ e.type = "PersonaCompleted" /\ ~e.own
           /\ e.persona \notin a.completed
           /\ ~isStaleAfterFeedback(a, e.persona)
  <2>1. PICK p \in Persona : e = PersonaCompleted(p, FALSE)
    BY <1>1, EventCases DEF Requested, Resumed, HintRejected,
        PersonaCompleted, PersonaFailed, Verdict, HintEmitted
  <2>2. e.persona = p
    BY <2>1 DEF PersonaCompleted
  <2>3. Track(a, e) = ApplyCompleted(a, p)
    BY <1>1, <2>2 DEF Track
  <2>4. AggregateInv(ApplyCompleted(a, p))
    BY <1>1, <2>2, ApplyCompletedOK
  <2>5. SameCounters(ApplyCompleted(a, p), a)
    BY DEF ApplyCompleted, AggregateInv, Aggregate, SameCounters
  <2> QED BY <2>3, <2>4, <2>5
<1>2. CASE /\ e.type = "PersonaFailed"
           /\ a.status = "running" /\ isRequiredPersona(a, e.persona)
  <2>1. e.persona \in Persona
    BY <1>2 DEF isRequiredPersona
  <2>2. Track(a, e) = ApplyFailed(a, e.persona)
    BY <1>2 DEF Track
  <2>3. AggregateInv(ApplyFailed(a, e.persona))
    BY <2>1, ApplyFailedOK
  <2>4. SameCounters(ApplyFailed(a, e.persona), a)
    BY DEF ApplyFailed, AggregateInv, Aggregate, SameCounters
  <2> QED BY <2>2, <2>3, <2>4
<1> QED BY <1>1, <1>2 DEF Track, SameCounters

\* Decision holds the events Decide is written with.
LEMMA DecisionFacts ==
    /\ {Nothing, Started, WorkflowDone, WorkflowFailed, Approved}
            \subseteq Decision
    /\ \A t \in Targets \cup {None}, s, r \in Persona \cup {None} :
            Paused(t, s, r) \in Decision
    /\ \A p \in Persona, automatic \in BOOLEAN :
            Retried(p, automatic) \in Decision
    /\ \A t \in Targets, s \in Persona \cup {None} : Feedback(t, s) \in Decision
    /\ \A p \in HintPersona : PersonaCompleted(p, TRUE) \in Decision
<1>1. \A t \in Targets \cup {None}, s, r \in Persona \cup {None} :
        Paused(t, s, r) \in Pauses
  BY DEF Pauses
<1>2. \A p \in Persona, automatic \in BOOLEAN : Retried(p, automatic) \in Retries
  BY DEF Retries
<1>3. \A t \in Targets, s \in Persona \cup {None} : Feedback(t, s) \in Feedbacks
  BY DEF Feedbacks
<1>4. \A p \in HintPersona : PersonaCompleted(p, TRUE) \in Skips
  BY DEF Skips
<1> QED BY <1>1, <1>2, <1>3, <1>4 DEF Decision

\* Decisions are told apart by their type.
LEMMA DecisionTypes ==
    /\ Nothing.type = "none"
    /\ Started.type = "WorkflowStarted"
    /\ WorkflowDone.type = "WorkflowCompleted"
    /\ WorkflowFailed.type = "WorkflowFailed"
    /\ Approved.type = "HintApproved"
    /\ \A t, s, r : Paused(t, s, r).type = "WorkflowPaused"
    /\ \A p, automatic : /\ Retried(p, automatic).type = "WorkflowRetried"
                         /\ Retried(p, automatic).persona = p
                         /\ Retried(p, automatic).automatic = automatic
    /\ \A t, s : Feedback(t, s).type = "FeedbackGenerated"
    /\ \A p, own : PersonaCompleted(p, own).type = "PersonaCompleted"
BY DEF Nothing, Started, WorkflowDone, WorkflowFailed, Approved, Paused,
   Retried, Feedback, PersonaCompleted

LEMMA FeedbackType == \A d \in Feedbacks : d.type = "FeedbackGenerated"
BY DEF Feedbacks, Feedback

\* Every event Decide returns is a Decision; an automatic retry is
\* within the cap.
LEMMA DecideOK ==
    ASSUME NEW a, AggregateInv(a), NEW e \in Event, NEW d \in Decide(a, e)
    PROVE  /\ d \in Decision
           /\ d.type = "WorkflowRetried" /\ d.automatic =>
                a.autoRetries[d.persona] < MaxAutoRetriesPerPersona
<1> USE TargetFacts, DecisionFacts, DecisionTypes DEF AggregateInv
<1>1. CASE e = Requested
  BY <1>1 DEF Decide, DecideRequested, Requested
<1>2. CASE e = Resumed
  <2>1. d \in DecideResumed(a)
    BY <1>2 DEF Decide, Resumed
  <2>2. CASE a.hasDef /\ a.resumeRetryFrom \in DOMAIN Graph
    <3>1. d = Retried(a.resumeRetryFrom, FALSE)
      BY <2>1, <2>2 DEF DecideResumed
    <3> QED BY <2>2, <3>1
  <2>3. CASE /\ ~(a.hasDef /\ a.resumeRetryFrom \in DOMAIN Graph)
             /\ isRequiredPersona(a, a.resumeRetarget)
    <3>1. a.resumeRetarget \in Targets
      BY <2>3 DEF isRequiredPersona, TargetsInv
    <3>2. PICK s \in Persona \cup {None} : d = Feedback(a.resumeRetarget, s)
      BY <2>1, <2>3, <3>1 DEF DecideResumed, Aggregate
    <3> QED BY <3>1, <3>2
  <2>4. CASE /\ ~(a.hasDef /\ a.resumeRetryFrom \in DOMAIN Graph)
             /\ ~isRequiredPersona(a, a.resumeRetarget)
    <3>1. CASE d = Nothing
      BY <3>1
    <3>2. CASE d # Nothing
      <4>1. PICK p \in Persona : /\ a.feedbackCount[p] > 0
                                 /\ d = Feedback(p, a.lastFailing[p])
        BY <2>1, <2>4, <3>2 DEF DecideResumed
      <4>2. p \in Targets /\ a.lastFailing[p] \in Persona \cup {None}
        BY <4>1 DEF TargetsInv, Aggregate
      <4> QED BY <4>1, <4>2
    <3> QED BY <3>1, <3>2
  <2> QED BY <2>2, <2>3, <2>4
<1>3. CASE \E p \in HintPersona, action \in {"skip", "fail"} :
                e = HintRejected(p, action)
  <2>1. PICK p \in HintPersona, action \in {"skip", "fail"} :
                e = HintRejected(p, action)
    BY <1>3
  <2>2. d \in {Nothing, PersonaCompleted(p, TRUE), WorkflowFailed}
    BY <2>1 DEF Decide, HintRejected, DecideHintRejected
  <2>3. CASE d = PersonaCompleted(p, TRUE)
    <3>1. d \in Decision
      BY <2>3
    <3>2. d.type # "WorkflowRetried"
      BY <2>3 DEF PersonaCompleted
    <3> QED BY <3>1, <3>2
  <2> QED BY <2>2, <2>3
<1>4. CASE \E p \in Persona, own \in BOOLEAN : e = PersonaCompleted(p, own)
  <2>1. d \in {Nothing, WorkflowDone}
    BY <1>4 DEF Decide, PersonaCompleted, DecideCompleted
  <2> QED BY <2>1
<1>5. CASE \E p \in Persona, kind \in FailureKind : e = PersonaFailed(p, kind)
  <2>1. PICK p \in Persona, kind \in FailureKind : e = PersonaFailed(p, kind)
    BY <1>5
  <2>2. e.persona = p /\ d \in DecideFailed(a, e)
    BY <2>1 DEF Decide, PersonaFailed
  <2>3. CASE d \in {Nothing, WorkflowDone, WorkflowFailed}
    BY <2>3
  <2>4. CASE d = Paused(None, None, p)
    BY <2>4
  <2>5. CASE d = Retried(p, TRUE) /\ maybeAutoRetry(a, e)
    <3>1. d \in Decision /\ d.persona = p
      BY <2>5
    <3>2. a.autoRetries[p] < MaxAutoRetriesPerPersona
      BY <2>2, <2>5 DEF maybeAutoRetry
    <3> QED BY <3>1, <3>2
  <2> QED BY <2>2, <2>3, <2>4, <2>5 DEF DecideFailed, DecideCompleted
<1>6. CASE \E vp \in VerdictPairs, outcome \in {"pass", "fail"},
              advisory \in BOOLEAN, f \in Fingerprint :
                e = Verdict(vp, outcome, advisory, f)
  <2>1. PICK vp \in VerdictPairs, outcome \in {"pass", "fail"},
              advisory \in BOOLEAN, f \in Fingerprint :
                e = Verdict(vp, outcome, advisory, f)
    BY <1>6
  <2>2. /\ e.source = vp[1] /\ e.target = vp[2]
        /\ e.source \in Persona
        /\ d \in DecideVerdict(a, e)
    BY <2>1 DEF Decide, Verdict
  <2>3. CASE d \in {Nothing, WorkflowFailed}
    BY <2>3
  <2>4. CASE isRequiredPersona(a, e.target)
    <3>1. e.target \in Targets
      BY <2>2, <2>4 DEF Targets, isRequiredPersona
    <3>2. d \in {Nothing, WorkflowFailed, Paused(None, None, None),
                 Paused(e.target, e.source, None), Feedback(e.target, e.source)}
      BY <2>2 DEF DecideVerdict
    <3> QED
      BY <2>2, <2>3, <3>1, <3>2
  <2>5. CASE ~isRequiredPersona(a, e.target)
    BY <2>2, <2>3, <2>5 DEF DecideVerdict
  <2> QED BY <2>4, <2>5
<1>7. CASE \E p \in HintPersona, confident \in BOOLEAN :
                e = HintEmitted(p, confident)
  <2>1. d \in {Nothing, Approved, Paused(None, None, None)}
    BY <1>7 DEF Decide, HintEmitted, DecideHintEmitted
  <2> QED BY <2>1
<1> QED BY <1>1, <1>2, <1>3, <1>4, <1>5, <1>6, <1>7, EventCases

\* Applying a decision: only feedback moves a counter.
LEMMA ApplyOK ==
    ASSUME NEW a, AggregateInv(a), NEW d \in Decision,
           d.type = "WorkflowRetried" /\ d.automatic =>
                a.autoRetries[d.persona] < MaxAutoRetriesPerPersona
    PROVE  /\ AggregateInv(Apply(a, d))
           /\ d \notin Feedbacks => Apply(a, d).feedbackCount = a.feedbackCount
           /\ d \in Feedbacks => Apply(a, d).feedbackCount =
                [a.feedbackCount EXCEPT ![d.target] = @ + 1]
<1> USE TargetFacts, DecisionTypes DEF AggregateInv
<1>1. CASE d \in {Started, WorkflowDone, WorkflowFailed}
  <2>1. PICK status \in Status : Apply(a, d) = [a EXCEPT !.status = status]
    BY <1>1 DEF Apply, Status
  <2>2. [a EXCEPT !.status = status].feedbackCount = a.feedbackCount
    BY DEF Aggregate
  <2>3. d \notin Feedbacks
    BY <1>1 DEF Feedbacks
  <2> QED BY <2>1, <2>2, <2>3, ApplyStatusOK
<1>2. CASE d \in {Nothing, Approved}
  <2>1. Apply(a, d) = a
    BY <1>2 DEF Apply
  <2>2. d \notin Feedbacks
    BY <1>2 DEF Feedbacks
  <2> QED BY <2>1, <2>2
<1>3. CASE d \in Pauses
  <2>1. PICK t \in Targets \cup {None}, s \in Persona \cup {None},
             r \in Persona \cup {None} : d = Paused(t, s, r)
    BY <1>3 DEF Pauses
  <2>2. Apply(a, d) = ApplyPaused(a, d)
    BY <2>1 DEF Apply
  <2>3. ApplyPaused(a, d).feedbackCount = a.feedbackCount
    BY DEF ApplyPaused, Aggregate
  <2>4. d \notin Feedbacks
    BY <2>1 DEF Feedbacks
  <2> QED BY <2>1, <2>2, <2>3, <2>4, ApplyPausedOK
<1>4. CASE d \in Retries
  <2>1. PICK p \in Persona, automatic \in BOOLEAN : d = Retried(p, automatic)
    BY <1>4 DEF Retries
  <2>2. Apply(a, d) = ApplyRetried(a, d)
    BY <2>1 DEF Apply
  <2>3. ApplyRetried(a, d).feedbackCount = a.feedbackCount
    BY DEF ApplyRetried, Aggregate
  <2>4. d \notin Feedbacks
    BY <2>1 DEF Feedbacks
  <2> QED BY <2>1, <2>2, <2>3, <2>4, ApplyRetriedOK
<1>5. CASE d \in Feedbacks
  <2>1. PICK t \in Targets, s \in Persona \cup {None} : d = Feedback(t, s)
    BY <1>5 DEF Feedbacks
  <2>2. Apply(a, d) = ApplyFeedback(a, d)
    BY <2>1 DEF Apply
  <2>3. ApplyFeedback(a, d).feedbackCount =
            [a.feedbackCount EXCEPT ![d.target] = @ + 1]
    BY DEF ApplyFeedback, Aggregate
  <2> QED BY <1>5, <2>1, <2>2, <2>3, ApplyFeedbackOK
<1>6. CASE d \in Skips
  <2>1. PICK p \in HintPersona : d = PersonaCompleted(p, TRUE)
    BY <1>6 DEF Skips
  <2>2. Apply(a, d) = ApplyCompleted(a, p)
    BY <2>1 DEF Apply, PersonaCompleted
  <2>3. ApplyCompleted(a, p).feedbackCount = a.feedbackCount
    BY DEF ApplyCompleted, Aggregate
  <2>4. d \notin Feedbacks
    BY <2>1, FeedbackType DEF PersonaCompleted
  <2>5. p \in Persona /\ p \in Excused
    BY DEF Excused
  <2>6. AggregateInv(ApplyCompleted(a, p))
    BY <2>5, ApplyCompletedOK
  <2> QED BY <2>2, <2>3, <2>4, <2>6
<1> QED BY <1>1, <1>2, <1>3, <1>4, <1>5, <1>6 DEF Decision

\* A batch of the engine: the invariant survives, and a target's counter
\* moves only for a round within the limit, or by one for a resume.
LEMMA HandledOK ==
    ASSUME NEW a, AggregateInv(a), NEW e \in Event,
           NEW d \in Decide(Track(a, e), e)
    PROVE  /\ AggregateInv(Handled(a, e, d))
           /\ \A p \in Persona :
                LET before == a.feedbackCount[p]
                    after == Handled(a, e, d).feedbackCount[p]
                IN \/ after = before
                   \/ after = before + 1 /\ after <= MaxIterations
                   \/ after = before + 1 /\ e = Resumed
<1> DEFINE b == Track(a, e)
           c == Apply(b, d)
<1>1. AggregateInv(b) /\ SameCounters(b, a)
  BY TrackOK
<1>2. /\ d \in Decision
      /\ d.type = "WorkflowRetried" /\ d.automatic =>
            b.autoRetries[d.persona] < MaxAutoRetriesPerPersona
  BY <1>1, DecideOK
<1>3. /\ AggregateInv(c)
      /\ d \notin Feedbacks => c.feedbackCount = b.feedbackCount
      /\ d \in Feedbacks =>
            c.feedbackCount = [b.feedbackCount EXCEPT ![d.target] = @ + 1]
  BY <1>1, <1>2, ApplyOK
<1>4. AggregateInv(Mirror(c, e)) /\ Mirror(c, e).feedbackCount = c.feedbackCount
  <2>1. CASE e.type # "VerdictRendered"
    BY <1>3, <2>1 DEF Mirror
  <2>2. CASE e.type = "VerdictRendered"
    <3>1. PICK vp \in VerdictPairs, outcome \in {"pass", "fail"},
               advisory \in BOOLEAN, f \in Fingerprint :
                    e = Verdict(vp, outcome, advisory, f)
      BY <2>2, EventCases DEF Requested, Resumed, HintRejected,
         PersonaCompleted, PersonaFailed, Verdict, HintEmitted
    <3> QED BY <1>3, <2>2, <3>1, ApplyVerdictOK DEF Mirror, SameCounters
  <2> QED BY <2>1, <2>2
<1>5. d \in Feedbacks /\ e # Resumed =>
        d.target \in Persona /\ b.feedbackCount[d.target] + 1 <= MaxIterations
  <2> SUFFICES ASSUME d \in Feedbacks, e # Resumed
               PROVE  /\ d.target \in Persona
                      /\ b.feedbackCount[d.target] + 1 <= MaxIterations
    OBVIOUS
  <2>1. d.type = "FeedbackGenerated"
    BY DecisionTypes DEF Feedbacks
  <2>2. e.type = "VerdictRendered" /\ d \in DecideVerdict(b, e)
    <3> USE <2>1, DecisionTypes DEF Decide
    <3>1. CASE e = Requested
      BY <3>1 DEF DecideRequested, Requested
    <3>2. CASE \E p \in HintPersona, action \in {"skip", "fail"} :
                    e = HintRejected(p, action)
      <4>0. PICK p \in HintPersona, action \in {"skip", "fail"} :
                    e = HintRejected(p, action)
        BY <3>2
      <4>1. d \in {Nothing, WorkflowFailed, PersonaCompleted(p, TRUE)}
        BY <4>0 DEF HintRejected, DecideHintRejected
      <4>2. PersonaCompleted(p, TRUE).type # "FeedbackGenerated"
        BY DEF PersonaCompleted
      <4> QED BY <4>1, <4>2
    <3>3. CASE \E p \in Persona, own \in BOOLEAN : e = PersonaCompleted(p, own)
      <4>1. d \in {Nothing, WorkflowDone}
        BY <3>3 DEF PersonaCompleted, DecideCompleted
      <4> QED BY <4>1
    <3>4. CASE \E p \in Persona, kind \in FailureKind : e = PersonaFailed(p, kind)
      <4>1. e.persona \in Persona /\ d \in DecideFailed(b, e)
        BY <3>4 DEF PersonaFailed
      <4>2. d \in {Nothing, WorkflowDone, WorkflowFailed, Retried(e.persona, TRUE),
                   Paused(None, None, e.persona)}
        BY <4>1 DEF DecideFailed, DecideCompleted
      <4>3. /\ Retried(e.persona, TRUE).type # "FeedbackGenerated"
            /\ Paused(None, None, e.persona).type # "FeedbackGenerated"
        BY DEF Retried, Paused
      <4> QED BY <4>2, <4>3, Zenon DEF Nothing, WorkflowDone, WorkflowFailed
    <3>5. CASE \E vp \in VerdictPairs, outcome \in {"pass", "fail"},
                  advisory \in BOOLEAN, f \in Fingerprint :
                    e = Verdict(vp, outcome, advisory, f)
      BY <3>5 DEF Verdict
    <3>6. CASE \E p \in HintPersona, confident \in BOOLEAN :
                    e = HintEmitted(p, confident)
      <4>1. d \in {Nothing, Approved, Paused(None, None, None)}
        BY <3>6 DEF HintEmitted, DecideHintEmitted
      <4> QED BY <4>1
    <3> QED BY <3>1, <3>2, <3>3, <3>4, <3>5, <3>6, EventCases
  <2>3. ~LimitReached(b, e.target) /\ d = Feedback(e.target, e.source)
        /\ isRequiredPersona(b, e.target)
    BY <2>1, <2>2, DecisionTypes DEF DecideVerdict
  <2> QED BY <1>1, <2>3 DEF LimitReached, Feedback, isRequiredPersona,
        AggregateInv, Aggregate
<1>6. d \in Feedbacks => d.target \in Persona
  BY TargetFacts DEF Feedbacks, Feedback
<1> QED
  BY <1>1, <1>3, <1>4, <1>5, <1>6
     DEF Handled, SameCounters, AggregateInv, Aggregate
-----------------------------------------------------------------------------
(* IInv is an inductive invariant *)

LEMMA OwnFacts ==
    /\ OwnEvent \subseteq Event
    /\ PersonaEvent \subseteq Event
    /\ Requested \in OwnEvent
    /\ Resumed \in OwnEvent
    /\ Requested # Resumed
    /\ Nothing # Resumed
    /\ \A p \in HintPersona, action \in {"skip", "fail"} :
            HintRejected(p, action) \in OwnEvent \ {Resumed}
<1>1. OwnEvent \subseteq Event /\ PersonaEvent \subseteq Event
  BY DEF Event
<1>2. Requested \in OwnEvent /\ Resumed \in OwnEvent
  BY DEF OwnEvent
<1>3. Requested # Resumed /\ Nothing # Resumed
  BY DEF Requested, Resumed, Nothing
<1>4. ASSUME NEW p \in HintPersona, NEW action \in {"skip", "fail"}
      PROVE  HintRejected(p, action) \in OwnEvent \ {Resumed}
  <2>1. HintRejected(p, action) \in OwnEvent
    BY DEF OwnEvent, Rejections
  <2>2. HintRejected(p, action).type # Resumed.type
    BY DEF HintRejected, Resumed
  <2> QED BY <2>1, <2>2
<1> QED BY <1>1, <1>2, <1>3, <1>4

\* The engine never decides to resume.
LEMMA ResumedNotDecided == Resumed \notin Decision
<1>1. \A d \in Pauses : d.type # "WorkflowResumed"
  BY DEF Pauses, Paused
<1>2. \A d \in Retries : d.type # "WorkflowResumed"
  BY DEF Retries, Retried
<1>3. \A d \in Feedbacks : d.type # "WorkflowResumed"
  BY FeedbackType
<1>4. \A d \in Skips : d.type # "WorkflowResumed"
  BY DEF Skips, PersonaCompleted
<1>5. \A d \in {Nothing, Started, WorkflowDone, WorkflowFailed, Approved} :
        d.type # "WorkflowResumed"
  BY DEF Nothing, Started, WorkflowDone, WorkflowFailed, Approved
<1>6. Resumed.type = "WorkflowResumed"
  BY DEF Resumed
<1> QED BY <1>1, <1>2, <1>3, <1>4, <1>5, <1>6 DEF Decision

\* What appending a batch does to the state IInv speaks of.
LEMMA AppendBatchOK ==
    ASSUME IInv, NEW e \in Event, AppendBatch(e)
    PROVE  /\ AggregateInv(agg')
           /\ owed' \in [OwnEvent -> Nat]
           /\ owed'[Resumed] = owed[Resumed]
           /\ \A p \in Persona :
                \/ agg'.feedbackCount[p] = agg.feedbackCount[p]
                \/ /\ agg'.feedbackCount[p] = agg.feedbackCount[p] + 1
                   /\ agg'.feedbackCount[p] <= MaxIterations
                \/ /\ agg'.feedbackCount[p] = agg.feedbackCount[p] + 1
                   /\ e = Resumed
<1>1. PICK d \in Decide(Track(agg, e), e) :
        /\ agg' = Handled(agg, e, d)
        /\ owed' = IF d \in OwnEvent THEN [owed EXCEPT ![d] = @ + 1] ELSE owed
  BY DEF AppendBatch
<1>2. AggregateInv(agg)
  BY DEF IInv
<1>3. d # Resumed
  <2>1. AggregateInv(Track(agg, e))
    BY <1>2, TrackOK
  <2>2. d \in Decision
    BY <2>1, DecideOK
  <2> QED BY <2>2, ResumedNotDecided
<1>4. owed' \in [OwnEvent -> Nat] /\ owed'[Resumed] = owed[Resumed]
  BY <1>1, <1>3, OwnFacts DEF IInv, TypeOK
<1>5. /\ AggregateInv(Handled(agg, e, d))
      /\ \A p \in Persona :
            LET before == agg.feedbackCount[p]
                after == Handled(agg, e, d).feedbackCount[p]
            IN \/ after = before
               \/ after = before + 1 /\ after <= MaxIterations
               \/ after = before + 1 /\ e = Resumed
  BY <1>2, HandledOK
<1> QED BY <1>1, <1>4, <1>5

\* Applying one of the events an operator appends.
LEMMA OperatorOK ==
    ASSUME AggregateInv(agg)
    PROVE  /\ \A d \in {WorkflowFailed, Cancelled, Resumed, Paused(None, None, None)} :
                /\ AggregateInv(Apply(agg, d))
                /\ Apply(agg, d).feedbackCount = agg.feedbackCount
           /\ \A p \in Persona :
                /\ AggregateInv(Apply(agg, Retried(p, FALSE)))
                /\ Apply(agg, Retried(p, FALSE)).feedbackCount = agg.feedbackCount
<1>1. ASSUME NEW d \in {WorkflowFailed, Cancelled, Resumed}
      PROVE  /\ AggregateInv(Apply(agg, d))
             /\ Apply(agg, d).feedbackCount = agg.feedbackCount
  <2>1. PICK status \in Status : Apply(agg, d) = [agg EXCEPT !.status = status]
    <3>1. d.type \in {"WorkflowFailed", "WorkflowCancelled", "WorkflowResumed"}
      BY DEF WorkflowFailed, Cancelled, Resumed
    <3> QED BY <3>1 DEF Apply, Status
  <2>2. [agg EXCEPT !.status = status].feedbackCount = agg.feedbackCount
    BY DEF AggregateInv, Aggregate
  <2> QED BY <2>1, <2>2, ApplyStatusOK
<1>2. /\ AggregateInv(Apply(agg, Paused(None, None, None)))
      /\ Apply(agg, Paused(None, None, None)).feedbackCount = agg.feedbackCount
  <2> DEFINE d == Paused(None, None, None)
  <2>1. Apply(agg, d) = ApplyPaused(agg, d)
    BY DEF Apply, Paused
  <2>2. ApplyPaused(agg, d).feedbackCount = agg.feedbackCount
    BY DEF ApplyPaused, AggregateInv, Aggregate
  <2>3. AggregateInv(ApplyPaused(agg, d))
    BY ApplyPausedOK
  <2> QED BY <2>1, <2>2, <2>3
<1>3. ASSUME NEW p \in Persona
      PROVE  /\ AggregateInv(Apply(agg, Retried(p, FALSE)))
             /\ Apply(agg, Retried(p, FALSE)).feedbackCount = agg.feedbackCount
  <2> DEFINE d == Retried(p, FALSE)
  <2>1. Apply(agg, d) = ApplyRetried(agg, d)
    BY DEF Apply, Retried
  <2>2. ApplyRetried(agg, d).feedbackCount = agg.feedbackCount
    BY DEF ApplyRetried, AggregateInv, Aggregate
  <2>3. AggregateInv(ApplyRetried(agg, d))
    BY ApplyRetriedOK
  <2> QED BY <2>1, <2>2, <2>3
<1> QED BY <1>1, <1>2, <1>3

LEMMA InitIInv == Init => IInv
<1> SUFFICES ASSUME Init PROVE IInv
  OBVIOUS
<1>1. PICK hasDef \in BOOLEAN : agg = NewWorkflowAggregate(hasDef)
  BY DEF Init
<1>2. AggregateInv(agg)
  BY <1>1 DEF AggregateInv, Aggregate, NewWorkflowAggregate, TargetsInv,
     GateInv, AutoRetryInv, Status, MaxAutoRetriesPerPersona
<1>3. TypeOK
  <2>1. [e \in OwnEvent |-> IF e = Requested THEN 1 ELSE 0] \in [OwnEvent -> Nat]
    OBVIOUS
  <2>2. owed \in [OwnEvent -> Nat] /\ commands \in 0..MaxCommands
    BY <2>1 DEF Init
  <2> QED BY <1>2, <2>2 DEF Init, TypeOK, AggregateInv
<1>4. RoundsInv
  BY <1>1, OwnFacts DEF Init, RoundsInv, ResumesOwed, NewWorkflowAggregate
<1> QED BY <1>2, <1>3, <1>4 DEF IInv

LEMMA NextIInv == IInv /\ [Next]_vars => IInv'
<1> SUFFICES ASSUME IInv, [Next]_vars PROVE IInv'
  OBVIOUS
<1> USE OwnFacts DEF IInv, TypeOK, RoundsInv, ResumesOwed
<1>0. agg.feedbackCount \in [Persona -> Nat]
  BY DEF Aggregate
<1>a. AggregateInv(agg') => agg' \in Aggregate /\ agg'.feedbackCount \in [Persona -> Nat]
  BY DEF AggregateInv, Aggregate
<1>1. CASE \E e \in PersonaEvent : HandlePersona(e)
  <2>1. PICK e \in PersonaEvent : HandlePersona(e)
    BY <1>1
  <2>2. e # Resumed
    BY DEF PersonaEvent, Completions, Failures, Verdicts, Hints, Resumed,
       PersonaCompleted, PersonaFailed, Verdict, HintEmitted
  <2>3. /\ AggregateInv(agg')
        /\ owed' \in [OwnEvent -> Nat]
        /\ owed'[Resumed] = owed[Resumed]
        /\ \A p \in Persona :
             \/ agg'.feedbackCount[p] = agg.feedbackCount[p]
             \/ agg'.feedbackCount[p] <= MaxIterations
    BY <2>1, <2>2, AppendBatchOK DEF HandlePersona
  <2> QED BY <1>0, <1>a, <2>1, <2>3 DEF HandlePersona
<1>2. CASE \E e \in OwnEvent : LoadOwn(e)
  BY <1>2 DEF LoadOwn
<1>3. CASE Commit
  <2>1. busy \in Event
    BY <1>3 DEF Commit
  <2>2. /\ AggregateInv(agg')
        /\ owed' \in [OwnEvent -> Nat]
        /\ owed'[Resumed] = owed[Resumed]
        /\ \A p \in Persona :
             \/ agg'.feedbackCount[p] = agg.feedbackCount[p]
             \/ agg'.feedbackCount[p] <= MaxIterations
             \/ agg'.feedbackCount[p] = agg.feedbackCount[p] + 1 /\ busy = Resumed
    BY <1>3, <2>1, AppendBatchOK DEF Commit
  <2> QED BY <1>0, <1>3, <1>a, <2>2 DEF Commit
<1>4. CASE Conflict
  <2>1. TypeOK' /\ AggregateInv(agg')
    BY <1>4 DEF Conflict
  <2>2. ResumesOwed' <= ResumesOwed /\ ResumesOwed' \in Nat /\ ResumesOwed \in Nat
    BY <1>4 DEF Conflict
  <2> QED BY <1>0, <1>4, <2>1, <2>2 DEF Conflict
<1>5. CASE Reclaim
  BY <1>5, <1>a, OperatorOK DEF Reclaim
<1>6. CASE CancelWorkflow
  BY <1>6, <1>a, OperatorOK DEF CancelWorkflow, Command
<1>7. CASE PauseWorkflow
  BY <1>7, <1>a, OperatorOK DEF PauseWorkflow, Command
<1>8. CASE ResumeWorkflow
  BY <1>0, <1>8, <1>a, OperatorOK DEF ResumeWorkflow, AppendResumed, Command
<1>9. CASE AnnotateWorkflow
  BY <1>9 DEF AnnotateWorkflow, Command
<1>10. CASE \E p \in HintPersona, action \in {"skip", "fail"} : RejectHint(p, action)
  BY <1>0, <1>10, <1>a, OperatorOK DEF RejectHint, AppendResumed, Command
<1>11. CASE \E p \in DOMAIN Graph : RetryWorkflow(p)
  <2>1. PICK p \in Persona : RetryWorkflow(p)
    BY <1>11
  <2>2. agg' = Apply(agg, Retried(p, FALSE))
    BY <2>1 DEF RetryWorkflow
  <2>3. AggregateInv(agg') /\ agg'.feedbackCount = agg.feedbackCount
    BY <2>2, OperatorOK
  <2>4. Command /\ UNCHANGED <<owed, resumes>>
    BY <2>1, Zenon DEF RetryWorkflow
  <2> QED BY <1>a, <2>3, <2>4 DEF Command
<1>12. CASE UNCHANGED vars
  BY <1>12 DEF vars
<1> QED BY <1>1, <1>2, <1>3, <1>4, <1>5, <1>6, <1>7, <1>8, <1>9, <1>10, <1>11,
           <1>12 DEF Next
-----------------------------------------------------------------------------
(* What a decision does to the status *)

\* Only these decisions move the status.
LEMMA ApplyStatus ==
    ASSUME NEW a \in Aggregate, NEW d \in Decision
    PROVE  /\ Apply(a, d).hasDef = a.hasDef
           /\ Apply(a, d).status =
                CASE d.type \in {"WorkflowStarted", "WorkflowRetried"} -> "running"
                  [] d.type = "WorkflowCompleted" -> "completed"
                  [] d.type = "WorkflowFailed"    -> "failed"
                  [] d.type = "WorkflowPaused"    -> "paused"
                  [] OTHER -> a.status
           /\ d.type = "WorkflowCompleted" => Apply(a, d).completed = a.completed
<1> USE DecisionTypes
<1>1. CASE d \in {Started, WorkflowDone, WorkflowFailed, Nothing, Approved}
  BY <1>1 DEF Apply, Aggregate
<1>2. CASE d \in Pauses
  <2>1. d.type = "WorkflowPaused"
    BY <1>2 DEF Pauses, Paused
  <2> QED BY <2>1 DEF Apply, ApplyPaused, Aggregate
<1>3. CASE d \in Retries
  <2>1. d.type = "WorkflowRetried"
    BY <1>3 DEF Retries, Retried
  <2>2. Apply(a, d) = ApplyRetried(a, d)
    BY <2>1 DEF Apply
  <2>3. ApplyRetried(a, d).status = "running" /\ ApplyRetried(a, d).hasDef = a.hasDef
    BY DEF ApplyRetried, Aggregate
  <2> QED BY <2>1, <2>2, <2>3
<1>4. CASE d \in Feedbacks
  <2>1. d.type = "FeedbackGenerated"
    BY <1>4, FeedbackType
  <2>2. Apply(a, d) = ApplyFeedback(a, d)
    BY <2>1 DEF Apply
  <2>3. /\ ApplyFeedback(a, d).status = a.status
        /\ ApplyFeedback(a, d).hasDef = a.hasDef
    BY DEF ApplyFeedback, Aggregate
  <2> QED BY <2>1, <2>2, <2>3
<1>5. CASE d \in Skips
  <2>1. d.type = "PersonaCompleted"
    BY <1>5 DEF Skips, PersonaCompleted
  <2>2. Apply(a, d) = ApplyCompleted(a, d.persona)
    BY <2>1 DEF Apply
  <2>3. /\ ApplyCompleted(a, d.persona).status = a.status
        /\ ApplyCompleted(a, d.persona).hasDef = a.hasDef
    BY DEF ApplyCompleted, Aggregate
  <2> QED BY <2>1, <2>2, <2>3
<1> QED BY <1>1, <1>2, <1>3, <1>4, <1>5 DEF Decision

\* In which status, and on what event, Decide answers what.
LEMMA DecideStatus ==
    ASSUME NEW a, AggregateInv(a), NEW e \in Event, NEW d \in Decide(a, e)
    PROVE  /\ e = Requested =>
                \/ d = Nothing
                \/ d = Started /\ a.status = "requested" /\ a.hasDef
                \/ d = WorkflowFailed /\ ~a.hasDef
           /\ e = Resumed =>
                d.type \in {"none", "WorkflowRetried", "FeedbackGenerated"}
           /\ e \notin {Requested, Resumed} =>
                \/ d.type \in {"none", "HintApproved", "FeedbackGenerated",
                               "PersonaCompleted"}
                \/ /\ a.status = "running"
                   /\ d.type \in {"WorkflowCompleted", "WorkflowFailed",
                                  "WorkflowPaused", "WorkflowRetried"}
                \/ a.status = "paused" /\ d.type = "WorkflowFailed"
           /\ d.type = "WorkflowCompleted" => Required \subseteq a.completed
<1> USE DecisionTypes
<1>1. CASE e = Requested
  <2>1. e # Resumed /\ d \in DecideRequested(a)
    BY <1>1 DEF Requested, Resumed, Decide
  <2> QED BY <1>1, <2>1 DEF DecideRequested
<1>2. CASE e = Resumed
  <2>1. e # Requested /\ d \in DecideResumed(a)
    BY <1>2 DEF Requested, Resumed, Decide
  <2>2. /\ Retried(a.resumeRetryFrom, FALSE).type = "WorkflowRetried"
        /\ \A t, s : Feedback(t, s).type = "FeedbackGenerated"
    BY DEF Retried, Feedback
  <2>3. CASE a.hasDef /\ a.resumeRetryFrom \in DOMAIN Graph
    <3>1. d = Retried(a.resumeRetryFrom, FALSE)
      BY <2>1, <2>3 DEF DecideResumed
    <3>2. d.type = "WorkflowRetried"
      BY <2>2, <3>1
    <3> QED BY <1>2, <2>1, <3>2
  <2>4. CASE ~(a.hasDef /\ a.resumeRetryFrom \in DOMAIN Graph)
    <3>1. d = Nothing \/ \E t, s : d = Feedback(t, s)
      <4>1. CASE isRequiredPersona(a, a.resumeRetarget)
        <5>1. PICK s : d = Feedback(a.resumeRetarget, s)
          BY <2>1, <2>4, <4>1 DEF DecideResumed
        <5> QED BY <5>1
      <4>2. CASE ~isRequiredPersona(a, a.resumeRetarget) /\ d # Nothing
        <5>1. PICK p \in Persona : d = Feedback(p, a.lastFailing[p])
          BY <2>1, <2>4, <4>2 DEF DecideResumed
        <5> QED BY <5>1
      <4> QED BY <4>1, <4>2
    <3>2. d.type \in {"none", "FeedbackGenerated"}
      BY <2>2, <3>1 DEF Nothing
    <3> QED BY <1>2, <2>1, <3>2
  <2> QED BY <2>3, <2>4
<1>3. CASE \E p \in HintPersona, action \in {"skip", "fail"} :
                e = HintRejected(p, action)
  <2>1. PICK p \in HintPersona, action \in {"skip", "fail"} :
                e = HintRejected(p, action)
    BY <1>3
  <2>2. \/ d = Nothing
        \/ d = PersonaCompleted(p, TRUE)
        \/ d = WorkflowFailed /\ a.status \in {"running", "paused"}
    BY <2>1 DEF Decide, HintRejected, DecideHintRejected
  <2>3. PersonaCompleted(p, TRUE).type = "PersonaCompleted"
    BY DEF PersonaCompleted
  <2>4. e \notin {Requested, Resumed}
    BY <2>1 DEF HintRejected, Requested, Resumed
  <2>5. CASE d = Nothing
    BY <2>4, <2>5
  <2>6. CASE d = PersonaCompleted(p, TRUE)
    <3>1. d.type = "PersonaCompleted"
      BY <2>3, <2>6
    <3> QED BY <2>4, <3>1
  <2>7. CASE d = WorkflowFailed /\ a.status \in {"running", "paused"}
    BY <2>4, <2>7
  <2> QED BY <2>2, <2>5, <2>6, <2>7
<1>4. CASE \E p \in Persona, own \in BOOLEAN : e = PersonaCompleted(p, own)
  <2>1. e \notin {Requested, Resumed}
    BY <1>4 DEF PersonaCompleted, Requested, Resumed
  <2>2. d \in DecideCompleted(a)
    BY <1>4 DEF PersonaCompleted, Decide
  <2> QED BY <2>1, <2>2 DEF DecideCompleted
<1>5. CASE \E p \in Persona, kind \in FailureKind : e = PersonaFailed(p, kind)
  <2>1. e \notin {Requested, Resumed}
    BY <1>5 DEF PersonaFailed, Requested, Resumed
  <2>2. d \in DecideFailed(a, e)
    BY <1>5 DEF PersonaFailed, Decide
  <2>3. \/ d = Nothing
        \/ /\ a.status = "running"
           /\ \/ d = Retried(e.persona, TRUE)
              \/ d = Paused(None, None, e.persona)
              \/ d = WorkflowDone /\ Required \subseteq a.completed
              \/ d = WorkflowFailed
    BY <2>2 DEF DecideFailed, DecideCompleted
  <2>4. Retried(e.persona, TRUE).type = "WorkflowRetried"
    BY DEF Retried
  <2>5. CASE d = Retried(e.persona, TRUE) /\ a.status = "running"
    <3>1. d.type = "WorkflowRetried"
      BY <2>4, <2>5
    <3> QED BY <2>1, <2>5, <3>1
  <2>6. CASE d = Nothing
    BY <2>1, <2>6
  <2>7. CASE d = Paused(None, None, e.persona) /\ a.status = "running"
    <3>1. d.type = "WorkflowPaused"
      BY <2>7 DEF Paused
    <3> QED BY <2>1, <2>7, <3>1
  <2>8. CASE d = WorkflowDone /\ a.status = "running" /\ Required \subseteq a.completed
    BY <2>1, <2>8
  <2>9. CASE d = WorkflowFailed /\ a.status = "running"
    BY <2>1, <2>9
  <2> QED BY <2>3, <2>5, <2>6, <2>7, <2>8, <2>9, Zenon
<1>6. CASE \E vp \in VerdictPairs, outcome \in {"pass", "fail"},
              advisory \in BOOLEAN, f \in Fingerprint :
                e = Verdict(vp, outcome, advisory, f)
  <2>1. e \notin {Requested, Resumed}
    BY <1>6 DEF Verdict, Requested, Resumed
  <2>2. d \in DecideVerdict(a, e)
    BY <1>6 DEF Verdict, Decide
  <2> QED BY <2>1, <2>2 DEF DecideVerdict
<1>7. CASE \E p \in HintPersona, confident \in BOOLEAN :
                e = HintEmitted(p, confident)
  <2>1. e \notin {Requested, Resumed}
    BY <1>7 DEF HintEmitted, Requested, Resumed
  <2>2. d \in DecideHintEmitted(a, e)
    BY <1>7 DEF HintEmitted, Decide
  <2> QED BY <2>1, <2>2 DEF DecideHintEmitted
<1> QED BY <1>1, <1>2, <1>3, <1>4, <1>5, <1>6, <1>7, EventCases

\* The status after a batch.
LEMMA HandledStatus ==
    ASSUME NEW a, AggregateInv(a), NEW e \in Event,
           NEW d \in Decide(Track(a, e), e)
    PROVE  LET h == Handled(a, e, d) IN
           /\ h.hasDef = a.hasDef
           /\ e = Requested =>
                \/ h.status = a.status
                \/ a.hasDef /\ a.status = "requested" /\ h.status = "running"
                \/ ~a.hasDef /\ h.status = "failed"
           /\ e = Resumed => h.status \in {a.status, "running"}
           /\ e \notin {Requested, Resumed} =>
                \/ h.status = a.status
                \/ /\ a.status = "running"
                   /\ h.status \in {"completed", "failed", "paused"}
                \/ a.status = "paused" /\ h.status = "failed"
           /\ h.status = "completed" /\ a.status # "completed" =>
                Required \subseteq h.completed
<1> DEFINE b == Track(a, e)
           c == Apply(b, d)
           h == Handled(a, e, d)
<1>1. AggregateInv(b) /\ b.status = a.status /\ b.hasDef = a.hasDef
  BY TrackOK DEF SameCounters
<1>2. b \in Aggregate /\ d \in Decision
  BY <1>1, DecideOK DEF AggregateInv
<1>3. AggregateInv(c)
  BY <1>1, <1>2, DecideOK, ApplyOK
<1>4. h.status = c.status /\ h.hasDef = c.hasDef /\ h.completed = c.completed
  <2>1. CASE e.type # "VerdictRendered"
    BY <2>1 DEF Handled, Mirror
  <2>2. CASE e.type = "VerdictRendered"
    <3>1. h = ApplyVerdict(c, e)
      BY <2>2 DEF Handled, Mirror
    <3> QED BY <1>3, <3>1 DEF ApplyVerdict, AggregateInv, Aggregate
  <2> QED BY <2>1, <2>2
<1>5. /\ c.hasDef = b.hasDef
      /\ c.status =
            CASE d.type \in {"WorkflowStarted", "WorkflowRetried"} -> "running"
              [] d.type = "WorkflowCompleted" -> "completed"
              [] d.type = "WorkflowFailed"    -> "failed"
              [] d.type = "WorkflowPaused"    -> "paused"
              [] OTHER -> b.status
      /\ d.type = "WorkflowCompleted" => c.completed = b.completed
  BY <1>2, ApplyStatus
<1> HIDE DEF b, c, h
<1>6. e = Requested =>
        \/ h.status = a.status
        \/ a.hasDef /\ a.status = "requested" /\ h.status = "running"
        \/ ~a.hasDef /\ h.status = "failed"
  BY <1>1, <1>4, <1>5, DecideStatus, DecisionTypes DEF b
<1>7. e = Resumed => h.status \in {a.status, "running"}
  BY <1>1, <1>4, <1>5, DecideStatus DEF b
<1>8. e \notin {Requested, Resumed} =>
        \/ h.status = a.status
        \/ a.status = "running" /\ h.status \in {"completed", "failed", "paused"}
        \/ a.status = "paused" /\ h.status = "failed"
  BY <1>1, <1>4, <1>5, DecideStatus DEF b
<1>9. h.status = "completed" /\ a.status # "completed" =>
        Required \subseteq h.completed
  <2>1. d.type = "WorkflowCompleted" => Required \subseteq b.completed
    BY <1>1, DecideStatus DEF b
  <2> QED BY <1>1, <1>4, <1>5, <2>1
<1> QED BY <1>1, <1>4, <1>5, <1>6, <1>7, <1>8, <1>9 DEF h
-----------------------------------------------------------------------------
(* Theorems *)

LEMMA Inductive == Spec => []IInv
BY InitIInv, NextIInv, PTL DEF Spec

\* The aggregate keeps its shape: every fold of every stream the engine and
\* the operator tools write is an Aggregate, and no event is taken twice.
THEOREM TypeCorrect == Spec => []TypeOK
<1>1. IInv => TypeOK
  BY DEF IInv
<1> QED BY Inductive, <1>1, PTL

\* For every definition and every environment, a target's rounds stay within
\* MaxIterations plus the resumes granted (decideVerdictRendered's limit).
THEOREM IterationBounded == Spec => []IterationBound
<1>1. IInv => IterationBound
  <2> SUFFICES ASSUME IInv, NEW p \in Persona
               PROVE  agg.feedbackCount[p] <= MaxIterations + resumes
    BY DEF IterationBound
  <2>1. /\ agg.feedbackCount[p] + ResumesOwed <= MaxIterations + resumes
        /\ agg.feedbackCount[p] \in Nat
    BY DEF IInv, RoundsInv, TypeOK, Aggregate
  <2>2. ResumesOwed \in Nat
    BY OwnFacts DEF IInv, TypeOK, ResumesOwed
  <2> QED BY <2>1, <2>2 DEF IInv, TypeOK
<1> QED BY Inductive, <1>1, PTL

\* maybeAutoRetry's cap survives operator retries and resumes, which clear
\* the completions of a phase and not its count.
THEOREM AutoRetryBounded == Spec => []AutoRetryBound
<1>1. IInv => AutoRetryBound
  BY DEF IInv, AggregateInv, AutoRetryInv, AutoRetryBound
<1> QED BY Inductive, <1>1, PTL

\* A completion queued before a feedback round is never counted inside it
\* (isStaleAfterFeedback), whatever the order of deliveries.
THEOREM GateSafe == Spec => []GateHolds
<1>1. IInv => GateHolds
  BY TargetFacts DEF IInv, AggregateInv, GateInv, GateHolds
<1> QED BY Inductive, <1>1, PTL

\* maybeEmitWorkflowCompleted never fires inside a feedback round.
THEOREM CompletesOutside == Spec => CompletesOutsideRounds
<1> DEFINE Completes == agg'.status = "completed" /\ agg.status # "completed"
<1>1. ASSUME IInv, IInv', [Next]_vars, Completes
      PROVE  /\ Required \subseteq agg'.completed
             /\ \A s \in Persona : agg'.feedbackPending[s] = None
  <2>1. AggregateInv(agg) /\ AggregateInv(agg')
    BY <1>1 DEF IInv
  <2>2. Required \subseteq agg'.completed
    <3>1. ASSUME NEW e \in Event, AppendBatch(e)
          PROVE  Required \subseteq agg'.completed
      BY <1>1, <2>1, <3>1, HandledStatus DEF AppendBatch
    <3>2. ASSUME NEW s \in Status \ {"completed"},
                 agg' = [agg EXCEPT !.status = s]
          PROVE  FALSE
      BY <1>1, <2>1, <3>2 DEF AggregateInv, Aggregate
    <3>3. CASE \E e \in PersonaEvent : HandlePersona(e)
      BY <3>1, <3>3, OwnFacts DEF HandlePersona
    <3>4. CASE Commit
      BY <1>1, <3>1, <3>4, OwnFacts DEF Commit, IInv, TypeOK
    <3>5. CASE Reclaim \/ CancelWorkflow
      <4>1. agg' \in {[agg EXCEPT !.status = "failed"],
                      [agg EXCEPT !.status = "cancelled"]}
        BY <3>5 DEF Reclaim, CancelWorkflow, Apply, WorkflowFailed, Cancelled
      <4> QED BY <3>2, <4>1 DEF Status
    <3>6. CASE PauseWorkflow
      <4>1. agg' = ApplyPaused(agg, Paused(None, None, None))
        BY <3>6 DEF PauseWorkflow, Apply, Paused
      <4> QED BY <1>1, <2>1, <4>1 DEF ApplyPaused, AggregateInv, Aggregate
    <3>7. CASE \/ ResumeWorkflow
               \/ \E p \in HintPersona, action \in {"skip", "fail"} :
                    RejectHint(p, action)
      <4>1. agg' \in {agg, [agg EXCEPT !.status = "running"]}
        BY <3>7 DEF ResumeWorkflow, RejectHint, AppendResumed, Apply, Resumed
      <4> QED BY <1>1, <3>2, <4>1 DEF Status
    <3>8. CASE \E p \in DOMAIN Graph : RetryWorkflow(p)
      <4>1. PICK p \in DOMAIN Graph : agg' = Apply(agg, Retried(p, FALSE))
        BY <3>8 DEF RetryWorkflow
      <4>2. Retried(p, FALSE).type = "WorkflowRetried"
        BY DEF Retried
      <4>3. agg' = ApplyRetried(agg, Retried(p, FALSE))
        BY <4>1, <4>2 DEF Apply
      <4> QED BY <1>1, <2>1, <4>3 DEF ApplyRetried, AggregateInv, Aggregate
    <3>9. CASE UNCHANGED agg
      BY <1>1, <3>9
    <3> QED
      BY <1>1, <3>3, <3>4, <3>5, <3>6, <3>7, <3>8, <3>9
         DEF Next, vars, LoadOwn, Conflict, AnnotateWorkflow
  <2>3. \A s \in Persona : agg'.feedbackPending[s] = None
    BY <2>1, <2>2, TargetFacts DEF AggregateInv, GateInv
  <2> QED BY <2>2, <2>3
<1>2. IInv /\ IInv' /\ [Next]_vars =>
        [Completes => /\ Required \subseteq agg'.completed
                      /\ \A s \in Persona : agg'.feedbackPending[s] = None]_vars
  BY <1>1
<1> QED BY Inductive, <1>2, PTL DEF Spec, CompletesOutsideRounds

-----------------------------------------------------------------------------
(* The lifecycle *)

\* The request is delivered once, and not taken up yet while this is 1.
RequestsOwed == owed[Requested] + (IF busy = Requested THEN 1 ELSE 0)

\* Without a definition a workflow never runs, so it is never resumed; it
\* fails when, and only when, its request is taken up.
RequestInv ==
    /\ RequestsOwed \in {0, 1}
    /\ ~agg.hasDef => /\ agg.status \in {"requested", "cancelled", "failed"}
                      /\ ResumesOwed = 0
                      /\ RequestsOwed = 1 => agg.status # "failed"

\* The engine never decides to request.
LEMMA RequestedNotDecided == Requested \notin Decision
<1>1. \A d \in Pauses : d.type # "WorkflowRequested"
  BY DEF Pauses, Paused
<1>2. \A d \in Retries : d.type # "WorkflowRequested"
  BY DEF Retries, Retried
<1>3. \A d \in Feedbacks : d.type # "WorkflowRequested"
  BY FeedbackType
<1>4. \A d \in Skips : d.type # "WorkflowRequested"
  BY DEF Skips, PersonaCompleted
<1>5. \A d \in {Nothing, Started, WorkflowDone, WorkflowFailed, Approved} :
        d.type # "WorkflowRequested"
  BY DEF Nothing, Started, WorkflowDone, WorkflowFailed, Approved
<1>6. Requested.type = "WorkflowRequested"
  BY DEF Requested
<1> QED BY <1>1, <1>2, <1>3, <1>4, <1>5, <1>6 DEF Decision

\* What a batch does to the status and to the events owed.
LEMMA BatchStatus ==
    ASSUME IInv, NEW e \in Event, AppendBatch(e)
    PROVE  /\ owed' \in [OwnEvent -> Nat]
           /\ owed'[Requested] = owed[Requested]
           /\ owed'[Resumed] = owed[Resumed]
           /\ agg'.hasDef = agg.hasDef
           /\ e = Requested =>
                \/ agg'.status = agg.status
                \/ agg.hasDef /\ agg.status = "requested" /\ agg'.status = "running"
                \/ ~agg.hasDef /\ agg'.status = "failed"
           /\ e = Resumed => agg'.status \in {agg.status, "running"}
           /\ e \notin {Requested, Resumed} =>
                \/ agg'.status = agg.status
                \/ /\ agg.status = "running"
                   /\ agg'.status \in {"completed", "failed", "paused"}
                \/ agg.status = "paused" /\ agg'.status = "failed"
<1>1. PICK d \in Decide(Track(agg, e), e) :
        /\ agg' = Handled(agg, e, d)
        /\ owed' = IF d \in OwnEvent THEN [owed EXCEPT ![d] = @ + 1] ELSE owed
  BY DEF AppendBatch
<1>2. AggregateInv(agg)
  BY DEF IInv
<1>3. d \in Decision
  BY <1>2, TrackOK, DecideOK
<1>4. /\ owed' \in [OwnEvent -> Nat]
      /\ owed'[Requested] = owed[Requested]
      /\ owed'[Resumed] = owed[Resumed]
  BY <1>1, <1>3, RequestedNotDecided, ResumedNotDecided, OwnFacts DEF IInv, TypeOK
<1> QED BY <1>1, <1>2, <1>4, HandledStatus

\* The status an operator's event, or the watchdog's, leaves behind.
LEMMA OperatorStatus ==
    ASSUME agg \in Aggregate
    PROVE  /\ Apply(agg, WorkflowFailed).status = "failed"
           /\ Apply(agg, Cancelled).status = "cancelled"
           /\ Apply(agg, Resumed).status = "running"
           /\ Apply(agg, Paused(None, None, None)).status = "paused"
           /\ \A p \in Persona : Apply(agg, Retried(p, FALSE)).status = "running"
           /\ Apply(agg, WorkflowFailed).hasDef = agg.hasDef
           /\ Apply(agg, Cancelled).hasDef = agg.hasDef
           /\ Apply(agg, Resumed).hasDef = agg.hasDef
           /\ Apply(agg, Paused(None, None, None)).hasDef = agg.hasDef
           /\ \A p \in Persona : Apply(agg, Retried(p, FALSE)).hasDef = agg.hasDef
<1>1. /\ Apply(agg, WorkflowFailed) = [agg EXCEPT !.status = "failed"]
      /\ Apply(agg, Cancelled) = [agg EXCEPT !.status = "cancelled"]
      /\ Apply(agg, Resumed) = [agg EXCEPT !.status = "running"]
  BY DEF Apply, WorkflowFailed, Cancelled, Resumed
<1>2. Apply(agg, Paused(None, None, None)) = ApplyPaused(agg, Paused(None, None, None))
  BY DEF Apply, Paused
<1>3. ASSUME NEW p \in Persona
      PROVE  /\ Apply(agg, Retried(p, FALSE)).status = "running"
             /\ Apply(agg, Retried(p, FALSE)).hasDef = agg.hasDef
  <2>1. Retried(p, FALSE).type = "WorkflowRetried"
    BY DEF Retried
  <2>2. Apply(agg, Retried(p, FALSE)) = ApplyRetried(agg, Retried(p, FALSE))
    BY <2>1 DEF Apply
  <2> QED BY <2>2 DEF ApplyRetried, Aggregate
<1>4. /\ ApplyPaused(agg, Paused(None, None, None)).status = "paused"
      /\ ApplyPaused(agg, Paused(None, None, None)).hasDef = agg.hasDef
  BY DEF ApplyPaused, Aggregate
<1>5. \A s : [agg EXCEPT !.status = s].hasDef = agg.hasDef
             /\ [agg EXCEPT !.status = s].status = s
  BY DEF Aggregate
<1>6. /\ Apply(agg, WorkflowFailed).hasDef = agg.hasDef
      /\ Apply(agg, Cancelled).hasDef = agg.hasDef
      /\ Apply(agg, Resumed).hasDef = agg.hasDef
      /\ Apply(agg, Paused(None, None, None)).hasDef = agg.hasDef
  BY <1>1, <1>2, <1>4, <1>5
<1>7. /\ Apply(agg, WorkflowFailed).status = "failed"
      /\ Apply(agg, Cancelled).status = "cancelled"
      /\ Apply(agg, Resumed).status = "running"
      /\ Apply(agg, Paused(None, None, None)).status = "paused"
  BY <1>1, <1>2, <1>4, <1>5
<1> QED BY <1>3, <1>6, <1>7, Zenon

LEMMA InitRequestInv == Init => RequestInv
<1> SUFFICES ASSUME Init PROVE RequestInv
  OBVIOUS
<1>1. PICK hasDef \in BOOLEAN : agg = NewWorkflowAggregate(hasDef)
  BY DEF Init
<1>2. agg.status = "requested"
  BY <1>1 DEF NewWorkflowAggregate
<1>3. owed[Requested] = 1 /\ owed[Resumed] = 0 /\ busy # Requested /\ busy # Resumed
  BY OwnFacts DEF Init, Nothing, Requested, Resumed
<1> QED BY <1>2, <1>3 DEF RequestInv, RequestsOwed, ResumesOwed

\* Every step preserves RequestInv and is a step of the lifecycle.
LEMMA NextLifecycle ==
    ASSUME IInv, RequestInv, [Next]_vars
    PROVE  RequestInv' /\ [Lifecycle!Next]_(Lifecycle!vars)
<1> USE OwnFacts DEF RequestInv, RequestsOwed, ResumesOwed, Lifecycle!vars
<1>1. /\ owed \in [OwnEvent -> Nat]
      /\ busy \in OwnEvent \cup {Nothing}
      /\ agg \in Aggregate
      /\ Nothing \notin {Requested, Resumed}
  BY DEF IInv, TypeOK, Nothing, Requested, Resumed
<1>2. CASE \E e \in PersonaEvent : HandlePersona(e)
  <2>1. PICK e \in PersonaEvent : HandlePersona(e)
    BY <1>2
  <2>2. e \notin {Requested, Resumed}
    BY DEF PersonaEvent, Completions, Failures, Verdicts, Hints, Resumed,
       Requested, PersonaCompleted, PersonaFailed, Verdict, HintEmitted
  <2>3. /\ owed'[Requested] = owed[Requested]
        /\ owed'[Resumed] = owed[Resumed]
        /\ busy' = busy
        /\ agg'.hasDef = agg.hasDef
        /\ \/ agg'.status = agg.status
           \/ /\ agg.status = "running"
              /\ agg'.status \in {"completed", "failed", "paused"}
           \/ agg.status = "paused" /\ agg'.status = "failed"
    BY <2>1, <2>2, BatchStatus DEF HandlePersona
  <2>4. RequestInv'
    BY <2>3
  <2> QED
    BY <2>3, <2>4 DEF Lifecycle!Next, Lifecycle!Pause, Lifecycle!Complete,
       Lifecycle!Fail
<1>3. CASE \E e \in OwnEvent : LoadOwn(e)
  <2>1. /\ UNCHANGED agg
        /\ RequestsOwed' = RequestsOwed
        /\ ResumesOwed' = ResumesOwed
        /\ (owed[Requested] = 0 /\ busy # Requested)' =
                (owed[Requested] = 0 /\ busy # Requested)
    BY <1>1, <1>3 DEF LoadOwn
  <2> QED BY <2>1
<1>4. CASE Commit
  <2>1. /\ busy' = Nothing
        /\ owed'[Requested] = owed[Requested]
        /\ owed'[Resumed] = owed[Resumed]
        /\ agg'.hasDef = agg.hasDef
    BY <1>1, <1>4, BatchStatus DEF Commit
  <2>2. CASE busy = Requested
    <3>1. \/ agg'.status = agg.status
          \/ agg.hasDef /\ agg.status = "requested" /\ agg'.status = "running"
          \/ ~agg.hasDef /\ agg'.status = "failed"
      BY <1>4, <2>2, BatchStatus DEF Commit
    <3>2. owed[Requested] = 0
      BY <1>1, <2>2
    <3>3. ~agg.hasDef => agg.status \in {"requested", "cancelled"}
      BY <2>2, <3>2
    <3>5. RequestInv'
      BY <1>1, <2>1, <2>2, <3>1, <3>2, <3>3
    <3> QED
      BY <1>1, <2>1, <2>2, <3>1, <3>2, <3>3, <3>5
         DEF Lifecycle!Next, Lifecycle!Begin
  <2>3. CASE busy = Resumed
    <3>1. agg'.status \in {agg.status, "running"}
      BY <1>4, <2>3, BatchStatus DEF Commit
    <3>2. ResumesOwed > 0 /\ ResumesOwed' = ResumesOwed - 1
      BY <1>1, <2>1, <2>3
    <3>3. agg.hasDef
      BY <1>1, <3>2
    <3>4. RequestInv'
      BY <1>1, <2>1, <2>3, <3>3
    <3>5. Lifecycle!Honour
      BY <1>1, <2>1, <2>3, <3>1, <3>2 DEF Lifecycle!Honour
    <3> QED BY <3>4, <3>5 DEF Lifecycle!Next
  <2>4. CASE busy \notin {Requested, Resumed}
    <3>1. \/ agg'.status = agg.status
          \/ /\ agg.status = "running"
             /\ agg'.status \in {"completed", "failed", "paused"}
          \/ agg.status = "paused" /\ agg'.status = "failed"
      BY <1>1, <1>4, <2>4, BatchStatus DEF Commit
    <3>2. RequestInv'
      BY <1>1, <2>1, <2>4, <3>1
    <3> QED
      BY <1>1, <2>1, <2>4, <3>1, <3>2 DEF Lifecycle!Next, Lifecycle!Pause,
         Lifecycle!Complete, Lifecycle!Fail
  <2> QED BY <2>2, <2>3, <2>4
<1>5. CASE Conflict
  <2>1. /\ busy # Nothing /\ busy' = Nothing
        /\ UNCHANGED <<agg, owed>>
    BY <1>5 DEF Conflict
  <2>2. RequestInv'
    BY <1>1, <2>1
  <2>3. CASE busy = Requested
    BY <1>1, <2>1, <2>2, <2>3 DEF Lifecycle!Next, Lifecycle!Begin
  <2>4. CASE busy = Resumed
    <3>1. Lifecycle!Honour
      BY <1>1, <2>1, <2>4 DEF Lifecycle!Honour
    <3> QED BY <2>2, <3>1 DEF Lifecycle!Next
  <2>5. CASE busy \notin {Requested, Resumed}
    BY <1>1, <2>1, <2>2, <2>5
  <2> QED BY <2>3, <2>4, <2>5
<1>6. CASE Reclaim \/ CancelWorkflow \/ PauseWorkflow
  <2>1. /\ UNCHANGED <<busy, owed>>
        /\ agg'.hasDef = agg.hasDef
        /\ \/ /\ agg.status = "running"
              /\ agg'.status \in {"failed", "paused"}
           \/ /\ agg.status \in {"requested", "running", "paused"}
              /\ agg'.status = "cancelled"
    BY <1>1, <1>6, OperatorStatus
       DEF Reclaim, CancelWorkflow, PauseWorkflow, Command
  <2>2. RequestInv'
    BY <2>1
  <2> QED
    BY <2>1, <2>2 DEF Lifecycle!Next, Lifecycle!Fail, Lifecycle!Pause,
       Lifecycle!Cancel
<1>7. CASE \/ ResumeWorkflow
           \/ \E p \in HintPersona, action \in {"skip", "fail"} :
                RejectHint(p, action)
  <2>1. /\ busy' = busy
        /\ owed'[Requested] = owed[Requested]
        /\ \/ /\ agg.status = "paused" /\ agg'.status = "running"
              /\ agg'.hasDef = agg.hasDef
              /\ owed'[Resumed] = owed[Resumed] + 1
           \/ agg' = agg /\ owed'[Resumed] = owed[Resumed]
    <3>1. CASE ResumeWorkflow
      BY <1>1, <3>1, OperatorStatus DEF ResumeWorkflow, AppendResumed, Command
    <3>2. CASE \E p \in HintPersona, action \in {"skip", "fail"} :
                    RejectHint(p, action)
      <4>1. PICK p \in HintPersona, action \in {"skip", "fail"} :
                    RejectHint(p, action)
        BY <3>2
      <4> DEFINE r == HintRejected(p, action)
      <4>2. r \in OwnEvent /\ r # Resumed
        OBVIOUS
      <4>3. r # Requested
        BY DEF HintRejected, Requested
      <4> HIDE DEF r
      <4>4. CASE agg.status = "paused"
        <5>1. /\ agg' = Apply(agg, Resumed)
              /\ owed' = [owed EXCEPT ![r] = @ + 1, ![Resumed] = @ + 1]
              /\ busy' = busy
          BY <4>1, <4>4 DEF RejectHint, AppendResumed, Command, r
        <5> QED BY <1>1, <4>2, <4>3, <4>4, <5>1, OperatorStatus
      <4>5. CASE agg.status # "paused"
        <5>1. /\ agg' = agg
              /\ owed' = [owed EXCEPT ![r] = @ + 1]
              /\ busy' = busy
          BY <4>1, <4>5 DEF RejectHint, Command, r
        <5> QED BY <1>1, <4>2, <4>3, <5>1
      <4> QED BY <4>4, <4>5
    <3> QED BY <1>7, <3>1, <3>2
  <2>2. agg.status = "paused" => agg.hasDef
    OBVIOUS
  <2>3. RequestInv'
    BY <2>1, <2>2
  <2> QED
    BY <1>1, <2>1, <2>3 DEF Lifecycle!Next, Lifecycle!Resume
<1>8. CASE \E p \in DOMAIN Graph : RetryWorkflow(p)
  <2>1. PICK p \in DOMAIN Graph : RetryWorkflow(p)
    BY <1>8, Zenon
  <2>2. UNCHANGED <<owed, resumes>>
    BY <2>1, Zenon DEF RetryWorkflow
  <2>3. Command
    BY <2>1, Zenon DEF RetryWorkflow
  <2>4. agg.status \in {"failed", "cancelled"} /\ agg.hasDef
    BY <2>1, Zenon DEF RetryWorkflow
  <2>5. agg' = Apply(agg, Retried(p, FALSE))
    BY <2>1, Zenon DEF RetryWorkflow
  <2>6. agg'.status = "running" /\ agg'.hasDef
    <3>1. p \in Persona
      BY DefAssumption
    <3>2. /\ Apply(agg, Retried(p, FALSE)).status = "running"
          /\ Apply(agg, Retried(p, FALSE)).hasDef = agg.hasDef
      BY <1>1, <3>1, OperatorStatus, Zenon
    <3> QED BY <2>4, <2>5, <3>2, Zenon
  <2>7. UNCHANGED <<busy, owed>>
    BY <2>2, <2>3 DEF Command
  <2>8. RequestInv'
    BY <2>6, <2>7
  <2> QED BY <2>4, <2>6, <2>7, <2>8 DEF Lifecycle!Next, Lifecycle!Retry
<1>9. CASE AnnotateWorkflow \/ UNCHANGED vars
  <2>1. UNCHANGED <<agg, busy, owed>>
    BY <1>9 DEF AnnotateWorkflow, Command, vars
  <2> QED BY <2>1
<1> QED BY <1>2, <1>3, <1>4, <1>5, <1>6, <1>7, <1>8, <1>9 DEF Next

\* The engine and the operator tools only ever move a workflow's status the
\* way the lifecycle allows: a settled workflow moves by a retry, or by a
\* resume accepted before it settled, and in no other way.
THEOREM ImplementsLifecycle == Spec => LifecycleSpec
<1>1. Init => Lifecycle!Init
  <2> SUFFICES ASSUME Init PROVE Lifecycle!Init
    OBVIOUS
  <2>1. /\ agg.status = "requested"
        /\ owed[Requested] = 1 /\ owed[Resumed] = 0
        /\ busy # Resumed
    BY OwnFacts DEF Init, NewWorkflowAggregate
  <2> QED BY <2>1 DEF Lifecycle!Init, ResumesOwed
<1>2. Spec => []RequestInv
  <2>1. IInv /\ RequestInv /\ [Next]_vars => RequestInv'
    BY NextLifecycle
  <2> QED BY <2>1, InitRequestInv, Inductive, PTL DEF Spec
<1>3. IInv /\ RequestInv /\ [Next]_vars => [Lifecycle!Next]_(Lifecycle!vars)
  BY NextLifecycle
<1> QED BY <1>1, <1>2, <1>3, Inductive, PTL DEF Spec, LifecycleSpec, Lifecycle!Spec
=============================================================================
