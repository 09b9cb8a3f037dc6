------------------------ MODULE PersonaRunnerProofs ------------------------
(***************************************************************************)
(* Proofs about PersonaRunner, for any workflow definition, any personas   *)
(* and any number of disturbances: each handler's queue is emptied by one  *)
(* goroutine at a time and is never left behind, nothing is dispatched     *)
(* across an advisory failure, a round of reviews is answered once, and    *)
(* everything stays well typed.                                            *)
(***************************************************************************)
EXTENDS PersonaRunner, FiniteSetTheorems, TLAPS

\* As much of the types as the proofs ask for.
DrainRecord(d) ==
    /\ {"h", "at"} \subseteq DOMAIN d
    /\ d.h \in Persona

WrapRecord(w) ==
    /\ {"h", "at"} \subseteq DOMAIN w
    /\ w.h \in Persona

\* Whose inbox messages and retries go where.
ShapeInv ==
    /\ \A d \in drains : DrainRecord(d)
    /\ \A w \in wraps : WrapRecord(w)
    /\ \A b \in blocked : b = <<b[1], b[2]>> /\ b[1] \in Persona
    /\ DOMAIN queue = Persona
    /\ draining \subseteq Persona

IInv == ShapeInv /\ OneDrain

-----------------------------------------------------------------------------
(* The goroutines of one queue *)

\* A goroutine stays with its queue.
LEMMA RecordUpdates ==
    ASSUME NEW d, DrainRecord(d)
    PROVE  /\ \A at : DrainRecord([d EXCEPT !.at = at]) /\ [d EXCEPT !.at = at].h = d.h
           /\ LET e == [d EXCEPT !.live = FALSE]
              IN  DrainRecord(e) /\ e.h = d.h
BY DEF DrainRecord

\* What one step does to the queues, their marks and their goroutines.
Entered(h) ==
    /\ h \in Persona
    /\ DOMAIN queue' = Persona /\ \A p \in Persona \ {h} : queue'[p] = queue[p]
    /\ draining' = draining \cup {h}
    /\ \/ h \in draining /\ drains' = drains
       \/ h \notin draining /\ \E kind \in {"plain", "approved"} :
                                  drains' = drains \cup {NewDrain(h, kind)}

Moved(d) ==
    /\ d \in drains
    /\ \E e : DrainRecord(e) /\ e.h = d.h /\ drains' = (drains \ {d}) \cup {e}
    /\ DOMAIN queue' = Persona /\ \A p \in Persona \ {d.h} : queue'[p] = queue[p]
    /\ draining' = draining

Ended(d) ==
    /\ d \in drains
    /\ drains' = drains \ {d} /\ draining' = draining \ {d.h}
    /\ DOMAIN queue' = Persona /\ \A p \in Persona \ {d.h} : queue'[p] = queue[p]
    /\ queue'[d.h] = <<>>

Signalled == drains' = Interrupted /\ UNCHANGED <<queue, draining>>

LEMMA NewDrainOK ==
    \A h \in Persona : \A kind :
        DrainRecord(NewDrain(h, kind)) /\ NewDrain(h, kind).h = h
BY DEF NewDrain, DrainRecord

LEMMA EnqueueOK ==
    ASSUME ShapeInv, NEW h \in Persona, NEW env, NEW kind \in {"plain", "approved"},
           Enqueue(h, env, kind)
    PROVE  Entered(h)
BY DEF ShapeInv, Enqueue, Entered

\* Each of them keeps one goroutine per marked queue, and marks every queue
\* that is not empty.
LEMMA OneDrainKept ==
    ASSUME IInv,
           \/ \E h \in Persona : Entered(h)
           \/ \E d \in drains : Moved(d) \/ Ended(d)
           \/ Signalled
           \/ UNCHANGED <<queue, draining, drains>>
    PROVE  OneDrain' /\ DOMAIN queue' = Persona /\ draining' \subseteq Persona
           /\ \A d \in drains' : DrainRecord(d)
<1>1. ASSUME NEW h \in Persona, Entered(h)
      PROVE  OneDrain' /\ DOMAIN queue' = Persona /\ draining' \subseteq Persona
             /\ \A d \in drains' : DrainRecord(d)
  <2>1. CASE h \in draining
    BY <1>1, <2>1 DEF IInv, ShapeInv, OneDrain, Entered
  <2>2. CASE h \notin draining
    <3>1. PICK e : DrainRecord(e) /\ e.h = h /\ drains' = drains \cup {e}
      BY <1>1, <2>2, NewDrainOK DEF Entered
    <3>2. \A d \in drains : d.h # h
      BY <2>2 DEF IInv, OneDrain
    <3>3. \A d, f \in drains' : d.h = f.h => d = f
      BY <3>1, <3>2 DEF IInv, OneDrain
    <3>4. draining' = {d.h : d \in drains'}
      BY <1>1, <3>1 DEF IInv, OneDrain, Entered
    <3>5. \A p \in Persona : queue'[p] # <<>> => p \in draining'
      BY <1>1 DEF IInv, OneDrain, Entered
    <3> QED BY <1>1, <3>1, <3>3, <3>4, <3>5 DEF IInv, ShapeInv, OneDrain, Entered
  <2> QED BY <2>1, <2>2
<1>2. ASSUME NEW d \in drains, Moved(d)
      PROVE  OneDrain' /\ DOMAIN queue' = Persona /\ draining' \subseteq Persona
             /\ \A e \in drains' : DrainRecord(e)
  <2>1. PICK e : DrainRecord(e) /\ e.h = d.h /\ drains' = (drains \ {d}) \cup {e}
    BY <1>2 DEF Moved
  <2>2. \A f, g \in drains' : f.h = g.h => f = g
    BY <2>1 DEF IInv, OneDrain
  <2>3. {f.h : f \in drains'} = {f.h : f \in drains}
    BY <2>1
  <2>4. d.h \in draining
    BY DEF IInv, OneDrain
  <2>5. \A p \in Persona : queue'[p] # <<>> => p \in draining'
    BY <1>2, <2>4 DEF IInv, OneDrain, Moved
  <2> QED BY <1>2, <2>1, <2>2, <2>3, <2>5 DEF IInv, ShapeInv, OneDrain, Moved
<1>3. ASSUME NEW d \in drains, Ended(d)
      PROVE  OneDrain' /\ DOMAIN queue' = Persona /\ draining' \subseteq Persona
             /\ \A e \in drains' : DrainRecord(e)
  <2>1. \A f, g \in drains' : f.h = g.h => f = g
    BY <1>3 DEF IInv, OneDrain, Ended
  <2>2. draining' = {f.h : f \in drains'}
    BY <1>3 DEF IInv, OneDrain, Ended
  <2>3. \A p \in Persona : queue'[p] # <<>> => p \in draining'
    BY <1>3 DEF IInv, OneDrain, Ended
  <2> QED BY <1>3, <2>1, <2>2, <2>3 DEF IInv, ShapeInv, OneDrain, Ended
<1>4. CASE Signalled
  <2> DEFINE Cut(d) == IF d.at = "run" THEN [d EXCEPT !.live = FALSE] ELSE d
  <2>1. \A d \in drains : DrainRecord(Cut(d)) /\ Cut(d).h = d.h
    BY RecordUpdates DEF IInv, ShapeInv
  <2>2. drains' = {Cut(d) : d \in drains}
    BY <1>4 DEF Signalled, Interrupted
  <2> HIDE DEF Cut
  <2>3. \A f, g \in drains' : f.h = g.h => f = g
    BY <2>1, <2>2 DEF IInv, OneDrain
  <2>4. {f.h : f \in drains'} = {f.h : f \in drains}
    BY <2>1, <2>2
  <2> QED BY <1>4, <2>1, <2>2, <2>3, <2>4 DEF IInv, ShapeInv, OneDrain, Signalled
<1>5. CASE UNCHANGED <<queue, draining, drains>>
  BY <1>5 DEF IInv, ShapeInv, OneDrain
<1> QED BY <1>1, <1>2, <1>3, <1>4, <1>5

-----------------------------------------------------------------------------
(* The deliveries *)

LEMMA DeliverOK ==
    /\ \A h \in Persona : \A env :
          WrapRecord([h |-> h, env |-> env, at |-> "wrap"])
    /\ \A H \in SUBSET Persona : \A env :
          \A w \in Deliver(H, env) : WrapRecord(w)
    /\ Roots \subseteq Persona /\ RetriggeredBy \subseteq Persona
    /\ \A p : Successors(p) \subseteq Persona
<1>1. \A h \in Persona : \A env : WrapRecord([h |-> h, env |-> env, at |-> "wrap"])
  BY DEF WrapRecord
<1>2. DOMAIN Graph \subseteq Persona
  BY DefAssumption
<1> QED BY <1>1, <1>2, LogAssumption DEF Deliver, Roots, Successors

LEMMA DeliveriesOK == \A d : \A w \in Deliveries(d) : WrapRecord(w)
<1> SUFFICES ASSUME NEW d, NEW w \in Deliveries(d) PROVE WrapRecord(w)
  OBVIOUS
<1>1. \/ w \in Deliver(Successors(d.h), Emitted(d))
      \/ w \in Deliver(RetriggeredBy, Envelope("feedback", d.h, runs[d.h]))
  BY DEF Deliveries
<1> QED BY <1>1, DeliverOK

\* The events the aggregate may answer with.
LEMMA DecisionTypes ==
    ASSUME NEW a, NEW e, NEW d \in Decide(a, e)
    PROVE  d.type \in {"WorkflowStarted", "FeedbackGenerated", "WorkflowPaused",
                       "WorkflowCompleted", "WorkflowFailed", "WorkflowRetried",
                       "HintApproved", "PersonaCompleted", "none"}
<1>1. \A r, s, t : Paused(r, s, t).type = "WorkflowPaused"
  BY DEF Paused
<1>2. \A p, b : Retried(p, b).type = "WorkflowRetried"
  BY DEF Retried
<1>3. \A t, s : Feedback(t, s).type = "FeedbackGenerated"
  BY DEF Feedback
<1>4. \A p, b : PersonaCompleted(p, b).type = "PersonaCompleted"
  BY DEF PersonaCompleted
<1>5. /\ Started.type = "WorkflowStarted" /\ WorkflowDone.type = "WorkflowCompleted"
      /\ WorkflowFailed.type = "WorkflowFailed" /\ Approved.type = "HintApproved"
      /\ Nothing.type = "none"
  BY DEF Started, WorkflowDone, WorkflowFailed, Approved, Nothing
<1> DEFINE Kinds == {"WorkflowStarted", "FeedbackGenerated", "WorkflowPaused",
                     "WorkflowCompleted", "WorkflowFailed", "WorkflowRetried",
                     "HintApproved", "PersonaCompleted", "none"}
<1>6. \A x \in DecideRequested(a) : x.type \in Kinds
  BY <1>5 DEF DecideRequested
<1>7. \A x \in DecideCompleted(a) : x.type \in Kinds
  BY <1>5 DEF DecideCompleted
<1>8. \A x \in DecideFailed(a, e) : x.type \in Kinds
  <2> SUFFICES ASSUME NEW x \in DecideFailed(a, e) PROVE x.type \in Kinds
    OBVIOUS
  <2>1. \/ x \in {Nothing, WorkflowFailed} \/ x \in DecideCompleted(a)
        \/ x = Retried(e.persona, TRUE) \/ x = Paused(None, None, e.persona)
    BY DEF DecideFailed, maybeAutoRetry, maybeRateLimitPause
  <2>2. CASE x = Paused(None, None, e.persona)
    BY <1>1, <2>2
  <2>3. CASE x = Retried(e.persona, TRUE)
    BY <1>2, <2>3
  <2>4. CASE x \in {Nothing, WorkflowFailed}
    BY <1>5, <2>4
  <2>5. CASE x \in DecideCompleted(a)
    BY <1>7, <2>5
  <2> QED BY <2>1, <2>2, <2>3, <2>4, <2>5
<1>9. \A x \in DecideVerdict(a, e) : x.type \in Kinds
  BY <1>1, <1>3, <1>5 DEF DecideVerdict
<1>10. \A x \in DecideResumed(a) : x.type \in Kinds
  <2> SUFFICES ASSUME NEW x \in DecideResumed(a) PROVE x.type \in Kinds
    OBVIOUS
  <2>1. x = Nothing \/ x = Retried(a.resumeRetryFrom, FALSE) \/ \E t, s : x = Feedback(t, s)
    BY DEF DecideResumed
  <2> QED BY <1>2, <1>3, <1>5, <2>1
<1>11. \A x \in DecideHintEmitted(a, e) : x.type \in Kinds
  BY <1>1, <1>5 DEF DecideHintEmitted
<1>12. \A x \in DecideHintRejected(a, e) : x.type \in Kinds
  BY <1>4, <1>5 DEF DecideHintRejected
<1> QED BY <1>5, <1>6, <1>7, <1>8, <1>9, <1>10, <1>11, <1>12 DEF Decide

LEMMA AnswerOK ==
    ASSUME ShapeInv, NEW a, NEW e, NEW d \in Decide(a, e), Answer(d, e)
    PROVE  \A w \in wraps' : WrapRecord(w)
<1>1. \/ wraps' = wraps
      \/ wraps' = wraps \cup Deliver(Roots, WorkflowStartedEnv)
      \/ wraps' = wraps \cup
            Deliver(RetriggeredBy, Envelope("feedback", None, log.feedback + 1))
      \/ wraps' = wraps \cup Deliver(Successors(d.persona),
            Envelope("completed", d.persona, runs[d.persona] + 1))
  BY DecisionTypes DEF Answer
<1> QED BY <1>1, DeliverOK DEF ShapeInv

-----------------------------------------------------------------------------
(* The steps *)

LEMMA DrainStepOK ==
    ASSUME ShapeInv, NEW d \in drains, DrainStep(d)
    PROVE  /\ Moved(d) \/ Ended(d)
           /\ \A w \in wraps' : WrapRecord(w)
           /\ \A b \in blocked' : b = <<b[1], b[2]>> /\ b[1] \in Persona
<1>1. DrainRecord(d) /\ DOMAIN queue = Persona /\ draining \subseteq Persona
      /\ d.h \in Persona
  BY DEF ShapeInv, DrainRecord
<1>2. /\ \A w \in wraps : WrapRecord(w)
      /\ \A b \in blocked : b = <<b[1], b[2]>> /\ b[1] \in Persona
  BY DEF ShapeInv
<1>3. ASSUME NEW e, DrainRecord(e), e.h = d.h, Turn(d, e), UNCHANGED <<queue, draining>>
      PROVE  Moved(d)
  BY <1>1, <1>3 DEF Moved, Turn
<1>4. CASE Take(d)
  <2>1. PICK e : DrainRecord(e) /\ e.h = d.h /\ Turn(d, e)
    <3> DEFINE e == [d EXCEPT !.at = "slot", !.env = Head(queue[d.h])]
    <3>1. DrainRecord(e) /\ e.h = d.h
      BY <1>1 DEF DrainRecord
    <3>2. Turn(d, e)
      BY <1>4 DEF Take
    <3> QED BY <3>1, <3>2
  <2>2. /\ queue' = [queue EXCEPT ![d.h] = Tail(queue[d.h])]
        /\ UNCHANGED <<draining, wraps, blocked>>
    BY <1>4 DEF Take, DrainFrame
  <2>3. Moved(d)
    BY <1>1, <2>1, <2>2 DEF Moved, Turn
  <2> QED BY <1>2, <2>2, <2>3
<1>5. CASE Stop(d)
  <2>1. Ended(d)
    BY <1>1, <1>5 DEF Stop, Ended
  <2> QED BY <1>2, <1>5, <2>1 DEF Stop, DrainFrame
<1>6. CASE FindPaused(d) \/ Acquire(d) \/ EndCancelled(d) \/ EndIncomplete(d)
  <2>1. PICK e : DrainRecord(e) /\ e.h = d.h /\ Turn(d, e)
    <3>1. CASE Acquire(d)
      <4> DEFINE e == [d EXCEPT !.at = "run", !.live = TRUE]
      <4>1. DrainRecord(e) /\ e.h = d.h
        BY <1>1 DEF DrainRecord
      <4>2. Turn(d, e)
        BY <3>1 DEF Acquire
      <4> QED BY <4>1, <4>2
    <3>2. CASE FindPaused(d) \/ EndCancelled(d) \/ EndIncomplete(d)
      <4>1. PICK at : Turn(d, [d EXCEPT !.at = at])
        BY <3>2 DEF FindPaused, EndCancelled, EndIncomplete
      <4> QED BY <1>1, <4>1, RecordUpdates
    <3> QED BY <1>6, <3>1, <3>2
  <2>2. UNCHANGED <<queue, draining, wraps, blocked>>
    BY <1>6 DEF FindPaused, Acquire, EndCancelled, EndIncomplete, DrainFrame
  <2> QED BY <1>2, <1>3, <2>1, <2>2
<1>7. CASE ParkQueue(d)
  <2>1. Ended(d)
    BY <1>1, <1>7 DEF ParkQueue, Ended
  <2>2. \A b \in blocked' : b \in blocked \/ \E env : b = <<d.h, env>>
    BY <1>7 DEF ParkQueue
  <2>3. wraps' = wraps
    BY <1>7 DEF ParkQueue, DrainFrame
  <2> QED BY <1>1, <1>2, <2>1, <2>2, <2>3
<1>8. ASSUME NEW out \in Outcome, End(d, out)
      PROVE  Moved(d) /\ UNCHANGED <<wraps, blocked>>
  <2>1. PICK e : DrainRecord(e) /\ e.h = d.h /\ Turn(d, e)
    <3> DEFINE e == [d EXCEPT !.at = "publish", !.out = out]
    <3>1. DrainRecord(e) /\ e.h = d.h
      BY <1>1 DEF DrainRecord
    <3>2. Turn(d, e)
      BY <1>8 DEF End
    <3> QED BY <3>1, <3>2
  <2> QED BY <1>3, <1>8, <2>1 DEF End
<1>9. CASE Publish(d)
  <2>1. PICK e : DrainRecord(e) /\ e.h = d.h /\ Turn(d, e)
    BY <1>1, <1>9, RecordUpdates DEF Publish
  <2>2. UNCHANGED <<queue, draining, blocked>> /\ wraps' = wraps \cup Deliveries(d)
    BY <1>9 DEF Publish
  <2> QED BY <1>2, <1>3, <2>1, <2>2, DeliveriesOK
<1> QED BY <1>2, <1>4, <1>5, <1>6, <1>7, <1>8, <1>9 DEF DrainStep

LEMMA OperatorFrame ==
    Operator => UNCHANGED <<wraps, blocked, queue, draining, drains>>
BY DEF Operator, PauseWorkflow, ResumeWorkflow, CancelWorkflow, ApproveHint, RejectHint,
       Command

LEMMA RestartOK ==
    ASSUME Restart
    PROVE  /\ OneDrain' /\ ShapeInv'
<1>1. PICK go \in SUBSET Persona :
        /\ DOMAIN queue' = Persona
        /\ \A p \in Persona : queue'[p] # <<>> => p \in go
        /\ draining' = go /\ drains' = {NewDrain(p, "plain") : p \in go}
        /\ blocked' = {}
        /\ wraps' = {} \/ \E env : wraps' = Deliver(Successors(log.last), env)
  <2> DEFINE candidate == agg.status \in {"running", "paused"}
             onhold == candidate /\ (agg.status = "paused" \/ log.hints # {})
             done == Required \subseteq agg.completed /\ log.last # None
             republished == candidate /\ ~onhold /\ done
             go == IF candidate /\ ~onhold /\ ~done THEN Ready ELSE {}
  <2>1. go \subseteq Persona
    BY DefAssumption DEF Ready
  <2>2. PICK env : queue' = [p \in Persona |-> IF p \in go THEN <<env[p]>> ELSE <<>>]
    BY DEF Restart
  <2>3. /\ draining' = go /\ drains' = {NewDrain(p, "plain") : p \in go}
        /\ blocked' = {}
    BY DEF Restart
  <2>4. wraps' = {} \/ \E e : wraps' = Deliver(Successors(log.last), e)
    BY DEF Restart
  <2> HIDE DEF go
  <2>5. DOMAIN queue' = Persona /\ \A p \in Persona : queue'[p] # <<>> => p \in go
    BY <2>2
  <2> QED BY <2>1, <2>3, <2>4, <2>5
<1>2. \A p \in go : DrainRecord(NewDrain(p, "plain")) /\ NewDrain(p, "plain").h = p
  BY NewDrainOK
<1>3. \A d \in drains' : DrainRecord(d) /\ d.h \in go /\ d = NewDrain(d.h, "plain")
  BY <1>1, <1>2
<1>4. draining' = {d.h : d \in drains'}
  BY <1>1, <1>2
<1>5. \A w \in wraps' : WrapRecord(w)
  BY <1>1, DeliverOK
<1>6. OneDrain'
  BY <1>1, <1>3, <1>4 DEF OneDrain
<1> QED BY <1>1, <1>3, <1>5, <1>6 DEF ShapeInv

LEMMA NextInv == IInv /\ [Next]_vars => IInv'
<1> SUFFICES ASSUME IInv, [Next]_vars PROVE IInv'
  OBVIOUS
<1> USE DEF IInv
<1>1. ASSUME \A w \in wraps' : WrapRecord(w),
             \A b \in blocked' : b = <<b[1], b[2]>> /\ b[1] \in Persona,
             \/ \E h \in Persona : Entered(h)
             \/ \E d \in drains : Moved(d) \/ Ended(d)
             \/ Signalled
             \/ UNCHANGED <<queue, draining, drains>>
      PROVE  IInv'
  BY <1>1, OneDrainKept DEF ShapeInv
<1>2. /\ \A w \in wraps : WrapRecord(w) /\ w.h \in Persona
      /\ \A b \in blocked : b = <<b[1], b[2]>> /\ b[1] \in Persona
  BY DEF ShapeInv, WrapRecord
<1>3. ASSUME NEW w \in wraps, Drop(w) \/ Admit(w) \/ Park(w) \/ JoinError(w) PROVE IInv'
  <2>1. CASE Drop(w) \/ JoinError(w)
    BY <1>1, <1>2, <2>1 DEF Drop, JoinError, AdmitFrame
  <2>2. CASE Admit(w)
    <3>1. WrapRecord([w EXCEPT !.at = "park"])
      BY <1>2 DEF WrapRecord
    <3>2. \A v \in wraps' : WrapRecord(v)
      BY <1>2, <2>2, <3>1 DEF Admit
    <3>3. Enqueue(w.h, w.env, "plain") \/ UNCHANGED <<queue, draining, drains>>
      BY <2>2 DEF Admit
    <3>4. Entered(w.h) \/ UNCHANGED <<queue, draining, drains>>
      BY <1>2, <3>3, EnqueueOK
    <3> QED BY <1>1, <1>2, <2>2, <3>2, <3>4 DEF Admit, AdmitFrame
  <2>3. CASE Park(w)
    BY <1>1, <1>2, <2>3 DEF Park
  <2> QED BY <1>3, <2>1, <2>2, <2>3
<1>4. ASSUME NEW d \in drains, DrainStep(d) PROVE IInv'
  BY <1>1, <1>4, DrainStepOK
<1>5. CASE Engine
  <2>1. PICK d \in Decide(Track(agg, Head(mail)), Head(mail)) : Answer(d, Head(mail))
    BY <1>5 DEF Engine
  <2>2. UNCHANGED <<blocked, queue, draining, drains>>
    BY <1>5 DEF Engine
  <2> QED BY <1>1, <1>2, <2>1, <2>2, AnswerOK
<1>6. CASE OnResumed
  <2>1. \A w \in wraps' : WrapRecord(w)
    BY <1>2, <1>6, DeliverOK DEF OnResumed
  <2> QED BY <1>1, <1>6, <2>1 DEF OnResumed
<1>7. CASE OnCancelled \/ OnTerminal
  BY <1>1, <1>2, <1>7 DEF OnCancelled, OnTerminal, Signalled
<1>8. ASSUME NEW p \in Persona, OnRetried(p) PROVE IInv'
  <2>1. (\E env : Enqueue(p, env, "plain")) \/ UNCHANGED <<queue, draining, drains>>
    BY <1>8 DEF OnRetried
  <2>2. Entered(p) \/ UNCHANGED <<queue, draining, drains>>
    BY <2>1, EnqueueOK
  <2>3. wraps' = wraps /\ (blocked' = blocked \/ blocked' = {})
    BY <1>8 DEF OnRetried
  <2> QED BY <1>1, <1>2, <2>2, <2>3
<1>9. ASSUME NEW p \in Persona, OnApproved(p) PROVE IInv'
  <2>1. Entered(p)
    BY <1>9, EnqueueOK DEF OnApproved
  <2> QED BY <1>1, <1>2, <1>9, <2>1 DEF OnApproved
<1>10. CASE Operator
  BY <1>1, <1>2, <1>10, OperatorFrame
<1>11. CASE Restart
  BY <1>11, RestartOK
<1>12. CASE UNCHANGED vars
  BY <1>1, <1>2, <1>12 DEF vars, dispatch
<1> QED BY <1>3, <1>4, <1>5, <1>6, <1>7, <1>8, <1>9, <1>10, <1>11, <1>12
        DEF Next, Progress

LEMMA InitInv == Init => IInv
BY DEF Init, IInv, ShapeInv, OneDrain

\* A handler's queue is emptied by one goroutine at a time, so that the handler
\* never runs twice at once on a workflow, and what is in the queue has a
\* goroutine that comes for it: the mark is never stale.
THEOREM OneAtATime == Spec => []OneDrain
<1>1. IInv => OneDrain
  BY DEF IInv
<1> QED BY InitInv, NextInv, <1>1, PTL DEF Spec

-----------------------------------------------------------------------------
(* Advisory failures *)

\* In the first life of the process, an advisory failure nobody has answered
\* holds the workflow: the pause went up with it, and comes down with the answer.
HeldInv ==
    /\ restarts \in Nat
    /\ paused \in BOOLEAN
    /\ restarts = 0 => held = {} \/ paused

LEMMA InitHeld == Init => HeldInv
<1> SUFFICES ASSUME Init PROVE HeldInv
  OBVIOUS
<1>1. restarts \in Nat
  BY DEF Init
<1>2. paused \in BOOLEAN /\ held = {}
  BY DEF Init
<1> QED BY <1>1, <1>2 DEF HeldInv

LEMMA NextHeld == HeldInv /\ [Next]_vars => HeldInv'
<1> SUFFICES ASSUME HeldInv, [Next]_vars PROVE HeldInv'
  OBVIOUS
<1>1. ASSUME restarts' = restarts, paused' = paused \/ paused' = TRUE,
             held' = held \/ held' = {} \/ paused' = TRUE
      PROVE  HeldInv'
  <2>1. restarts' \in Nat
    BY <1>1 DEF HeldInv
  <2>2. paused' \in BOOLEAN
    BY <1>1 DEF HeldInv
  <2>3. ASSUME restarts' = 0, ~paused' PROVE held' = {}
    <3>1. held = {} \/ paused
      BY <1>1, <2>3 DEF HeldInv
    <3>2. ~paused
      BY <1>1, <2>3
    <3> QED BY <1>1, <2>3, <3>1, <3>2
  <2> QED BY <2>1, <2>2, <2>3 DEF HeldInv
<1>2. ASSUME restarts' = restarts, paused' \in BOOLEAN, held' = {} PROVE HeldInv'
  BY <1>2 DEF HeldInv
<1>3. ASSUME NEW w \in wraps, Drop(w) \/ Admit(w) \/ Park(w) \/ JoinError(w) PROVE HeldInv'
  BY <1>1, <1>3 DEF Drop, Admit, Park, JoinError, AdmitFrame, counters, history
<1>4. ASSUME NEW d \in drains, DrainStep(d) PROVE HeldInv'
  <2>1. CASE \E out \in Outcome : End(d, out)
    <3>1. PICK out \in Outcome : End(d, out)
      BY <2>1
    <3>2. restarts' = restarts /\ paused' = (paused \/ Escalates(d, out))
          /\ held' = IF Escalates(d, out)
                     THEN held \cup {<<d.h, runs[d.h] + 1>>} ELSE held
      BY <3>1 DEF End, frontRunAdvisoryPause
    <3>3. CASE Escalates(d, out)
      BY <1>1, <3>2, <3>3
    <3>4. CASE ~Escalates(d, out)
      <4>1. paused' = paused
        BY <3>2, <3>4 DEF HeldInv
      <4> QED BY <1>1, <3>2, <3>4, <4>1
    <3> QED BY <3>3, <3>4
  <2>2. CASE ~ \E out \in Outcome : End(d, out)
    BY <1>1, <1>4, <2>2
       DEF DrainStep, Take, Stop, FindPaused, ParkQueue, Acquire, EndIncomplete,
           EndCancelled, Publish, DrainFrame, counters, history
  <2> QED BY <2>1, <2>2
<1>5. CASE Engine
  <2>1. PICK d \in Decide(Track(agg, Head(mail)), Head(mail)) : Answer(d, Head(mail))
    BY <1>5 DEF Engine
  <2>2. paused' = paused \/ paused' = TRUE
    BY <2>1, DecisionTypes DEF Answer
  <2> QED BY <1>1, <1>5, <2>2 DEF Engine, counters, history
<1>6. CASE OnResumed
  BY <1>2, <1>6 DEF OnResumed, counters
<1>7. CASE OnCancelled \/ OnTerminal
  BY <1>1, <1>7 DEF OnCancelled, OnTerminal, counters, history
<1>8. ASSUME NEW p \in Persona, OnRetried(p) \/ OnApproved(p) PROVE HeldInv'
  BY <1>1, <1>2, <1>8 DEF OnRetried, OnApproved, counters, history
<1>9. CASE Operator
  BY <1>1, <1>9 DEF Operator, PauseWorkflow, ResumeWorkflow, CancelWorkflow, ApproveHint,
                    RejectHint, Command, history
<1>10. CASE Restart
  <2>1. restarts' = restarts + 1
    BY <1>10 DEF Restart
  <2>2. paused' \in BOOLEAN /\ held' = {}
    BY <1>10 DEF Restart
  <2> QED BY <2>1, <2>2 DEF HeldInv
<1>11. CASE UNCHANGED vars
  BY <1>1, <1>11 DEF vars, dispatch, counters, history
<1> QED BY <1>3, <1>4, <1>5, <1>6, <1>7, <1>8, <1>9, <1>10, <1>11 DEF Next, Progress

\* A delivery that this step takes from wrap and queues was admitted, and not
\* under a pause.
LEMMA QueuedAdmitted ==
    ASSUME [Next]_vars, NEW w \in Queued
    PROVE  Restart \/ (~paused /\ UNCHANGED restarts)
<1>1. queue' # queue /\ w \in wraps \ wraps'
  BY DEF Queued
<1>2. ASSUME NEW v \in wraps, Drop(v) \/ Admit(v) \/ Park(v) \/ JoinError(v)
      PROVE  ~paused /\ UNCHANGED restarts
  BY <1>1, <1>2 DEF Drop, Admit, Park, JoinError, counters
<1>3. CASE wraps' = wraps \/ queue' = queue
  BY <1>1, <1>3
<1>4. ASSUME NEW d \in drains, DrainStep(d) PROVE FALSE
  BY <1>1, <1>4 DEF DrainStep, Take, Stop, FindPaused, ParkQueue, Acquire, End,
                    EndIncomplete, EndCancelled, Publish, DrainFrame
<1>5. CASE Engine \/ OnResumed \/ OnCancelled \/ OnTerminal \/ Operator
  BY <1>3, <1>5 DEF Engine, OnResumed, OnCancelled, OnTerminal, Operator,
        PauseWorkflow, ResumeWorkflow, CancelWorkflow, ApproveHint, RejectHint, Command
<1>6. ASSUME NEW p \in Persona, OnRetried(p) \/ OnApproved(p) PROVE FALSE
  BY <1>1, <1>6 DEF OnRetried, OnApproved
<1>7. CASE UNCHANGED vars
  BY <1>3, <1>7 DEF vars, dispatch
<1> QED BY <1>2, <1>4, <1>5, <1>6, <1>7 DEF Next, Progress

\* No handler is put to work on a completion that came with an advisory failure
\* before the workflow was resumed or retried: the pause that frontRunAdvisoryPause
\* sets ahead of the engine's holds every delivery of that batch, however many
\* goroutines carry them.
THEOREM AdvisoryHeld == Spec => AdvisoryHold
<1> DEFINE A == \A w \in Queued : restarts' = 0 =>
                    \A p \in Predecessors(w.h) : <<p, log.latest[p]>> \notin held
<1>1. ASSUME HeldInv, [Next]_vars PROVE A
  <2> SUFFICES ASSUME NEW w \in Queued, restarts' = 0, held # {} PROVE FALSE
    OBVIOUS
  <2>1. ~Restart
    <3>1. Restart => restarts' = restarts + 1
      BY DEF Restart
    <3> QED BY <1>1, <3>1 DEF HeldInv
  <2>2. ~paused /\ restarts = 0
    BY <1>1, <2>1, QueuedAdmitted
  <2> QED BY <1>1, <2>2 DEF HeldInv
<1>2. Spec => []HeldInv
  BY InitHeld, NextHeld, PTL DEF Spec
<1>3. HeldInv /\ [Next]_vars => [A]_vars
  BY <1>1
<1>4. Spec => [][A]_vars
  BY <1>2, <1>3, PTL DEF Spec
<1> QED BY <1>4 DEF AdvisoryHold

-----------------------------------------------------------------------------
(* Types: the aggregate *)

\* What Decide may answer, with whom it may name.
Answered(d) ==
    \/ d \in {Nothing, Started, WorkflowDone, WorkflowFailed, Approved}
    \/ \E t, s, r \in Persona \cup {None} : d = Paused(t, s, r)
    \/ \E p \in Persona, automatic \in BOOLEAN : d = Retried(p, automatic)
    \/ \E t \in Persona, s \in Persona \cup {None} : d = Feedback(t, s)
    \/ \E p \in Persona : d = PersonaCompleted(p, TRUE)

\* The events in the engine's channel, one kind at a time.
LEMMA LetterCases ==
    ASSUME NEW e \in EngineLetter
    PROVE  \/ e \in {Requested, Started, Resumed}
           \/ \E p \in Persona, own \in BOOLEAN : e = PersonaCompleted(p, own)
           \/ \E p \in Persona, kind \in FailureKind : e = PersonaFailed(p, kind)
           \/ \E vp \in VerdictPairs, o \in {"pass", "fail"}, adv \in BOOLEAN,
                 f \in Fingerprint : e = Verdict(vp, o, adv, f)
           \/ \E p \in Persona : e = HintRejected(p, "skip")
           \/ /\ e.type = "HintEmitted" /\ e.persona \in Persona
              /\ e.confident \in BOOLEAN /\ e.on \in Env
BY DEF EngineLetter, AggregateEvent

LEMMA LetterTypes ==
    /\ Requested.type = "WorkflowRequested" /\ Started.type = "WorkflowStarted"
    /\ Resumed.type = "WorkflowResumed"
    /\ \A p, own : LET e == PersonaCompleted(p, own) IN
            e.type = "PersonaCompleted" /\ e.persona = p /\ e.own = own
    /\ \A p, kind : LET e == PersonaFailed(p, kind) IN
            e.type = "PersonaFailed" /\ e.persona = p /\ e.kind = kind
    /\ \A vp, o, adv, f : LET e == Verdict(vp, o, adv, f) IN
            /\ e.type = "VerdictRendered" /\ e.source = vp[1] /\ e.target = vp[2]
            /\ e.outcome = o /\ e.advisory = adv /\ e.fingerprint = f
    /\ \A p, action : LET e == HintRejected(p, action) IN
            e.type = "HintRejected" /\ e.persona = p /\ e.action = action
BY DEF Requested, Started, Resumed, PersonaCompleted, PersonaFailed, Verdict, HintRejected

LEMMA PairTypes ==
    \A vp \in VerdictPairs :
        vp[1] \in Persona /\ vp[2] \in Persona /\ <<vp[1], vp[2]>> = vp
BY AggregateAssumption

\* Only a hint is answered with an approval.
LEMMA DecideAnswers ==
    ASSUME NEW a \in Aggregate, NEW e \in EngineLetter, NEW d \in Decide(a, e)
    PROVE  Answered(d) /\ (d = Approved => e.type = "HintEmitted" /\ e.on \in Env)
<1> USE DefAssumption
<1>0. /\ Nothing # Approved /\ Started # Approved /\ WorkflowDone # Approved
      /\ WorkflowFailed # Approved
      /\ \A t, s, r : Paused(t, s, r) # Approved
      /\ \A p, b : Retried(p, b) # Approved
      /\ \A t, s : Feedback(t, s) # Approved
      /\ \A p, b : PersonaCompleted(p, b) # Approved
  BY DEF Nothing, Started, WorkflowDone, WorkflowFailed, Approved, Paused,
         Retried, Feedback, PersonaCompleted
<1>1. \A x \in DecideCompleted(a) : x \in {Nothing, WorkflowDone}
  BY DEF DecideCompleted
<1>2. CASE e \in {Requested, Started, Resumed}
  <2>1. CASE e = Requested
    <3>1. d \in {WorkflowFailed, Started, Nothing}
      BY <2>1, LetterTypes DEF Decide, DecideRequested
    <3> QED BY <1>0, <3>1 DEF Answered
  <2>2. CASE e = Started
    <3>1. d = Nothing
      BY <2>2, LetterTypes DEF Decide
    <3> QED BY <1>0, <3>1 DEF Answered
  <2>3. CASE e = Resumed
    <3>1. d \in DecideResumed(a)
      BY <2>3, LetterTypes DEF Decide
    <3>2. CASE d = Retried(a.resumeRetryFrom, FALSE) /\ a.resumeRetryFrom \in DOMAIN Graph
      BY <1>0, <3>2 DEF Answered
    <3>3. CASE \E t \in Persona, s \in Persona \cup {None} : d = Feedback(t, s)
      BY <1>0, <3>3 DEF Answered
    <3>4. CASE d = Nothing
      BY <1>0, <3>4 DEF Answered
    <3>5. /\ \A p \in Persona : a.lastFailing[p] \in Persona \cup {None}
          /\ a.resumeSource \in Persona \cup {None}
      BY DEF Aggregate
    <3> QED BY <3>1, <3>2, <3>3, <3>4, <3>5 DEF DecideResumed, isRequiredPersona
  <2> QED BY <1>2, <2>1, <2>2, <2>3
<1>3. ASSUME NEW p \in Persona, NEW own \in BOOLEAN, e = PersonaCompleted(p, own)
      PROVE  Answered(d) /\ d # Approved
  <2>1. d \in {Nothing, WorkflowDone}
    BY <1>1, <1>3, LetterTypes DEF Decide
  <2> QED BY <1>0, <2>1 DEF Answered
<1>4. ASSUME NEW p \in Persona, NEW kind \in FailureKind, e = PersonaFailed(p, kind)
      PROVE  Answered(d) /\ d # Approved
  <2>1. d \in DecideFailed(a, e) /\ e.persona = p
    BY <1>4, LetterTypes DEF Decide
  <2>2. d \in {Nothing, WorkflowDone, WorkflowFailed, Retried(p, TRUE), Paused(None, None, p)}
    BY <1>1, <2>1 DEF DecideFailed, maybeAutoRetry, maybeRateLimitPause
  <2> QED BY <1>0, <2>2 DEF Answered
<1>5. ASSUME NEW vp \in VerdictPairs, NEW o \in {"pass", "fail"}, NEW adv \in BOOLEAN,
             NEW f \in Fingerprint, e = Verdict(vp, o, adv, f)
      PROVE  Answered(d) /\ d # Approved
  <2>1. d \in DecideVerdict(a, e) /\ e.source \in Persona /\ e.target \in Persona
    BY <1>5, LetterTypes, PairTypes DEF Decide
  <2>2. d \in {Nothing, WorkflowFailed, Paused(None, None, None),
               Paused(e.target, e.source, None), Feedback(e.target, e.source)}
    BY <2>1 DEF DecideVerdict
  <2> QED BY <1>0, <2>1, <2>2 DEF Answered
<1>6. ASSUME NEW p \in Persona, e = HintRejected(p, "skip")
      PROVE  Answered(d) /\ d # Approved
  <2>1. e.type = "HintRejected" /\ e.persona = p /\ e.action = "skip"
    BY <1>6, LetterTypes
  <2>2. d \in DecideHintRejected(a, e)
    BY <2>1 DEF Decide
  <2>3. d \in {Nothing, PersonaCompleted(p, TRUE)}
    BY <2>1, <2>2 DEF DecideHintRejected
  <2> QED BY <1>0, <2>3 DEF Answered
<1>7. CASE e.type = "HintEmitted" /\ e.confident \in BOOLEAN /\ e.on \in Env
  <2>1. d \in {Nothing, Approved, Paused(None, None, None)}
    BY <1>7 DEF Decide, DecideHintEmitted
  <2> QED BY <1>7, <2>1 DEF Answered
<1> QED BY <1>2, <1>3, <1>4, <1>5, <1>6, <1>7, LetterCases

LEMMA TypedCompleted ==
    ASSUME NEW a \in Aggregate, NEW p \in Persona
    PROVE  ApplyCompleted(a, p) \in Aggregate
BY DEF ApplyCompleted, Aggregate

LEMMA TypedStatus ==
    ASSUME NEW a \in Aggregate, NEW status \in Status
    PROVE  [a EXCEPT !.status = status] \in Aggregate
BY DEF Aggregate

\* An answer applied to the aggregate.
LEMMA TypedApply ==
    ASSUME NEW a \in Aggregate, NEW d, Answered(d)
    PROVE  Apply(a, d) \in Aggregate
<1>1. CASE d \in {Nothing, Started, WorkflowDone, WorkflowFailed, Approved}
  <2>1. Apply(a, d) = a \/ \E status \in Status : Apply(a, d) = [a EXCEPT !.status = status]
    <3>1. CASE d = Nothing \/ d = Approved
      BY <3>1 DEF Apply, Nothing, Approved
    <3>2. CASE d = Started
      BY <3>2 DEF Apply, Started, Status
    <3>3. CASE d = WorkflowDone
      BY <3>3 DEF Apply, WorkflowDone, Status
    <3>4. CASE d = WorkflowFailed
      BY <3>4 DEF Apply, WorkflowFailed, Status
    <3> QED BY <1>1, <3>1, <3>2, <3>3, <3>4
  <2> QED BY <2>1, TypedStatus
<1>2. ASSUME NEW t \in Persona \cup {None}, NEW s \in Persona \cup {None},
             NEW r \in Persona \cup {None}, d = Paused(t, s, r)
      PROVE  Apply(a, d) \in Aggregate
  <2>1. Apply(a, d) = [a EXCEPT !.status = "paused", !.resumeRetarget = t,
                                !.resumeSource = s, !.resumeRetryFrom = r]
    BY <1>2 DEF Apply, ApplyPaused, Paused
  <2> QED BY <2>1 DEF Aggregate, Status
<1>3. ASSUME NEW p \in Persona, NEW automatic \in BOOLEAN, d = Retried(p, automatic)
      PROVE  Apply(a, d) \in Aggregate
  <2> DEFINE pending == [s \in Persona |->
                IF s \in d.invalidated \/ a.feedbackPending[s] \in d.invalidated
                THEN None ELSE a.feedbackPending[s]]
             retries == [a.autoRetries EXCEPT ![p] = IF automatic THEN @ + 1 ELSE @]
  <2>1. Apply(a, d) = [a EXCEPT !.completed = @ \ d.invalidated,
                                !.feedbackPending = pending,
                                !.autoRetries = retries, !.status = "running"]
    BY <1>3 DEF Apply, ApplyRetried, Retried, Aggregate
  <2>2. /\ a.completed \ d.invalidated \in SUBSET Persona
        /\ pending \in [Persona -> Persona \cup {None}]
        /\ retries \in [Persona -> Nat]
    BY DEF Aggregate
  <2> HIDE DEF pending, retries
  <2> QED BY <2>1, <2>2 DEF Aggregate, Status
<1>4. ASSUME NEW t \in Persona, NEW s \in Persona \cup {None}, d = Feedback(t, s)
      PROVE  Apply(a, d) \in Aggregate
  <2> DEFINE count == [a.feedbackCount EXCEPT ![t] = @ + 1]
             pending == [q \in Persona |-> IF q = s THEN t ELSE a.feedbackPending[q]]
  <2>1. Apply(a, d) = [a EXCEPT !.feedbackCount = count, !.completed = @ \ {t, s},
                                !.feedbackPending = pending]
    BY <1>4 DEF Apply, ApplyFeedback, Feedback, Aggregate
  <2>2. /\ count \in [Persona -> Nat] /\ a.completed \ {t, s} \in SUBSET Persona
        /\ pending \in [Persona -> Persona \cup {None}]
    BY DEF Aggregate
  <2> HIDE DEF count, pending
  <2> QED BY <2>1, <2>2 DEF Aggregate
<1>5. ASSUME NEW p \in Persona, d = PersonaCompleted(p, TRUE)
      PROVE  Apply(a, d) \in Aggregate
  <2>1. Apply(a, d) = ApplyCompleted(a, p)
    BY <1>5 DEF Apply, PersonaCompleted
  <2> QED BY <2>1, TypedCompleted
<1> QED BY <1>1, <1>2, <1>3, <1>4, <1>5 DEF Answered

LEMMA TypedTrack ==
    ASSUME NEW a \in Aggregate, NEW e \in EngineLetter
    PROVE  Track(a, e) \in Aggregate
<1>1. \A p \in Persona : ApplyFailed(a, p) \in Aggregate
  BY DEF ApplyFailed, Aggregate
<1>2. e.type \in {"PersonaCompleted", "PersonaFailed"} => e.persona \in Persona
  BY LetterCases, LetterTypes
<1> QED BY <1>1, <1>2, TypedCompleted DEF Track

LEMMA TypedMirror ==
    ASSUME NEW a \in Aggregate, NEW e \in EngineLetter
    PROVE  Mirror(a, e) \in Aggregate
<1>1. ASSUME NEW vp \in VerdictPairs, NEW o \in {"pass", "fail"}, NEW adv \in BOOLEAN,
             NEW f \in Fingerprint, e = Verdict(vp, o, adv, f)
      PROVE  ApplyVerdict(a, e) \in Aggregate
  <2> DEFINE prints == [a.lastFingerprint EXCEPT ![vp] = IF o = "fail" THEN f ELSE None]
             failing == [a.lastFailing EXCEPT ![vp[2]] = IF o = "fail" THEN vp[1] ELSE None]
  <2>1. ApplyVerdict(a, e) = [a EXCEPT !.lastFingerprint = prints, !.lastFailing = failing]
    <3>1. /\ <<e.source, e.target>> = vp /\ e.source = vp[1] /\ e.target = vp[2]
          /\ e.outcome = o /\ e.fingerprint = f
      BY <1>1, LetterTypes, PairTypes
    <3> QED BY <3>1 DEF ApplyVerdict
  <2>2. /\ prints \in [VerdictPairs -> Fingerprint \cup {None}]
        /\ failing \in [Persona -> Persona \cup {None}]
    BY PairTypes DEF Aggregate
  <2> HIDE DEF prints, failing
  <2> QED BY <2>1, <2>2 DEF Aggregate
<1>2. e.type = "VerdictRendered" =>
        \E vp \in VerdictPairs, o \in {"pass", "fail"}, adv \in BOOLEAN,
           f \in Fingerprint : e = Verdict(vp, o, adv, f)
  BY LetterCases, LetterTypes
<1> QED BY <1>1, <1>2 DEF Mirror

\* The engine's answer to what is in its channel.
LEMMA TypedHandled ==
    ASSUME NEW a \in Aggregate, NEW e \in EngineLetter, NEW d \in Decide(Track(a, e), e)
    PROVE  /\ Handled(a, e, d) \in Aggregate /\ Answered(d)
           /\ d = Approved => e.type = "HintEmitted" /\ e.on \in Env
BY TypedTrack, DecideAnswers, TypedApply, TypedMirror DEF Handled

-----------------------------------------------------------------------------
(* Types: the log *)

LogRecord ==
    [latest: [Persona -> Nat], stale: SUBSET Persona, target: Persona \cup {None},
     failing: SUBSET Persona,
     verdicts: SUBSET [source: Persona, round: Env, fails: BOOLEAN], round: Env,
     stored: [Persona -> Nat], last: Persona \cup {None}, since: SUBSET Persona,
     feedback: Nat, hints: SUBSET (Persona \X Env)]

LEMMA EnvTypes ==
    /\ WorkflowStartedEnv \in Env
    /\ \A type \in {"started", "completed", "feedback", "approved"},
          p \in Persona \cup {None}, n \in Nat : Envelope(type, p, n) \in Env
BY DEF WorkflowStartedEnv, Envelope, Env

\* Every field by itself.
LEMMA LogFields ==
    ASSUME NEW l \in LogRecord
    PROVE  /\ l.latest \in [Persona -> Nat] /\ l.stored \in [Persona -> Nat]
           /\ l.stale \subseteq Persona /\ l.failing \subseteq Persona
           /\ l.since \subseteq Persona
           /\ l.target \in Persona \cup {None} /\ l.last \in Persona \cup {None}
           /\ l.verdicts \subseteq [source: Persona, round: Env, fails: BOOLEAN]
           /\ l.round \in Env /\ l.feedback \in Nat
           /\ l.hints \subseteq Persona \X Env
BY DEF LogRecord

LEMMA NewLogTyped == NewLog \in LogRecord
BY EnvTypes DEF NewLog, LogRecord

LEMMA StoreCompletedTyped ==
    ASSUME NEW l \in LogRecord, NEW p \in Persona, NEW n \in Nat
    PROVE  StoreCompleted(l, p, n) \in LogRecord
<1> DEFINE stale == StaleAt(l, p)
           target == IF p = l.target THEN None ELSE l.target
           latest == [l.latest EXCEPT ![p] = IF p \in stale THEN @ ELSE n]
           failing == IF p \in stale THEN l.failing ELSE l.failing \ {p}
           stored == [l.stored EXCEPT ![p] = n]
           since == l.since \cup {p}
<1>1. /\ stale \subseteq Persona /\ target \in Persona \cup {None}
      /\ latest \in [Persona -> Nat] /\ failing \subseteq Persona
      /\ stored \in [Persona -> Nat] /\ since \subseteq Persona
  BY LogFields DEF StaleAt
<1> DEFINE m == [l EXCEPT !.stale = stale, !.target = target, !.latest = latest,
                         !.failing = failing]
<1>2. StoreCompleted(l, p, n) = [m EXCEPT !.stored = stored, !.last = p, !.since = since]
  BY DEF StoreCompleted, LogRecord
<1> HIDE DEF stale, target, latest, failing, stored, since
<1>3. m \in LogRecord
  BY <1>1 DEF LogRecord
<1> HIDE DEF m
<1> QED BY <1>1, <1>2, <1>3 DEF LogRecord

LEMMA StoreFailedTyped ==
    ASSUME NEW l \in LogRecord, NEW p \in Persona, NEW n \in Nat
    PROVE  StoreFailed(l, p, n) \in LogRecord
<1> DEFINE latest == [l.latest EXCEPT ![p] = n]
<1>1. latest \in [Persona -> Nat]
  BY LogFields
<1>2. StoreFailed(l, p, n) = l \/ StoreFailed(l, p, n) = [l EXCEPT !.latest = latest]
  BY DEF StoreFailed, LogRecord
<1> HIDE DEF latest
<1> QED BY <1>1, <1>2 DEF LogRecord

LEMMA StoreVerdictTyped ==
    ASSUME NEW l \in LogRecord, NEW p \in Persona, NEW env \in Env, NEW fails \in BOOLEAN
    PROVE  StoreVerdict(l, p, env, fails) \in LogRecord
<1> DEFINE failing == IF fails THEN l.failing \cup {p} ELSE l.failing \ {p}
           verdicts == {v \in l.verdicts : v.source # p \/ v.round # env}
                        \cup {[source |-> p, round |-> env, fails |-> fails]}
           round == IF p \in ConsolidatedReviewers THEN env ELSE l.round
<1>1. /\ failing \subseteq Persona /\ round \in Env
      /\ verdicts \subseteq [source: Persona, round: Env, fails: BOOLEAN]
  BY LogFields
<1>2. StoreVerdict(l, p, env, fails) =
        [l EXCEPT !.failing = failing, !.verdicts = verdicts, !.round = round]
  BY DEF StoreVerdict, LogRecord
<1> HIDE DEF failing, verdicts, round
<1> QED BY <1>1, <1>2 DEF LogRecord

LEMMA HintsTyped ==
    ASSUME NEW l \in LogRecord, NEW p \in Persona, NEW env \in Env
    PROVE  WithoutHint(l, p) \in LogRecord /\ StoreHint(l, p, env) \in LogRecord
<1> DEFINE hints == {k \in l.hints : k[1] # p}
<1>1. hints \subseteq Persona \X Env /\ hints \cup {<<p, env>>} \subseteq Persona \X Env
  BY LogFields
<1>2. /\ WithoutHint(l, p) = [l EXCEPT !.hints = hints]
      /\ StoreHint(l, p, env) = [l EXCEPT !.hints = hints \cup {<<p, env>>}]
  BY DEF WithoutHint, StoreHint, LogRecord
<1> HIDE DEF hints
<1> QED BY <1>1, <1>2 DEF LogRecord

LEMMA StoreFeedbackTyped ==
    ASSUME NEW l \in LogRecord, NEW p \in Persona
    PROVE  StoreFeedback(l, p) \in LogRecord
<1> DEFINE D == StrictDownstream(p)
           latest == [q \in Persona |-> IF q \in D THEN 0 ELSE l.latest[q]]
           failing == l.failing \ D
           stale == l.stale \cup D
<1>1. D \subseteq Persona
  BY DEF StrictDownstream, Downstream
<1>2. /\ latest \in [Persona -> Nat] /\ failing \subseteq Persona
      /\ stale \subseteq Persona /\ l.feedback + 1 \in Nat
  BY <1>1, LogFields
<1> DEFINE m == [l EXCEPT !.latest = latest, !.failing = failing, !.stale = stale]
<1>3. StoreFeedback(l, p) =
        [m EXCEPT !.target = p, !.since = {}, !.feedback = l.feedback + 1]
  BY DEF StoreFeedback, LogRecord
<1> HIDE DEF D, latest, failing, stale
<1>4. m \in LogRecord
  BY <1>2 DEF LogRecord
<1> HIDE DEF m
<1> QED BY <1>2, <1>3, <1>4 DEF LogRecord

\* What a retry or a recovery dispatches a handler on.
LEMMA TriggersTyped ==
    ASSUME NEW l \in LogRecord, NEW a \in Aggregate, NEW p
    PROVE  RetryTriggers(l, p) \subseteq Env /\ EligibleOn(l, a, p) \subseteq Env
<1>1. Predecessors(p) \subseteq Persona
  BY DefAssumption DEF Predecessors
<1>2. RetryTriggers(l, p) \subseteq Env
  BY <1>1, EnvTypes, LogFields DEF RetryTriggers
<1>3. Envelope("feedback", None, l.feedback) \in Env
  BY EnvTypes, LogFields
<1> QED BY <1>2, <1>3 DEF EligibleOn

-----------------------------------------------------------------------------
(* Types: queues and goroutines *)

LEMMA PushTyped ==
    ASSUME NEW items \in Seq(Env), NEW env \in Env
    PROVE  Push(items, env) \in Seq(Env)
<1> DEFINE behind(i) == \E j \in 1..i : Priority(items[j]) > Priority(env)
           at(i) == IF i <= Len(items) /\ ~behind(i) THEN items[i]
                    ELSE IF i = 1 \/ ~behind(i - 1) THEN env ELSE items[i - 1]
<1>1. ASSUME NEW i \in 1..(Len(items) + 1) PROVE at(i) \in Env
  <2> HIDE DEF behind
  <2>1. i <= Len(items) => items[i] \in Env
    OBVIOUS
  <2>2. i # 1 => items[i - 1] \in Env
    OBVIOUS
  <2> QED BY <2>1, <2>2
<1>2. Push(items, env) = [i \in 1..(Len(items) + 1) |-> at(i)]
  BY DEF Push
<1>3. Len(items) + 1 \in Nat
  OBVIOUS
<1> HIDE DEF at
<1> QED BY <1>1, <1>2, <1>3

\* A goroutine that publishes has something to publish: a verdict is aimed at
\* somebody.
Judging == {"pass", "fail", "advisory"}

Sends(d) ==
    d.at = "publish" =>
        /\ d.out # "incomplete"
        /\ d.out \in Judging => \E t \in Persona : <<d.h, t>> \in VerdictPairs

Holding(d) == d.at \in {"run", "publish"}

DrainsTyped ==
    /\ drains \subseteq Drain
    /\ \A d \in drains : Sends(d)
    /\ IsFiniteSet(Running) /\ Cardinality(Running) <= MaxActive

LEMMA DrainsUnchanged == DrainsTyped /\ UNCHANGED drains => DrainsTyped'
BY DEF DrainsTyped, Running

LEMMA NewDrainTyped ==
    \A h \in Persona, kind \in {"plain", "approved"} :
        LET d == NewDrain(h, kind) IN d \in Drain /\ Sends(d) /\ ~Holding(d)
BY EnvTypes DEF NewDrain, Drain, Outcome, Sends, Holding

\* Fewer hold a slot.
LEMMA FewerHolding ==
    ASSUME DrainsTyped, drains' \subseteq Drain, \A d \in drains' : Sends(d),
           Running' \subseteq Running
    PROVE  DrainsTyped'
<1>1. IsFiniteSet(Running') /\ Cardinality(Running') <= Cardinality(Running)
  BY FS_Subset DEF DrainsTyped
<1>2. Cardinality(Running') \in Nat /\ Cardinality(Running) \in Nat /\ MaxActive \in Nat
  BY <1>1, FS_CardinalityType, RunnerAssumption DEF DrainsTyped
<1> QED BY <1>1, <1>2 DEF DrainsTyped

\* A goroutine's next step takes a slot only if there is one.
LEMMA TurnTyped ==
    ASSUME DrainsTyped, NEW d \in drains, NEW e \in Drain, Sends(e), Turn(d, e),
           Holding(e) => Holding(d) \/ Cardinality(Running) < MaxActive
    PROVE  DrainsTyped'
<1>1. /\ drains' \subseteq Drain /\ \A f \in drains' : Sends(f)
      /\ drains' = (drains \ {d}) \cup {e}
  BY DEF DrainsTyped, Turn
<1>2. CASE ~Holding(e)
  <2>1. Running' \subseteq Running
    BY <1>1, <1>2 DEF Running, Holding
  <2> QED BY <1>1, <2>1, FewerHolding
<1>3. CASE Holding(e)
  <2> DEFINE others == Running \ {d}
  <2>1. Running' = others \cup {e}
    BY <1>1, <1>3 DEF Running, Holding
  <2>2. IsFiniteSet(Running) /\ Cardinality(Running) \in Nat /\ Cardinality(Running) <= MaxActive
        /\ MaxActive \in Nat
    BY FS_CardinalityType, RunnerAssumption DEF DrainsTyped
  <2>3. IsFiniteSet(others) /\ Cardinality(others) =
            IF d \in Running THEN Cardinality(Running) - 1 ELSE Cardinality(Running)
    BY <2>2, FS_RemoveElement
  <2>4. Cardinality(others) \in Nat
    BY <2>3, FS_CardinalityType
  <2>5. IsFiniteSet(others \cup {e}) /\ Cardinality(others \cup {e}) <= Cardinality(others) + 1
    BY <2>3, <2>4, FS_AddElement
  <2>6. Cardinality(others \cup {e}) \in Nat
    BY <2>5, FS_CardinalityType
  <2>7. Cardinality(others) + 1 <= MaxActive
    <3>1. Holding(d) => d \in Running
      BY DEF Running, Holding
    <3> QED BY <1>3, <2>2, <2>3, <3>1
  <2>8. Cardinality(others \cup {e}) <= MaxActive
    BY <2>2, <2>4, <2>5, <2>6, <2>7
  <2> QED BY <1>1, <2>1, <2>5, <2>8 DEF DrainsTyped
<1> QED BY <1>2, <1>3

LEMMA DrainEnds ==
    ASSUME DrainsTyped, NEW d, drains' = drains \ {d}
    PROVE  DrainsTyped'
<1>1. drains' \subseteq Drain /\ (\A e \in drains' : Sends(e)) /\ Running' \subseteq Running
  BY DEF DrainsTyped, Running
<1> QED BY <1>1, FewerHolding

\* A cancelled context takes no slot away and gives none.
LEMMA InterruptedTyped ==
    ASSUME DrainsTyped, drains' = Interrupted
    PROVE  DrainsTyped'
<1> DEFINE cut(d) == IF d.at = "run" THEN [d EXCEPT !.live = FALSE] ELSE d
           f == [d \in Running |-> cut(d)]
<1>1. \A d \in Drain : cut(d) \in Drain /\ cut(d).at = d.at /\ (Sends(d) => Sends(cut(d)))
  BY DEF Drain, Sends
<1>2. drains' = {cut(d) : d \in drains}
  BY DEF Interrupted
<1> HIDE DEF cut
<1>3. drains' \subseteq Drain /\ \A d \in drains' : Sends(d)
  BY <1>1, <1>2 DEF DrainsTyped
<1>4. Running' = {cut(d) : d \in Running}
  BY <1>1, <1>2 DEF DrainsTyped, Running
<1>5. f \in Surjection(Running, Running')
  BY <1>4 DEF Surjection
<1>6. IsFiniteSet(Running') /\ Cardinality(Running') <= Cardinality(Running)
  BY <1>5, FS_Surjection DEF DrainsTyped
<1>7. Cardinality(Running') \in Nat /\ Cardinality(Running) \in Nat /\ MaxActive \in Nat
  BY <1>6, FS_CardinalityType, RunnerAssumption DEF DrainsTyped
<1> QED BY <1>3, <1>6, <1>7 DEF DrainsTyped

-----------------------------------------------------------------------------
(* Types: the state *)

Wrap == [h: Persona, env: Env, at: {"wrap", "park"}]

PlacesTyped ==
    /\ wraps \subseteq Wrap
    /\ seen = [events |-> seen.events, joins |-> seen.joins]
    /\ seen.events \subseteq Persona \X Env
    /\ \A j \in seen.joins : j[1] \in Persona
    /\ cached \in BOOLEAN /\ paused \in BOOLEAN
    /\ blocked \subseteq Persona \X Env
    /\ queue \in [Persona -> Seq(Env)]
    /\ draining \subseteq Persona

DataTyped ==
    /\ agg \in Aggregate /\ log \in LogRecord /\ runs \in [Persona -> Nat]
    /\ mail \in Seq(EngineLetter)
    /\ inbox \subseteq Message
    /\ asked \in Nat /\ faults \in Nat /\ restarts \in Nat
    /\ held \subseteq Persona \X Nat /\ answered \subseteq Env
    /\ waiting \subseteq Persona

TypesInv == PlacesTyped /\ DrainsTyped /\ DataTyped

LEMMA EnqueueTyped ==
    ASSUME TypesInv, NEW h \in Persona, NEW env \in Env,
           NEW kind \in {"plain", "approved"}, Enqueue(h, env, kind)
    PROVE  queue' \in [Persona -> Seq(Env)] /\ draining' \subseteq Persona /\ DrainsTyped'
<1>1. Push(queue[h], env) \in Seq(Env)
  BY PushTyped DEF TypesInv, PlacesTyped
<1>2. queue' = [queue EXCEPT ![h] = Push(queue[h], env)]
      /\ draining' = draining \cup {h}
  BY DEF Enqueue
<1>3. queue' \in [Persona -> Seq(Env)] /\ draining' \subseteq Persona
  BY <1>1, <1>2 DEF TypesInv, PlacesTyped
<1>4. CASE drains' = drains
  BY <1>3, <1>4, DrainsUnchanged DEF TypesInv
<1>5. CASE drains' = drains \cup {NewDrain(h, kind)}
  <2>1. drains' \subseteq Drain /\ (\A d \in drains' : Sends(d)) /\ Running' \subseteq Running
    BY <1>5, NewDrainTyped DEF TypesInv, DrainsTyped, Running, Holding
  <2> QED BY <1>3, <2>1, FewerHolding DEF TypesInv
<1> QED BY <1>4, <1>5 DEF Enqueue

LEMMA DeliverTyped ==
    /\ \A H \in SUBSET Persona, env \in Env : Deliver(H, env) \subseteq Wrap
    /\ \A p : Successors(p) \in SUBSET Persona
    /\ Roots \in SUBSET Persona /\ RetriggeredBy \in SUBSET Persona
BY DefAssumption, LogAssumption DEF Deliver, Wrap, Successors, Roots

\* A delivery on its way to its handler's queue.
LEMMA WrapStepTyped ==
    ASSUME TypesInv, NEW w \in wraps, Drop(w) \/ JoinError(w) \/ Admit(w) \/ Park(w)
    PROVE  TypesInv'
<1>1. w.h \in Persona /\ w.env \in Env /\ [w EXCEPT !.at = "park"] \in Wrap
  BY DEF TypesInv, PlacesTyped, Wrap
<1>2. CASE Drop(w)
  <2>1. seen' = seen \/ seen' = [seen EXCEPT !.events = @ \cup {<<w.h, w.env>>}]
    BY <1>2 DEF Drop
  <2>2. /\ seen' = [events |-> seen'.events, joins |-> seen'.joins]
        /\ seen'.events \subseteq Persona \X Env /\ \A j \in seen'.joins : j[1] \in Persona
    BY <1>1, <2>1 DEF TypesInv, PlacesTyped
  <2> QED BY <1>2, <2>2, DrainsUnchanged
          DEF TypesInv, PlacesTyped, DataTyped, Drop, AdmitFrame, persistent, history, counters
<1>3. CASE JoinError(w)
  BY <1>3, DrainsUnchanged
     DEF TypesInv, PlacesTyped, DataTyped, JoinError, AdmitFrame, persistent, history
<1>4. CASE Admit(w)
  <2>1. seen' = SeenWith(w.h, w.env)
    BY <1>4 DEF Admit, Admitted
  <2>2. /\ seen' = [events |-> seen'.events, joins |-> seen'.joins]
        /\ seen'.events \subseteq Persona \X Env /\ \A j \in seen'.joins : j[1] \in Persona
    BY <1>1, <2>1 DEF TypesInv, PlacesTyped, SeenWith
  <2>3. wraps' \subseteq Wrap
    BY <1>1, <1>4 DEF Admit, TypesInv, PlacesTyped
  <2>4. queue' \in [Persona -> Seq(Env)] /\ draining' \subseteq Persona /\ DrainsTyped'
    <3>1. CASE Enqueue(w.h, w.env, "plain")
      BY <1>1, <3>1, EnqueueTyped
    <3>2. CASE UNCHANGED <<queue, draining, drains>>
      BY <3>2, DrainsUnchanged DEF TypesInv, PlacesTyped
    <3> QED BY <1>4, <3>1, <3>2 DEF Admit
  <2> QED BY <1>4, <2>2, <2>3, <2>4
          DEF TypesInv, PlacesTyped, DataTyped, Admit, AdmitFrame, persistent, history, counters
<1>5. CASE Park(w)
  BY <1>1, <1>5, DrainsUnchanged
     DEF TypesInv, PlacesTyped, DataTyped, Park, persistent, history, counters
<1> QED BY <1>2, <1>3, <1>4, <1>5

\* How a run ends: with a verdict only if there is somebody to aim it at.
LEMMA EndsTyped ==
    ASSUME NEW d \in Drain, NEW out \in Ends(d)
    PROVE  /\ out \in Outcome
           /\ out \in Judging => \E t \in Persona : <<d.h, t>> \in VerdictPairs
<1>1. d.h \in Persona
  BY DEF Drain
<1>2. /\ Outcomes[d.h] \subseteq Outcome
      /\ Outcomes[d.h] \cap Judging # {} => \E t \in Persona : <<d.h, t>> \in VerdictPairs
  BY <1>1, RunnerAssumption DEF Judging
<1>3. out \in Outcomes[d.h] \/ out \in {"merged", "complete", "other"}
  BY DEF Ends
<1>4. {"merged", "complete", "other"} \cap Judging = {}
      /\ {"merged", "complete", "other"} \subseteq Outcome
  BY DEF Judging, Outcome
<1> QED BY <1>2, <1>3, <1>4

\* The batch of a run, stored.
LEMMA StoredTyped ==
    ASSUME NEW l \in LogRecord, NEW d \in Drain, NEW out \in Outcome \ {"incomplete"},
           NEW n \in Nat
    PROVE  Stored(l, d, out, n) \in LogRecord
<1> DEFINE completed == StoreCompleted(l, d.h, n)
<1>1. d.h \in Persona /\ d.env \in Env
  BY DEF Drain
<1>2. completed \in LogRecord
  BY <1>1, StoreCompletedTyped
<1>3. StoreCompleted(StoreFeedback(l, Developer), d.h, n) \in LogRecord
  BY <1>1, LogAssumption, StoreFeedbackTyped, StoreCompletedTyped
<1>4. /\ StoreVerdict(completed, d.h, d.env, FALSE) \in LogRecord
      /\ StoreVerdict(completed, d.h, d.env, TRUE) \in LogRecord
  BY <1>1, <1>2, StoreVerdictTyped
<1>5. StoreFailed(l, d.h, n) \in LogRecord /\ StoreHint(l, d.h, d.env) \in LogRecord
  BY <1>1, StoreFailedTyped, HintsTyped
<1> HIDE DEF completed
<1>6. /\ out = "complete" => Stored(l, d, out, n) = completed
      /\ out \in {"pass", "advisory"} =>
            Stored(l, d, out, n) = StoreVerdict(completed, d.h, d.env, FALSE)
      /\ out = "fail" => Stored(l, d, out, n) = StoreVerdict(completed, d.h, d.env, TRUE)
      /\ out = "merged" => Stored(l, d, out, n) =
            StoreCompleted(StoreFeedback(l, Developer), d.h, n)
      /\ out \in FailureKind => Stored(l, d, out, n) = StoreFailed(l, d.h, n)
      /\ out \in {"hint", "unsure"} => Stored(l, d, out, n) = StoreHint(l, d.h, d.env)
  BY DEF Stored, completed, FailureKind
<1> QED BY <1>2, <1>3, <1>4, <1>5, <1>6 DEF Outcome, FailureKind

\* What is posted to the engine.
LEMMA LettersTyped ==
    /\ {Requested, Started, Resumed} \subseteq EngineLetter
    /\ \A p \in Persona, own \in BOOLEAN : PersonaCompleted(p, own) \in EngineLetter
    /\ \A p \in Persona, kind \in FailureKind : PersonaFailed(p, kind) \in EngineLetter
    /\ \A p \in Persona : HintRejected(p, "skip") \in EngineLetter
<1>1. {Requested, Started, Resumed} \subseteq AggregateEvent
  BY DEF AggregateEvent
<1>2. \A p \in Persona, own \in BOOLEAN : PersonaCompleted(p, own) \in AggregateEvent
  BY DEF AggregateEvent
<1>3. \A p \in Persona, kind \in FailureKind : PersonaFailed(p, kind) \in AggregateEvent
  BY DEF AggregateEvent
<1>4. \A p \in Persona : HintRejected(p, "skip") \in AggregateEvent
  BY DEF AggregateEvent
<1> QED BY <1>1, <1>2, <1>3, <1>4 DEF EngineLetter

\* The events of a run.
LEMMA PublishedTyped ==
    ASSUME TypesInv, NEW d \in drains, d.at = "publish"
    PROVE  /\ Deliveries(d) \subseteq Wrap
           /\ \A letters \in Letters(d) : letters \in Seq(EngineLetter)
<1>1. /\ d \in Drain /\ d.h \in Persona /\ d.env \in Env /\ Sends(d)
      /\ d.out \in Outcome \ {"incomplete"} /\ runs[d.h] \in Nat
  BY DEF TypesInv, DrainsTyped, Drain, Sends, DataTyped
<1>2. Deliveries(d) \subseteq Wrap
  <2>1. /\ Deliver(Successors(d.h), Emitted(d)) \subseteq Wrap
        /\ Deliver(RetriggeredBy, Envelope("feedback", d.h, runs[d.h])) \subseteq Wrap
    BY <1>1, EnvTypes, DeliverTyped DEF Emitted
  <2>2. \/ Deliveries(d) = {}
        \/ Deliveries(d) = Deliver(Successors(d.h), Emitted(d))
        \/ Deliveries(d) = Deliver(Successors(d.h), Emitted(d)) \cup
                Deliver(RetriggeredBy, Envelope("feedback", d.h, runs[d.h]))
    BY DEF Deliveries
  <2> QED BY <2>1, <2>2
<1>3. /\ PersonaCompleted(d.h, FALSE) \in EngineLetter
      /\ d.out \in FailureKind => PersonaFailed(d.h, d.out) \in EngineLetter
      /\ Hinted(d.h, d.out = "hint", d.env) \in EngineLetter
  <2>1. \A b \in BOOLEAN : Hinted(d.h, b, d.env) \in EngineLetter
    BY <1>1 DEF EngineLetter, Hinted
  <2>2. (d.out = "hint") \in BOOLEAN
    OBVIOUS
  <2> QED BY <1>1, <2>1, <2>2, LettersTyped
<1>4. d.out \in Judging =>
        \A o \in {"pass", "fail"}, adv \in BOOLEAN, f \in Fingerprint :
            Verdict(<<d.h, Target(d.h)>>, o, adv, f) \in EngineLetter
  <2>1. d.out \in Judging => <<d.h, Target(d.h)>> \in VerdictPairs
    BY <1>1 DEF Sends, Target
  <2> QED BY <2>1 DEF EngineLetter, AggregateEvent
<1>5. ASSUME NEW letters \in Letters(d) PROVE letters \in Seq(EngineLetter)
  <2>1. \A x, y \in EngineLetter : <<x>> \in Seq(EngineLetter) /\ <<x, y>> \in Seq(EngineLetter)
    OBVIOUS
  <2>2. CASE d.out \in {"complete", "merged"}
    BY <1>3, <1>5, <2>1, <2>2 DEF Letters
  <2>3. CASE d.out = "pass"
    BY <1>3, <1>4, <1>5, <2>1, <2>3 DEF Letters, Judging
  <2>4. CASE d.out = "fail"
    BY <1>3, <1>4, <1>5, <2>1, <2>4 DEF Letters, Judging
  <2>5. CASE d.out = "advisory"
    BY <1>3, <1>4, <1>5, <2>1, <2>5 DEF Letters, Judging
  <2>6. CASE d.out \in FailureKind
    <3>1. letters = <<PersonaFailed(d.h, d.out)>>
      BY <1>5, <2>6 DEF Letters, FailureKind
    <3> QED BY <1>3, <2>1, <2>6, <3>1
  <2>7. CASE d.out \in {"hint", "unsure"}
    BY <1>3, <1>5, <2>1, <2>7 DEF Letters
  <2> QED BY <1>1, <2>2, <2>3, <2>4, <2>5, <2>6, <2>7 DEF Outcome, FailureKind
<1> QED BY <1>2, <1>5

\* A drain goroutine's step.
LEMMA DrainStepTyped ==
    ASSUME TypesInv, NEW d \in drains, DrainStep(d)
    PROVE  TypesInv'
<1>1. /\ d \in Drain /\ d.h \in Persona /\ d.env \in Env /\ Sends(d) /\ DrainsTyped
      /\ queue \in [Persona -> Seq(Env)] /\ queue[d.h] \in Seq(Env)
      /\ runs \in [Persona -> Nat] /\ runs[d.h] + 1 \in Nat
  BY DEF TypesInv, DrainsTyped, Drain, PlacesTyped, DataTyped
<1>2. \A at \in {"check", "park", "slot", "run"} :
        LET e == [d EXCEPT !.at = at] IN e \in Drain /\ Sends(e) /\ e.at = at
  BY <1>1 DEF Drain, Sends
<1>3. CASE Take(d)
  <2> DEFINE e == [d EXCEPT !.at = "slot", !.env = Head(queue[d.h])]
  <2>1. Head(queue[d.h]) \in Env /\ Tail(queue[d.h]) \in Seq(Env)
    BY <1>1, <1>3 DEF Take
  <2>2. e \in Drain /\ e.at = "slot"
    BY <1>1, <2>1 DEF Drain
  <2>3. Turn(d, e)
    BY <1>3 DEF Take
  <2> HIDE DEF e
  <2>4. DrainsTyped'
    BY <1>1, <2>2, <2>3, TurnTyped DEF Sends, Holding
  <2>5. queue' \in [Persona -> Seq(Env)]
    BY <1>1, <1>3, <2>1 DEF Take
  <2> QED BY <1>3, <2>4, <2>5 DEF TypesInv, PlacesTyped, DataTyped, Take, DrainFrame,
                                   persistent, counters, history
<1>4. CASE Stop(d)
  <2>1. DrainsTyped'
    BY <1>1, <1>4, DrainEnds DEF Stop
  <2> QED BY <1>4, <2>1 DEF TypesInv, PlacesTyped, DataTyped, Stop, DrainFrame,
                             persistent, counters, history
<1>5. CASE FindPaused(d)
  <2>1. DrainsTyped'
    BY <1>1, <1>2, <1>5, TurnTyped DEF FindPaused, Holding
  <2> QED BY <1>5, <2>1 DEF TypesInv, PlacesTyped, DataTyped, FindPaused, DrainFrame,
                             persistent, counters, history
<1>6. CASE ParkQueue(d)
  <2>1. DrainsTyped'
    BY <1>1, <1>6, DrainEnds DEF ParkQueue
  <2>2. \A i \in DOMAIN queue[d.h] : queue[d.h][i] \in Env
    BY <1>1
  <2>3. blocked' \subseteq Persona \X Env
    BY <1>1, <1>6, <2>2 DEF ParkQueue, TypesInv, PlacesTyped
  <2>4. queue' \in [Persona -> Seq(Env)]
    BY <1>1, <1>6 DEF ParkQueue
  <2> QED BY <1>6, <2>1, <2>3, <2>4 DEF TypesInv, PlacesTyped, DataTyped, ParkQueue, DrainFrame,
                                         persistent, counters, history
<1>7. CASE Acquire(d)
  <2> DEFINE e == [d EXCEPT !.at = "run", !.live = TRUE]
  <2>1. e \in Drain /\ Sends(e)
    BY <1>1 DEF Drain, Sends
  <2>2. Turn(d, e) /\ Cardinality(Running) < MaxActive
    BY <1>7 DEF Acquire
  <2> HIDE DEF e
  <2>3. DrainsTyped'
    BY <1>1, <2>1, <2>2, TurnTyped
  <2> QED BY <1>7, <2>3 DEF TypesInv, PlacesTyped, DataTyped, Acquire, DrainFrame,
                             persistent, counters, history
<1>8. ASSUME NEW out \in Outcome, End(d, out) PROVE TypesInv'
  <2> DEFINE e == [d EXCEPT !.at = "publish", !.out = out]
  <2>1. /\ out # "incomplete"
        /\ out \in Judging => \E t \in Persona : <<d.h, t>> \in VerdictPairs
    BY <1>1, <1>8, EndsTyped DEF End
  <2>2. e \in Drain /\ Sends(e)
    BY <1>1, <2>1 DEF Drain, Sends
  <2>3. Turn(d, e) /\ Holding(d)
    BY <1>8 DEF End, Holding
  <2> HIDE DEF e
  <2>4. DrainsTyped'
    BY <1>1, <2>2, <2>3, TurnTyped
  <2>5. paused' \in BOOLEAN
    BY <1>8 DEF End, frontRunAdvisoryPause
  <2>6. log' \in LogRecord /\ runs' \in [Persona -> Nat] /\ faults' \in Nat
    <3>1. Stored(log, d, out, runs[d.h] + 1) \in LogRecord
      BY <1>1, <2>1, StoredTyped DEF TypesInv, DataTyped
    <3> QED BY <1>1, <1>8, <3>1 DEF End, Persist, TypesInv, DataTyped
  <2>7. held' \subseteq Persona \X Nat /\ answered' \subseteq Env
    BY <1>1, <1>8, LogFields DEF End, TypesInv, DataTyped
  <2> QED BY <1>8, <2>4, <2>5, <2>6, <2>7 DEF TypesInv, PlacesTyped, DataTyped, End
<1>9. CASE EndIncomplete(d)
  <2>1. DrainsTyped'
    BY <1>1, <1>2, <1>9, TurnTyped DEF EndIncomplete, Holding
  <2> QED BY <1>1, <1>9, <2>1 DEF TypesInv, PlacesTyped, DataTyped, EndIncomplete,
                                   persistent, counters
<1>10. CASE EndCancelled(d)
  <2>1. DrainsTyped'
    BY <1>1, <1>2, <1>10, TurnTyped DEF EndCancelled, Holding
  <2> QED BY <1>10, <2>1 DEF TypesInv, PlacesTyped, DataTyped, EndCancelled, DrainFrame,
                              persistent, counters, history
<1>11. CASE Publish(d)
  <2>1. DrainsTyped'
    BY <1>1, <1>2, <1>11, TurnTyped DEF Publish, Holding
  <2>2. wraps' \subseteq Wrap
    BY <1>11, PublishedTyped DEF Publish, TypesInv, PlacesTyped
  <2>3. mail' \in Seq(EngineLetter)
    <3>1. PICK letters \in Letters(d) : mail' = mail \o letters
      BY <1>11 DEF Publish
    <3>2. letters \in Seq(EngineLetter) /\ mail \in Seq(EngineLetter)
      BY <1>11, PublishedTyped DEF Publish, TypesInv, DataTyped
    <3> QED BY <3>1, <3>2
  <2> QED BY <1>11, <2>1, <2>2, <2>3 DEF TypesInv, PlacesTyped, DataTyped, Publish,
                                          persistent, counters, history
<1> QED BY <1>3, <1>4, <1>5, <1>6, <1>7, <1>8, <1>9, <1>10, <1>11 DEF DrainStep

\* What the engine's answer leaves behind.
AnswerTyped ==
    /\ log' \in LogRecord /\ runs' \in [Persona -> Nat] /\ wraps' \subseteq Wrap
    /\ cached' \in BOOLEAN /\ paused' \in BOOLEAN
    /\ mail' \in Seq(EngineLetter) /\ inbox' \subseteq Message

LEMMA EngineTyped == TypesInv /\ Engine => TypesInv'
<1> SUFFICES ASSUME TypesInv, Engine PROVE TypesInv'
  OBVIOUS
<1> DEFINE e == Head(mail)
<1>1. /\ agg \in Aggregate /\ log \in LogRecord /\ mail \in Seq(EngineLetter)
      /\ runs \in [Persona -> Nat] /\ wraps \subseteq Wrap /\ inbox \subseteq Message
      /\ cached \in BOOLEAN /\ paused \in BOOLEAN
  BY DEF TypesInv, DataTyped, PlacesTyped
<1>2. e \in EngineLetter /\ Tail(mail) \in Seq(EngineLetter)
  BY <1>1 DEF Engine
<1>3. PICK d \in Decide(Track(agg, e), e) : agg' = Handled(agg, e, d) /\ Answer(d, e)
  BY DEF Engine
<1> HIDE DEF e
<1>4. agg' \in Aggregate /\ Answered(d)
      /\ (d = Approved => e.type = "HintEmitted" /\ e.on \in Env)
  BY <1>1, <1>2, <1>3, TypedHandled
<1>5. e.type = "HintEmitted" => e.persona \in Persona
  BY <1>2, LetterCases, LetterTypes
<1>6. AnswerTyped
  <2>1. CASE d = Started
    <3>1. d.type = "WorkflowStarted"
      BY <2>1, LetterTypes
    <3>2. Deliver(Roots, WorkflowStartedEnv) \subseteq Wrap
      BY EnvTypes, DeliverTyped
    <3> QED BY <1>1, <1>2, <1>3, <3>1, <3>2 DEF Answer, AnswerTyped
  <2>2. CASE d = Nothing
    <3>1. d.type = "none"
      BY <2>2 DEF Nothing
    <3> QED BY <1>1, <1>2, <1>3, <3>1 DEF Answer, AnswerTyped
  <2>3. CASE d \in {WorkflowDone, WorkflowFailed}
    <3>1. d.type \in {"WorkflowCompleted", "WorkflowFailed"}
      BY <2>3 DEF WorkflowDone, WorkflowFailed
    <3>2. Post("evict", None, WorkflowStartedEnv) \in Message
      BY EnvTypes DEF Post, Message
    <3> QED BY <1>1, <1>2, <1>3, <3>1, <3>2 DEF Answer, AnswerTyped
  <2>4. CASE d = Approved
    <3>1. d.type = "HintApproved"
      BY <2>4 DEF Approved
    <3>2. Post("approved", e.persona, e.on) \in Message
      BY <1>4, <1>5, <2>4 DEF Post, Message
    <3>3. WithoutHint(log, e.persona) \in LogRecord
      BY <1>1, <1>4, <1>5, <2>4, HintsTyped
    <3> QED BY <1>1, <1>2, <1>3, <3>1, <3>2, <3>3 DEF Answer, AnswerTyped
  <2>5. CASE \E t, s, r \in Persona \cup {None} : d = Paused(t, s, r)
    <3>1. d.type = "WorkflowPaused"
      BY <2>5 DEF Paused
    <3> QED BY <1>1, <1>2, <1>3, <3>1 DEF Answer, AnswerTyped
  <2>6. ASSUME NEW p \in Persona, NEW automatic \in BOOLEAN, d = Retried(p, automatic)
        PROVE  AnswerTyped
    <3>1. d.type = "WorkflowRetried" /\ d.persona = p
      BY <2>6 DEF Retried
    <3>2. Post("retry", d.persona, WorkflowStartedEnv) \in Message
      BY <3>1, EnvTypes DEF Post, Message
    <3> QED BY <1>1, <1>2, <1>3, <3>1, <3>2 DEF Answer, AnswerTyped
  <2>7. ASSUME NEW t \in Persona, NEW s \in Persona \cup {None}, d = Feedback(t, s)
        PROVE  AnswerTyped
    <3>1. d.type = "FeedbackGenerated" /\ d.target = t
      BY <2>7 DEF Feedback
    <3>2. StoreFeedback(log, d.target) \in LogRecord
      BY <1>1, <3>1, StoreFeedbackTyped
    <3>3. log.feedback + 1 \in Nat
      BY <1>1, LogFields
    <3>4. Deliver(RetriggeredBy, Envelope("feedback", None, log.feedback + 1)) \subseteq Wrap
      BY <3>3, EnvTypes, DeliverTyped
    <3> QED BY <1>1, <1>2, <1>3, <3>1, <3>2, <3>4 DEF Answer, AnswerTyped
  <2>8. ASSUME NEW p \in Persona, d = PersonaCompleted(p, TRUE)
        PROVE  AnswerTyped
    <3>1. /\ d.type = "PersonaCompleted" /\ d.persona = p
          /\ d \in EngineLetter
      <4>1. d.type = "PersonaCompleted" /\ d.persona = p
        BY <2>8 DEF PersonaCompleted
      <4>2. TRUE \in BOOLEAN
        OBVIOUS
      <4>3. PersonaCompleted(p, TRUE) \in EngineLetter
        BY <4>2, LettersTyped
      <4> QED BY <2>8, <4>1, <4>3
    <3>2. runs[p] + 1 \in Nat
      BY <1>1
    <3>3. StoreCompleted(log, p, runs[p] + 1) \in LogRecord
      BY <1>1, <3>2, StoreCompletedTyped
    <3>4. Deliver(Successors(p), Envelope("completed", p, runs[p] + 1)) \subseteq Wrap
      BY <3>2, EnvTypes, DeliverTyped
    <3>5. Append(Tail(mail), d) \in Seq(EngineLetter)
      BY <1>2, <3>1
    <3>6. [runs EXCEPT ![p] = @ + 1] \in [Persona -> Nat]
      BY <1>1
    <3> QED BY <1>1, <1>3, <3>1, <3>3, <3>4, <3>5, <3>6 DEF Answer, AnswerTyped
  <2> QED BY <1>4, <2>1, <2>2, <2>3, <2>4, <2>5, <2>6, <2>7, <2>8 DEF Answered
<1> QED BY <1>4, <1>6, DrainsUnchanged 
        DEF TypesInv, PlacesTyped, DataTyped, AnswerTyped, Engine, counters, history

\* The runner's own subscriptions.
LEMMA SubscriptionsTyped ==
    ASSUME TypesInv,
           \/ OnResumed \/ OnCancelled \/ OnTerminal
           \/ \E p \in Persona : OnRetried(p) \/ OnApproved(p)
    PROVE  TypesInv'
<1>1. CASE OnResumed
  <2>1. {[h |-> b[1], env |-> b[2], at |-> "wrap"] : b \in blocked} \subseteq Wrap
    BY DEF TypesInv, PlacesTyped, Wrap
  <2>2. /\ seen' = [events |-> seen'.events, joins |-> seen'.joins]
        /\ seen'.events \subseteq Persona \X Env /\ seen'.joins = seen.joins
    BY <1>1 DEF OnResumed, TypesInv, PlacesTyped
  <2> QED BY <1>1, <2>1, <2>2, DrainsUnchanged
          DEF OnResumed, TypesInv, PlacesTyped, DataTyped, persistent, counters
<1>2. CASE OnCancelled
  BY <1>2, InterruptedTyped
     DEF OnCancelled, TypesInv, PlacesTyped, DataTyped, persistent, counters, history
<1>3. CASE OnTerminal
  BY <1>3, InterruptedTyped
     DEF OnTerminal, TypesInv, PlacesTyped, DataTyped, persistent, counters, history
<1>4. ASSUME NEW p \in Persona, OnRetried(p) PROVE TypesInv'
  <2>1. mail' \in Seq(EngineLetter)
    <3>1. PersonaFailed(p, "other") \in EngineLetter
      BY LettersTyped DEF FailureKind
    <3>2. Append(mail, PersonaFailed(p, "other")) \in Seq(EngineLetter)
      BY <3>1 DEF TypesInv, DataTyped
    <3>3. mail' = mail \/ mail' = Append(mail, PersonaFailed(p, "other"))
      BY <1>4 DEF OnRetried
    <3> QED BY <3>2, <3>3 DEF TypesInv, DataTyped
  <2>2. queue' \in [Persona -> Seq(Env)] /\ draining' \subseteq Persona /\ DrainsTyped'
    <3>1. CASE UNCHANGED <<queue, draining, drains>>
      BY <3>1, DrainsUnchanged DEF TypesInv, PlacesTyped
    <3>2. ASSUME NEW env \in RetryTriggers(log, p), Enqueue(p, env, "plain")
          PROVE  queue' \in [Persona -> Seq(Env)] /\ draining' \subseteq Persona /\ DrainsTyped'
      <4>1. env \in Env
        BY <3>2, TriggersTyped DEF TypesInv, DataTyped
      <4> QED BY <3>2, <4>1, EnqueueTyped
    <3> QED BY <1>4, <3>1, <3>2 DEF OnRetried
  <2>3. paused' \in BOOLEAN /\ blocked' \subseteq Persona \X Env /\ held' \subseteq Persona \X Nat
    BY <1>4 DEF OnRetried, TypesInv, PlacesTyped, DataTyped
  <2>4. /\ inbox' \subseteq inbox /\ cached' = TRUE
        /\ UNCHANGED <<persistent, wraps, seen, counters, answered, waiting>>
    BY <1>4 DEF OnRetried
  <2> QED BY <2>1, <2>2, <2>3, <2>4 DEF TypesInv, PlacesTyped, DataTyped, persistent, counters
<1>5. ASSUME NEW p \in Persona, OnApproved(p) PROVE TypesInv'
  <2>1. PICK m \in inbox :
            /\ inbox' = inbox \ {m}
            /\ seen' = [seen EXCEPT !.events = @ \ {<<p, m.env>>}]
            /\ Enqueue(p, Envelope("approved", p, runs[p]), "approved")
            /\ UNCHANGED <<persistent, wraps, cached, paused, blocked, mail, counters, history>>
    BY <1>5 DEF OnApproved
  <2>2. Envelope("approved", p, runs[p]) \in Env
    BY EnvTypes DEF TypesInv, DataTyped
  <2>3. queue' \in [Persona -> Seq(Env)] /\ draining' \subseteq Persona /\ DrainsTyped'
    BY <2>1, <2>2, EnqueueTyped
  <2>4. /\ seen' = [events |-> seen'.events, joins |-> seen'.joins]
        /\ seen'.events \subseteq Persona \X Env /\ seen'.joins = seen.joins
    BY <2>1 DEF TypesInv, PlacesTyped
  <2> QED BY <2>1, <2>3, <2>4
          DEF TypesInv, PlacesTyped, DataTyped, persistent, counters, history
<1> QED BY <1>1, <1>2, <1>3, <1>4, <1>5

\* Operators.
LEMMA OperatorTyped == TypesInv /\ Operator => TypesInv'
<1> SUFFICES ASSUME TypesInv, Operator PROVE TypesInv'
  OBVIOUS
<1>1. /\ UNCHANGED <<runs, wraps, seen, cached, blocked, queue, draining, drains,
                     faults, restarts, history>>
      /\ asked' = asked + 1
  BY DEF Operator, PauseWorkflow, ResumeWorkflow, CancelWorkflow, ApproveHint, RejectHint, Command
<1>2. /\ agg \in Aggregate /\ log \in LogRecord /\ mail \in Seq(EngineLetter)
      /\ inbox \subseteq Message /\ paused \in BOOLEAN
  BY DEF TypesInv, DataTyped, PlacesTyped
<1>3. /\ Apply(agg, Paused(None, None, None)) \in Aggregate
      /\ Apply(agg, Resumed) \in Aggregate /\ Apply(agg, Cancelled) \in Aggregate
  <2>1. Answered(Paused(None, None, None))
    BY DEF Answered
  <2>2. /\ Apply(agg, Resumed) = [agg EXCEPT !.status = "running"]
        /\ Apply(agg, Cancelled) = [agg EXCEPT !.status = "cancelled"]
    BY DEF Apply, Resumed, Cancelled
  <2> QED BY <1>2, <2>1, <2>2, TypedApply, TypedStatus DEF Status
<1>4. \A type \in {"resume", "cancel", "evict"} : Post(type, None, WorkflowStartedEnv) \in Message
  BY EnvTypes DEF Post, Message
<1>5. \A k \in log.hints :
        /\ WithoutHint(log, k[1]) \in LogRecord
        /\ Post("approved", k[1], k[2]) \in Message
        /\ HintRejected(k[1], "skip") \in EngineLetter
  <2> SUFFICES ASSUME NEW k \in log.hints
               PROVE  /\ WithoutHint(log, k[1]) \in LogRecord
                      /\ Post("approved", k[1], k[2]) \in Message
                      /\ HintRejected(k[1], "skip") \in EngineLetter
    OBVIOUS
  <2>1. k[1] \in Persona /\ k[2] \in Env
    BY <1>2, LogFields
  <2> QED BY <1>2, <2>1, HintsTyped, LettersTyped DEF Post, Message
<1>6. ASSUME NEW letters \in Seq(EngineLetter), NEW messages \in SUBSET Message,
             ResumeWith(letters, messages)
      PROVE  agg' \in Aggregate /\ mail' \in Seq(EngineLetter) /\ inbox' \subseteq Message
  <2>1. Append(letters, Resumed) \in Seq(EngineLetter)
    BY LettersTyped
  <2>2. mail \o Append(letters, Resumed) \in Seq(EngineLetter)
    BY <1>2, <2>1
  <2> QED BY <1>2, <1>3, <1>4, <1>6, <2>2 DEF ResumeWith
<1>7. /\ agg' \in Aggregate /\ log' \in LogRecord /\ mail' \in Seq(EngineLetter)
      /\ inbox' \subseteq Message /\ paused' \in BOOLEAN
  <2>0. <<>> \in Seq(EngineLetter) /\ {} \in SUBSET Message
    OBVIOUS
  <2>1. CASE PauseWorkflow
    BY <1>2, <1>3, <2>1 DEF PauseWorkflow
  <2>2. CASE ResumeWorkflow
    BY <1>2, <1>6, <2>0, <2>2 DEF ResumeWorkflow
  <2>3. CASE CancelWorkflow
    BY <1>2, <1>3, <1>4, <2>3 DEF CancelWorkflow
  <2>4. CASE ApproveHint
    <3>1. PICK k \in log.hints :
            /\ log' = WithoutHint(log, k[1]) /\ paused' = paused
            /\ \/ ResumeWith(<<>>, {Post("approved", k[1], k[2])})
               \/ /\ inbox' = inbox \cup {Post("approved", k[1], k[2])}
                  /\ UNCHANGED <<agg, mail>>
      BY <2>4 DEF ApproveHint
    <3>2. {Post("approved", k[1], k[2])} \in SUBSET Message
      BY <1>5
    <3> QED BY <1>2, <1>5, <1>6, <2>0, <3>1, <3>2
  <2>5. CASE RejectHint
    <3>1. PICK k \in log.hints :
            /\ log' = WithoutHint(log, k[1]) /\ paused' = paused
            /\ \/ ResumeWith(<<HintRejected(k[1], "skip")>>, {})
               \/ /\ mail' = Append(mail, HintRejected(k[1], "skip"))
                  /\ UNCHANGED <<agg, inbox>>
      BY <2>5 DEF RejectHint
    <3>2. /\ <<HintRejected(k[1], "skip")>> \in Seq(EngineLetter)
          /\ Append(mail, HintRejected(k[1], "skip")) \in Seq(EngineLetter)
      BY <1>2, <1>5
    <3> QED BY <1>2, <1>5, <1>6, <2>0, <3>1, <3>2
  <2> QED BY <2>1, <2>2, <2>3, <2>4, <2>5 DEF Operator
<1> QED BY <1>1, <1>7, DrainsUnchanged DEF TypesInv, PlacesTyped, DataTyped, history

\* A restart.
LEMMA RestartTyped == TypesInv /\ Restart => TypesInv'
<1> SUFFICES ASSUME TypesInv, Restart PROVE TypesInv'
  OBVIOUS
<1> DEFINE candidate == agg.status \in {"running", "paused"}
           onhold == candidate /\ (agg.status = "paused" \/ log.hints # {})
           done == Required \subseteq agg.completed /\ log.last # None
           republished == candidate /\ ~onhold /\ done
           go == IF candidate /\ ~onhold /\ ~done THEN Ready ELSE {}
           back == Envelope("completed", log.last, log.stored[log.last])
<1>1. agg \in Aggregate /\ log \in LogRecord /\ log.last \in Persona \cup {None}
  BY LogFields DEF TypesInv, DataTyped
<1>2. go \subseteq Persona
  BY DefAssumption DEF Ready
<1>3. log.last # None =>
        /\ PersonaCompleted(log.last, FALSE) \in EngineLetter
        /\ Deliver(Successors(log.last), back) \subseteq Wrap
  <2> SUFFICES ASSUME log.last # None
               PROVE  /\ PersonaCompleted(log.last, FALSE) \in EngineLetter
                      /\ Deliver(Successors(log.last), back) \subseteq Wrap
    OBVIOUS
  <2>1. log.last \in Persona /\ log.stored[log.last] \in Nat
    BY <1>1, LogFields
  <2>2. back \in Env
    BY <2>1, EnvTypes
  <2> QED BY <2>1, <2>2, LettersTyped, DeliverTyped
<1>4. /\ cached' = candidate /\ paused' = onhold
      /\ mail' = IF republished THEN <<PersonaCompleted(log.last, FALSE)>> ELSE <<>>
      /\ wraps' = IF republished THEN Deliver(Successors(log.last), back) ELSE {}
      /\ draining' = go /\ drains' = {NewDrain(p, "plain") : p \in go}
      /\ seen' = [events |-> {}, joins |-> {}]
      /\ blocked' = {} /\ inbox' = {} /\ held' = {}
      /\ restarts' = restarts + 1
      /\ UNCHANGED <<persistent, asked, faults, answered, waiting>>
  BY DEF Restart
<1>5. PICK env \in [go -> UNION {EligibleOn(log, agg, p) : p \in go}] :
        /\ \A p \in go : env[p] \in EligibleOn(log, agg, p)
        /\ queue' = [p \in Persona |-> IF p \in go THEN <<env[p]>> ELSE <<>>]
  BY DEF Restart
<1>6. republished => log.last # None
  OBVIOUS
<1>7. cached' \in BOOLEAN /\ paused' \in BOOLEAN
  BY <1>4
<1> HIDE DEF candidate, onhold, done, republished, go, back
<1>8. mail' \in Seq(EngineLetter) /\ wraps' \subseteq Wrap
  <2>1. CASE republished
    <3>1. /\ PersonaCompleted(log.last, FALSE) \in EngineLetter
          /\ Deliver(Successors(log.last), back) \subseteq Wrap
      BY <1>3, <1>6, <2>1
    <3>2. mail' = <<PersonaCompleted(log.last, FALSE)>>
          /\ wraps' = Deliver(Successors(log.last), back)
      BY <1>4, <2>1
    <3>3. \A letter \in EngineLetter : <<letter>> \in Seq(EngineLetter)
      OBVIOUS
    <3>4. <<PersonaCompleted(log.last, FALSE)>> \in Seq(EngineLetter)
      BY <3>1, <3>3
    <3>5. mail' \in Seq(EngineLetter)
      BY <3>2, <3>4
    <3>6. wraps' \subseteq Wrap
      BY <3>1, <3>2
    <3> QED BY <3>5, <3>6
  <2>2. CASE ~republished
    BY <1>4, <2>2
  <2> QED BY <2>1, <2>2
<1>9. queue' \in [Persona -> Seq(Env)]
  <2>1. \A p \in go : env[p] \in Env
    BY <1>1, <1>5, TriggersTyped
  <2>2. <<>> \in Seq(Env) /\ \A p \in go : <<env[p]>> \in Seq(Env)
    BY <2>1
  <2> QED BY <1>5, <2>2
<1>10. DrainsTyped'
  <2>1. /\ drains' \subseteq Drain /\ (\A d \in drains' : Sends(d))
        /\ \A d \in drains' : ~Holding(d)
    BY <1>2, <1>4, NewDrainTyped
  <2>2. Running' \subseteq Running
    BY <2>1 DEF Running, Holding
  <2> QED BY <2>1, <2>2, FewerHolding DEF TypesInv
<1>11. PlacesTyped'
  <2>1. /\ seen' = [events |-> seen'.events, joins |-> seen'.joins]
        /\ seen'.events \subseteq Persona \X Env
        /\ \A k \in seen'.joins : k[1] \in Persona
    BY <1>4
  <2>2. blocked' \subseteq Persona \X Env /\ draining' \subseteq Persona
    BY <1>2, <1>4
  <2> QED BY <1>7, <1>8, <1>9, <2>1, <2>2 DEF PlacesTyped
<1>12. DataTyped'
  <2>1. /\ agg \in Aggregate /\ log \in LogRecord /\ runs \in [Persona -> Nat]
        /\ asked \in Nat /\ faults \in Nat /\ restarts \in Nat
        /\ answered \subseteq Env /\ waiting \subseteq Persona
    BY DEF TypesInv, DataTyped
  <2>2. UNCHANGED <<agg, log, runs, asked, faults, answered, waiting>>
    BY <1>4 DEF persistent
  <2>3. /\ inbox' \subseteq Message /\ held' \subseteq Persona \X Nat
        /\ restarts' \in Nat
    BY <1>4, <2>1
  <2> QED BY <1>8, <2>1, <2>2, <2>3 DEF DataTyped
<1> QED BY <1>10, <1>11, <1>12 DEF TypesInv

LEMMA InitTyped == Init => TypesInv
<1> SUFFICES ASSUME Init PROVE TypesInv
  OBVIOUS
<1>1. agg \in Aggregate
  BY DEF Init, NewWorkflowAggregate, Aggregate, Status
<1>2. log \in LogRecord
  BY NewLogTyped DEF Init
<1>3. mail \in Seq(EngineLetter)
  BY LettersTyped DEF Init
<1>4. DrainsTyped
  <2>1. Running = {} /\ drains = {}
    BY DEF Init, Running
  <2> QED BY <2>1, FS_EmptySet, RunnerAssumption DEF DrainsTyped
<1>5. queue \in [Persona -> Seq(Env)]
  BY DEF Init
<1> QED BY <1>1, <1>2, <1>3, <1>4, <1>5 DEF Init, TypesInv, PlacesTyped, DataTyped

LEMMA NextTyped == TypesInv /\ [Next]_vars => TypesInv'
<1> SUFFICES ASSUME TypesInv, [Next]_vars PROVE TypesInv'
  OBVIOUS
<1>1. ASSUME NEW w \in wraps, Drop(w) \/ Admit(w) \/ Park(w) \/ JoinError(w) PROVE TypesInv'
  BY <1>1, WrapStepTyped
<1>2. ASSUME NEW d \in drains, DrainStep(d) PROVE TypesInv'
  BY <1>2, DrainStepTyped
<1>3. CASE Engine
  BY <1>3, EngineTyped
<1>4. CASE OnResumed \/ OnCancelled \/ OnTerminal
           \/ \E p \in Persona : OnRetried(p) \/ OnApproved(p)
  BY <1>4, SubscriptionsTyped
<1>5. CASE Operator
  BY <1>5, OperatorTyped
<1>6. CASE Restart
  BY <1>6, RestartTyped
<1>7. CASE UNCHANGED vars
  BY <1>7, DrainsUnchanged DEF TypesInv, PlacesTyped, DataTyped, vars, persistent,
                               dispatch, counters, history
<1> QED BY <1>1, <1>2, <1>3, <1>4, <1>5, <1>6, <1>7 DEF Next, Progress

\* Everything the runner keeps is well typed, and no more of its goroutines
\* hold a slot than there are: whatever the definition and the outcomes of the
\* handlers, the engine only finds events in its channel that it can decide
\* upon, every queue holds envelopes, and every verdict is aimed at somebody.
THEOREM TypeCorrect == Spec => []TypeOK
<1>1. TypesInv => TypeOK
  <2> SUFFICES ASSUME TypesInv PROVE TypeOK
    OBVIOUS
  <2>1. Cardinality(Running) \in 0..MaxActive
    <3>1. Cardinality(Running) \in Nat /\ Cardinality(Running) <= MaxActive /\ MaxActive \in Nat
      BY FS_CardinalityType, RunnerAssumption DEF TypesInv, DrainsTyped
    <3> QED BY <3>1
  <2>2. /\ log.latest \in [Persona -> Nat] /\ log.stored \in [Persona -> Nat]
        /\ log.stale \cup log.failing \cup log.since \subseteq Persona
        /\ log.hints \subseteq Persona \X Env
    BY LogFields DEF TypesInv, DataTyped
  <2> QED BY <2>1, <2>2 DEF TypesInv, PlacesTyped, DrainsTyped, DataTyped, TypeOK, Wrap
<1> QED BY InitTyped, NextTyped, <1>1, PTL DEF Spec
-----------------------------------------------------------------------------
(* Priorities *)

Sorted(items) ==
    \A i, j \in DOMAIN items : i < j => Priority(items[i]) <= Priority(items[j])

LEMMA PriorityNat == \A env \in Env : Priority(env) \in Nat
BY DEF Priority, Env

\* A push into a sorted queue leaves everything in its order, with the new item
\* behind all that is as urgent and before all that is less.
LEMMA PushPlace ==
    ASSUME NEW items \in Seq(Env), NEW env \in Env, Sorted(items)
    PROVE  LET n == Len(items)
               ahead(i) == Priority(items[i]) <= Priority(env)
               new == Push(items, env)
           IN  /\ \A i \in 1..n : ahead(i) => new[i] = items[i]
               /\ \A i \in 1..n : ~ahead(i) => new[i + 1] = items[i]
               /\ \A i \in 1..(n + 1) :
                     (i > 1 => ahead(i - 1)) /\ (i <= n => ~ahead(i)) => new[i] = env
<1> DEFINE behind(i) == \E j \in 1..i : Priority(items[j]) > Priority(env)
           ahead(i) == Priority(items[i]) <= Priority(env)
           n == Len(items)
<1>1. /\ n \in Nat /\ DOMAIN items = 1..n
      /\ Priority(env) \in Nat /\ \A i \in 1..n : Priority(items[i]) \in Nat
  BY PriorityNat
<1>2. \A i \in 1..n : behind(i) <=> ~ahead(i)
  BY <1>1 DEF Sorted
<1>3. \A i \in 1..(n + 1) :
        Push(items, env)[i] =
            IF i <= n /\ ~behind(i) THEN items[i]
            ELSE IF i = 1 \/ ~behind(i - 1) THEN env ELSE items[i - 1]
  BY DEF Push
<1>4. \A i \in 1..n, j \in 1..n : i <= j /\ behind(i) => behind(j)
  BY <1>1
<1> HIDE DEF behind, ahead, n
<1>5. ASSUME NEW i \in 1..n, ahead(i) PROVE Push(items, env)[i] = items[i]
  BY <1>1, <1>2, <1>3, <1>5
<1>6. ASSUME NEW i \in 1..n, ~ahead(i) PROVE Push(items, env)[i + 1] = items[i]
  <2>1. i + 1 \in 1..(n + 1) /\ i + 1 # 1 /\ (i + 1) - 1 = i
    BY <1>1
  <2>2. behind(i) /\ (i + 1 <= n => behind(i + 1))
    BY <1>1, <1>2, <1>4, <1>6
  <2> QED BY <1>3, <2>1, <2>2
<1>7. ASSUME NEW i \in 1..(n + 1), i > 1 => ahead(i - 1), i <= n => ~ahead(i)
      PROVE  Push(items, env)[i] = env
  <2>1. i = 1 \/ ~behind(i - 1)
    BY <1>1, <1>2, <1>7
  <2>2. ~(i <= n /\ ~behind(i))
    BY <1>1, <1>2, <1>7
  <2> QED BY <1>3, <2>1, <2>2
<1> QED BY <1>5, <1>6, <1>7 DEF n, ahead

\* So it stays sorted.
LEMMA PushSorted ==
    ASSUME NEW items \in Seq(Env), NEW env \in Env, Sorted(items)
    PROVE  Sorted(Push(items, env))
<1> DEFINE ahead(i) == Priority(items[i]) <= Priority(env)
           n == Len(items)
           new == Push(items, env)
           p(i) == Priority(items[i])
<1>1. /\ n \in Nat /\ DOMAIN new = 1..(n + 1)
      /\ Priority(env) \in Nat /\ \A i \in 1..n : p(i) \in Nat
  BY PriorityNat DEF Push
<1>2. /\ \A i \in 1..n : ahead(i) => new[i] = items[i]
      /\ \A i \in 1..n : ~ahead(i) => new[i + 1] = items[i]
      /\ \A i \in 1..(n + 1) :
            (i > 1 => ahead(i - 1)) /\ (i <= n => ~ahead(i)) => new[i] = env
  BY PushPlace
<1>3. \A i \in 1..n, j \in 1..n : i <= j => p(i) <= p(j)
  BY <1>1 DEF Sorted
<1> HIDE DEF n, new
\* Each place holds an old item that was there, the new one, or an old one
\* that was before it.
<1>4. ASSUME NEW i \in 1..(n + 1)
      PROVE  \/ i <= n /\ new[i] = items[i] /\ p(i) <= Priority(env)
             \/ /\ new[i] = env
                /\ i > 1 => p(i - 1) <= Priority(env)
                /\ i <= n => p(i) > Priority(env)
             \/ i > 1 /\ new[i] = items[i - 1] /\ p(i - 1) > Priority(env)
  <2>1. CASE i <= n /\ ahead(i)
    BY <1>1, <1>2, <2>1
  <2>2. CASE i > 1 /\ ~ahead(i - 1)
    <3>1. i - 1 \in 1..n /\ (i - 1) + 1 = i
      BY <1>1, <2>2
    <3> QED BY <1>1, <1>2, <2>2, <3>1
  <2>3. CASE (i > 1 => ahead(i - 1)) /\ (i <= n => ~ahead(i))
    <3>1. i <= n => p(i) > Priority(env)
      BY <1>1, <2>3
    <3> QED BY <1>2, <2>3, <3>1
  <2> QED BY <2>1, <2>2, <2>3
<1>5. ASSUME NEW i \in 1..(n + 1), NEW j \in 1..(n + 1), i < j
      PROVE  Priority(new[i]) <= Priority(new[j])
  <2> DEFINE q == Priority(env)
  <2>1. /\ i > 1 => i - 1 \in 1..n
        /\ j - 1 \in 1..n /\ i <= n /\ i <= j - 1
        /\ i > 1 => p(i - 1) <= p(j - 1)
        /\ i > 1 /\ j <= n => p(i - 1) <= p(j)
        /\ j <= n => p(i) <= p(j)
        /\ p(i) <= p(j - 1)
    BY <1>1, <1>3, <1>5
  <2>2. q \in Nat /\ p(i) \in Nat /\ p(j - 1) \in Nat /\ (j <= n => p(j) \in Nat)
        /\ (i > 1 => p(i - 1) \in Nat)
    BY <1>1, <2>1
  <2>3. \/ Priority(new[i]) = p(i) /\ p(i) <= q
        \/ Priority(new[i]) = q /\ (i > 1 => p(i - 1) <= q) /\ p(i) > q
        \/ i > 1 /\ Priority(new[i]) = p(i - 1) /\ p(i - 1) > q
    BY <1>4, <2>1
  <2>4. \/ j <= n /\ Priority(new[j]) = p(j) /\ p(j) <= q
        \/ Priority(new[j]) = q /\ p(j - 1) <= q
        \/ Priority(new[j]) = p(j - 1) /\ p(j - 1) > q
    BY <1>4, <1>5
  <2>5. Priority(new[i]) \in Nat /\ Priority(new[j]) \in Nat
    BY <2>2, <2>3, <2>4
  <2> DEFINE a == Priority(new[i])
             b == Priority(new[j])
  <2> HIDE DEF p, q, a, b
  <2>6. CASE a = p(i) /\ p(i) <= q
    BY <2>1, <2>2, <2>4, <2>6 DEF a, b
  <2>7. CASE a = q /\ (i > 1 => p(i - 1) <= q) /\ p(i) > q
    BY <2>1, <2>2, <2>4, <2>7 DEF a, b
  <2>8. CASE i > 1 /\ a = p(i - 1) /\ p(i - 1) > q
    BY <2>1, <2>2, <2>4, <2>8 DEF a, b
  <2> QED BY <2>3, <2>6, <2>7, <2>8 DEF a, b
<1> QED BY <1>1, <1>5 DEF Sorted, new

LEMMA TailSorted ==
    ASSUME NEW items \in Seq(Env), items # <<>>, Sorted(items)
    PROVE  Sorted(Tail(items))
<1>1. /\ Len(items) \in Nat \ {0} /\ DOMAIN items = 1..Len(items)
      /\ DOMAIN Tail(items) = 1..(Len(items) - 1)
      /\ \A i \in 1..(Len(items) - 1) : Tail(items)[i] = items[i + 1]
  OBVIOUS
<1> SUFFICES ASSUME NEW i \in 1..(Len(items) - 1), NEW j \in 1..(Len(items) - 1), i < j
             PROVE  Priority(Tail(items)[i]) <= Priority(Tail(items)[j])
  BY <1>1 DEF Sorted
<1>2. i + 1 \in 1..Len(items) /\ j + 1 \in 1..Len(items) /\ i + 1 < j + 1
  BY <1>1
<1> QED BY <1>1, <1>2 DEF Sorted

QueuesSorted == \A p \in Persona : Sorted(queue[p])

LEMMA NextSorted ==
    ASSUME TypesInv, QueuesSorted, [Next]_vars
    PROVE  QueuesSorted'
<1>1. /\ queue \in [Persona -> Seq(Env)]
      /\ wraps \subseteq Wrap /\ drains \subseteq Drain
      /\ log \in LogRecord /\ agg \in Aggregate /\ runs \in [Persona -> Nat]
  BY DEF TypesInv, PlacesTyped, DrainsTyped, DataTyped
<1>2. Sorted(<<>>) /\ \A env : Sorted(<<env>>)
  BY DEF Sorted
<1>3. ASSUME NEW h \in Persona, NEW items, queue' = [queue EXCEPT ![h] = items],
             Sorted(items)
      PROVE  QueuesSorted'
  BY <1>1, <1>3 DEF QueuesSorted
<1>4. ASSUME NEW h \in Persona, NEW env \in Env, NEW kind, Enqueue(h, env, kind)
      PROVE  QueuesSorted'
  <2>1. queue' = [queue EXCEPT ![h] = Push(queue[h], env)]
    BY <1>4 DEF Enqueue
  <2>2. Sorted(Push(queue[h], env))
    BY <1>1, PushSorted DEF QueuesSorted
  <2> QED BY <1>3, <2>1, <2>2
<1>5. CASE UNCHANGED queue
  BY <1>5 DEF QueuesSorted
<1>6. ASSUME NEW w \in wraps, Drop(w) \/ Admit(w) \/ Park(w) \/ JoinError(w)
      PROVE  QueuesSorted'
  <2>1. w.h \in Persona /\ w.env \in Env
    BY <1>1 DEF Wrap
  <2>2. CASE Admit(w)
    BY <1>4, <1>5, <2>1, <2>2 DEF Admit
  <2> QED BY <1>5, <1>6, <2>2 DEF Drop, Park, JoinError
<1>7. ASSUME NEW d \in drains, DrainStep(d) PROVE QueuesSorted'
  <2>1. d.h \in Persona
    BY <1>1 DEF Drain
  <2>2. CASE Take(d)
    <3>1. queue[d.h] # <<>> /\ queue' = [queue EXCEPT ![d.h] = Tail(queue[d.h])]
      BY <2>2 DEF Take
    <3>2. Sorted(Tail(queue[d.h]))
      BY <1>1, <2>1, <3>1, TailSorted DEF QueuesSorted
    <3> QED BY <1>3, <2>1, <3>1, <3>2
  <2>3. CASE ParkQueue(d)
    BY <1>2, <1>3, <2>1, <2>3 DEF ParkQueue
  <2> QED BY <1>5, <1>7, <2>2, <2>3
          DEF DrainStep, Stop, FindPaused, Acquire, End, EndIncomplete, EndCancelled,
              Publish
<1>8. ASSUME NEW p \in Persona, OnRetried(p) PROVE QueuesSorted'
  <2>1. \A env \in RetryTriggers(log, p) : env \in Env
    BY <1>1, TriggersTyped
  <2> QED BY <1>4, <1>5, <1>8, <2>1 DEF OnRetried
<1>9. ASSUME NEW p \in Persona, OnApproved(p) PROVE QueuesSorted'
  <2>1. Envelope("approved", p, runs[p]) \in Env
    BY <1>1, EnvTypes
  <2> QED BY <1>4, <1>9, <2>1 DEF OnApproved
<1>10. CASE Engine \/ OnResumed \/ OnCancelled \/ OnTerminal \/ Operator
  BY <1>5, <1>10 DEF Engine, OnResumed, OnCancelled, OnTerminal, Operator, Command,
                     PauseWorkflow, ResumeWorkflow, CancelWorkflow, ApproveHint, RejectHint
<1>11. CASE Restart
  <2>1. \A p \in Persona : Len(queue'[p]) <= 1
    BY <1>11 DEF Restart
  <2>2. \A p \in Persona : queue'[p] \in Seq(Env)
    BY NextTyped DEF TypesInv, PlacesTyped
  <2>3. \A items \in Seq(Env) : Len(items) <= 1 => Sorted(items)
    BY DEF Sorted
  <2> QED BY <2>1, <2>2, <2>3 DEF QueuesSorted
<1>12. CASE UNCHANGED vars
  BY <1>5, <1>12 DEF vars, dispatch
<1> QED BY <1>6, <1>7, <1>8, <1>9, <1>10, <1>11, <1>12 DEF Next, Progress

\* A handler is given the most urgent of what waits for it: a hint's approval
\* before feedback, feedback before a predecessor's completion, however pushes,
\* pauses, retries and restarts interleave (dispatchQueue.push, eventPriority);
\* and PushPlace says that what is equally urgent keeps its order.
THEOREM UrgentFirst ==
    Spec => [][\A d \in drains : Take(d) =>
                  \A i \in DOMAIN queue[d.h] :
                      Priority(Head(queue[d.h])) <= Priority(queue[d.h][i])]_vars
<1> DEFINE A == \A d \in drains : Take(d) =>
                    \A i \in DOMAIN queue[d.h] :
                        Priority(Head(queue[d.h])) <= Priority(queue[d.h][i])
<1>1. Init => QueuesSorted
  BY DEF Init, QueuesSorted, Sorted
<1>2. TypesInv /\ QueuesSorted /\ [Next]_vars => QueuesSorted'
  BY NextSorted
<1>3. TypesInv /\ QueuesSorted => A
  <2> SUFFICES ASSUME TypesInv, QueuesSorted, NEW d \in drains, Take(d),
                      NEW i \in DOMAIN queue[d.h]
               PROVE  Priority(Head(queue[d.h])) <= Priority(queue[d.h][i])
    OBVIOUS
  <2>1. d.h \in Persona /\ queue[d.h] \in Seq(Env) /\ queue[d.h] # <<>>
    BY DEF TypesInv, PlacesTyped, DrainsTyped, Drain, Take
  <2> DEFINE items == queue[d.h]
  <2>2. Sorted(items)
    BY <2>1 DEF QueuesSorted
  <2> HIDE DEF items
  <2>3. /\ items \in Seq(Env) /\ items # <<>> /\ i \in 1..Len(items)
        /\ Head(items) = items[1] /\ 1 \in 1..Len(items)
    BY <2>1 DEF items
  <2>4. Priority(items[1]) \in Nat /\ Priority(items[i]) \in Nat
    BY <2>3, PriorityNat
  <2>5. Priority(items[1]) <= Priority(items[i])
    BY <2>2, <2>3, <2>4 DEF Sorted
  <2> QED BY <2>3, <2>5 DEF items
<1>4. TypesInv /\ QueuesSorted /\ [Next]_vars => [A]_vars
  BY <1>3
<1> QED BY InitTyped, NextTyped, <1>1, <1>2, <1>4, PTL DEF Spec
-----------------------------------------------------------------------------
(* The status *)

\* What the engine may decide, by the status it decides on.
Moves(a, e, d) ==
    \/ d.type \in {"none", "FeedbackGenerated", "HintApproved", "PersonaCompleted"}
    \/ d.type = "WorkflowRetried" /\ (e = Resumed \/ a.status = "running")
    \/ d.type = "WorkflowStarted" /\ a.status = "requested"
    \/ d.type \in {"WorkflowPaused", "WorkflowFailed"} /\ a.status = "running"
    \/ d.type = "WorkflowCompleted" /\ a.status = "running" /\ Required \subseteq a.completed

LEMMA DecideMoves ==
    ASSUME NEW a \in Aggregate, a.hasDef, NEW e \in EngineLetter, NEW d \in Decide(a, e)
    PROVE  Moves(a, e, d)
<1>0. /\ Nothing.type = "none" /\ Started.type = "WorkflowStarted"
      /\ WorkflowDone.type = "WorkflowCompleted" /\ WorkflowFailed.type = "WorkflowFailed"
      /\ Approved.type = "HintApproved"
      /\ \A t, s, r : Paused(t, s, r).type = "WorkflowPaused"
      /\ \A p, b : Retried(p, b).type = "WorkflowRetried"
      /\ \A t, s : Feedback(t, s).type = "FeedbackGenerated"
      /\ \A p, b : PersonaCompleted(p, b).type = "PersonaCompleted"
  BY DEF Nothing, Started, WorkflowDone, WorkflowFailed, Approved, Paused,
         Retried, Feedback, PersonaCompleted
<1>1. \A x \in DecideCompleted(a) : Moves(a, e, x)
  BY <1>0 DEF DecideCompleted, Moves
<1>2. CASE e = Requested
  <2>1. d \in DecideRequested(a)
    BY <1>2, LetterTypes DEF Decide
  <2> QED BY <1>0, <2>1 DEF DecideRequested, Moves
<1>3. CASE e = Started
  <2>1. d = Nothing
    BY <1>3, LetterTypes DEF Decide
  <2> QED BY <1>0, <2>1 DEF Moves
<1>4. CASE e = Resumed
  <2>1. d \in DecideResumed(a)
    BY <1>4, LetterTypes DEF Decide
  <2>2. \/ d = Retried(a.resumeRetryFrom, FALSE)
        \/ \E t, s : d = Feedback(t, s)
        \/ d = Nothing
    BY <2>1 DEF DecideResumed
  <2>3. d.type \in {"none", "FeedbackGenerated", "WorkflowRetried"}
    BY <1>0, <2>2
  <2> QED BY <1>4, <2>3 DEF Moves
<1>5. CASE \E p \in Persona, own \in BOOLEAN : e = PersonaCompleted(p, own)
  <2>1. d \in DecideCompleted(a)
    BY <1>5, LetterTypes DEF Decide
  <2> QED BY <1>1, <2>1
<1>6. CASE \E p \in Persona, kind \in FailureKind : e = PersonaFailed(p, kind)
  <2>1. d \in DecideFailed(a, e)
    BY <1>6, LetterTypes DEF Decide
  <2>2. d = Nothing \/ /\ a.status = "running"
                       /\ \/ d = Retried(e.persona, TRUE)
                          \/ d = Paused(None, None, e.persona)
                          \/ d \in DecideCompleted(a)
                          \/ d = WorkflowFailed
    BY <2>1 DEF DecideFailed, maybeAutoRetry, maybeRateLimitPause
  <2>3. CASE d \in DecideCompleted(a)
    BY <1>1, <2>3
  <2>4. CASE d = Nothing
    BY <1>0, <2>4 DEF Moves
  <2>5. CASE /\ a.status = "running"
             /\ \/ d = Retried(e.persona, TRUE)
                \/ d = Paused(None, None, e.persona)
                \/ d = WorkflowFailed
    <3>1. CASE d = Retried(e.persona, TRUE)
      BY <1>0, <2>5, <3>1 DEF Moves
    <3>2. CASE d = Paused(None, None, e.persona)
      BY <1>0, <2>5, <3>2 DEF Moves
    <3>3. CASE d = WorkflowFailed
      BY <1>0, <2>5, <3>3 DEF Moves
    <3> QED BY <2>5, <3>1, <3>2, <3>3
  <2> QED BY <2>2, <2>3, <2>4, <2>5
<1>7. CASE \E vp \in VerdictPairs, o \in {"pass", "fail"}, adv \in BOOLEAN,
              f \in Fingerprint : e = Verdict(vp, o, adv, f)
  <2>1. d \in DecideVerdict(a, e)
    BY <1>7, LetterTypes DEF Decide
  <2>2. d = Nothing \/ /\ a.status = "running"
                       /\ \/ \E t, s : d = Paused(t, s, None)
                          \/ d = WorkflowFailed
                          \/ d = Feedback(e.target, e.source)
    BY <2>1 DEF DecideVerdict
  <2> QED BY <1>0, <2>2 DEF Moves
<1>8. CASE \E p \in Persona : e = HintRejected(p, "skip")
  <2>1. e.type = "HintRejected" /\ e.action = "skip"
    BY <1>8, LetterTypes
  <2>2. d \in DecideHintRejected(a, e)
    BY <2>1 DEF Decide
  <2>3. d \in {Nothing, PersonaCompleted(e.persona, TRUE)}
    BY <2>1, <2>2 DEF DecideHintRejected
  <2> QED BY <1>0, <2>3 DEF Moves
<1>9. CASE e.type = "HintEmitted" /\ e.confident \in BOOLEAN
  <2>1. d \in DecideHintEmitted(a, e)
    BY <1>9 DEF Decide
  <2>2. CASE a.status # "running"
    <3>1. d = Nothing
      BY <2>1, <2>2 DEF DecideHintEmitted
    <3> QED BY <1>0, <3>1 DEF Moves
  <2>3. CASE a.status = "running"
    <3>1. d = Approved \/ d = Paused(None, None, None)
      BY <1>9, <2>1, <2>3 DEF DecideHintEmitted
    <3>2. d.type \in {"HintApproved", "WorkflowPaused"}
      BY <1>0, <3>1
    <3> QED BY <2>3, <3>2 DEF Moves
  <2> QED BY <2>2, <2>3
<1> QED BY <1>2, <1>3, <1>4, <1>5, <1>6, <1>7, <1>8, <1>9, LetterCases

\* What a decision does to the status.
LEMMA ApplyMoves ==
    ASSUME NEW a \in Aggregate, NEW d, Answered(d)
    PROVE  /\ Apply(a, d).hasDef = a.hasDef
           /\ Apply(a, d).status =
                CASE d.type \in {"WorkflowStarted", "WorkflowRetried"} -> "running"
                  [] d.type = "WorkflowCompleted" -> "completed"
                  [] d.type = "WorkflowFailed"    -> "failed"
                  [] d.type = "WorkflowPaused"    -> "paused"
                  [] OTHER -> a.status
           /\ d.type = "WorkflowCompleted" => Apply(a, d).completed = a.completed
<1>1. /\ \A q : ApplyRetried(a, q).status = "running" /\ ApplyRetried(a, q).hasDef = a.hasDef
      /\ \A q : ApplyPaused(a, q).status = "paused" /\ ApplyPaused(a, q).hasDef = a.hasDef
      /\ \A q : ApplyFeedback(a, q).status = a.status /\ ApplyFeedback(a, q).hasDef = a.hasDef
      /\ \A p : ApplyCompleted(a, p).status = a.status /\ ApplyCompleted(a, p).hasDef = a.hasDef
      /\ \A s : /\ [a EXCEPT !.status = s].status = s
                /\ [a EXCEPT !.status = s].hasDef = a.hasDef
                /\ [a EXCEPT !.status = s].completed = a.completed
  BY DEF ApplyRetried, ApplyPaused, ApplyFeedback, ApplyCompleted, Aggregate
<1>2. d.type \in {"none", "WorkflowStarted", "WorkflowCompleted", "WorkflowFailed",
                  "HintApproved", "WorkflowPaused", "WorkflowRetried",
                  "FeedbackGenerated", "PersonaCompleted"}
  BY DEF Answered, Nothing, Started, WorkflowDone, WorkflowFailed, Approved,
         Paused, Retried, Feedback, PersonaCompleted
<1>3. CASE d.type \in {"none", "HintApproved"}
  BY <1>3 DEF Apply
<1>4. CASE d.type \in {"WorkflowStarted", "WorkflowCompleted", "WorkflowFailed"}
  BY <1>1, <1>4 DEF Apply
<1>5. CASE d.type \in {"WorkflowPaused", "WorkflowRetried"}
  BY <1>1, <1>5 DEF Apply
<1>6. CASE d.type \in {"FeedbackGenerated", "PersonaCompleted"}
  BY <1>1, <1>6 DEF Apply
<1> QED BY <1>2, <1>3, <1>4, <1>5, <1>6

LEMMA HandledMoves ==
    ASSUME NEW a \in Aggregate, a.hasDef, NEW e \in EngineLetter,
           NEW d \in Decide(Track(a, e), e)
    PROVE  LET h == Handled(a, e, d) IN
           /\ h.hasDef
           /\ h.status # a.status =>
                \/ a.status = "running"
                \/ h.status = "running" /\ (e = Resumed \/ a.status = "requested")
           /\ h.status = "completed" /\ a.status # "completed" =>
                a.status = "running" /\ Required \subseteq h.completed
<1> DEFINE b == Track(a, e)
           c == Apply(b, d)
           h == Handled(a, e, d)
<1>1. b \in Aggregate /\ Answered(d)
  BY TypedTrack, DecideAnswers
<1>2. b.status = a.status /\ b.hasDef
  BY DEF Track, ApplyCompleted, ApplyFailed, Aggregate
<1>3. Moves(b, e, d)
  BY <1>1, <1>2, DecideMoves
<1>4. c \in Aggregate
  BY <1>1, TypedApply
<1>5. h.status = c.status /\ h.hasDef = c.hasDef /\ h.completed = c.completed
  <2>1. /\ ApplyVerdict(c, e).status = c.status
        /\ ApplyVerdict(c, e).hasDef = c.hasDef
        /\ ApplyVerdict(c, e).completed = c.completed
    BY <1>4 DEF ApplyVerdict, Aggregate
  <2> QED BY <2>1 DEF Handled, Mirror
<1>6. /\ c.hasDef = b.hasDef
      /\ c.status =
           CASE d.type \in {"WorkflowStarted", "WorkflowRetried"} -> "running"
             [] d.type = "WorkflowCompleted" -> "completed"
             [] d.type = "WorkflowFailed"    -> "failed"
             [] d.type = "WorkflowPaused"    -> "paused"
             [] OTHER -> b.status
      /\ d.type = "WorkflowCompleted" => c.completed = b.completed
  BY <1>1, ApplyMoves
<1> HIDE DEF b, c, h
<1> QED BY <1>2, <1>3, <1>5, <1>6 DEF Moves, h

\* An operator cancels what has not ended, pauses what runs and resumes what
\* is paused.
LEMMA CommandMoves ==
    ASSUME agg \in Aggregate, Operator
    PROVE  /\ agg'.hasDef = agg.hasDef
           /\ agg'.status # agg.status => agg.status \in {"requested", "running", "paused"}
           /\ agg'.status # "completed" \/ agg.status = "completed"
<1>1. /\ Apply(agg, Resumed) = [agg EXCEPT !.status = "running"]
      /\ Apply(agg, Cancelled) = [agg EXCEPT !.status = "cancelled"]
      /\ Apply(agg, Paused(None, None, None)) =
            ApplyPaused(agg, Paused(None, None, None))
  BY DEF Apply, Resumed, Cancelled, Paused
<1>2. \/ UNCHANGED agg
      \/ agg.status = "paused" /\ agg' = Apply(agg, Resumed)
      \/ agg.status = "running" /\ agg' = Apply(agg, Paused(None, None, None))
      \/ agg.status \in {"requested", "running", "paused"} /\ agg' = Apply(agg, Cancelled)
  <2>1. CASE PauseWorkflow
    BY <2>1 DEF PauseWorkflow
  <2>2. CASE ResumeWorkflow
    BY <2>2 DEF ResumeWorkflow, ResumeWith
  <2>3. CASE CancelWorkflow
    BY <2>3 DEF CancelWorkflow
  <2>4. CASE ApproveHint
    BY <2>4 DEF ApproveHint, ResumeWith
  <2>5. CASE RejectHint
    BY <2>5 DEF RejectHint, ResumeWith
  <2> QED BY <2>1, <2>2, <2>3, <2>4, <2>5 DEF Operator
<1>3. /\ \A s : /\ [agg EXCEPT !.status = s].status = s
                /\ [agg EXCEPT !.status = s].hasDef = agg.hasDef
      /\ ApplyPaused(agg, Paused(None, None, None)).status = "paused"
      /\ ApplyPaused(agg, Paused(None, None, None)).hasDef = agg.hasDef
  BY DEF ApplyPaused, Aggregate
<1>4. \/ UNCHANGED agg
      \/ /\ agg.status \in {"requested", "running", "paused"}
         /\ agg'.status \in {"running", "cancelled", "paused"}
         /\ agg'.hasDef = agg.hasDef
  <2>1. CASE UNCHANGED agg
    BY <2>1
  <2>2. CASE agg.status = "paused" /\ agg' = Apply(agg, Resumed)
    BY <1>1, <1>3, <2>2
  <2>3. CASE agg.status = "running" /\ agg' = Apply(agg, Paused(None, None, None))
    BY <1>1, <1>3, <2>3
  <2>4. CASE agg.status \in {"requested", "running", "paused"} /\ agg' = Apply(agg, Cancelled)
    BY <1>1, <1>3, <2>4
  <2> QED BY <1>2, <2>1, <2>2, <2>3, <2>4
<1> QED BY <1>4

\* The engine, the operators, the runner's goroutines, store errors and
\* restarts together: only a resume that is decided upon late reopens a
\* workflow that has ended, and a workflow completes only while it runs and
\* with every required persona complete.
THEOREM EndsAreFinal ==
    Spec => [][/\ agg.status \in {"completed", "failed", "cancelled"}
                    /\ agg'.status # agg.status =>
                        /\ agg'.status = "running"
                        /\ mail # <<>> /\ Head(mail) = Resumed
               /\ agg'.status = "completed" /\ agg.status # "completed" =>
                    agg.status = "running" /\ Required \subseteq agg'.completed]_vars
<1> DEFINE B == /\ agg.status \in {"completed", "failed", "cancelled"}
                      /\ agg'.status # agg.status =>
                          /\ agg'.status = "running"
                          /\ mail # <<>> /\ Head(mail) = Resumed
                /\ agg'.status = "completed" /\ agg.status # "completed" =>
                      agg.status = "running" /\ Required \subseteq agg'.completed
           Known == agg.hasDef
<1>1. Init => Known
  BY DEF Init, NewWorkflowAggregate
<1>2. TypesInv /\ Known /\ [Next]_vars => Known' /\ [B]_vars
  <2> SUFFICES ASSUME TypesInv, Known, [Next]_vars PROVE Known' /\ B
    OBVIOUS
  <2>1. agg \in Aggregate /\ mail \in Seq(EngineLetter)
    BY DEF TypesInv, DataTyped
  <2>2. CASE Engine
    <3>1. mail # <<>> /\ Head(mail) \in EngineLetter
      BY <2>1, <2>2 DEF Engine
    <3>2. PICK d \in Decide(Track(agg, Head(mail)), Head(mail)) :
            agg' = Handled(agg, Head(mail), d)
      BY <2>2 DEF Engine
    <3> QED BY <2>1, <3>1, <3>2, HandledMoves
  <2>3. CASE Operator
    BY <2>1, <2>3, CommandMoves
  <2>4. CASE UNCHANGED agg
    BY <2>4
  <2>5. ASSUME NEW d \in drains, DrainStep(d) PROVE UNCHANGED agg
    BY <2>5 DEF DrainStep, Take, Stop, FindPaused, ParkQueue, Acquire, End, Persist,
                EndIncomplete, EndCancelled, Publish, DrainFrame, persistent
  <2>6. CASE \E w \in wraps : Drop(w) \/ Admit(w) \/ Park(w) \/ JoinError(w)
    BY <2>4, <2>6 DEF Drop, Admit, Park, JoinError, AdmitFrame, persistent
  <2>7. CASE \/ OnResumed \/ OnCancelled \/ OnTerminal
             \/ \E p \in Persona : OnRetried(p) \/ OnApproved(p)
    BY <2>4, <2>7 DEF OnResumed, OnCancelled, OnTerminal, OnRetried, OnApproved, persistent
  <2>8. CASE Restart
    BY <2>4, <2>8 DEF Restart, persistent
  <2>9. CASE UNCHANGED vars
    BY <2>4, <2>9 DEF vars, persistent
  <2> QED BY <2>2, <2>3, <2>4, <2>5, <2>6, <2>7, <2>8, <2>9 DEF Next, Progress
<1> QED BY <1>1, <1>2, InitTyped, NextTyped, PTL DEF Spec

-----------------------------------------------------------------------------
(* Where a delivery is *)

InWrap(h) == \E w \in wraps : w.h = h
InQueue(h) == queue[h] # <<>>
Held(d, h) == d.h = h /\ d.at \in {"slot", "run"}
InRun(h) == \E d \in drains : Held(d, h)
IsBlocked(h) == \E b \in blocked : b[1] = h
InHand(h) == InQueue(h) \/ InRun(h)
Active(h) == InWrap(h) \/ InHand(h) \/ IsBlocked(h)

\* A handler has at most one delivery.
OneInHand(h) == Len(queue[h]) <= 1 /\ (InQueue(h) => ~InRun(h))
Once(h) ==
    /\ OneInHand(h)
    /\ \A v, w \in wraps : v.h = h /\ w.h = h => v = w
    /\ \A b, c \in blocked : b[1] = h /\ c[1] = h => b = c
    /\ InWrap(h) => ~InHand(h) /\ ~IsBlocked(h)
    /\ InHand(h) => ~IsBlocked(h)

OnlyOn(h, E) ==
    /\ \A w \in wraps : w.h = h => w.env \in E
    /\ \A i \in DOMAIN queue[h] : queue[h][i] \in E
    /\ \A d \in drains : Held(d, h) => d.env \in E
    /\ \A b \in blocked : b[1] = h => b[2] \in E

Kept(h) ==
    /\ Once(h) => Once(h)'
    /\ Active(h)' => Active(h)
    /\ \A E : OnlyOn(h, E) => OnlyOn(h, E)'

HandKept(h) ==
    /\ InHand(h)' => InHand(h)
    /\ OneInHand(h) => OneInHand(h)'

Fewer(h) ==
    /\ \A w \in wraps' : w.h = h => w \in wraps
    /\ queue'[h] = queue[h] \/ queue'[h] = <<>>
    /\ \A e \in drains' : Held(e, h) => \E d \in drains : Held(d, h) /\ d.env = e.env
    /\ \A b \in blocked' : b[1] = h => b \in blocked

\* Where deliveries only get fewer, what held of them still holds.
LEMMA FewerKept ==
    ASSUME NEW h, Fewer(h)
    PROVE  Kept(h) /\ HandKept(h)
<1> USE DEF Fewer
<1>1. /\ InWrap(h)' => InWrap(h)
      /\ InQueue(h)' => InQueue(h) /\ queue'[h] = queue[h]
      /\ InRun(h)' => InRun(h)
      /\ IsBlocked(h)' => IsBlocked(h)
  BY DEF InWrap, InQueue, InRun, IsBlocked
<1>2. OneInHand(h) => OneInHand(h)'
  <2>1. Len(queue[h]) <= 1 => Len(queue'[h]) <= 1
    OBVIOUS
  <2> QED BY <1>1, <2>1 DEF OneInHand
<1>3. HandKept(h)
  BY <1>1, <1>2 DEF HandKept, InHand
<1>4. Once(h) => Once(h)'
  BY <1>1, <1>2 DEF Once, InHand
<1>5. \A E : OnlyOn(h, E) => OnlyOn(h, E)'
  BY DEF OnlyOn
<1> QED BY <1>1, <1>3, <1>4, <1>5 DEF Kept, Active, InHand

-----------------------------------------------------------------------------
(* Deliveries that move *)

\* The first of an empty queue.
LEMMA PushAlone ==
    ASSUME NEW env
    PROVE  Len(Push(<<>>, env)) = 1 /\ Push(<<>>, env)[1] = env /\ Push(<<>>, env) # <<>>
           /\ DOMAIN Push(<<>>, env) = 1..1
<1>1. Push(<<>>, env) = [i \in 1..1 |-> env]
  BY DEF Push
<1>2. [i \in 1..1 |-> env] = <<env>>
  OBVIOUS
<1> QED BY <1>1, <1>2

\* A push adds nothing else.
LEMMA PushWithin ==
    ASSUME NEW items \in Seq(Env), NEW env, NEW E, env \in E,
           \A i \in DOMAIN items : items[i] \in E
    PROVE  \A i \in DOMAIN Push(items, env) : Push(items, env)[i] \in E
<1> DEFINE behind(i) == \E j \in 1..i : Priority(items[j]) > Priority(env)
<1>1. DOMAIN Push(items, env) = 1..(Len(items) + 1)
  BY DEF Push
<1>2. \A i \in 1..(Len(items) + 1) :
        Push(items, env)[i] =
            IF i <= Len(items) /\ ~behind(i) THEN items[i]
            ELSE IF i = 1 \/ ~behind(i - 1) THEN env ELSE items[i - 1]
  BY DEF Push
<1> HIDE DEF behind
<1>3. DOMAIN items = 1..Len(items) /\ Len(items) \in Nat
  OBVIOUS
<1> QED BY <1>1, <1>2, <1>3

\* A delivery in wrap goes on to its handler's queue, is kept for the resume, or
\* is gone; it reaches the queue only when admitted.
LEMMA WrapSteps ==
    ASSUME TypesInv, NEW w \in wraps, Drop(w) \/ Admit(w) \/ Park(w), NEW h \in Persona
    PROVE  /\ Kept(h)
           /\ HandKept(h) \/ /\ h = w.h /\ Admitted(w)
                             /\ OneInHand(h) /\ ~InHand(h) => OneInHand(h)'
<1>1. queue \in [Persona -> Seq(Env)] /\ w.h \in Persona
  BY DEF TypesInv, PlacesTyped, Wrap
<1>2. CASE Drop(w)
  <2>1. Fewer(h)
    BY <1>2 DEF Drop, AdmitFrame, Fewer
  <2> QED BY <2>1, FewerKept
<1>3. CASE h # w.h
  <2>1. CASE Park(w)
    <3>1. Fewer(h)
      BY <1>3, <2>1 DEF Park, Fewer
    <3> QED BY <3>1, FewerKept
  <2>2. CASE Admit(w)
    <3>0. [w EXCEPT !.at = "park"].h = w.h
      BY DEF TypesInv, PlacesTyped, Wrap
    <3>1. blocked' = blocked /\ \A v \in wraps' : v.h = h => v \in wraps
      BY <1>3, <2>2, <3>0 DEF Admit, AdmitFrame
    <3>2. queue'[h] = queue[h] /\ \A e \in drains' : Held(e, h) => e \in drains
      BY <1>1, <1>3, <2>2 DEF Admit, Enqueue, NewDrain, Held
    <3>3. Fewer(h)
      BY <3>1, <3>2 DEF Fewer
    <3> QED BY <3>3, FewerKept
  <2> QED BY <1>2, <2>1, <2>2
<1>4. CASE h = w.h /\ Park(w)
  <2>1. /\ wraps' = wraps \ {w} /\ UNCHANGED <<queue, drains>>
        /\ blocked' = blocked \cup {<<h, w.env>>}
    BY <1>4 DEF Park
  <2>2. InWrap(h) /\ InHand(h)' = InHand(h) /\ OneInHand(h)' = OneInHand(h)
    BY <1>4, <2>1 DEF InWrap, InHand, InQueue, InRun, OneInHand
  <2>3. Once(h) => Once(h)'
    BY <2>1, <2>2, <1>4 DEF Once, InWrap, IsBlocked
  <2>4. \A E : OnlyOn(h, E) => OnlyOn(h, E)'
    BY <2>1, <1>4 DEF OnlyOn
  <2> QED BY <2>2, <2>3, <2>4 DEF Kept, HandKept, Active
<1>5. CASE h = w.h /\ Admit(w) /\ paused
  <2> DEFINE v == [w EXCEPT !.at = "park"]
  <2>1. /\ wraps' = (wraps \ {w}) \cup {v} /\ UNCHANGED <<queue, drains, blocked>>
    BY <1>5 DEF Admit, AdmitFrame
  <2>2. v.h = h /\ v.env = w.env
    BY <1>5 DEF TypesInv, PlacesTyped, Wrap
  <2> HIDE DEF v
  <2>3. /\ InWrap(h) /\ InHand(h)' = InHand(h) /\ OneInHand(h)' = OneInHand(h)
        /\ IsBlocked(h)' = IsBlocked(h)
    BY <1>5, <2>1 DEF InWrap, InHand, InQueue, InRun, OneInHand, IsBlocked
  <2>4. Once(h) => Once(h)'
    BY <2>1, <2>2, <2>3, <1>5 DEF Once
  <2>5. \A E : OnlyOn(h, E) => OnlyOn(h, E)'
    BY <2>1, <2>2, <1>5 DEF OnlyOn
  <2> QED BY <2>3, <2>4, <2>5 DEF Kept, HandKept, Active
<1>6. CASE h = w.h /\ Admit(w) /\ ~paused
  <2>1. /\ wraps' = wraps \ {w} /\ UNCHANGED blocked
        /\ queue'[h] = Push(queue[h], w.env)
        /\ \A e \in drains' : Held(e, h) => e \in drains
        /\ Admitted(w)
    BY <1>1, <1>6 DEF Admit, AdmitFrame, Enqueue, NewDrain, Held
  <2>2. InWrap(h) /\ (InRun(h)' => InRun(h))
    BY <1>6, <2>1 DEF InWrap, InRun
  <2>3. OneInHand(h) /\ ~InHand(h) => OneInHand(h)'
    <3> SUFFICES ASSUME OneInHand(h), ~InHand(h) PROVE OneInHand(h)'
      OBVIOUS
    <3>1. queue[h] = <<>> /\ ~InRun(h)'
      BY <2>2 DEF InHand, InQueue
    <3>2. Len(queue'[h]) = 1
      BY <2>1, <3>1, PushAlone
    <3> QED BY <3>1, <3>2 DEF OneInHand
  <2>4. Once(h) => Once(h)'
    <3> SUFFICES ASSUME Once(h) PROVE Once(h)'
      OBVIOUS
    <3>1. OneInHand(h)' /\ ~IsBlocked(h)'
      BY <2>1, <2>2, <2>3 DEF Once, IsBlocked
    <3>2. ~InWrap(h)'
      BY <1>6, <2>1 DEF Once, InWrap
    <3> QED BY <2>1, <3>1, <3>2 DEF Once
  <2>5. ASSUME NEW E, OnlyOn(h, E) PROVE OnlyOn(h, E)'
    <3>1. w.env \in E /\ \A i \in DOMAIN queue[h] : queue[h][i] \in E
      BY <1>6, <2>5 DEF OnlyOn
    <3>2. \A i \in DOMAIN queue'[h] : queue'[h][i] \in E
      BY <1>1, <1>6, <2>1, <3>1, PushWithin
    <3> QED BY <2>1, <2>5, <3>2 DEF OnlyOn
  <2> QED BY <1>6, <2>1, <2>2, <2>3, <2>4, <2>5 DEF Kept, Active
<1> QED BY <1>2, <1>3, <1>4, <1>5, <1>6

\* Only Take and ParkQueue move a delivery; where a run ends there is one less.
LEMMA DrainSteps ==
    ASSUME TypesInv, OneDrain, NEW d \in drains, NEW h \in Persona,
           DrainStep(d), ~Publish(d)
    PROVE  Kept(h) /\ HandKept(h)
<1>1. /\ queue \in [Persona -> Seq(Env)] /\ d.h \in Persona /\ d \in Drain
      /\ \A e \in drains : e.h = d.h => e = d
  BY DEF TypesInv, PlacesTyped, DrainsTyped, Drain, OneDrain
<1>2. /\ \A at : LET e == [d EXCEPT !.at = at]
                 IN  e.h = d.h /\ e.env = d.env /\ e.at = at
      /\ \A at : LET e == [d EXCEPT !.at = at, !.live = TRUE]
                 IN  e.h = d.h /\ e.env = d.env /\ e.at = at
      /\ \A at, out : LET e == [d EXCEPT !.at = at, !.out = out]
                      IN  e.h = d.h /\ e.env = d.env /\ e.at = at
  BY <1>1 DEF Drain
<1>3. CASE Take(d)
  <2> DEFINE e == [d EXCEPT !.at = "slot", !.env = Head(queue[d.h])]
  <2>1. e.h = d.h /\ e.env = Head(queue[d.h])
    BY <1>1 DEF Drain
  <2>2. /\ drains' = (drains \ {d}) \cup {e} /\ UNCHANGED <<wraps, blocked>>
        /\ queue' = [queue EXCEPT ![d.h] = Tail(@)] /\ queue[d.h] # <<>>
        /\ d.at = "check"
    BY <1>3 DEF Take, Turn, DrainFrame
  <2> HIDE DEF e
  <2>3. CASE h # d.h
    <3>1. Fewer(h)
      BY <1>1, <2>1, <2>2, <2>3 DEF Fewer, Held
    <3> QED BY <3>1, FewerKept
  <2>4. CASE h = d.h
    <3>1. /\ queue'[h] = Tail(queue[h]) /\ InQueue(h)
          /\ InWrap(h)' = InWrap(h) /\ IsBlocked(h)' = IsBlocked(h)
      BY <1>1, <2>2, <2>4 DEF InQueue, InWrap, IsBlocked
    <3>2. OneInHand(h) => OneInHand(h)'
      <4>1. Len(queue[h]) <= 1 => queue'[h] = <<>>
        BY <1>1, <2>2, <2>4, <3>1
      <4> QED BY <4>1 DEF OneInHand, InQueue
    <3>3. Once(h) => Once(h)'
      BY <2>2, <3>1, <3>2 DEF Once, InHand
    <3>4. ASSUME NEW E, OnlyOn(h, E) PROVE OnlyOn(h, E)'
      <4>1. \A i \in DOMAIN queue[h] : queue[h][i] \in E
        BY <3>4 DEF OnlyOn
      <4>2. Head(queue[h]) \in E /\ \A i \in DOMAIN queue'[h] : queue'[h][i] \in E
        BY <1>1, <2>2, <2>4, <3>1, <4>1
      <4>3. \A f \in drains' : Held(f, h) => f.env \in E
        BY <2>1, <2>2, <2>4, <3>4, <4>2 DEF OnlyOn
      <4> QED BY <2>2, <3>4, <4>2, <4>3 DEF OnlyOn
    <3> QED BY <3>1, <3>2, <3>3, <3>4 DEF Kept, HandKept, Active, InHand
  <2> QED BY <2>3, <2>4
<1>4. CASE ParkQueue(d)
  <2>1. /\ drains' = drains \ {d} /\ UNCHANGED wraps /\ d.at = "park"
        /\ blocked' = blocked \cup {<<d.h, queue[d.h][i]>> : i \in DOMAIN queue[d.h]}
        /\ queue' = [queue EXCEPT ![d.h] = <<>>]
    BY <1>4 DEF ParkQueue, DrainFrame
  <2>2. CASE h # d.h
    <3>1. Fewer(h)
      BY <1>1, <2>1, <2>2 DEF Fewer
    <3> QED BY <3>1, FewerKept
  <2>3. CASE h = d.h
    <3>1. /\ queue'[h] = <<>> /\ InWrap(h)' = InWrap(h)
          /\ ~InRun(h)' /\ ~InQueue(h)'
      BY <1>1, <2>1, <2>3 DEF InQueue, InWrap, InRun, Held
    <3>2. OneInHand(h)' /\ ~InHand(h)'
      BY <3>1 DEF OneInHand, InHand
    <3>3. IsBlocked(h)' => IsBlocked(h) \/ InQueue(h)
      BY <1>1, <2>1, <2>3 DEF IsBlocked, InQueue
    <3>4. Once(h) => Once(h)'
      <4> SUFFICES ASSUME Once(h) PROVE Once(h)'
        OBVIOUS
      <4>1. CASE queue[h] = <<>>
        <5>1. blocked' = blocked
          BY <2>1, <2>3, <4>1
        <5> QED BY <2>1, <3>1, <3>2, <5>1 DEF Once, IsBlocked
      <4>2. CASE queue[h] # <<>>
        <5>1. ~InWrap(h) /\ ~IsBlocked(h) /\ Len(queue[h]) <= 1
          BY <4>2 DEF Once, OneInHand, InHand, InQueue
        <5>2. \A i, j \in DOMAIN queue[h] : i = j
          BY <1>1, <5>1
        <5>3. \A b, c \in blocked' : b[1] = h /\ c[1] = h => b = c
          BY <2>1, <2>3, <5>1, <5>2 DEF IsBlocked
        <5> QED BY <2>1, <3>1, <3>2, <5>1, <5>3 DEF Once
      <4> QED BY <4>1, <4>2
    <3>5. \A E : OnlyOn(h, E) => OnlyOn(h, E)'
      BY <2>1, <2>3, <3>1 DEF OnlyOn
    <3> QED BY <3>1, <3>2, <3>3, <3>4, <3>5 DEF Kept, HandKept, Active, InHand
  <2> QED BY <2>2, <2>3
<1>5. CASE Stop(d)
  <2>1. Fewer(h)
    BY <1>5 DEF Stop, DrainFrame, Fewer
  <2> QED BY <2>1, FewerKept
<1>6. CASE FindPaused(d) \/ Acquire(d) \/ EndIncomplete(d) \/ EndCancelled(d)
           \/ \E out \in Outcome : End(d, out)
  <2>1. PICK e : /\ Turn(d, e) /\ e.h = d.h /\ e.env = d.env
                 /\ e.at \in {"slot", "run"} => d.at \in {"slot", "run"}
    <3>1. CASE FindPaused(d)
      <4>1. Turn(d, [d EXCEPT !.at = "park"])
        BY <3>1 DEF FindPaused
      <4>2. LET e == [d EXCEPT !.at = "park"]
            IN  e.h = d.h /\ e.env = d.env /\ e.at = "park"
        BY <1>2
      <4> QED BY <4>1, <4>2
    <3>2. CASE Acquire(d)
      BY <1>2, <3>2 DEF Acquire
    <3>3. CASE EndIncomplete(d)
      BY <1>2, <3>3 DEF EndIncomplete
    <3>4. CASE EndCancelled(d)
      BY <1>2, <3>4 DEF EndCancelled
    <3>5. CASE \E out \in Outcome : End(d, out)
      <4>1. PICK out : Turn(d, [d EXCEPT !.at = "publish", !.out = out])
        BY <3>5 DEF End
      <4>2. LET e == [d EXCEPT !.at = "publish", !.out = out]
            IN  e.h = d.h /\ e.env = d.env /\ e.at = "publish"
        BY <1>2
      <4> QED BY <4>1, <4>2
    <3> QED BY <1>6, <3>1, <3>2, <3>3, <3>4, <3>5
  <2>2. UNCHANGED <<wraps, queue, blocked>>
    BY <1>6 DEF FindPaused, Acquire, EndIncomplete, EndCancelled, End, DrainFrame
  <2>3. Fewer(h)
    BY <2>1, <2>2 DEF Fewer, Turn, Held
  <2> QED BY <2>3, FewerKept
<1> QED BY <1>3, <1>4, <1>5, <1>6 DEF DrainStep

\* What was blocked goes through wrap again.
LEMMA ResumedKept ==
    ASSUME TypesInv, OnResumed, NEW h \in Persona
    PROVE  Kept(h) /\ HandKept(h)
<1>1. /\ wraps' = wraps \cup {[h |-> b[1], env |-> b[2], at |-> "wrap"] : b \in blocked}
      /\ blocked' = {} /\ UNCHANGED <<queue, drains>>
  BY DEF OnResumed
<1>2. HandKept(h) /\ InHand(h)' = InHand(h) /\ OneInHand(h)' = OneInHand(h)
  BY <1>1 DEF HandKept, InHand, OneInHand, InQueue, InRun
<1>3. (InWrap(h)' => InWrap(h) \/ IsBlocked(h)) /\ ~IsBlocked(h)'
  BY <1>1 DEF InWrap, IsBlocked
<1>4. \A E : OnlyOn(h, E) => OnlyOn(h, E)'
  BY <1>1 DEF OnlyOn
<1>5. Once(h) => Once(h)'
  <2> SUFFICES ASSUME Once(h) PROVE Once(h)'
    OBVIOUS
  <2>1. \A v, w \in wraps' : v.h = h /\ w.h = h => v = w
    <3>1. CASE IsBlocked(h)
      <4>1. ~InWrap(h)
        BY <3>1 DEF Once
      <4> QED BY <1>1, <4>1 DEF Once, InWrap
    <3>2. CASE ~IsBlocked(h)
      BY <1>1, <3>2 DEF Once, IsBlocked
    <3> QED BY <3>1, <3>2
  <2> QED BY <1>1, <1>2, <1>3, <2>1 DEF Once, IsBlocked
<1> QED BY <1>2, <1>3, <1>4, <1>5 DEF Kept, Active

-----------------------------------------------------------------------------
(* What the engine does while it sends nobody back *)

\* The decisions by what they answer.
Grounded(a, e, d) ==
    \/ d = Nothing \/ d = WorkflowDone \/ d = WorkflowFailed
    \/ d = Started /\ e = Requested
    \/ d = Approved /\ e.type = "HintEmitted"
    \/ \E p \in Persona : d = PersonaCompleted(p, TRUE) /\ e.type = "HintRejected"
    \/ \E t, s, r \in Persona \cup {None} :
            d = Paused(t, s, r) /\ (r = None \/ RateLimitAutopause)
    \/ \E p \in Persona : d = Retried(p, TRUE)
    \/ e = Resumed /\ d = Retried(a.resumeRetryFrom, FALSE) /\ a.resumeRetryFrom \in DOMAIN Graph
    \/ \E t \in Persona, s \in Persona \cup {None} : d = Feedback(t, s)

\* Every decision of the engine is one of these.
LEMMA DecideGrounded ==
    ASSUME NEW a \in Aggregate, NEW e \in EngineLetter, NEW d \in Decide(a, e)
    PROVE  Grounded(a, e, d)
<1> USE DefAssumption
<1>1. \A x \in DecideCompleted(a) : x = Nothing \/ x = WorkflowDone
  BY DEF DecideCompleted
<1>2. CASE e = Requested
  <2>1. d = WorkflowFailed \/ d = Started \/ d = Nothing
    BY <1>2, LetterTypes DEF Decide, DecideRequested
  <2> QED BY <1>2, <2>1 DEF Grounded
<1>3. CASE e = Started
  <2>1. d = Nothing
    BY <1>3, LetterTypes DEF Decide
  <2> QED BY <2>1 DEF Grounded
<1>4. CASE e = Resumed
  <2>1. d \in DecideResumed(a)
    BY <1>4, LetterTypes DEF Decide
  <2>2. /\ \A p \in Persona : a.lastFailing[p] \in Persona \cup {None}
        /\ a.resumeSource \in Persona \cup {None}
    BY DEF Aggregate
  <2>3. \/ d = Retried(a.resumeRetryFrom, FALSE) /\ a.resumeRetryFrom \in DOMAIN Graph
        \/ \E t \in Persona, s \in Persona \cup {None} : d = Feedback(t, s)
        \/ d = Nothing
    BY <2>1, <2>2 DEF DecideResumed, isRequiredPersona
  <2> QED BY <1>4, <2>3 DEF Grounded
<1>5. ASSUME NEW p \in Persona, NEW own \in BOOLEAN, e = PersonaCompleted(p, own)
      PROVE  Grounded(a, e, d)
  <2>1. d = Nothing \/ d = WorkflowDone
    BY <1>1, <1>5, LetterTypes DEF Decide
  <2> QED BY <2>1 DEF Grounded
<1>6. ASSUME NEW p \in Persona, NEW kind \in FailureKind, e = PersonaFailed(p, kind)
      PROVE  Grounded(a, e, d)
  <2>1. d \in DecideFailed(a, e) /\ e.persona = p
    BY <1>6, LetterTypes DEF Decide
  <2>2. \/ d = Nothing \/ d = WorkflowDone \/ d = WorkflowFailed \/ d = Retried(p, TRUE)
        \/ d = Paused(None, None, p) /\ RateLimitAutopause
    BY <1>1, <2>1 DEF DecideFailed, maybeAutoRetry, maybeRateLimitPause
  <2> QED BY <2>2 DEF Grounded
<1>7. ASSUME NEW vp \in VerdictPairs, NEW o \in {"pass", "fail"}, NEW adv \in BOOLEAN,
             NEW f \in Fingerprint, e = Verdict(vp, o, adv, f)
      PROVE  Grounded(a, e, d)
  <2>1. d \in DecideVerdict(a, e) /\ e.source \in Persona /\ e.target \in Persona
    BY <1>7, LetterTypes, PairTypes DEF Decide
  <2>2. \/ d = Nothing \/ d = WorkflowFailed \/ d = Paused(None, None, None)
        \/ d = Paused(e.target, e.source, None) \/ d = Feedback(e.target, e.source)
    BY <2>1 DEF DecideVerdict
  <2> QED BY <2>1, <2>2 DEF Grounded
<1>8. ASSUME NEW p \in Persona, e = HintRejected(p, "skip")
      PROVE  Grounded(a, e, d)
  <2>1. e.type = "HintRejected" /\ e.persona = p /\ e.action = "skip"
    BY <1>8, LetterTypes
  <2>2. d \in DecideHintRejected(a, e)
    BY <2>1 DEF Decide
  <2>3. d = Nothing \/ d = PersonaCompleted(p, TRUE)
    BY <2>1, <2>2 DEF DecideHintRejected
  <2> QED BY <2>1, <2>3 DEF Grounded
<1>9. CASE e.type = "HintEmitted" /\ e.confident \in BOOLEAN
  <2>1. d = Nothing \/ d = Approved \/ d = Paused(None, None, None)
    BY <1>9 DEF Decide, DecideHintEmitted
  <2> QED BY <1>9, <2>1 DEF Grounded
<1> QED BY <1>2, <1>3, <1>4, <1>5, <1>6, <1>7, <1>8, <1>9, LetterCases

\* The engine has retried nobody and sent nobody back.
Unretried(a) ==
    \A p \in Persona : a.autoRetries[p] = 0 /\ a.feedbackCount[p] = 0

\* The counts only grow, with every retry and every feedback of the engine's.
LEMMA CountsGrow ==
    ASSUME NEW a \in Aggregate, NEW e \in EngineLetter, NEW d \in Decide(Track(a, e), e),
           Unretried(Handled(a, e, d))
    PROVE  /\ Unretried(a)
           /\ \/ d = Nothing \/ d = WorkflowDone \/ d = WorkflowFailed
              \/ d = Started /\ e = Requested
              \/ d = Approved /\ e.type = "HintEmitted"
              \/ \E p \in Persona : d = PersonaCompleted(p, TRUE) /\ e.type = "HintRejected"
              \/ \E t, s, r \in Persona \cup {None} : d = Paused(t, s, r)
              \/ e = Resumed /\ a.resumeRetryFrom \in DOMAIN Graph
                    /\ d = Retried(a.resumeRetryFrom, FALSE)
           /\ ~RateLimitAutopause /\ a.resumeRetryFrom = None =>
                Handled(a, e, d).resumeRetryFrom = None
<1> DEFINE b == Track(a, e)
           c == Apply(b, d)
           h == Handled(a, e, d)
<1>0. /\ Nothing.type = "none" /\ Started.type = "WorkflowStarted"
      /\ WorkflowDone.type = "WorkflowCompleted" /\ WorkflowFailed.type = "WorkflowFailed"
      /\ Approved.type = "HintApproved"
      /\ \A t, s, r : Paused(t, s, r).type = "WorkflowPaused"
      /\ \A p, x : Retried(p, x).type = "WorkflowRetried"
      /\ \A t, s : Feedback(t, s).type = "FeedbackGenerated"
      /\ \A p, x : PersonaCompleted(p, x).type = "PersonaCompleted"
  BY DEF Nothing, Started, WorkflowDone, WorkflowFailed, Approved, Paused,
         Retried, Feedback, PersonaCompleted
<1>1. b \in Aggregate /\ c \in Aggregate /\ Answered(d) /\ Grounded(b, e, d)
  BY TypedTrack, DecideAnswers, TypedApply, DecideGrounded
<1>2. /\ b.autoRetries = a.autoRetries /\ b.feedbackCount = a.feedbackCount
      /\ b.resumeRetryFrom = a.resumeRetryFrom
  BY DEF Track, ApplyCompleted, ApplyFailed, Aggregate
<1>3. /\ h.autoRetries = c.autoRetries /\ h.feedbackCount = c.feedbackCount
      /\ h.resumeRetryFrom = c.resumeRetryFrom
  <2>1. LET v == ApplyVerdict(c, e) IN
            /\ v.autoRetries = c.autoRetries /\ v.feedbackCount = c.feedbackCount
            /\ v.resumeRetryFrom = c.resumeRetryFrom
    BY <1>1 DEF ApplyVerdict, Aggregate
  <2> QED BY <2>1 DEF Handled, Mirror
<1>4. /\ a.autoRetries \in [Persona -> Nat] /\ a.feedbackCount \in [Persona -> Nat]
  BY DEF Aggregate
<1> HIDE DEF b, c, h
<1>5. Unretried(c)
  BY <1>3 DEF Unretried, h
<1> DEFINE Calm == /\ c.autoRetries = b.autoRetries /\ c.feedbackCount = b.feedbackCount
                   /\ c.resumeRetryFrom = b.resumeRetryFrom
<1>6. CASE d = Nothing \/ d = WorkflowDone \/ d = WorkflowFailed \/ d = Started \/ d = Approved
  <2>1. d.type \in {"none", "WorkflowCompleted", "WorkflowFailed", "WorkflowStarted", "HintApproved"}
    BY <1>6 DEF Nothing, WorkflowDone, WorkflowFailed, Started, Approved
  <2>2. Calm
    BY <1>1, <2>1 DEF Apply, c, Aggregate
  <2>3. d = Started => e = Requested
    <3>1. d = Started => d.type = "WorkflowStarted"
      BY DEF Started
    <3> QED BY <1>0, <1>1, <3>1 DEF Grounded
  <2>4. d = Approved => e.type = "HintEmitted"
    <3>1. d = Approved => d.type = "HintApproved"
      BY DEF Approved
    <3> QED BY <1>0, <1>1, <3>1 DEF Grounded
  <2> QED BY <1>2, <1>3, <1>5, <1>6, <2>2, <2>3, <2>4 DEF Unretried, h
<1>7. ASSUME NEW p \in Persona, d = PersonaCompleted(p, TRUE), e.type = "HintRejected"
      PROVE  Unretried(a) /\ h.resumeRetryFrom = a.resumeRetryFrom
  <2>1. c = ApplyCompleted(b, p)
    BY <1>7 DEF c, Apply, PersonaCompleted
  <2>2. Calm
    BY <1>1, <2>1 DEF ApplyCompleted, Aggregate
  <2> QED BY <1>2, <1>3, <1>5, <2>2 DEF Unretried
<1>8. ASSUME NEW t \in Persona \cup {None}, NEW s \in Persona \cup {None},
             NEW r \in Persona \cup {None}, d = Paused(t, s, r)
      PROVE  Unretried(a) /\ h.resumeRetryFrom = r
  <2>1. c = ApplyPaused(b, d) /\ d.retryFrom = r
    BY <1>8 DEF c, Apply, Paused
  <2>2. c.autoRetries = b.autoRetries /\ c.feedbackCount = b.feedbackCount
        /\ c.resumeRetryFrom = r
    BY <1>1, <2>1 DEF ApplyPaused, Aggregate
  <2> QED BY <1>2, <1>3, <1>5, <2>2 DEF Unretried
<1>9. ASSUME NEW p \in Persona, d = Retried(p, TRUE)
      PROVE  FALSE
  <2>1. c = ApplyRetried(b, d) /\ d.persona = p /\ d.automatic
    BY <1>9 DEF c, Apply, Retried
  <2>2. c.autoRetries[p] = b.autoRetries[p] + 1
    BY <1>1, <2>1 DEF ApplyRetried, Aggregate
  <2> QED BY <1>2, <1>4, <1>5, <2>2 DEF Unretried
<1>10. ASSUME e = Resumed, d = Retried(b.resumeRetryFrom, FALSE), b.resumeRetryFrom \in DOMAIN Graph
       PROVE  Unretried(a) /\ h.resumeRetryFrom = a.resumeRetryFrom
  <2>1. c = ApplyRetried(b, d) /\ d.persona = b.resumeRetryFrom /\ d.automatic = FALSE
    BY <1>10 DEF c, Apply, Retried
  <2>2. /\ c.autoRetries = [b.autoRetries EXCEPT ![d.persona] = b.autoRetries[d.persona]]
        /\ c.feedbackCount = b.feedbackCount /\ c.resumeRetryFrom = b.resumeRetryFrom
    BY <1>1, <2>1 DEF ApplyRetried, Aggregate
  <2>3. c.autoRetries = b.autoRetries
    BY <1>2, <1>4, <2>2
  <2> QED BY <1>2, <1>3, <1>5, <2>2, <2>3 DEF Unretried
<1>11. ASSUME NEW t \in Persona, NEW s \in Persona \cup {None}, d = Feedback(t, s)
       PROVE  FALSE
  <2>1. c = ApplyFeedback(b, d) /\ d.target = t
    BY <1>11 DEF c, Apply, Feedback
  <2>2. c.feedbackCount[t] = b.feedbackCount[t] + 1
    BY <1>1, <2>1 DEF ApplyFeedback, Aggregate
  <2> QED BY <1>2, <1>4, <1>5, <2>2 DEF Unretried
<1> QED BY <1>1, <1>2, <1>6, <1>7, <1>8, <1>9, <1>10, <1>11, DefAssumption DEF Grounded, h

-----------------------------------------------------------------------------
(* The barrier's shape *)

\* What leads up to the developer.
Lead == CHOOSE U \in SUBSET Persona : LeadsUp(U)

\* The parts of the barrier are personas, and different ones.
LEMMA Shape ==
    ASSUME Barrier
    PROVE  /\ Lead \subseteq Persona /\ LeadsUp(Lead)
           /\ Developer \in Persona /\ Developer \notin ConsolidatedReviewers
           /\ ReviewConsolidator \in Persona \ (ConsolidatedReviewers \cup {Developer})
           /\ ConsolidatedReviewers \subseteq Persona /\ ConsolidatedReviewers # {}
           /\ Predecessors(ReviewConsolidator) = ConsolidatedReviewers
           /\ Cardinality(Predecessors(ReviewConsolidator)) > 1
           /\ Lead \cap (ConsolidatedReviewers \cup {ReviewConsolidator, Developer}) = {}
<1>1. Lead \in SUBSET Persona /\ LeadsUp(Lead)
  BY DEF Barrier, Lead
<1>2. ConsolidatedReviewers # {}
  BY FS_EmptySet DEF Barrier
<1>3. ReviewConsolidator \notin ConsolidatedReviewers
  BY DEF Barrier
<1> QED BY <1>1, <1>2, <1>3, DefAssumption, LogAssumption
        DEF Barrier, LeadsUp, Predecessors

\* Who follows whom.
LEMMA Order ==
    ASSUME Barrier
    PROVE  /\ \A p : \A r \in ConsolidatedReviewers : r \in Successors(p) => p = Developer
           /\ \A p : ReviewConsolidator \in Successors(p) => p \in ConsolidatedReviewers
           /\ \A p : \A h \in Lead \cup {Developer} :
                 h \in Successors(p) => p \in Lead /\ Graph[h] = {p}
           /\ Roots \cap (ConsolidatedReviewers \cup {ReviewConsolidator}) = {}
           /\ \A h \in Lead \cup {Developer} : h \in Roots => Graph[h] = {}
           /\ \A h \in Lead \cup {Developer} :
                 Graph[h] = {} \/ \E q \in Lead : Graph[h] = {q}
           /\ RetriggeredBy = {Developer}
<1>1. LeadsUp(Lead) /\ ConsolidatedReviewers # {}
  BY Shape
<1> QED BY <1>1 DEF Barrier, LeadsUp, Successors, Roots

\* Feedback for the developer un-completes the reviewers and the consolidator.
LEMMA SentBack ==
    ASSUME Barrier
    PROVE  ConsolidatedReviewers \cup {ReviewConsolidator} \subseteq StrictDownstream(Developer)
<1> SUFFICES ASSUME NEW S \in SUBSET Persona, Developer \in S, Dependents(S) \subseteq S
             PROVE  ConsolidatedReviewers \cup {ReviewConsolidator} \subseteq S
  BY Shape DEF StrictDownstream, Downstream
<1>1. ConsolidatedReviewers \subseteq S
  BY DEF Barrier, Dependents
<1>2. ReviewConsolidator \in S
  BY <1>1, Shape DEF Barrier, Dependents
<1> QED BY <1>1, <1>2

-----------------------------------------------------------------------------
(* What a run adds to the log *)

\* What a completion, a verdict and a feedback change in the log.
LEMMA CompletedLog ==
    ASSUME NEW l \in LogRecord, NEW p \in Persona, NEW n \in Nat
    PROVE  LET m == StoreCompleted(l, p, n) IN
           /\ m.latest = [l.latest EXCEPT ![p] = IF p \in StaleAt(l, p) THEN @ ELSE n]
           /\ m.stored = [l.stored EXCEPT ![p] = n]
           /\ m.verdicts = l.verdicts /\ m.round = l.round /\ m.hints = l.hints
BY DEF StoreCompleted, LogRecord

LEMMA VerdictLog ==
    ASSUME NEW l \in LogRecord, NEW p \in Persona, NEW env, NEW fails
    PROVE  LET m == StoreVerdict(l, p, env, fails) IN
           /\ m.latest = l.latest /\ m.stored = l.stored /\ m.hints = l.hints
           /\ m.round = IF p \in ConsolidatedReviewers THEN env ELSE l.round
           /\ \A v \in l.verdicts : v.source # p => v \in m.verdicts
           /\ \E v \in m.verdicts : v.source = p /\ v.round = env
<1> DEFINE v == [source |-> p, round |-> env, fails |-> fails]
           m == StoreVerdict(l, p, env, fails)
<1>1. /\ m.latest = l.latest /\ m.stored = l.stored /\ m.hints = l.hints
      /\ m.round = IF p \in ConsolidatedReviewers THEN env ELSE l.round
      /\ m.verdicts = {u \in l.verdicts : u.source # p \/ u.round # env} \cup {v}
  BY DEF StoreVerdict, LogRecord
<1>2. v.source = p /\ v.round = env
  OBVIOUS
<1> HIDE DEF v, m
<1> QED BY <1>1, <1>2 DEF m

LEMMA FeedbackLog ==
    ASSUME NEW l \in LogRecord, NEW t \in Persona
    PROVE  LET m == StoreFeedback(l, t) IN
           /\ m.latest = [q \in Persona |-> IF q \in StrictDownstream(t) THEN 0 ELSE l.latest[q]]
           /\ m.stored = l.stored /\ m.verdicts = l.verdicts /\ m.round = l.round
           /\ m.hints = l.hints /\ m.target = t /\ StrictDownstream(t) \subseteq m.stale
BY DEF StoreFeedback, LogRecord

\* A run that brings the round on: p's n-th completion, on env.
Completes(p, n, env, judged) ==
    /\ \A q \in Persona \ {p} : log'.latest[q] = log.latest[q] /\ log'.stored[q] = log.stored[q]
    /\ log'.stored[p] = n /\ log'.latest[p] \in {log.latest[p], n}
    /\ \A v \in log.verdicts : v.source # p => v \in log'.verdicts
    /\ IF judged /\ p \in ConsolidatedReviewers
       THEN log'.round = env /\ \E v \in log'.verdicts : v.source = p /\ v.round = env
       ELSE log'.round = log.round
    /\ log'.hints = log.hints

\* The round is sent back.
SendsBack ==
    /\ \A r \in ConsolidatedReviewers \cup {ReviewConsolidator} : log'.latest[r] = 0
    /\ \A q \in Persona \ {ReviewConsolidator} : log'.stored[q] = log.stored[q]
    /\ UNCHANGED <<log.verdicts, log.round, log.hints>>

\* What the batch of a run holds, by how the run ended.
LEMMA StoredCases ==
    ASSUME NEW l \in LogRecord, NEW d \in Drain, NEW n \in Nat
    PROVE  /\ Stored(l, d, "complete", n) = StoreCompleted(l, d.h, n)
           /\ \A out \in {"pass", "advisory"} :
                 Stored(l, d, out, n) = StoreVerdict(StoreCompleted(l, d.h, n), d.h, d.env, FALSE)
           /\ Stored(l, d, "fail", n) = StoreVerdict(StoreCompleted(l, d.h, n), d.h, d.env, TRUE)
           /\ Stored(l, d, "merged", n) = StoreCompleted(StoreFeedback(l, Developer), d.h, n)
           /\ \A out \in FailureKind : Stored(l, d, out, n) = StoreFailed(l, d.h, n)
<1> DEFINE done == StoreCompleted(l, d.h, n)
           pass == StoreVerdict(done, d.h, d.env, FALSE)
           fail == StoreVerdict(done, d.h, d.env, TRUE)
           back == StoreCompleted(StoreFeedback(l, Developer), d.h, n)
           failed == StoreFailed(l, d.h, n)
           hinted == StoreHint(l, d.h, d.env)
<1>1. \A out : Stored(l, d, out, n) =
        CASE out = "complete" -> done
          [] out \in {"pass", "advisory"} -> pass
          [] out = "fail" -> fail
          [] out = "merged" -> back
          [] out \in FailureKind -> failed
          [] out \in {"hint", "unsure"} -> hinted
  BY DEF Stored
<1> HIDE DEF done, pass, fail, back, failed, hinted
<1>2. Stored(l, d, "complete", n) = done
  BY <1>1 DEF FailureKind
<1>3. Stored(l, d, "pass", n) = pass /\ Stored(l, d, "advisory", n) = pass
  BY <1>1 DEF FailureKind
<1>4. Stored(l, d, "fail", n) = fail
  BY <1>1 DEF FailureKind
<1>5. Stored(l, d, "merged", n) = back
  BY <1>1 DEF FailureKind
<1>6. \A out \in FailureKind : Stored(l, d, out, n) = failed
  BY <1>1 DEF FailureKind
<1> QED BY <1>2, <1>3, <1>4, <1>5, <1>6 DEF done, pass, fail, back, failed

\* A run fails, sends the round back, or brings it on.
LEMMA EndsLog ==
    ASSUME TypesInv, Barrier, NEW d \in drains, NEW out \in Ends(d) \ {"incomplete"},
           log' = Stored(log, d, out, runs[d.h] + 1)
    PROVE  /\ out \notin {"hint", "unsure"}
           /\ d.h = ReviewConsolidator => out \in {"complete", "merged"}
           /\ \/ out \in FailureKind /\ log' = log
              \/ out = "merged" /\ d.h = ReviewConsolidator /\ SendsBack
              \/ /\ out \in {"complete", "pass", "fail", "advisory"}
                 /\ Completes(d.h, runs[d.h] + 1, d.env, out # "complete")
                 /\ out = "complete" => d.h \notin ConsolidatedReviewers
<1> DEFINE n == runs[d.h] + 1
           done == StoreCompleted(log, d.h, n)
           back == StoreFeedback(log, Developer)
<1> DEFINE pass == StoreVerdict(done, d.h, d.env, FALSE)
           fail == StoreVerdict(done, d.h, d.env, TRUE)
<1>1. d.h \in Persona /\ n \in Nat /\ log \in LogRecord /\ d.env \in Env /\ d \in Drain
  BY DEF TypesInv, DrainsTyped, DataTyped, Drain
<1>0. /\ Stored(log, d, "complete", n) = done
      /\ Stored(log, d, "pass", n) = pass /\ Stored(log, d, "advisory", n) = pass
      /\ Stored(log, d, "fail", n) = fail
      /\ Stored(log, d, "merged", n) = StoreCompleted(back, d.h, n)
      /\ \A kind \in FailureKind : Stored(log, d, kind, n) = StoreFailed(log, d.h, n)
  <2> HIDE DEF n
  <2> QED BY <1>1, StoredCases
<1>2. log.latest \in [Persona -> Nat] /\ log.stored \in [Persona -> Nat]
  BY <1>1, LogFields
<1>3. done \in LogRecord /\ back \in LogRecord
  BY <1>1, Shape, StoreCompletedTyped, StoreFeedbackTyped
<1>4. /\ out \notin {"hint", "unsure"}
      /\ d.h = ReviewConsolidator => out \in {"complete", "merged"}
      /\ out = "merged" => d.h = ReviewConsolidator
      /\ out = "complete" => d.h \notin ConsolidatedReviewers
  <2>1. ~Hinting(d)
    BY DEF Hinting, Barrier
  <2>2. "merged" \notin Outcomes[d.h]
    BY <1>1, RunnerAssumption
  <2> QED BY <2>1, <2>2, Shape DEF Ends, Barrier
<1>5. CASE out \in FailureKind
  <2>1. log' = StoreFailed(log, d.h, n)
    BY <1>5, <1>0
  <2>2. log' = log
    BY <2>1 DEF StoreFailed, Barrier
  <2> QED BY <1>4, <1>5, <2>2 DEF FailureKind
<1>6. CASE out = "complete"
  <2>1. log' = done
    BY <1>6, <1>0
  <2>2. /\ done.latest = [log.latest EXCEPT ![d.h] = IF d.h \in StaleAt(log, d.h) THEN @ ELSE n]
        /\ done.stored = [log.stored EXCEPT ![d.h] = n]
        /\ done.verdicts = log.verdicts /\ done.round = log.round /\ done.hints = log.hints
    BY <1>1, CompletedLog
  <2> HIDE DEF done
  <2>3. Completes(d.h, n, d.env, out # "complete")
    BY <1>1, <1>2, <1>6, <2>1, <2>2 DEF Completes
  <2> QED BY <1>4, <1>6, <2>3
<1>7. CASE out \in {"pass", "fail", "advisory"}
  <2>1. PICK fails : log' = StoreVerdict(done, d.h, d.env, fails)
    <3>1. CASE out \in {"pass", "advisory"}
      BY <3>1, <1>0
    <3>2. CASE out = "fail"
      BY <3>2, <1>0
    <3> QED BY <1>7, <3>1, <3>2
  <2>2. /\ done.latest = [log.latest EXCEPT ![d.h] = IF d.h \in StaleAt(log, d.h) THEN @ ELSE n]
        /\ done.stored = [log.stored EXCEPT ![d.h] = n]
        /\ done.verdicts = log.verdicts /\ done.round = log.round /\ done.hints = log.hints
    BY <1>1, CompletedLog
  <2> HIDE DEF done
  <2>3. /\ log'.latest = done.latest /\ log'.stored = done.stored /\ log'.hints = done.hints
        /\ log'.round = IF d.h \in ConsolidatedReviewers THEN d.env ELSE done.round
        /\ \A v \in done.verdicts : v.source # d.h => v \in log'.verdicts
        /\ \E v \in log'.verdicts : v.source = d.h /\ v.round = d.env
    BY <1>1, <1>3, <2>1, VerdictLog
  <2>4. Completes(d.h, n, d.env, out # "complete")
    BY <1>1, <1>2, <1>7, <2>2, <2>3 DEF Completes
  <2> QED BY <1>4, <1>7, <2>4
<1>8. CASE out = "merged"
  <2>1. log' = StoreCompleted(back, d.h, n) /\ d.h = ReviewConsolidator
    BY <1>4, <1>8, <1>0
  <2>2. /\ back.latest = [q \in Persona |-> IF q \in StrictDownstream(Developer) THEN 0 ELSE log.latest[q]]
        /\ back.stored = log.stored /\ back.verdicts = log.verdicts /\ back.round = log.round
        /\ back.hints = log.hints /\ back.target = Developer
        /\ StrictDownstream(Developer) \subseteq back.stale
    BY <1>1, Shape, FeedbackLog
  <2> HIDE DEF back
  <2>3. d.h \in StaleAt(back, d.h)
    BY <2>1, <2>2, SentBack, Shape DEF StaleAt
  <2>4. /\ log'.latest = [back.latest EXCEPT ![d.h] = @]
        /\ log'.stored = [back.stored EXCEPT ![d.h] = n]
        /\ log'.verdicts = back.verdicts /\ log'.round = back.round /\ log'.hints = back.hints
    BY <1>1, <1>3, <2>1, <2>3, CompletedLog
  <2>5. SendsBack
    BY <1>2, <2>1, <2>2, <2>4, SentBack, Shape DEF SendsBack
  <2> QED BY <1>4, <1>8, <2>1, <2>5
<1>9. out \in Outcome
  BY <1>1, EndsTyped DEF TypesInv, DrainsTyped
<1> QED BY <1>4, <1>5, <1>6, <1>7, <1>8, <1>9 DEF Outcome, FailureKind

-----------------------------------------------------------------------------
(* Steps that only move deliveries *)

\* A run of h has stored its events and not yet published them.
Publishing(h) == \E d \in drains : d.h = h /\ d.at = "publish"

\* A delivery is admitted to the queue of h, which gets its one delivery if it
\* had none.
Joins(h) ==
    \E w \in wraps : /\ w.h = h /\ Admitted(w)
                     /\ OneInHand(h) /\ ~InHand(h) => OneInHand(h)'

\* A step that moves deliveries: nothing is stored, no run ends, and no handler
\* has more to do than before, unless one of its deliveries is admitted.
Shuffled ==
    /\ UNCHANGED <<log, runs, answered>>
    /\ seen.joins \subseteq seen'.joins
    /\ \A d \in drains' : d.at = "publish" => d \in drains
    /\ \A h \in Persona : Kept(h) /\ (HandKept(h) \/ Joins(h))

\* Nothing has happened yet.
Fresh ==
    /\ log = NewLog /\ answered = {}
    /\ \A p \in Persona : runs[p] = 0 /\ ~Active(p) /\ ~Publishing(p)

\* The request is the first letter, and nothing happens before its answer.
FirstLetter == \A i \in DOMAIN mail : mail[i] = Requested => i = 1 /\ Fresh

\* There are no hints, nothing asks for a retry, and no resume is one.
HintFree ==
    /\ log.hints = {}
    /\ \A d \in drains : d.at = "publish" => d.out \notin {"hint", "unsure"}
    /\ \A i \in DOMAIN mail :
            /\ mail[i].type \notin {"HintEmitted", "HintRejected"}
            /\ mail[i].type = "WorkflowResumed" => asked # 0
    /\ \A m \in inbox : m.type \notin {"approved", "retry"}
    /\ ~RateLimitAutopause => agg.resumeRetryFrom = None

\* Steps elsewhere.
LEMMA StillShuffled ==
    ASSUME UNCHANGED <<log, runs, answered, wraps, queue, blocked, drains>>,
           seen.joins \subseteq seen'.joins
    PROVE  Shuffled
<1>1. ASSUME NEW h \in Persona PROVE Kept(h) /\ HandKept(h)
  <2>1. Fewer(h)
    BY DEF Fewer
  <2> QED BY <2>1, FewerKept
<1> QED BY <1>1 DEF Shuffled

\* The first answer of the engine.
Begins ==
    /\ Fresh
    /\ UNCHANGED <<log, runs, answered, seen, queue, blocked, drains>>
    /\ wraps' = wraps \cup Deliver(Roots, WorkflowStartedEnv)

\* The letters behind the first.
LEMMA TailLetters ==
    ASSUME NEW s \in Seq(EngineLetter), s # <<>>
    PROVE  /\ Head(s) = s[1] /\ 1 \in DOMAIN s
           /\ \A i \in DOMAIN Tail(s) : i # 0 /\ i + 1 \in DOMAIN s /\ Tail(s)[i] = s[i + 1] /\ i + 1 # 1
OBVIOUS

\* The engine's answers, while it sends nobody back.
LEMMA EngineStep ==
    ASSUME TypesInv, Engine, Undisturbed', FirstLetter, HintFree
    PROVE  /\ HintFree' /\ FirstLetter'
           /\ Shuffled \/ Begins
<1> DEFINE e == Head(mail)
<1>1. /\ agg \in Aggregate /\ mail \in Seq(EngineLetter) /\ mail # <<>>
  BY DEF TypesInv, DataTyped, Engine
<1>2. /\ e = mail[1] /\ 1 \in DOMAIN mail
      /\ \A i \in DOMAIN Tail(mail) : /\ i + 1 \in DOMAIN mail /\ i + 1 # 1
                                      /\ Tail(mail)[i] = mail[i + 1]
  BY <1>1, TailLetters
<1>3. e \in EngineLetter
  BY <1>1
<1>4. PICK d \in Decide(Track(agg, e), e) : agg' = Handled(agg, e, d) /\ Answer(d, e)
  BY DEF Engine
<1>5. /\ UNCHANGED <<seen, blocked, queue, draining, drains, answered, asked>>
  BY DEF Engine, counters, history
<1> HIDE DEF e
<1>6. Unretried(Handled(agg, e, d)) /\ (asked = 0 \/ ~RateLimitAutopause)
  BY <1>4, <1>5 DEF Undisturbed, Unretried
<1>7. /\ \/ d = Nothing \/ d = WorkflowDone \/ d = WorkflowFailed
         \/ d = Started /\ e = Requested
         \/ d = Approved /\ e.type = "HintEmitted"
         \/ \E p \in Persona : d = PersonaCompleted(p, TRUE) /\ e.type = "HintRejected"
         \/ \E t, s, r \in Persona \cup {None} : d = Paused(t, s, r)
         \/ e = Resumed /\ agg.resumeRetryFrom \in DOMAIN Graph
               /\ d = Retried(agg.resumeRetryFrom, FALSE)
      /\ ~RateLimitAutopause => agg'.resumeRetryFrom = None
  BY <1>1, <1>3, <1>4, <1>6, CountsGrow DEF HintFree
<1>8. ~(e = Resumed /\ agg.resumeRetryFrom \in DOMAIN Graph)
  <2>1. e = Resumed => asked # 0
    <3>1. e.type = "WorkflowResumed" => asked # 0
      BY <1>2 DEF HintFree
    <3>2. Resumed.type = "WorkflowResumed"
      BY LetterTypes
    <3> QED BY <3>1, <3>2
  <2> QED BY <1>6, <2>1, DefAssumption DEF HintFree
<1>9. /\ mail' = Tail(mail) /\ UNCHANGED <<log, runs>>
      /\ \A m \in inbox' : m \in inbox \/ m.type = "evict"
      /\ wraps' = wraps \/ (e = Requested /\ wraps' = wraps \cup Deliver(Roots, WorkflowStartedEnv))
  <2>1. CASE d = Nothing
    <3>1. d.type = "none"
      BY <2>1 DEF Nothing
    <3> QED BY <1>4, <3>1 DEF Answer
  <2>2. CASE d = WorkflowDone \/ d = WorkflowFailed
    <3>1. d.type \in {"WorkflowCompleted", "WorkflowFailed"}
      BY <2>2 DEF WorkflowDone, WorkflowFailed
    <3>2. Post("evict", None, WorkflowStartedEnv).type = "evict"
      BY DEF Post
    <3> QED BY <1>4, <3>1, <3>2 DEF Answer
  <2>3. CASE d = Started /\ e = Requested
    <3>1. d.type = "WorkflowStarted"
      BY <2>3, LetterTypes
    <3> QED BY <1>4, <2>3, <3>1 DEF Answer
  <2>4. CASE \E t, s, r \in Persona \cup {None} : d = Paused(t, s, r)
    <3>1. d.type = "WorkflowPaused"
      BY <2>4 DEF Paused
    <3> QED BY <1>4, <3>1 DEF Answer
  <2>5. e.type \notin {"HintEmitted", "HintRejected"}
    BY <1>2 DEF HintFree
  <2> QED BY <1>7, <1>8, <2>1, <2>2, <2>3, <2>4, <2>5
<1>10. HintFree'
  <2>1. \A i \in DOMAIN mail' :
            /\ mail'[i].type \notin {"HintEmitted", "HintRejected"}
            /\ mail'[i].type = "WorkflowResumed" => asked' # 0
    BY <1>2, <1>5, <1>9 DEF HintFree
  <2>2. \A m \in inbox' : m.type \notin {"approved", "retry"}
    BY <1>9 DEF HintFree
  <2> QED BY <1>5, <1>7, <1>9, <2>1, <2>2 DEF HintFree
<1>11. FirstLetter'
  BY <1>2, <1>9 DEF FirstLetter
<1>12. Shuffled \/ Begins
  <2>1. CASE wraps' = wraps
    <3>1. Shuffled
      BY <1>5, <1>9, <2>1, StillShuffled
    <3> QED BY <3>1
  <2>2. CASE e = Requested /\ wraps' = wraps \cup Deliver(Roots, WorkflowStartedEnv)
    <3>1. Fresh
      BY <1>2, <2>2 DEF FirstLetter
    <3> QED BY <1>5, <1>9, <2>2, <3>1 DEF Begins
  <2> QED BY <1>9, <2>1, <2>2
<1> QED BY <1>10, <1>11, <1>12

\* What only moves deliveries starts nothing.
LEMMA FreshKept == Shuffled /\ Fresh => Fresh'
BY DEF Shuffled, Fresh, Kept, Publishing

\* What a step other than the engine's adds to the engine's channel.
LEMMA MailGrows ==
    ASSUME mail \in Seq(EngineLetter), NEW letters \in Seq(EngineLetter),
           mail' = mail \o letters, asked # 0 => asked' # 0,
           \A i \in DOMAIN letters :
              /\ letters[i].type \notin {"WorkflowRequested", "HintEmitted", "HintRejected"}
              /\ letters[i].type = "WorkflowResumed" => asked' # 0,
           FirstLetter, Fresh => Fresh',
           HintFree
    PROVE  /\ FirstLetter'
           /\ \A i \in DOMAIN mail' :
                  /\ mail'[i].type \notin {"HintEmitted", "HintRejected"}
                  /\ mail'[i].type = "WorkflowResumed" => asked' # 0
<1>1. \A i \in DOMAIN mail' : \/ i \in DOMAIN mail /\ mail'[i] = mail[i]
                              \/ \E j \in DOMAIN letters : mail'[i] = letters[j]
  <2> SUFFICES ASSUME NEW i \in 1..(Len(mail) + Len(letters))
               PROVE  \/ i \in 1..Len(mail) /\ (mail \o letters)[i] = mail[i]
                      \/ \E j \in 1..Len(letters) : (mail \o letters)[i] = letters[j]
    OBVIOUS
  <2>1. CASE i <= Len(mail)
    BY <2>1
  <2>2. CASE i > Len(mail)
    <3>1. i - Len(mail) \in 1..Len(letters) /\ (mail \o letters)[i] = letters[i - Len(mail)]
      BY <2>2
    <3> QED BY <3>1
  <2> QED BY <2>1, <2>2
<1>2. FirstLetter'
  BY <1>1, LetterTypes DEF FirstLetter
<1> QED BY <1>1, <1>2 DEF HintFree

\* A cancelled context is all that changes.
LEMMA InterruptedShuffles ==
    ASSUME TypesInv, drains' = Interrupted, UNCHANGED <<log, runs, answered, seen, wraps, queue>>,
           blocked' \subseteq blocked
    PROVE  Shuffled /\ \A d \in drains' : d.at = "publish" => d \in drains
<1>1. \A d \in drains' :
        d \in drains \/ \E f \in drains : f.at = "run" /\ d.h = f.h /\ d.at = f.at /\ d.env = f.env
  <2> SUFFICES ASSUME NEW d \in drains', d \notin drains
               PROVE  \E f \in drains : f.at = "run" /\ d.h = f.h /\ d.at = f.at /\ d.env = f.env
    OBVIOUS
  <2>1. PICK f \in drains : d = [f EXCEPT !.live = FALSE] /\ f.at = "run"
    BY DEF Interrupted
  <2>2. f \in Drain
    BY DEF TypesInv, DrainsTyped
  <2>3. d.h = f.h /\ d.at = f.at /\ d.env = f.env
    BY <2>1, <2>2 DEF Drain
  <2> QED BY <2>1, <2>3
<1>3. \A d \in drains' : d.at = "publish" => d \in drains
  BY <1>1
<1>4. ASSUME NEW h \in Persona PROVE Kept(h) /\ HandKept(h)
  <2>1. \A d \in drains' : Held(d, h) => \E f \in drains : Held(f, h) /\ f.env = d.env
    BY <1>1 DEF Held
  <2>2. Fewer(h)
    BY <2>1 DEF Fewer
  <2> QED BY <2>2, FewerKept
<1> QED BY <1>3, <1>4 DEF Shuffled

\* Wrap, the queues, the subscriptions and the operator only move deliveries.
LEMMA WrapShuffles ==
    ASSUME TypesInv, NEW w \in wraps, Drop(w) \/ Admit(w) \/ Park(w)
    PROVE  Shuffled /\ UNCHANGED <<agg, mail, inbox, asked>>
<1>1. /\ UNCHANGED <<agg, mail, inbox, asked, log, runs, answered>>
  BY DEF Drop, Admit, Park, AdmitFrame, persistent, counters, history
<1>2. \A d \in drains' : d.at = "publish" => d \in drains
  BY DEF Drop, Admit, Park, Enqueue, NewDrain
<1>3. seen.joins \subseteq seen'.joins
  <2>1. seen' = seen \/ seen'.joins = seen.joins \/ seen' = SeenWith(w.h, w.env)
    <3>1. seen = [events |-> seen.events, joins |-> seen.joins]
      BY DEF TypesInv, PlacesTyped
    <3>2. \A E : [seen EXCEPT !.events = E].joins = seen.joins
      BY <3>1
    <3> QED BY <3>2 DEF Drop, Admit, Admitted, Park
  <2> QED BY <2>1 DEF SeenWith
<1>4. w.h \in Persona
  BY DEF TypesInv, PlacesTyped, Wrap
<1>5. \A h \in Persona : Kept(h) /\ (HandKept(h) \/ Joins(h))
  BY WrapSteps DEF Joins
<1> QED BY <1>1, <1>2, <1>3, <1>5 DEF Shuffled

LEMMA DrainShuffles ==
    ASSUME TypesInv, OneDrain, NEW d \in drains, DrainStep(d), ~Publish(d),
           \A out \in Outcome : ~End(d, out)
    PROVE  Shuffled /\ UNCHANGED <<agg, mail, inbox, asked>>
<1>1. d \in Drain
  BY DEF TypesInv, DrainsTyped
<1>2. UNCHANGED <<agg, mail, inbox, asked, log, runs, answered, seen>>
  BY DEF DrainStep, Take, Stop, FindPaused, ParkQueue, Acquire, EndIncomplete, EndCancelled,
         DrainFrame, persistent, counters, history
<1>3. \A e \in drains' : e.at = "publish" => e \in drains
  <2>1. CASE Take(d)
    <3>1. PICK env : Turn(d, [d EXCEPT !.at = "slot", !.env = env])
      BY <2>1 DEF Take
    <3>2. [d EXCEPT !.at = "slot", !.env = env].at = "slot"
      BY <1>1 DEF Drain
    <3> QED BY <3>1, <3>2 DEF Turn
  <2>2. CASE Acquire(d)
    <3>1. Turn(d, [d EXCEPT !.at = "run", !.live = TRUE])
      BY <2>2 DEF Acquire
    <3>2. [d EXCEPT !.at = "run", !.live = TRUE].at = "run"
      BY <1>1 DEF Drain
    <3> QED BY <3>1, <3>2 DEF Turn
  <2>3. CASE FindPaused(d) \/ EndIncomplete(d) \/ EndCancelled(d)
    <3>1. PICK at \in {"park", "check"} : Turn(d, [d EXCEPT !.at = at])
      BY <2>3 DEF FindPaused, EndIncomplete, EndCancelled
    <3>2. [d EXCEPT !.at = at].at = at
      BY <1>1 DEF Drain
    <3> QED BY <3>1, <3>2 DEF Turn
  <2>4. CASE Stop(d) \/ ParkQueue(d)
    BY <2>4 DEF Stop, ParkQueue
  <2> QED BY <2>1, <2>2, <2>3, <2>4 DEF DrainStep
<1>4. \A h \in Persona : Kept(h) /\ HandKept(h)
  BY DrainSteps
<1> QED BY <1>2, <1>3, <1>4 DEF Shuffled

LEMMA SubscriptionShuffles ==
    ASSUME TypesInv, HintFree,
           \/ OnResumed \/ OnCancelled \/ OnTerminal
           \/ \E p \in Persona : OnRetried(p) \/ OnApproved(p)
    PROVE  Shuffled /\ inbox' \subseteq inbox /\ UNCHANGED <<agg, mail, asked>>
<1>1. ASSUME NEW p \in Persona, OnRetried(p) \/ OnApproved(p) PROVE FALSE
  <2>1. Post("retry", p, WorkflowStartedEnv).type = "retry"
    BY DEF Post
  <2> QED BY <1>1, <2>1 DEF OnRetried, OnApproved, HintFree
<1>2. CASE OnResumed
  <2>1. /\ UNCHANGED <<agg, mail, asked, log, runs, answered, drains>>
        /\ inbox' \subseteq inbox
    BY <1>2 DEF OnResumed, persistent, counters
  <2>2. seen'.joins = seen.joins
    <3>1. seen = [events |-> seen.events, joins |-> seen.joins]
      BY DEF TypesInv, PlacesTyped
    <3>2. \A E : [seen EXCEPT !.events = E].joins = seen.joins
      BY <3>1
    <3> QED BY <1>2, <3>2 DEF OnResumed
  <2>3. \A h \in Persona : Kept(h) /\ HandKept(h)
    BY <1>2, ResumedKept
  <2> QED BY <2>1, <2>2, <2>3 DEF Shuffled
<1>3. CASE OnCancelled \/ OnTerminal
  <2>1. /\ UNCHANGED <<agg, mail, asked, log, runs, answered, seen, wraps, queue>>
        /\ inbox' \subseteq inbox /\ drains' = Interrupted /\ blocked' \subseteq blocked
    BY <1>3 DEF OnCancelled, OnTerminal, persistent, counters, history
  <2> QED BY <2>1, InterruptedShuffles
<1> QED BY <1>1, <1>2, <1>3

\* What an operator does to the aggregate.
LEMMA CommandApplies ==
    ASSUME agg \in Aggregate, Operator
    PROVE  /\ agg'.autoRetries = agg.autoRetries /\ agg'.feedbackCount = agg.feedbackCount
           /\ agg'.resumeRetryFrom \in {agg.resumeRetryFrom, None}
<1>1. \/ UNCHANGED agg
      \/ agg' = Apply(agg, Resumed)
      \/ agg' = Apply(agg, Paused(None, None, None))
      \/ agg' = Apply(agg, Cancelled)
  BY DEF Operator, PauseWorkflow, ResumeWorkflow, CancelWorkflow, ApproveHint, RejectHint,
         ResumeWith
<1>2. /\ Apply(agg, Resumed) = [agg EXCEPT !.status = "running"]
      /\ Apply(agg, Cancelled) = [agg EXCEPT !.status = "cancelled"]
      /\ Apply(agg, Paused(None, None, None)) = ApplyPaused(agg, Paused(None, None, None))
      /\ Paused(None, None, None).retryFrom = None
  BY DEF Apply, Resumed, Cancelled, Paused
<1>3. \A status : LET a == [agg EXCEPT !.status = status]
                  IN  /\ a.autoRetries = agg.autoRetries /\ a.feedbackCount = agg.feedbackCount
                      /\ a.resumeRetryFrom = agg.resumeRetryFrom
  BY DEF Aggregate
<1>4. LET a == ApplyPaused(agg, Paused(None, None, None))
      IN  /\ a.autoRetries = agg.autoRetries /\ a.feedbackCount = agg.feedbackCount
          /\ a.resumeRetryFrom = None
  BY <1>2 DEF ApplyPaused, Aggregate
<1>5. CASE UNCHANGED agg
  BY <1>5
<1>6. CASE agg' = Apply(agg, Resumed) \/ agg' = Apply(agg, Cancelled)
  <2>1. PICK status : agg' = [agg EXCEPT !.status = status]
    BY <1>2, <1>6
  <2> QED BY <1>3, <2>1
<1>7. CASE agg' = Apply(agg, Paused(None, None, None))
  BY <1>2, <1>4, <1>7
<1> QED BY <1>1, <1>5, <1>6, <1>7

LEMMA OperatorShuffles ==
    ASSUME TypesInv, Operator, FirstLetter, HintFree
    PROVE  Shuffled /\ FirstLetter' /\ HintFree'
<1>1. agg \in Aggregate /\ mail \in Seq(EngineLetter) /\ asked \in Nat
  BY DEF TypesInv, DataTyped
<1>2. PauseWorkflow \/ ResumeWorkflow \/ CancelWorkflow
  BY DEF Operator, ApproveHint, RejectHint, HintFree
<1>3. /\ UNCHANGED <<log, runs, answered, wraps, seen, queue, blocked, drains>>
      /\ asked' = asked + 1
  BY <1>2 DEF PauseWorkflow, ResumeWorkflow, CancelWorkflow, Command, ResumeWith, history
<1>4. Shuffled
  BY <1>3, StillShuffled
<1>5. \A m \in inbox' : m.type \notin {"approved", "retry"}
  <2>1. \A type, p, env : Post(type, p, env).type = type
    BY DEF Post
  <2> QED BY <1>2, <2>1 DEF PauseWorkflow, ResumeWorkflow, CancelWorkflow, ResumeWith, HintFree
<1>6. PICK letters \in Seq(EngineLetter) :
        /\ mail' = mail \o letters
        /\ \A i \in DOMAIN letters : letters[i] = Resumed
  <2>1. CASE mail' = mail
    <3>1. <<>> \in Seq(EngineLetter) /\ mail' = mail \o <<>> /\ DOMAIN <<>> = {}
      BY <1>1, <2>1
    <3> QED BY <3>1
  <2>2. CASE mail' = mail \o Append(<<>>, Resumed)
    <3>1. Append(<<>>, Resumed) \in Seq(EngineLetter)
          /\ \A i \in DOMAIN Append(<<>>, Resumed) : Append(<<>>, Resumed)[i] = Resumed
      BY LettersTyped
    <3> QED BY <2>2, <3>1
  <2> QED BY <1>2, <2>1, <2>2 DEF PauseWorkflow, ResumeWorkflow, CancelWorkflow, ResumeWith
<1>7. /\ FirstLetter'
      /\ \A i \in DOMAIN mail' :
            /\ mail'[i].type \notin {"HintEmitted", "HintRejected"}
            /\ mail'[i].type = "WorkflowResumed" => asked' # 0
  <2>1. asked' # 0
    BY <1>1, <1>3
  <2> QED BY <1>1, <1>4, <1>6, <2>1, FreshKept, LetterTypes, MailGrows
<1>8. ~RateLimitAutopause => agg'.resumeRetryFrom = None
  BY <1>1, CommandApplies DEF HintFree
<1>9. HintFree'
  BY <1>3, <1>5, <1>7, <1>8 DEF HintFree
<1> QED BY <1>4, <1>7, <1>9

\* What was never disturbed was not disturbed before.
LEMMA CountsBack ==
    ASSUME TypesInv, [Next]_vars, Undisturbed'
    PROVE  Undisturbed
<1>1. /\ agg \in Aggregate /\ asked \in Nat /\ faults \in Nat /\ restarts \in Nat
      /\ mail \in Seq(EngineLetter)
  BY DEF TypesInv, DataTyped
<1>2. /\ restarts' = 0 /\ faults' = 0 /\ (asked' = 0 \/ ~RateLimitAutopause)
      /\ Unretried(agg')
  BY DEF Undisturbed, Unretried
<1> DEFINE Back == /\ restarts <= restarts' /\ faults <= faults' /\ asked <= asked'
                   /\ Unretried(agg)
<1>3. ASSUME Back PROVE Undisturbed
  BY <1>1, <1>2, <1>3 DEF Undisturbed, Unretried
<1>4. ASSUME NEW w \in wraps, Drop(w) \/ Admit(w) \/ Park(w) \/ JoinError(w) PROVE Back
  BY <1>1, <1>2, <1>4 DEF Drop, Admit, Park, JoinError, AdmitFrame, persistent, counters
<1>5. ASSUME NEW d \in drains, DrainStep(d) PROVE Back
  <2>1. UNCHANGED <<agg, asked, restarts>> /\ faults' \in {faults, faults + 1}
    BY <1>5 DEF DrainStep, Take, Stop, FindPaused, ParkQueue, Acquire, End, Persist,
                EndIncomplete, EndCancelled, Publish, DrainFrame, persistent, counters
  <2> QED BY <1>1, <1>2, <2>1
<1>6. CASE Engine
  <2>1. PICK d \in Decide(Track(agg, Head(mail)), Head(mail)) :
            agg' = Handled(agg, Head(mail), d)
    BY <1>6 DEF Engine
  <2>2. Head(mail) \in EngineLetter
    BY <1>1, <1>6 DEF Engine
  <2>3. Unretried(agg)
    BY <1>1, <1>2, <2>1, <2>2, CountsGrow
  <2>4. UNCHANGED counters
    BY <1>6 DEF Engine
  <2> QED BY <1>1, <1>3, <2>3, <2>4 DEF counters
<1>7. CASE \/ OnResumed \/ OnCancelled \/ OnTerminal
           \/ \E p \in Persona : OnRetried(p) \/ OnApproved(p)
  <2>1. UNCHANGED <<agg, asked, faults, restarts>>
    BY <1>7 DEF OnResumed, OnCancelled, OnTerminal, OnRetried, OnApproved, persistent, counters
  <2> QED BY <1>1, <1>2, <1>3, <2>1
<1>8. CASE Operator
  <2>1. asked' = asked + 1 /\ UNCHANGED <<faults, restarts>>
    BY <1>8 DEF Operator, PauseWorkflow, ResumeWorkflow, CancelWorkflow, ApproveHint, RejectHint,
                Command
  <2>2. Unretried(agg)
    BY <1>1, <1>2, <1>8, CommandApplies DEF Unretried
  <2> QED BY <1>1, <1>3, <2>1, <2>2
<1>9. CASE Restart
  BY <1>1, <1>2, <1>9 DEF Restart
<1>10. CASE UNCHANGED vars
  BY <1>1, <1>2, <1>3, <1>10 DEF vars, persistent, counters
<1> QED BY <1>3, <1>4, <1>5, <1>6, <1>7, <1>8, <1>9, <1>10 DEF Next, Progress

\* What a run that was no hint posts to the engine.
LEMMA PublishedLetters ==
    ASSUME TypesInv, NEW d \in drains, d.at = "publish", d.out \notin {"hint", "unsure"},
           NEW letters \in Letters(d)
    PROVE  /\ letters \in Seq(EngineLetter)
           /\ \A i \in DOMAIN letters :
                 letters[i].type \in {"PersonaCompleted", "PersonaFailed", "VerdictRendered"}
<1>1. letters \in Seq(EngineLetter) /\ d.out \in Outcome \ {"incomplete"}
  BY PublishedTyped DEF TypesInv, DrainsTyped, Sends, Drain
<1> DEFINE Plain(l) == \A i \in DOMAIN l :
                 l[i].type \in {"PersonaCompleted", "PersonaFailed", "VerdictRendered"}
           c == PersonaCompleted(d.h, FALSE)
<1>2. /\ Plain(<<c>>) /\ Plain(<<PersonaFailed(d.h, d.out)>>)
      /\ \A o, adv, f : Plain(<<Verdict(<<d.h, Target(d.h)>>, o, adv, f), c>>)
  <2>1. /\ c.type = "PersonaCompleted" /\ PersonaFailed(d.h, d.out).type = "PersonaFailed"
        /\ \A vp, o, adv, f : Verdict(vp, o, adv, f).type = "VerdictRendered"
    BY DEF PersonaCompleted, PersonaFailed, Verdict
  <2> HIDE DEF c
  <2>2. \A x, y : /\ DOMAIN <<x>> = {1} /\ <<x>>[1] = x
                  /\ DOMAIN <<x, y>> = {1, 2} /\ <<x, y>>[1] = x /\ <<x, y>>[2] = y
    OBVIOUS
  <2> QED BY <2>1, <2>2
<1>3. letters \in Letters(d)
  OBVIOUS
<1> HIDE DEF Plain
<1>4. Plain(letters)
  <2>1. CASE d.out \in {"complete", "merged"}
    BY <1>2, <1>3, <2>1 DEF Letters
  <2>2. CASE d.out \in FailureKind
    <3>1. letters = <<PersonaFailed(d.h, d.out)>>
      BY <1>3, <2>2 DEF Letters, FailureKind
    <3> QED BY <1>2, <3>1
  <2>3. CASE d.out = "pass"
    BY <1>2, <1>3, <2>3 DEF Letters
  <2>4. CASE d.out = "fail"
    BY <1>2, <1>3, <2>4 DEF Letters
  <2>5. CASE d.out = "advisory"
    BY <1>2, <1>3, <2>5 DEF Letters
  <2> QED BY <1>1, <2>1, <2>2, <2>3, <2>4, <2>5 DEF Outcome, FailureKind
<1> QED BY <1>1, <1>4 DEF Plain

\* A run that ended, and whose events are stored.
Finished(d, out) ==
    /\ End(d, out) /\ log' = Stored(log, d, out, runs[d.h] + 1)
    /\ out \in Ends(d) \ {"incomplete"}

\* While nothing disturbs the workflow a step moves deliveries, is the engine's
\* first answer, ends a run or publishes one.
LEMMA StepKinds ==
    ASSUME TypesInv, OneDrain, Barrier, [Next]_vars, Undisturbed', FirstLetter, HintFree
    PROVE  /\ FirstLetter' /\ HintFree'
           /\ \/ Shuffled \/ Begins
              \/ \E d \in drains : Publish(d)
              \/ \E d \in drains, out \in Outcome : Finished(d, out)
<1>1. /\ mail \in Seq(EngineLetter) /\ faults \in Nat /\ restarts \in Nat /\ log \in LogRecord
      /\ drains \subseteq Drain
  BY DEF TypesInv, DataTyped, DrainsTyped
<1>2. faults' = 0 /\ restarts' = 0
  BY DEF Undisturbed
<1>3. ASSUME Shuffled, UNCHANGED <<agg, mail, asked>>, inbox' \subseteq inbox
      PROVE  FirstLetter' /\ HintFree'
  <2>1. FirstLetter'
    BY <1>3, FreshKept DEF FirstLetter
  <2>2. HintFree'
    BY <1>3 DEF HintFree, Shuffled
  <2> QED BY <2>1, <2>2
<1>4. ASSUME NEW w \in wraps, Drop(w) \/ Admit(w) \/ Park(w)
      PROVE  FirstLetter' /\ HintFree' /\ Shuffled
  BY <1>3, <1>4, WrapShuffles
<1>5. ASSUME NEW w \in wraps, JoinError(w) PROVE FALSE
  BY <1>1, <1>2, <1>5 DEF JoinError
<1>6. ASSUME NEW d \in drains, DrainStep(d), ~Publish(d), \A out \in Outcome : ~End(d, out)
      PROVE  FirstLetter' /\ HintFree' /\ Shuffled
  BY <1>3, <1>6, DrainShuffles
<1>7. ASSUME NEW d \in drains, NEW out \in Outcome, End(d, out)
      PROVE  FirstLetter' /\ HintFree' /\ Finished(d, out)
  <2>1. /\ out \in Ends(d) \ {"incomplete"} /\ d.at = "run" /\ Persist(d, out)
        /\ Turn(d, [d EXCEPT !.at = "publish", !.out = out])
        /\ UNCHANGED <<agg, mail, inbox, asked>>
    BY <1>7 DEF End
  <2>2. log' = Stored(log, d, out, runs[d.h] + 1)
    BY <1>1, <1>2, <2>1 DEF Persist
  <2>3. log'.hints = log.hints /\ out \notin {"hint", "unsure"}
    BY <2>1, <2>2, EndsLog DEF SendsBack, Completes
  <2>4. [d EXCEPT !.at = "publish", !.out = out].out = out
    BY <1>1 DEF Drain
  <2>5. \A e \in drains' : e.at = "publish" => e.out \notin {"hint", "unsure"}
    BY <2>1, <2>3, <2>4 DEF Turn, HintFree
  <2>6. HintFree'
    BY <2>1, <2>3, <2>5 DEF HintFree
  <2>7. ~Fresh
    <3>1. d.h \in Persona /\ InRun(d.h)
      BY <1>1, <2>1 DEF Drain, InRun, Held
    <3> QED BY <3>1 DEF Fresh, Active, InHand
  <2>8. FirstLetter'
    BY <2>1, <2>7 DEF FirstLetter
  <2> QED BY <1>7, <2>1, <2>2, <2>6, <2>8 DEF Finished
<1>8. ASSUME NEW d \in drains, Publish(d)
      PROVE  FirstLetter' /\ HintFree'
  <2>1. /\ d.at = "publish" /\ Turn(d, [d EXCEPT !.at = "check"])
        /\ UNCHANGED <<agg, log, inbox, asked>>
    BY <1>8 DEF Publish, persistent, counters
  <2>2. PICK letters \in Letters(d) : mail' = mail \o letters
    BY <1>8 DEF Publish
  <2>3. /\ letters \in Seq(EngineLetter)
        /\ \A i \in DOMAIN letters :
              letters[i].type \in {"PersonaCompleted", "PersonaFailed", "VerdictRendered"}
    BY <2>1, PublishedLetters DEF HintFree
  <2>4. ~Fresh
    <3>1. d.h \in Persona /\ Publishing(d.h)
      BY <1>1, <2>1 DEF Drain, Publishing
    <3> QED BY <3>1 DEF Fresh
  <2>5. /\ FirstLetter'
        /\ \A i \in DOMAIN mail' :
              /\ mail'[i].type \notin {"HintEmitted", "HintRejected"}
              /\ mail'[i].type = "WorkflowResumed" => asked' # 0
    BY <1>1, <2>1, <2>2, <2>3, <2>4, MailGrows
  <2>6. [d EXCEPT !.at = "check"].at = "check"
    BY <1>1 DEF Drain
  <2>7. HintFree'
    BY <2>1, <2>5, <2>6 DEF HintFree, Turn
  <2> QED BY <2>5, <2>7
<1>9. CASE Engine
  BY <1>9, EngineStep
<1>10. CASE \/ OnResumed \/ OnCancelled \/ OnTerminal
            \/ \E p \in Persona : OnRetried(p) \/ OnApproved(p)
  BY <1>3, <1>10, SubscriptionShuffles
<1>11. CASE Operator
  BY <1>11, OperatorShuffles
<1>12. CASE Restart
  BY <1>1, <1>2, <1>12 DEF Restart
<1>13. CASE UNCHANGED vars
  <2>1. UNCHANGED <<agg, mail, asked, inbox, log, runs, answered, wraps, queue, blocked, drains, seen>>
    BY <1>13 DEF vars, persistent, dispatch, counters, history
  <2> QED BY <1>3, <2>1, StillShuffled
<1>14. ASSUME NEW d \in drains, DrainStep(d)
       PROVE  /\ FirstLetter' /\ HintFree'
              /\ Shuffled \/ Publish(d) \/ \E out \in Outcome : Finished(d, out)
  BY <1>6, <1>7, <1>8, <1>14
<1> QED BY <1>4, <1>5, <1>9, <1>10, <1>11, <1>12, <1>13, <1>14 DEF Next, Progress

-----------------------------------------------------------------------------
(* The barrier's invariant *)

\* The ends of a run that store its completion, and the round: the last
\* completion of the developer.
Completing == {"complete", "pass", "fail", "advisory"}
Cur == Envelope("completed", Developer, log.stored[Developer])
\* The developer is about to publish a round, the consolidator to send it back.
DevDone == \E d \in drains : d.h = Developer /\ d.at = "publish" /\ d.out \in Completing
Merged == \E d \in drains : d.h = ReviewConsolidator /\ d.at = "publish" /\ d.out = "merged"
\* The consolidator has work in hand; nobody or everybody has judged the round;
\* the consolidator is done with it; its reviews were joined once.
CToken == InHand(ReviewConsolidator)
NoneJudged == \A r \in ConsolidatedReviewers : log.latest[r] = 0 /\ ~Active(r)
AllJudged == \A r \in ConsolidatedReviewers : log.latest[r] > 0
Done == log.latest[ReviewConsolidator] > 0
Joined == <<ReviewConsolidator, JoinFingerprint(log, ReviewConsolidator)>> \in seen.joins
\* p has run or is to run.
Touched(p) == Active(p) \/ Publishing(p) \/ runs[p] > 0

\* What leads up to the developer runs once, one after the other.
LeadInv ==
    /\ \A p \in Lead \cup {Developer} : \A q \in Graph[p] :
          Touched(p) => runs[q] = 1 /\ ~Publishing(q) /\ ~Active(q)
    /\ \A p \in Lead : /\ Active(p) => runs[p] = 0
                       /\ runs[p] <= 1
                       /\ Publishing(p) => runs[p] = 1
    /\ \/ \E r \in ConsolidatedReviewers : Active(r) \/ log.latest[r] > 0
       \/ CToken \/ Merged \/ Publishing(Developer)
       => runs[Developer] > 0

\* Nobody up to the reviewers has two deliveries, nor the consolidator in hand.
Singles ==
    /\ \A h \in Lead \cup {Developer} \cup ConsolidatedReviewers : Once(h)
    /\ OneInHand(ReviewConsolidator)
    /\ OnlyOn(ReviewConsolidator, {env \in Env : env.type = "completed"})
    /\ \A d \in drains : d.at = "publish" /\ d.out = "merged" => d.h = ReviewConsolidator

\* Whoever works on the round works on the developer's last run, and the
\* developer only once nobody does.
Round ==
    /\ DevDone => log.stored[Developer] = runs[Developer] /\ NoneJudged
    /\ \A r \in ConsolidatedReviewers : Active(r) => log.latest[r] = 0 /\ OnlyOn(r, {Cur})
    /\ Active(Developer) \/ Merged => NoneJudged /\ ~DevDone /\ ~CToken
    /\ Merged => ~Active(Developer)
    /\ CToken => AllJudged /\ ~Done /\ Joined
    /\ Done => AllJudged /\ ~CToken /\ Joined

\* The verdicts there are on the round, and the rounds already sent back.
Answers ==
    /\ log.stored[Developer] <= runs[Developer]
    /\ \A e \in answered : e.n <= log.stored[Developer]
    /\ \A r \in ConsolidatedReviewers : log.latest[r] > 0 =>
          /\ log.round = Cur
          /\ \E v \in log.verdicts : v.source = r /\ v.round = Cur
    /\ Cur \in answered => NoneJudged /\ ~DevDone

BarrierInv == FirstLetter /\ HintFree /\ LeadInv /\ Singles /\ Round /\ Answers

\* Admitted for the consolidator: all have judged, and for the first time.
LEMMA JoinsC ==
    ASSUME TypesInv, Barrier, Singles, Joins(ReviewConsolidator)
    PROVE  AllJudged /\ ~Joined /\
           <<ReviewConsolidator, JoinFingerprint(log, ReviewConsolidator)>> \in seen'.joins
<1>1. PICK w \in wraps : w.h = ReviewConsolidator /\ Admitted(w)
  BY DEF Joins
<1>2. w.env.type = "completed"
  BY <1>1 DEF Singles, OnlyOn
<1>3. JoinGated(w.h, w.env)
  BY <1>1, <1>2, Shape DEF JoinGated
<1>4. AllJudged
  BY <1>1, Shape DEF Admitted, JoinSatisfied, AllJudged
<1>5. seen'.joins = seen.joins \cup {<<w.h, JoinFingerprint(log, w.h)>>}
  BY <1>1, <1>3 DEF Admitted, SeenWith
<1> QED BY <1>1, <1>3, <1>4, <1>5 DEF Admitted, Joined

\* Moving deliveries keeps the invariant: only the join lets one through to the
\* consolidator, once everybody has judged.
LEMMA ShuffledKeeps ==
    ASSUME TypesInv, Barrier, Shuffled, LeadInv, Singles, Round, Answers
    PROVE  LeadInv' /\ Singles' /\ Round' /\ Answers'
<1> DEFINE R == ConsolidatedReviewers
           C == ReviewConsolidator
<1>1. /\ UNCHANGED <<log, runs, answered>> /\ seen.joins \subseteq seen'.joins
      /\ \A h \in Persona : /\ Once(h) => Once(h)'
                            /\ Active(h)' => Active(h)
                            /\ \A E : OnlyOn(h, E) => OnlyOn(h, E)'
  BY DEF Shuffled, Kept
<1>2. /\ \A h : Publishing(h)' => Publishing(h)
      /\ DevDone' => DevDone
      /\ Merged' => Merged
  BY DEF Shuffled, Publishing, DevDone, Merged
<1>3. /\ Lead \subseteq Persona /\ Developer \in Persona /\ R \subseteq Persona /\ C \in Persona
      /\ \A p \in Lead \cup {Developer} : Graph[p] \subseteq Lead
      /\ R # {}
  BY Shape DEF LeadsUp
<1>4. /\ Cur' = Cur /\ AllJudged' = AllJudged /\ Done' = Done
      /\ NoneJudged => NoneJudged'
      /\ Joined => Joined'
      /\ AllJudged => ~NoneJudged
  <2>1. JoinFingerprint(log, C)' = JoinFingerprint(log, C)
    BY <1>1 DEF JoinFingerprint
  <2> QED BY <1>1, <1>3, <2>1 DEF Cur, AllJudged, Done, NoneJudged, Joined
<1>5. /\ OneInHand(C)'
      /\ CToken' => CToken \/ (~CToken /\ AllJudged /\ ~Joined /\ Joined')
  <2>1. CASE HandKept(C)
    BY <2>1 DEF HandKept, Singles, CToken
  <2>2. CASE Joins(C)
    <3>1. AllJudged /\ ~Joined /\ Joined'
      <4>1. JoinFingerprint(log, C)' = JoinFingerprint(log, C)
        BY <1>1 DEF JoinFingerprint
      <4> QED BY <2>2, <4>1, JoinsC DEF Joined
    <3>2. ~CToken
      BY <3>1 DEF Round
    <3>3. OneInHand(C)'
      BY <2>2, <3>2 DEF Joins, CToken, Singles
    <3> QED BY <3>1, <3>2, <3>3
  <2> QED BY <1>3, <2>1, <2>2 DEF Shuffled
<1>6. Singles'
  BY <1>1, <1>3, <1>5 DEF Singles, Shuffled
<1>7. CToken' => runs[Developer] > 0
  BY <1>3, <1>5 DEF LeadInv, AllJudged
<1>8. LeadInv'
  BY <1>1, <1>2, <1>3, <1>7 DEF LeadInv, Touched
<1>9. Round'
  <2>1. CToken' => AllJudged' /\ ~Done' /\ Joined'
    BY <1>4, <1>5 DEF Round
  <2>2. Done' => ~CToken'
    BY <1>4, <1>5 DEF Round
  <2>3. Active(Developer)' \/ Merged' => NoneJudged' /\ ~DevDone' /\ ~CToken'
    BY <1>1, <1>2, <1>3, <1>4, <1>5 DEF Round
  <2>4. \A r \in R : Active(r)' => log'.latest[r] = 0 /\ OnlyOn(r, {Cur})'
    <3> SUFFICES ASSUME NEW r \in R, Active(r)' PROVE log'.latest[r] = 0 /\ OnlyOn(r, {Cur})'
      OBVIOUS
    <3>1. Active(r) /\ log.latest[r] = 0 /\ OnlyOn(r, {Cur})
      BY <1>1, <1>3 DEF Round
    <3> HIDE DEF C, R
    <3>2. \A E : E = {Cur} => OnlyOn(r, E)'
      BY <1>1, <1>3, <3>1 DEF R
    <3>3. OnlyOn(r, {Cur})'
      BY <1>4, <3>2
    <3> QED BY <1>1, <3>1, <3>3
  <2> QED BY <1>1, <1>2, <1>3, <1>4, <2>1, <2>2, <2>3, <2>4 DEF Round
<1>10. Answers'
  BY <1>1, <1>2, <1>4 DEF Answers
<1> QED BY <1>6, <1>8, <1>9, <1>10

\* What a run that ends leaves alone.
LEMMA FinishFrame ==
    ASSUME TypesInv, OneDrain, NEW d \in drains, NEW out \in Outcome, Finished(d, out)
    PROVE  /\ \A h \in Persona : Kept(h) /\ HandKept(h)
           /\ d.h \in Persona /\ d.env \in Env
           /\ InHand(d.h) /\ Held(d, d.h)
           /\ Once(d.h) => ~Active(d.h)'
           /\ OneInHand(d.h) => ~InHand(d.h)'
           /\ \A h : h # d.h => (Publishing(h)' => Publishing(h))
           /\ DevDone' => IF d.h = Developer THEN out \in Completing ELSE DevDone
           /\ Merged' => IF d.h = ReviewConsolidator THEN out = "merged" ELSE Merged
           /\ runs' = [runs EXCEPT ![d.h] = @ + 1] /\ runs \in [Persona -> Nat]
           /\ answered' = IF out = "merged" THEN answered \cup {log.round} ELSE answered
           /\ seen' = seen
           /\ \A e \in drains' : e.at = "publish" => e \in drains \/ (e.h = d.h /\ e.out = out)
<1>1. /\ d \in Drain /\ d.h \in Persona /\ d.env \in Env /\ runs \in [Persona -> Nat]
      /\ \A e \in drains : e.h = d.h => e = d
  BY DEF TypesInv, DrainsTyped, DataTyped, Drain, OneDrain
<1> DEFINE e == [d EXCEPT !.at = "publish", !.out = out]
<1>2. e.h = d.h /\ e.at = "publish" /\ e.out = out
  BY <1>1 DEF Drain
<1>3. /\ d.at = "run" /\ drains' = (drains \ {d}) \cup {e}
      /\ runs' = [runs EXCEPT ![d.h] = @ + 1]
      /\ answered' = IF out = "merged" THEN answered \cup {log.round} ELSE answered
      /\ UNCHANGED <<seen, wraps, queue, blocked>>
  BY DEF Finished, End, Persist, Turn
<1> HIDE DEF e
<1>4. \A h \in Persona : Kept(h) /\ HandKept(h)
  <2>1. DrainStep(d) /\ ~Publish(d)
    BY <1>3 DEF DrainStep, Finished, Publish
  <2> QED BY <2>1, DrainSteps
<1>5. Held(d, d.h) /\ InRun(d.h) /\ InHand(d.h) /\ ~InRun(d.h)'
  <2>1. \A f \in drains' : f.h = d.h => f.at = "publish"
    BY <1>1, <1>2, <1>3
  <2> QED BY <1>3, <2>1 DEF Held, InRun, InHand
<1>6. OneInHand(d.h) => ~InHand(d.h)'
  BY <1>3, <1>5 DEF OneInHand, InHand, InQueue
<1>7. Once(d.h) => ~Active(d.h)'
  BY <1>3, <1>5, <1>6 DEF Once, Active, InWrap, IsBlocked
<1>8. \A h : h # d.h => (Publishing(h)' => Publishing(h))
  BY <1>2, <1>3 DEF Publishing
<1>9. DevDone' => IF d.h = Developer THEN out \in Completing ELSE DevDone
  BY <1>1, <1>2, <1>3 DEF DevDone
<1>10. Merged' => IF d.h = ReviewConsolidator THEN out = "merged" ELSE Merged
  BY <1>1, <1>2, <1>3 DEF Merged
<1>11. \A f \in drains' : f.at = "publish" => f \in drains \/ (f.h = d.h /\ f.out = out)
  <2>1. drains' = (drains \ {d}) \cup {e}
    BY <1>3
  <2> QED BY <1>2, <2>1
<1> QED BY <1>1, <1>3, <1>4, <1>5, <1>6, <1>7, <1>8, <1>9, <1>10, <1>11

\* A run that ends gives up its delivery.
LEMMA FinishSingles ==
    ASSUME TypesInv, OneDrain, Barrier, Singles,
           NEW d \in drains, NEW out \in Outcome, Finished(d, out)
    PROVE  Singles'
<1>1. \A h \in Persona : Kept(h) /\ HandKept(h)
  BY FinishFrame
<1>2. /\ \A h \in Lead \cup {Developer} \cup ConsolidatedReviewers : Once(h)'
      /\ OneInHand(ReviewConsolidator)'
      /\ OnlyOn(ReviewConsolidator, {env \in Env : env.type = "completed"})'
  BY <1>1, Shape DEF Singles, Kept, HandKept
<1>3. out = "merged" => d.h = ReviewConsolidator
  BY EndsLog DEF Finished, FailureKind
<1>4. \A e \in drains' : e.at = "publish" /\ e.out = "merged" => e.h = ReviewConsolidator
  BY <1>3, FinishFrame DEF Singles
<1> QED BY <1>2, <1>4 DEF Singles

\* Runs that end keep the invariant: of what leads up to the developer,
LEMMA FinishLead ==
    ASSUME TypesInv, OneDrain, Barrier, LeadInv, Singles, Round, Answers,
           NEW d \in drains, NEW out \in Outcome, Finished(d, out),
           d.h \notin ConsolidatedReviewers \cup {ReviewConsolidator, Developer}
    PROVE  LeadInv' /\ Round' /\ Answers'
<1> DEFINE R == ConsolidatedReviewers
           C == ReviewConsolidator
<1>1. /\ \A h \in Persona : Kept(h) /\ HandKept(h)
      /\ d.h \in Persona /\ InHand(d.h)
      /\ Once(d.h) => ~Active(d.h)'
      /\ \A h : h # d.h => (Publishing(h)' => Publishing(h))
      /\ DevDone' => DevDone
      /\ Merged' => Merged
      /\ runs' = [runs EXCEPT ![d.h] = @ + 1] /\ runs \in [Persona -> Nat]
      /\ out # "merged" => answered' = answered
      /\ seen' = seen
  BY FinishFrame
<1>2. /\ Lead \subseteq Persona /\ Developer \in Persona /\ R \subseteq Persona /\ C \in Persona
      /\ \A p \in Lead \cup {Developer} : Graph[p] \subseteq Lead
      /\ Predecessors(C) = R
  BY Shape DEF LeadsUp
<1>3. /\ out # "merged"
      /\ \A p \in R \cup {C} : log'.latest[p] = log.latest[p]
      /\ log'.stored[Developer] = log.stored[Developer]
      /\ log'.round = log.round
      /\ \A v \in log.verdicts : v.source # d.h => v \in log'.verdicts
  <2>1. /\ \/ out \in FailureKind /\ log' = log
           \/ out = "merged" /\ d.h = ReviewConsolidator /\ SendsBack
           \/ /\ out \in Completing
              /\ Completes(d.h, runs[d.h] + 1, d.env, out # "complete")
              /\ out = "complete" => d.h \notin ConsolidatedReviewers
    BY EndsLog DEF Finished, Completing
  <2> QED BY <1>2, <2>1 DEF Completes, Completing, FailureKind
<1>4. /\ Cur' = Cur /\ AllJudged' = AllJudged /\ Done' = Done /\ Joined' = Joined
      /\ NoneJudged => NoneJudged'
      /\ \A h \in Persona : Active(h)' => Active(h)
      /\ CToken' => CToken
  <2>1. JoinFingerprint(log, C)' = JoinFingerprint(log, C)
    BY <1>2, <1>3 DEF JoinFingerprint
  <2> QED BY <1>1, <1>2, <1>3, <2>1
          DEF Cur, AllJudged, Done, Joined, NoneJudged, Kept, HandKept, CToken
<1>5. /\ \A h \in Persona \ {d.h} : runs'[h] = runs[h]
      /\ runs'[d.h] = runs[d.h] + 1
  BY <1>1
<1>6. LeadInv'
  <2>1. Active(d.h)
    BY <1>1 DEF Active
  <2>2. d.h \in Lead => runs[d.h] = 0 /\ ~Active(d.h)'
    BY <1>1, <2>1 DEF LeadInv, Singles
  <2>3. ASSUME NEW p \in Lead \cup {Developer}, NEW q \in Graph[p], Touched(p)'
        PROVE  runs'[q] = 1 /\ ~Publishing(q)' /\ ~Active(q)'
    <3>1. Touched(p)
      <4>1. CASE p = d.h
        BY <2>1, <4>1 DEF Touched
      <4>2. CASE p # d.h
        BY <1>1, <1>2, <1>4, <1>5, <2>3, <4>2 DEF Touched
      <4> QED BY <4>1, <4>2
    <3>2. runs[q] = 1 /\ ~Publishing(q) /\ ~Active(q)
      BY <3>1 DEF LeadInv
    <3>3. q # d.h /\ q \in Persona
      BY <1>2, <2>1, <3>2
    <3> QED BY <1>1, <1>4, <1>5, <3>2, <3>3
  <2>4. ASSUME NEW p \in Lead
        PROVE  /\ Active(p)' => runs'[p] = 0
               /\ runs'[p] <= 1
               /\ Publishing(p)' => runs'[p] = 1
    <3>1. CASE p = d.h
      BY <1>5, <2>2, <3>1
    <3>2. CASE p # d.h
      BY <1>1, <1>2, <1>4, <1>5, <3>2 DEF LeadInv
    <3> QED BY <3>1, <3>2
  <2>5. \/ \E r \in R : Active(r)' \/ log'.latest[r] > 0
        \/ CToken' \/ Merged' \/ Publishing(Developer)'
        => runs'[Developer] > 0
    BY <1>1, <1>2, <1>3, <1>4, <1>5 DEF LeadInv
  <2> QED BY <2>3, <2>4, <2>5 DEF LeadInv
<1>7. Round'
  <2>1. \A r \in R : Active(r)' => log'.latest[r] = 0 /\ OnlyOn(r, {Cur})'
    <3> SUFFICES ASSUME NEW r \in R, Active(r)' PROVE log'.latest[r] = 0 /\ OnlyOn(r, {Cur})'
      OBVIOUS
    <3>1. Active(r) /\ log.latest[r] = 0 /\ OnlyOn(r, {Cur})
      BY <1>2, <1>4 DEF Round
    <3>2. \A E : E = {Cur} => OnlyOn(r, E)'
      BY <1>1, <1>2, <3>1 DEF Kept
    <3>3. OnlyOn(r, {Cur})'
      BY <1>4, <3>2
    <3> QED BY <1>3, <3>1, <3>3
  <2> QED BY <1>1, <1>2, <1>3, <1>4, <1>5, <2>1 DEF Round
<1>8. Answers'
  <2>1. \A r \in R : log'.latest[r] > 0 =>
           log'.round = Cur /\ \E v \in log'.verdicts : v.source = r /\ v.round = Cur
    BY <1>3 DEF Answers
  <2> QED BY <1>1, <1>2, <1>3, <1>4, <1>5, <2>1 DEF Answers
<1> QED BY <1>6, <1>7, <1>8

\* of the developer, which starts a round,
LEMMA FinishDeveloper ==
    ASSUME TypesInv, OneDrain, Barrier, LeadInv, Singles, Round, Answers,
           NEW d \in drains, NEW out \in Outcome, Finished(d, out), d.h = Developer
    PROVE  LeadInv' /\ Round' /\ Answers'
<1> DEFINE R == ConsolidatedReviewers
           C == ReviewConsolidator
           n == runs[Developer] + 1
<1>1. /\ \A h \in Persona : Kept(h) /\ HandKept(h)
      /\ InHand(Developer)
      /\ Once(Developer) => ~Active(Developer)'
      /\ \A h : h # Developer => (Publishing(h)' => Publishing(h))
      /\ DevDone' => out \in Completing
      /\ Developer # C => (Merged' => Merged)
      /\ runs' = [runs EXCEPT ![Developer] = @ + 1] /\ runs \in [Persona -> Nat]
      /\ out # "merged" => answered' = answered
      /\ seen' = seen
  BY FinishFrame
<1>2. /\ Lead \subseteq Persona /\ Developer \in Persona /\ R \subseteq Persona /\ C \in Persona
      /\ \A p \in Lead \cup {Developer} : Graph[p] \subseteq Lead
      /\ Developer \notin Lead \cup R \cup {C} /\ C \notin R
  BY Shape DEF LeadsUp
<1>3. /\ out # "merged"
      /\ \A p \in R \cup {C} : log'.latest[p] = log.latest[p]
      /\ \/ out \notin Completing /\ log' = log
         \/ out \in Completing /\ log'.stored[Developer] = n
  <2>1. /\ \/ out \in FailureKind /\ log' = log
           \/ out = "merged" /\ d.h = ReviewConsolidator /\ SendsBack
           \/ /\ out \in Completing
              /\ Completes(d.h, runs[d.h] + 1, d.env, out # "complete")
              /\ out = "complete" => d.h \notin ConsolidatedReviewers
    BY EndsLog DEF Finished, Completing
  <2> QED BY <1>2, <2>1 DEF Completes, Completing, FailureKind
<1>4. /\ \A h \in Persona : Active(h)' => Active(h)
      /\ CToken' => CToken
      /\ Active(Developer) /\ ~Active(Developer)'
  BY <1>1, <1>2 DEF Kept, HandKept, CToken, Active, Singles
<1>5. NoneJudged /\ ~CToken /\ ~Merged /\ ~DevDone
  BY <1>4 DEF Round
<1>6. NoneJudged' /\ ~CToken' /\ ~Merged' /\ \A r \in R : ~Active(r)' /\ log'.latest[r] = 0
  BY <1>1, <1>2, <1>3, <1>4, <1>5 DEF NoneJudged
<1>7. /\ \A h \in Persona \ {Developer} : runs'[h] = runs[h]
      /\ runs'[Developer] = n /\ n > 0 /\ runs[Developer] \in Nat
  BY <1>1, <1>2
<1>8. ~Done'
  <2>1. ~Done
    <3>1. R # {}
      BY Shape
    <3> QED BY <1>5, <3>1 DEF Round, AllJudged, NoneJudged
  <2> QED BY <1>3, <2>1 DEF Done
<1>9. LeadInv'
  <2>1. ASSUME NEW p \in Lead \cup {Developer}, NEW q \in Graph[p], Touched(p)'
        PROVE  runs'[q] = 1 /\ ~Publishing(q)' /\ ~Active(q)'
    <3>1. Touched(p)
      <4>1. CASE p = Developer
        BY <1>4, <4>1 DEF Touched
      <4>2. CASE p # Developer
        BY <1>1, <1>2, <1>4, <1>7, <2>1, <4>2 DEF Touched
      <4> QED BY <4>1, <4>2
    <3>2. runs[q] = 1 /\ ~Publishing(q) /\ ~Active(q)
      BY <3>1 DEF LeadInv
    <3>3. q # Developer /\ q \in Persona
      BY <1>2
    <3> QED BY <1>1, <1>4, <1>7, <3>2, <3>3
  <2>2. \A p \in Lead : /\ Active(p)' => runs'[p] = 0
                        /\ runs'[p] <= 1
                        /\ Publishing(p)' => runs'[p] = 1
    BY <1>1, <1>2, <1>4, <1>7 DEF LeadInv
  <2> QED BY <1>7, <2>1, <2>2 DEF LeadInv
<1>10. Round'
  <2>1. DevDone' => log'.stored[Developer] = runs'[Developer]
    BY <1>1, <1>3, <1>7
  <2> QED BY <1>4, <1>6, <1>8, <2>1 DEF Round
<1>11. Answers'
  <2>1. log.stored[Developer] \in Nat /\ log.stored[Developer] <= runs[Developer]
        /\ \A e \in answered : e.n <= log.stored[Developer] /\ e.n \in Nat
    BY <1>2, LogFields DEF Answers, TypesInv, DataTyped, Env
  <2>2. answered' = answered
    BY <1>1, <1>3
  <2>3. log'.stored[Developer] <= runs'[Developer] /\ \A e \in answered' : e.n <= log'.stored[Developer]
    BY <1>3, <1>7, <2>1, <2>2
  <2>4. Cur' \in answered' => ~DevDone'
    <3> SUFFICES ASSUME Cur' \in answered', DevDone' PROVE FALSE
      OBVIOUS
    <3>1. log'.stored[Developer] = n
      BY <1>1, <1>3
    <3>2. (Cur').n = n
      BY <3>1 DEF Cur, Envelope
    <3> QED BY <1>7, <2>1, <2>2, <3>2
  <2> QED BY <1>6, <2>3, <2>4 DEF Answers
<1> QED BY <1>9, <1>10, <1>11

\* of a reviewer, whose verdict is on that round,
LEMMA FinishReviewer ==
    ASSUME TypesInv, OneDrain, Barrier, LeadInv, Singles, Round, Answers,
           NEW d \in drains, NEW out \in Outcome, Finished(d, out),
           d.h \in ConsolidatedReviewers
    PROVE  LeadInv' /\ Round' /\ Answers'
<1> DEFINE R == ConsolidatedReviewers
           C == ReviewConsolidator
<1>1. /\ \A h \in Persona : Kept(h) /\ HandKept(h)
      /\ InHand(d.h) /\ Held(d, d.h)
      /\ Once(d.h) => ~Active(d.h)'
      /\ \A h : h # d.h => (Publishing(h)' => Publishing(h))
      /\ d.h # Developer => (DevDone' => DevDone)
      /\ d.h # C => (Merged' => Merged)
      /\ runs' = [runs EXCEPT ![d.h] = @ + 1] /\ runs \in [Persona -> Nat]
      /\ out # "merged" => answered' = answered
      /\ seen' = seen
  BY FinishFrame
<1>2. /\ Lead \subseteq Persona /\ Developer \in Persona /\ R \subseteq Persona /\ C \in Persona
      /\ \A p \in Lead \cup {Developer} : Graph[p] \subseteq Lead
      /\ Developer \notin Lead \cup R \cup {C} /\ C \notin R /\ Lead \cap R = {}
  BY Shape DEF LeadsUp
<1>3. /\ \A h \in Persona : Active(h)' => Active(h)
      /\ CToken' => CToken
      /\ Active(d.h) /\ ~Active(d.h)'
  BY <1>1, <1>2 DEF Kept, HandKept, CToken, Active, Singles
<1>4. log.latest[d.h] = 0 /\ d.env = Cur
  BY <1>1, <1>3 DEF Round, OnlyOn
<1>5. ~NoneJudged /\ ~AllJudged
  BY <1>3, <1>4 DEF NoneJudged, AllJudged
<1>6. ~Active(Developer) /\ ~Merged /\ ~DevDone /\ ~Done /\ ~CToken /\ Cur \notin answered
  BY <1>5 DEF Round, Answers
<1>7. /\ out # "merged"
      /\ \A p \in Persona \ {d.h} : log'.latest[p] = log.latest[p]
      /\ log'.stored[Developer] = log.stored[Developer]
      /\ \/ log' = log
         \/ /\ \A v \in log.verdicts : v.source # d.h => v \in log'.verdicts
            /\ log'.round = Cur
            /\ \E v \in log'.verdicts : v.source = d.h /\ v.round = Cur
  <2>1. /\ \/ out \in FailureKind /\ log' = log
           \/ out = "merged" /\ d.h = ReviewConsolidator /\ SendsBack
           \/ /\ out \in Completing
              /\ Completes(d.h, runs[d.h] + 1, d.env, out # "complete")
              /\ out = "complete" => d.h \notin ConsolidatedReviewers
    BY EndsLog DEF Finished, Completing
  <2> QED BY <1>2, <1>4, <2>1 DEF Completes, Completing, FailureKind
<1>8. /\ ~Active(Developer)' /\ ~Merged' /\ ~DevDone' /\ ~Done' /\ ~CToken' /\ Cur' = Cur
      /\ answered' = answered
  BY <1>1, <1>2, <1>3, <1>6, <1>7 DEF Done, Cur
<1>9. /\ \A h \in Lead \cup {Developer} :
            runs'[h] = runs[h] /\ (Active(h)' => Active(h)) /\ (Publishing(h)' => Publishing(h))
  BY <1>1, <1>2, <1>3
<1>10. LeadInv'
  <2>1. runs[Developer] > 0
    BY <1>3 DEF LeadInv
  <2> QED BY <1>2, <1>9, <2>1 DEF LeadInv, Touched
<1>11. Round'
  <2>1. ASSUME NEW r \in R, Active(r)' PROVE log'.latest[r] = 0 /\ OnlyOn(r, {Cur})'
    <3>1. Active(r) /\ log.latest[r] = 0 /\ OnlyOn(r, {Cur}) /\ r # d.h
      BY <1>2, <1>3, <2>1 DEF Round
    <3>2. \A E : E = {Cur} => OnlyOn(r, E)'
      BY <1>1, <1>2, <3>1 DEF Kept
    <3>3. OnlyOn(r, {Cur})'
      BY <1>8, <3>2
    <3> QED BY <1>2, <1>7, <3>1, <3>3
  <2> QED BY <1>8, <2>1 DEF Round
<1>12. Answers'
  <2>1. ASSUME NEW r \in R, log'.latest[r] > 0
        PROVE  log'.round = Cur /\ \E v \in log'.verdicts : v.source = r /\ v.round = Cur
    <3>1. CASE log' = log
      BY <2>1, <3>1 DEF Answers
    <3>2. CASE log' # log /\ r = d.h
      BY <1>7, <3>2
    <3>3. CASE log' # log /\ r # d.h
      <4>1. log.latest[r] > 0
        BY <1>2, <1>7, <2>1, <3>3
      <4>2. PICK v \in log.verdicts : v.source = r /\ v.round = Cur
        BY <4>1 DEF Answers
      <4> QED BY <1>7, <3>3, <4>2
    <3> QED BY <3>1, <3>2, <3>3
  <2>2. log'.stored[Developer] <= runs'[Developer]
    BY <1>7, <1>9 DEF Answers
  <2>3. \A e \in answered' : e.n <= log'.stored[Developer]
    BY <1>7, <1>8 DEF Answers
  <2> QED BY <1>6, <1>8, <2>1, <2>2, <2>3 DEF Answers
<1> QED BY <1>10, <1>11, <1>12

\* of the consolidator, which sends it back or lets it be,
LEMMA FinishConsolidator ==
    ASSUME TypesInv, OneDrain, Barrier, LeadInv, Singles, Round, Answers,
           NEW d \in drains, NEW out \in Outcome, Finished(d, out),
           d.h = ReviewConsolidator
    PROVE  LeadInv' /\ Round' /\ Answers'
<1> DEFINE R == ConsolidatedReviewers
           C == ReviewConsolidator
<1>1. /\ \A h \in Persona : Kept(h) /\ HandKept(h)
      /\ InHand(C)
      /\ OneInHand(C) => ~InHand(C)'
      /\ \A h : h # C => (Publishing(h)' => Publishing(h))
      /\ C # Developer => (DevDone' => DevDone)
      /\ Merged' => out = "merged"
      /\ runs' = [runs EXCEPT ![C] = @ + 1] /\ runs \in [Persona -> Nat]
      /\ answered' = IF out = "merged" THEN answered \cup {log.round} ELSE answered
      /\ seen' = seen
  BY FinishFrame
<1>2. /\ Lead \subseteq Persona /\ Developer \in Persona /\ R \subseteq Persona /\ C \in Persona
      /\ \A p \in Lead \cup {Developer} : Graph[p] \subseteq Lead
      /\ Developer \notin Lead \cup R \cup {C} /\ C \notin R /\ C \notin Lead
      /\ R # {} /\ Predecessors(C) = R
  BY Shape DEF LeadsUp
<1>3. /\ \A h \in Persona : Active(h)' => Active(h)
      /\ CToken /\ ~CToken'
  BY <1>1, <1>2 DEF Kept, HandKept, CToken, Singles
<1>4. AllJudged /\ ~Done /\ Joined
  BY <1>3 DEF Round
<1>5. ~NoneJudged /\ \A r \in R : ~Active(r)
  <2>1. \A r \in R : log.latest[r] > 0 /\ log.latest[r] # 0
    BY <1>4 DEF AllJudged
  <2> QED BY <1>2, <2>1 DEF NoneJudged, Round
<1>6. ~Active(Developer) /\ ~Merged /\ ~DevDone /\ Cur \notin answered
  BY <1>5 DEF Round, Answers
<1>7. ~Active(Developer)' /\ ~DevDone' /\ \A r \in R : ~Active(r)'
  BY <1>1, <1>2, <1>3, <1>5, <1>6
<1>8. /\ log.round = Cur
      /\ \A r \in R : \E v \in log.verdicts : v.source = r /\ v.round = Cur
  BY <1>2, <1>4 DEF Answers, AllJudged
<1>9. \A h \in Lead \cup {Developer} :
        runs'[h] = runs[h] /\ (Active(h)' => Active(h)) /\ (Publishing(h)' => Publishing(h))
  BY <1>1, <1>2, <1>3
<1>10. LeadInv'
  <2>1. runs[Developer] > 0
    BY <1>3 DEF LeadInv
  <2> QED BY <1>2, <1>9, <2>1 DEF LeadInv, Touched
<1>11. \/ out = "merged" /\ SendsBack
       \/ out = "complete" /\ Completes(C, runs[C] + 1, d.env, FALSE)
  <2>1. /\ out \in {"complete", "merged"}
        /\ \/ out \in FailureKind /\ log' = log
           \/ out = "merged" /\ d.h = ReviewConsolidator /\ SendsBack
           \/ /\ out \in Completing
              /\ Completes(d.h, runs[d.h] + 1, d.env, out # "complete")
              /\ out = "complete" => d.h \notin ConsolidatedReviewers
    BY EndsLog DEF Finished, Completing
  <2>2. (out = "complete") => (out # "complete") = FALSE
    OBVIOUS
  <2> QED BY <2>1, <2>2 DEF FailureKind, Completing
<1>12. log'.stored[Developer] = log.stored[Developer] /\ Cur' = Cur
  BY <1>2, <1>11 DEF SendsBack, Completes, Cur
<1>13. CASE out = "merged"
  <2>1. SendsBack
    BY <1>11, <1>13
  <2>2. NoneJudged' /\ ~Done'
    BY <1>2, <1>7, <2>1 DEF NoneJudged, Done, SendsBack
  <2>3. Round'
    BY <1>3, <1>7, <2>2 DEF Round
  <2>4. Answers'
    <3>1. log.stored[Developer] \in Nat /\ Cur.n = log.stored[Developer]
      BY <1>2, LogFields DEF TypesInv, DataTyped, Cur, Envelope
    <3>2. \A e \in answered' : e.n <= log'.stored[Developer]
      BY <1>1, <1>8, <1>12, <1>13, <3>1 DEF Answers
    <3>3. log'.stored[Developer] <= runs'[Developer]
      BY <1>9, <1>12 DEF Answers
    <3>4. \A r \in R : log'.latest[r] = 0
      BY <2>1 DEF SendsBack
    <3> QED BY <1>7, <2>2, <3>2, <3>3, <3>4 DEF Answers
  <2> QED BY <1>10, <2>3, <2>4
<1>14. CASE out = "complete"
  <2>1. Completes(C, runs[C] + 1, d.env, FALSE)
    BY <1>11, <1>14
  <2>2. /\ \A r \in R : log'.latest[r] = log.latest[r]
        /\ \A v \in log.verdicts : v.source # C => v \in log'.verdicts
        /\ log'.round = log.round
    BY <1>2, <2>1 DEF Completes
  <2>3. AllJudged' /\ Joined'
    <3>1. JoinFingerprint(log, C)' = JoinFingerprint(log, C)
      BY <1>2, <2>2 DEF JoinFingerprint
    <3> QED BY <1>1, <1>4, <2>2, <3>1 DEF AllJudged, Joined
  <2>4. ~Merged'
    BY <1>1, <1>14
  <2>5. Round'
    BY <1>3, <1>7, <2>3, <2>4 DEF Round
  <2>6. Answers'
    <3>1. answered' = answered
      BY <1>1, <1>14
    <3>2. \A r \in R : \E v \in log'.verdicts : v.source = r /\ v.round = Cur
      BY <1>2, <1>8, <2>2
    <3> QED BY <1>6, <1>8, <1>9, <1>12, <2>2, <3>1, <3>2 DEF Answers
  <2> QED BY <1>10, <2>5, <2>6
<1> QED BY <1>11, <1>13, <1>14

\* and so of anybody.
LEMMA FinishKeeps ==
    ASSUME TypesInv, OneDrain, Barrier, LeadInv, Singles, Round, Answers,
           NEW d \in drains, NEW out \in Outcome, Finished(d, out)
    PROVE  LeadInv' /\ Singles' /\ Round' /\ Answers'
<1>1. Singles'
  BY FinishSingles
<1>2. LeadInv' /\ Round' /\ Answers'
  <2>1. CASE d.h \notin ConsolidatedReviewers \cup {ReviewConsolidator, Developer}
    BY <2>1, FinishLead
  <2>2. CASE d.h = Developer
    BY <2>2, FinishDeveloper
  <2>3. CASE d.h \in ConsolidatedReviewers
    BY <2>3, FinishReviewer
  <2>4. CASE d.h = ReviewConsolidator
    BY <2>4, FinishConsolidator
  <2> QED BY <2>1, <2>2, <2>3, <2>4
<1> QED BY <1>1, <1>2

\* Does the batch of d bring h a delivery?
Gets(d, h) == \E w \in Deliveries(d) : w.h = h

\* A handler that had none gets one.
LEMMA Delivered ==
    ASSUME NEW h \in Persona, NEW W, wraps' = wraps \cup W, NEW env,
           \A w \in W : w.h = h => w = [h |-> h, env |-> env, at |-> "wrap"],
           queue'[h] = queue[h], blocked' = blocked,
           \A e \in drains' : Held(e, h) => e \in drains,
           ~Active(h)
    PROVE  Once(h)' /\ \A E : env \in E => OnlyOn(h, E)'
<1>1. /\ queue[h] = <<>> /\ \A e \in drains' : ~Held(e, h)
      /\ \A b \in blocked' : b[1] # h
      /\ \A w \in wraps' : w.h = h => w = [h |-> h, env |-> env, at |-> "wrap"]
  BY DEF Active, InHand, InWrap, InQueue, InRun, IsBlocked
<1>2. [h |-> h, env |-> env, at |-> "wrap"].env = env
  OBVIOUS
<1>3. ~InHand(h)' /\ ~IsBlocked(h)' /\ OneInHand(h)'
  <2>1. queue'[h] = <<>> /\ Len(<<>>) = 0
    BY <1>1
  <2> QED BY <1>1, <2>1 DEF InHand, InQueue, InRun, IsBlocked, OneInHand
<1>4. Once(h)'
  BY <1>1, <1>3 DEF Once, InWrap, IsBlocked
<1>5. ASSUME NEW E, env \in E PROVE OnlyOn(h, E)'
  <2>1. DOMAIN queue'[h] = {}
    BY <1>1
  <2> QED BY <1>1, <1>2, <1>5, <2>1 DEF OnlyOn
<1> QED BY <1>4, <1>5

\* What a published batch leaves alone.
LEMMA PublishFrame ==
    ASSUME TypesInv, OneDrain, NEW d \in drains, Publish(d)
    PROVE  /\ UNCHANGED <<log, runs, answered, seen, queue, blocked>>
           /\ d.h \in Persona /\ runs \in [Persona -> Nat] /\ Publishing(d.h)
           /\ wraps' = wraps \cup Deliveries(d) /\ Deliveries(d) \subseteq Wrap
           /\ \A h \in Persona : HandKept(h) /\ (~Gets(d, h) => Kept(h))
           /\ \A h \in Persona : \A e \in drains' : Held(e, h) => e \in drains
           /\ \A h : Publishing(h)' => Publishing(h) /\ h # d.h
           /\ DevDone' => DevDone /\ d.h # Developer
           /\ Merged' => Merged /\ d.h # ReviewConsolidator
           /\ \A e \in drains' : e.at = "publish" => e \in drains
<1>1. /\ d \in Drain /\ d.h \in Persona /\ runs \in [Persona -> Nat]
      /\ \A e \in drains : e.h = d.h => e = d
  BY DEF TypesInv, DrainsTyped, DataTyped, Drain, OneDrain
<1> DEFINE e == [d EXCEPT !.at = "check"]
<1>2. e.h = d.h /\ e.at = "check"
  BY <1>1 DEF Drain
<1>3. /\ UNCHANGED <<log, runs, answered, seen, queue, blocked>>
      /\ wraps' = wraps \cup Deliveries(d) /\ d.at = "publish"
      /\ drains' = (drains \ {d}) \cup {e}
  BY DEF Publish, persistent, history, Turn
<1> HIDE DEF e
<1>4. \A h \in Persona : \A f \in drains' : Held(f, h) => f \in drains
  BY <1>2, <1>3 DEF Held
<1>5. ASSUME NEW h \in Persona PROVE HandKept(h) /\ (~Gets(d, h) => Kept(h))
  <2>1. HandKept(h)
    <3>1. InRun(h)' => InRun(h)
      BY <1>4 DEF InRun
    <3> QED BY <1>3, <3>1 DEF HandKept, InHand, InQueue, OneInHand
  <2>2. ~Gets(d, h) => Fewer(h)
    BY <1>3, <1>4 DEF Fewer, Gets
  <2> QED BY <2>1, <2>2, FewerKept
<1>6. /\ \A f \in drains' : f.at = "publish" => f \in drains /\ f.h # d.h
      /\ Publishing(d.h)
  BY <1>1, <1>2, <1>3 DEF Publishing
<1>7. Deliveries(d) \subseteq Wrap
  BY <1>3, PublishedTyped
<1>8. /\ \A h : Publishing(h)' => Publishing(h) /\ h # d.h
      /\ DevDone' => DevDone /\ d.h # Developer
      /\ Merged' => Merged /\ d.h # ReviewConsolidator
  BY <1>6 DEF Publishing, DevDone, Merged
<1> QED BY <1>1, <1>3, <1>4, <1>5, <1>6, <1>7, <1>8

\* Who of the barrier gets a delivery, and of what.
LEMMA Recipients ==
    ASSUME TypesInv, Barrier, Singles, NEW d \in drains, d.at = "publish"
    PROVE  /\ \A h \in Lead \cup {Developer} : Gets(d, h) =>
                \/ d.h \in Lead /\ Graph[h] = {d.h}
                \/ h = Developer /\ Merged /\ d.h = ReviewConsolidator
           /\ \A h \in Lead \cup {Developer} \cup ConsolidatedReviewers : \E env :
                \A w \in Deliveries(d) : w.h = h => w = [h |-> h, env |-> env, at |-> "wrap"]
           /\ \A r \in ConsolidatedReviewers : \A w \in Deliveries(d) : w.h = r =>
                /\ d.h = Developer /\ DevDone
                /\ w = [h |-> r, env |-> Emitted(d), at |-> "wrap"]
           /\ \A w \in Deliveries(d) : w.h = ReviewConsolidator => w.env.type = "completed"
<1> DEFINE C == ReviewConsolidator
           fb == Envelope("feedback", d.h, runs[d.h])
<1>1. /\ Lead \subseteq Persona /\ Developer \in Persona /\ C \in Persona
      /\ Developer \notin Lead \cup ConsolidatedReviewers \cup {C} /\ C \notin Lead
      /\ Lead \cap ConsolidatedReviewers = {}
      /\ RetriggeredBy = {Developer}
  BY Shape, Order
<1>2. Emitted(d).type = "completed"
  BY DEF Emitted, Envelope
<1>3. \A w \in Deliveries(d) :
        \/ w.h \in Successors(d.h) /\ w = [h |-> w.h, env |-> Emitted(d), at |-> "wrap"]
           /\ (d.out \in Completing \/ d.out = "merged")
        \/ d.out = "merged" /\ w = [h |-> Developer, env |-> fb, at |-> "wrap"]
  <2>1. \/ d.out \in Completing /\ Deliveries(d) = Deliver(Successors(d.h), Emitted(d))
        \/ d.out = "merged" /\ Deliveries(d) = Deliver(Successors(d.h), Emitted(d)) \cup
              Deliver(RetriggeredBy, fb)
        \/ Deliveries(d) = {}
    BY DEF Deliveries, Completing
  <2>2. \A H, env : \A w \in Deliver(H, env) :
            w.h \in H /\ w = [h |-> w.h, env |-> env, at |-> "wrap"]
    BY DEF Deliver
  <2> HIDE DEF fb
  <2> QED BY <1>1, <2>1, <2>2
<1>4. d.out = "merged" => d.h = C /\ Merged
  BY DEF Singles, Merged
<1> HIDE DEF fb
<1>5. ASSUME NEW h \in Lead \cup {Developer}, Gets(d, h)
      PROVE  \/ d.h \in Lead /\ Graph[h] = {d.h}
             \/ h = Developer /\ Merged /\ d.h = C
  BY <1>3, <1>4, <1>5, Order DEF Gets
<1>6. ASSUME NEW r \in ConsolidatedReviewers, NEW w \in Deliveries(d), w.h = r
      PROVE  d.h = Developer /\ DevDone /\ w = [h |-> r, env |-> Emitted(d), at |-> "wrap"]
  <2>1. w.h \in Successors(d.h) /\ w = [h |-> w.h, env |-> Emitted(d), at |-> "wrap"]
        /\ (d.out \in Completing \/ d.out = "merged")
    BY <1>1, <1>3, <1>6
  <2>2. d.h = Developer
    BY <1>6, <2>1, Order
  <2>3. d.out \in Completing
    BY <1>1, <1>4, <2>1, <2>2
  <2> QED BY <1>6, <2>1, <2>2, <2>3 DEF DevDone
<1>7. ASSUME NEW h \in Lead \cup {Developer} \cup ConsolidatedReviewers
      PROVE  \E env : \A w \in Deliveries(d) : w.h = h => w = [h |-> h, env |-> env, at |-> "wrap"]
  <2>1. CASE h \in ConsolidatedReviewers
    BY <1>6, <2>1
  <2>2. CASE h \in Lead \cup {Developer} /\ d.out = "merged"
    <3>1. h \notin Successors(d.h)
      BY <1>1, <1>4, <2>2, Order
    <3> QED BY <1>3, <2>2, <3>1
  <2>3. CASE h \in Lead \cup {Developer} /\ d.out # "merged"
    BY <1>3, <2>3
  <2> QED BY <2>1, <2>2, <2>3
<1>8. ASSUME NEW w \in Deliveries(d), w.h = C PROVE w.env.type = "completed"
  BY <1>1, <1>2, <1>3, <1>8
<1> QED BY <1>5, <1>6, <1>7, <1>8

\* A published batch keeps the invariant: it reaches handlers that had nothing to
\* do.
LEMMA PublishKeeps ==
    ASSUME TypesInv, OneDrain, Barrier, LeadInv, Singles, Round, Answers,
           NEW d \in drains, Publish(d)
    PROVE  LeadInv' /\ Singles' /\ Round' /\ Answers'
<1> DEFINE R == ConsolidatedReviewers
           C == ReviewConsolidator
           L == Lead \cup {Developer}
<1>1. /\ UNCHANGED <<log, runs, answered, seen, queue, blocked>>
      /\ d.h \in Persona /\ runs \in [Persona -> Nat] /\ Publishing(d.h) /\ d.at = "publish"
      /\ wraps' = wraps \cup Deliveries(d) /\ Deliveries(d) \subseteq Wrap
      /\ \A h \in Persona : HandKept(h) /\ (~Gets(d, h) => Kept(h))
      /\ \A h \in Persona : \A e \in drains' : Held(e, h) => e \in drains
      /\ \A h : Publishing(h)' => Publishing(h) /\ h # d.h
      /\ DevDone' => DevDone /\ d.h # Developer
      /\ Merged' => Merged /\ d.h # C
      /\ \A e \in drains' : e.at = "publish" => e \in drains
  BY PublishFrame DEF Publish
<1>2. /\ L \subseteq Persona /\ R \subseteq Persona /\ C \in Persona
      /\ \A p \in L : Graph[p] \subseteq Lead
      /\ Developer \notin Lead \cup R \cup {C} /\ C \notin R /\ C \notin Lead /\ R # {}
      /\ Predecessors(C) = R /\ Lead \cap R = {}
  BY Shape DEF LeadsUp
<1>3. /\ \A h \in L : Gets(d, h) =>
            \/ d.h \in Lead /\ Graph[h] = {d.h}
            \/ h = Developer /\ Merged /\ d.h = C
      /\ \A h \in L \cup R : \E env :
            \A w \in Deliveries(d) : w.h = h => w = [h |-> h, env |-> env, at |-> "wrap"]
      /\ \A r \in R : \A w \in Deliveries(d) : w.h = r =>
            d.h = Developer /\ DevDone /\ w = [h |-> r, env |-> Emitted(d), at |-> "wrap"]
      /\ \A w \in Deliveries(d) : w.h = C => w.env.type = "completed"
  BY <1>1, Recipients
<1>4. /\ \A r \in R : Gets(d, r) => d.h = Developer /\ DevDone
  BY <1>3 DEF Gets
\* Whoever gets a delivery in the barrier had none.
<1>5. \A h \in L : Gets(d, h) /\ d.h \in Lead /\ Graph[h] = {d.h} =>
            ~Touched(h) /\ runs[d.h] = 1 /\ ~Active(d.h)
  <2> SUFFICES ASSUME NEW h \in L, d.h \in Lead, Graph[h] = {d.h}
               PROVE  ~Touched(h) /\ runs[d.h] = 1 /\ ~Active(d.h)
    OBVIOUS
  <2>1. ~Touched(h)
    BY <1>1 DEF LeadInv
  <2>2. runs[d.h] = 1
    BY <1>1 DEF LeadInv
  <2>3. ~Active(d.h)
    BY <2>2 DEF LeadInv
  <2> QED BY <2>1, <2>2, <2>3
<1>6. \A h \in L \cup R : Gets(d, h) => ~Active(h)
  <2>1. \A h \in L : Gets(d, h) => ~Active(h)
    <3>1. Merged => ~Active(Developer)
      BY DEF Round
    <3> QED BY <1>3, <1>5, <3>1 DEF Touched
  <2>2. \A r \in R : Gets(d, r) => ~Active(r)
    BY <1>4 DEF Round, NoneJudged
  <2> QED BY <2>1, <2>2
<1>7. \A h \in L \cup R : Once(h)'
  <2> SUFFICES ASSUME NEW h \in L \cup R PROVE Once(h)'
    OBVIOUS
  <2>1. CASE Gets(d, h)
    <3>1. PICK env : \A w \in Deliveries(d) : w.h = h => w = [h |-> h, env |-> env, at |-> "wrap"]
      BY <1>3
    <3> QED BY <1>1, <1>2, <1>6, <2>1, <3>1, Delivered
  <2>2. CASE ~Gets(d, h)
    BY <1>1, <1>2, <2>2 DEF Kept, Singles
  <2> QED BY <2>1, <2>2
<1>8. Singles'
  <2>1. OneInHand(C)'
    BY <1>1, <1>2 DEF HandKept, Singles
  <2>2. OnlyOn(C, {env \in Env : env.type = "completed"})'
    <3>1. \A w \in Deliveries(d) : w.h = C => w.env \in {env \in Env : env.type = "completed"}
      BY <1>1, <1>3 DEF Wrap
    <3> QED BY <1>1, <1>2, <3>1 DEF Singles, OnlyOn
  <2> QED BY <1>1, <1>7, <2>1, <2>2 DEF Singles
<1>9. /\ CToken' => CToken
      /\ Cur' = Cur /\ AllJudged' = AllJudged /\ Done' = Done /\ Joined' = Joined
      /\ \A h \in Persona : Active(h)' => Active(h) \/ Gets(d, h)
  <2>1. JoinFingerprint(log, C)' = JoinFingerprint(log, C)
    BY <1>1 DEF JoinFingerprint
  <2> QED BY <1>1, <1>2, <2>1
          DEF HandKept, CToken, Cur, AllJudged, Done, Joined, Kept
<1>10. LeadInv'
  <2>1. ASSUME NEW p \in L, NEW q \in Graph[p], Touched(p)'
        PROVE  runs'[q] = 1 /\ ~Publishing(q)' /\ ~Active(q)'
    <3>1. q \in Lead /\ q \in Persona /\ p \in Persona
      BY <1>2
    <3>2. CASE Touched(p)
      <4>1. runs[q] = 1 /\ ~Publishing(q) /\ ~Active(q)
        BY <3>2 DEF LeadInv
      <4>2. ~Gets(d, q)
        BY <1>2, <1>3, <1>5, <3>1, <4>1 DEF Touched
      <4> QED BY <1>1, <1>9, <3>1, <4>1, <4>2
    <3>3. CASE ~Touched(p)
      <4>1. Gets(d, p)
        BY <1>1, <1>9, <2>1, <3>1, <3>3 DEF Touched
      <4>2. CASE d.h \in Lead /\ Graph[p] = {d.h}
        <5>1. q = d.h /\ runs[q] = 1 /\ ~Active(q)
          BY <1>5, <4>1, <4>2
        <5>2. ~Gets(d, q)
          BY <1>2, <1>3, <1>5, <3>1, <5>1 DEF Touched
        <5> QED BY <1>1, <1>9, <3>1, <5>1, <5>2
      <4>3. CASE p = Developer /\ Merged
        BY <3>3, <4>3 DEF LeadInv, Touched
      <4> QED BY <1>3, <4>1, <4>2, <4>3
    <3> QED BY <3>2, <3>3
  <2>2. ASSUME NEW p \in Lead
        PROVE  /\ Active(p)' => runs'[p] = 0
               /\ runs'[p] <= 1
               /\ Publishing(p)' => runs'[p] = 1
    <3>1. Gets(d, p) => runs[p] = 0
      BY <1>1, <1>2, <1>3, <1>5 DEF Touched
    <3> QED BY <1>1, <1>2, <1>9, <3>1 DEF LeadInv
  <2>3. \/ \E r \in R : Active(r)' \/ log'.latest[r] > 0
        \/ CToken' \/ Merged' \/ Publishing(Developer)'
        => runs'[Developer] > 0
    <3>1. \A r \in R : Gets(d, r) => runs[Developer] > 0
      BY <1>1, <1>4 DEF LeadInv
    <3> QED BY <1>1, <1>2, <1>9, <3>1 DEF LeadInv
  <2> QED BY <2>1, <2>2, <2>3 DEF LeadInv
<1>11. ASSUME NEW r \in R, Active(r)' PROVE log'.latest[r] = 0 /\ OnlyOn(r, {Cur})'
  <2>1. CASE Gets(d, r)
    <3>1. d.h = Developer /\ DevDone /\ NoneJudged /\ log.stored[Developer] = runs[Developer]
      BY <1>4, <2>1 DEF Round
    <3>2. Emitted(d) = Cur
      BY <3>1 DEF Emitted, Cur
    <3>3. \A E : Emitted(d) \in E => OnlyOn(r, E)'
      BY <1>1, <1>2, <1>3, <1>6, <2>1, Delivered
    <3>4. OnlyOn(r, {Cur})'
      <4>1. \A E : E = {Cur} => OnlyOn(r, E)'
        BY <3>2, <3>3
      <4> QED BY <1>9, <4>1
    <3> QED BY <1>1, <3>1, <3>4 DEF NoneJudged
  <2>2. CASE ~Gets(d, r)
    <3>1. Active(r) /\ log.latest[r] = 0 /\ OnlyOn(r, {Cur})
      BY <1>2, <1>9, <1>11, <2>2 DEF Round
    <3>2. \A E : E = {Cur} => OnlyOn(r, E)'
      BY <1>1, <1>2, <2>2, <3>1 DEF Kept
    <3>3. OnlyOn(r, {Cur})'
      BY <1>9, <3>2
    <3> QED BY <1>1, <3>1, <3>3
  <2> QED BY <2>1, <2>2
<1>12. ASSUME NoneJudged, ~NoneJudged' PROVE d.h = Developer /\ DevDone
  BY <1>1, <1>2, <1>4, <1>9, <1>12 DEF NoneJudged
<1>13. Active(Developer)' => NoneJudged /\ ~CToken /\ ~DevDone /\ ~Merged'
  <2>1. CASE Active(Developer)
    BY <1>1, <2>1 DEF Round
  <2>2. CASE Gets(d, Developer) /\ Merged /\ d.h = C
    BY <1>1, <2>2 DEF Round
  <2>3. CASE Gets(d, Developer) /\ d.h \in Lead /\ Graph[Developer] = {d.h}
    <3>1. ~Touched(Developer) /\ runs[Developer] = 0
      BY <1>1, <1>2, <1>5, <2>3 DEF Touched
    <3>2. /\ ~Publishing(Developer) /\ ~CToken /\ ~Merged
          /\ \A r \in R : ~Active(r) /\ ~(log.latest[r] > 0)
      BY <3>1 DEF LeadInv
    <3>3. NoneJudged
      BY <1>2, <3>2, LogFields DEF NoneJudged, TypesInv, DataTyped
    <3>4. ~DevDone
      BY <3>2 DEF DevDone, Publishing
    <3> QED BY <1>1, <3>2, <3>3, <3>4
  <2> QED BY <1>2, <1>3, <1>9, <2>1, <2>2, <2>3
<1>14. Round'
  <2>1. DevDone' => log'.stored[Developer] = runs'[Developer] /\ NoneJudged'
    BY <1>1, <1>12 DEF Round
  <2>2. Active(Developer)' \/ Merged' => NoneJudged' /\ ~DevDone' /\ ~CToken'
    <3>1. Merged' => NoneJudged /\ ~DevDone /\ ~CToken
      BY <1>1 DEF Round
    <3> QED BY <1>1, <1>9, <1>12, <1>13, <3>1
  <2>3. Merged' => ~Active(Developer)'
    BY <1>13
  <2> QED BY <1>9, <1>11, <2>1, <2>2, <2>3 DEF Round
<1>15. Answers'
  <2>1. Cur' \in answered' => NoneJudged' /\ ~DevDone'
    BY <1>1, <1>9, <1>12 DEF Answers
  <2> QED BY <1>1, <1>9, <2>1 DEF Answers
<1> QED BY <1>8, <1>10, <1>14, <1>15

\* The engine's first answer starts the workflow's roots.
LEMMA BeginsKeeps ==
    ASSUME TypesInv, Barrier, Begins, LeadInv, Singles, Round, Answers
    PROVE  LeadInv' /\ Singles' /\ Round' /\ Answers'
<1> DEFINE R == ConsolidatedReviewers
           C == ReviewConsolidator
           L == Lead \cup {Developer}
           W == Deliver(Roots, WorkflowStartedEnv)
<1>1. /\ UNCHANGED <<log, runs, answered, seen, queue, blocked, drains>>
      /\ wraps' = wraps \cup W
      /\ \A w \in W : w.h \in Roots /\ w = [h |-> w.h, env |-> WorkflowStartedEnv, at |-> "wrap"]
      /\ \A p \in Persona : runs[p] = 0 /\ ~Active(p) /\ ~Publishing(p)
  BY DEF Begins, Fresh, Deliver
<1>2. /\ L \subseteq Persona /\ R \subseteq Persona /\ C \in Persona /\ Developer \in Persona
      /\ \A p \in L : Graph[p] \subseteq Lead
      /\ \A p \in R \cup {C} : p \notin Roots
      /\ \A p \in L : p \in Roots => Graph[p] = {}
      /\ Predecessors(C) = R
  BY Shape, Order DEF LeadsUp
<1> HIDE DEF W
<1>3. \A h \in Persona : h \notin Roots => (~Active(h)' /\ Kept(h) /\ HandKept(h))
  <2> SUFFICES ASSUME NEW h \in Persona, h \notin Roots PROVE ~Active(h)' /\ Kept(h) /\ HandKept(h)
    OBVIOUS
  <2>1. Fewer(h)
    BY <1>1 DEF Fewer
  <2> QED BY <1>1, <2>1, FewerKept DEF Kept
<1>4. /\ \A h : Publishing(h)' = Publishing(h)
      /\ DevDone' = DevDone /\ Merged' = Merged /\ CToken' = CToken
      /\ Cur' = Cur /\ AllJudged' = AllJudged /\ Done' = Done /\ Joined' = Joined
      /\ NoneJudged' = NoneJudged /\ ~CToken
  <2>1. JoinFingerprint(log, C)' = JoinFingerprint(log, C)
    BY <1>1 DEF JoinFingerprint
  <2>2. CToken' = CToken /\ ~CToken
    BY <1>1, <1>2 DEF CToken, InHand, InQueue, InRun, Active
  <2>3. DevDone' = DevDone /\ Merged' = Merged
    BY <1>1 DEF DevDone, Merged
  <2> QED BY <1>1, <1>2, <1>3, <2>1, <2>2, <2>3
          DEF Cur, AllJudged, Done, Joined, NoneJudged, Publishing
<1>5. ~DevDone /\ ~Merged
  BY <1>1, <1>2 DEF DevDone, Merged, Publishing
<1>6. \A r \in R : ~(log.latest[r] > 0)
  <2>1. runs[Developer] = 0 /\ ~(runs[Developer] > 0)
    BY <1>1, <1>2
  <2> QED BY <2>1 DEF LeadInv
<1>7. NoneJudged
  BY <1>1, <1>2, <1>6, LogFields DEF NoneJudged, TypesInv, DataTyped
<1>8. Singles'
  <2>1. \A h \in L \cup R : Once(h)'
    <3> SUFFICES ASSUME NEW h \in L \cup R PROVE Once(h)'
      OBVIOUS
    <3>1. /\ \A e \in drains' : Held(e, h) => e \in drains
          /\ \A w \in W : w.h = h => w = [h |-> h, env |-> WorkflowStartedEnv, at |-> "wrap"]
          /\ h \in Persona /\ ~Active(h) /\ queue'[h] = queue[h] /\ blocked' = blocked
      BY <1>1, <1>2
    <3> QED BY <1>1, <3>1, Delivered
  <2>2. OneInHand(C)' /\ OnlyOn(C, {env \in Env : env.type = "completed"})'
    BY <1>2, <1>3 DEF Kept, HandKept, Singles
  <2> QED BY <1>1, <2>1, <2>2 DEF Singles
<1>9. LeadInv'
  <2>1. \A p \in L : Touched(p)' => Graph[p] = {}
    BY <1>1, <1>2, <1>3, <1>4 DEF Touched
  <2>2. \A r \in R : ~Active(r)'
    BY <1>1, <1>2, <1>3
  <2> QED BY <1>1, <1>2, <1>4, <1>5, <1>6, <2>1, <2>2 DEF LeadInv
<1>10. Round'
  <2>1. \A r \in R : ~Active(r)'
    BY <1>1, <1>2, <1>3
  <2>2. Done => AllJudged /\ Joined
    BY DEF Round
  <2> QED BY <1>4, <1>5, <1>7, <2>1, <2>2 DEF Round
<1>11. Answers'
  BY <1>1, <1>4, <1>5 DEF Answers
<1> QED BY <1>8, <1>9, <1>10, <1>11

\* The invariant is owed only while nothing has disturbed the workflow.
BInv == Undisturbed => BarrierInv

\* It holds at first, and every step keeps it.
LEMMA InitBarrier == Barrier /\ Init => BInv
<1> SUFFICES ASSUME Barrier, Init PROVE BarrierInv
  BY DEF BInv
<1> DEFINE R == ConsolidatedReviewers
           C == ReviewConsolidator
           L == Lead \cup {Developer}
<1>1. /\ wraps = {} /\ drains = {} /\ blocked = {} /\ inbox = {} /\ mail = <<Requested>>
      /\ log = NewLog /\ answered = {} /\ asked = 0
      /\ \A p \in Persona : queue[p] = <<>> /\ runs[p] = 0
      /\ agg.resumeRetryFrom = None
  BY DEF Init, NewWorkflowAggregate
<1>2. /\ L \subseteq Persona /\ R \subseteq Persona /\ C \in Persona
      /\ \A p \in L : Graph[p] \subseteq Lead
  BY Shape DEF LeadsUp
<1>3. /\ \A p \in Persona : log.latest[p] = 0 /\ log.stored[p] = 0
      /\ log.hints = {}
  BY <1>1 DEF NewLog
<1>4. \A p \in Persona : /\ ~Active(p) /\ ~Publishing(p) /\ ~InHand(p) /\ Once(p)
                         /\ OneInHand(p) /\ \A E : OnlyOn(p, E)
  <2> SUFFICES ASSUME NEW p \in Persona
               PROVE  /\ ~Active(p) /\ ~Publishing(p) /\ ~InHand(p) /\ Once(p)
                      /\ OneInHand(p) /\ \A E : OnlyOn(p, E)
    OBVIOUS
  <2>1. ~InQueue(p) /\ ~InRun(p) /\ ~InWrap(p) /\ ~IsBlocked(p) /\ ~Publishing(p)
    BY <1>1 DEF InQueue, InRun, InWrap, IsBlocked, Publishing
  <2>2. Len(queue[p]) = 0 /\ DOMAIN queue[p] = {}
    BY <1>1
  <2>3. OneInHand(p) /\ ~InHand(p) /\ ~Active(p)
    BY <2>1, <2>2 DEF OneInHand, InHand, Active
  <2> QED BY <1>1, <2>1, <2>2, <2>3 DEF Once, OnlyOn
<1>5. FirstLetter
  <2>1. Fresh
    BY <1>1, <1>4 DEF Fresh
  <2> QED BY <1>1, <2>1 DEF FirstLetter
<1>6. HintFree
  <2>1. \A i \in DOMAIN mail : mail[i].type = "WorkflowRequested"
    BY <1>1, LetterTypes
  <2> QED BY <1>1, <1>3, <2>1 DEF HintFree
<1>7. LeadInv
  <2>1. \A p \in L : ~Touched(p)
    BY <1>1, <1>2, <1>4 DEF Touched
  <2>2. ~CToken /\ ~Merged /\ \A r \in R : ~Active(r) /\ ~(log.latest[r] > 0)
    BY <1>1, <1>2, <1>3, <1>4 DEF CToken, Merged
  <2> QED BY <1>1, <1>2, <1>4, <2>1, <2>2 DEF LeadInv
<1>8. Singles
  BY <1>1, <1>2, <1>4 DEF Singles
<1>9. Round
  BY <1>1, <1>2, <1>3, <1>4 DEF Round, DevDone, Merged, CToken, Done
<1>10. Answers
  BY <1>1, <1>2, <1>3 DEF Answers
<1> QED BY <1>5, <1>6, <1>7, <1>8, <1>9, <1>10 DEF BarrierInv

LEMMA NextBarrier ==
    ASSUME Barrier, TypesInv, OneDrain, BInv, [Next]_vars
    PROVE  BInv'
<1> SUFFICES ASSUME Undisturbed' PROVE BarrierInv'
  BY DEF BInv
<1>1. BarrierInv
  BY CountsBack DEF BInv
<1>2. /\ FirstLetter' /\ HintFree'
      /\ \/ Shuffled \/ Begins
         \/ \E d \in drains : Publish(d)
         \/ \E d \in drains, out \in Outcome : Finished(d, out)
  BY <1>1, StepKinds DEF BarrierInv
<1>3. LeadInv' /\ Singles' /\ Round' /\ Answers'
  BY <1>1, <1>2, ShuffledKeeps, BeginsKeeps, PublishKeeps, FinishKeeps DEF BarrierInv
<1> QED BY <1>2, <1>3 DEF BarrierInv

\* Only a run that ends gets to publish.
LEMMA MergesEnds ==
    ASSUME TypesInv, OneDrain, [Next]_vars, Merges
    PROVE  \E d \in drains : End(d, "merged")
<1>1. PICK e \in drains' \ drains : e.at = "publish" /\ e.out = "merged"
  BY DEF Merges
<1>2. \A h, kind : NewDrain(h, kind).at = "check"
  BY DEF NewDrain
<1>3. drains \subseteq Drain
  BY DEF TypesInv, DrainsTyped
<1>4. ASSUME NEW w \in wraps, Drop(w) \/ Admit(w) \/ Park(w) \/ JoinError(w) PROVE FALSE
  BY <1>1, <1>2, <1>4 DEF Drop, Admit, Park, JoinError, Enqueue
<1>5. ASSUME NEW d \in drains, DrainStep(d) PROVE \E out \in Outcome : End(d, out)
  <2>1. CASE Publish(d)
    <3>1. Turn(d, [d EXCEPT !.at = "check"])
      BY <2>1 DEF Publish
    <3>2. [d EXCEPT !.at = "check"].at = "check"
      BY <1>3 DEF Drain
    <3> QED BY <1>1, <3>1, <3>2 DEF Turn
  <2>2. CASE ~Publish(d) /\ ~\E out \in Outcome : End(d, out)
    <3>1. Shuffled
      BY <1>5, <2>2, DrainShuffles
    <3> QED BY <1>1, <3>1 DEF Shuffled
  <2> QED BY <2>1, <2>2
<1>6. ASSUME Engine \/ OnResumed \/ Operator \/ UNCHANGED vars PROVE FALSE
  <2>1. UNCHANGED drains
    BY <1>6, OperatorFrame DEF Engine, OnResumed, vars, dispatch
  <2> QED BY <1>1, <2>1
<1>7. ASSUME OnCancelled \/ OnTerminal PROVE FALSE
  <2>1. drains' = Interrupted
    BY <1>7 DEF OnCancelled, OnTerminal
  <2>2. PICK f \in drains : f.at = "run" /\ e = [f EXCEPT !.live = FALSE]
    BY <1>1, <2>1 DEF Interrupted
  <2>3. e.at = "run"
    BY <1>3, <2>2 DEF Drain
  <2> QED BY <1>1, <2>3
<1>8. ASSUME NEW p \in Persona, OnRetried(p) \/ OnApproved(p) PROVE FALSE
  <2>1. drains' = drains \/ \E env, kind : Enqueue(p, env, kind)
    BY <1>8 DEF OnRetried, OnApproved
  <2> QED BY <1>1, <1>2, <2>1 DEF Enqueue
<1>9. ASSUME Restart PROVE FALSE
  BY <1>1, <1>2, <1>9 DEF Restart
<1>10. PICK d \in drains, out \in Outcome : End(d, out)
  <2>1. \E d \in drains : DrainStep(d)
    BY <1>4, <1>6, <1>7, <1>8, <1>9 DEF Next, Progress
  <2> QED BY <1>5, <2>1
<1>11. e = [d EXCEPT !.at = "publish", !.out = out]
  BY <1>1, <1>10 DEF End, Turn
<1>12. out = "merged"
  BY <1>1, <1>3, <1>11 DEF Drain
<1> QED BY <1>10, <1>12

\* The review consolidator answers a developer run at most once, and only when
\* every reviewer has judged that very run: the join check counts the reviewers'
\* current completions and lets one delivery through per set of them, and the
\* feedback takes those completions back before the developer runs again
\* (persona_runner.go, workflow_def.go, "review-consolidator").  It is shown for
\* every definition of the barrier's shape, with any number of reviewers and any
\* personas one after the other up to the developer, and for every behaviour
\* that Undisturbed does not set aside: handlers fail, deliveries wait, and,
\* without the pause on rate limits, operators pause, resume and cancel.
THEOREM OneAnswerPerRound ==
    ASSUME Barrier
    PROVE  Spec => RoundAnsweredOnce
<1> DEFINE Answer1 == /\ log.round \notin answered
                      /\ {v.source : v \in RoundVerdicts(log)} = ConsolidatedReviewers
           A == Merges /\ Undisturbed => Answer1
<1>1. ASSUME TypesInv, OneDrain, BInv, [Next]_vars, Merges, Undisturbed PROVE Answer1
  <2>1. PICK d \in drains : End(d, "merged")
    BY <1>1, MergesEnds
  <2>2. d.h = ReviewConsolidator /\ d.at = "run"
    <3>1. "merged" \in Ends(d) /\ d.at = "run"
      BY <2>1 DEF End
    <3>2. ~Hinting(d) /\ "merged" \notin Outcomes[d.h]
      BY <1>1, RunnerAssumption DEF Hinting, Barrier, TypesInv, DrainsTyped, Drain
    <3> QED BY <3>1, <3>2 DEF Ends
  <2>3. BarrierInv
    BY <1>1 DEF BInv
  <2>4. CToken
    BY <2>2 DEF CToken, InHand, InRun, Held
  <2>5. \A r \in ConsolidatedReviewers :
          /\ log.latest[r] > 0 /\ log.latest[r] # 0
          /\ log.round = Cur
          /\ \E v \in log.verdicts : v.source = r /\ v.round = Cur
    BY <2>3, <2>4 DEF BarrierInv, Round, Answers, AllJudged
  <2>6. log.round = Cur /\ Cur \notin answered
    BY <2>3, <2>5, Shape DEF BarrierInv, Answers, NoneJudged
  <2>7. {v.source : v \in RoundVerdicts(log)} = ConsolidatedReviewers
    BY <2>5 DEF RoundVerdicts
  <2> QED BY <2>6, <2>7
<1>2. TypesInv /\ IInv /\ BInv /\ [Next]_vars => [A]_vars
  BY <1>1 DEF IInv
<1>3. TypesInv /\ IInv /\ BInv /\ [Next]_vars => (TypesInv /\ IInv /\ BInv)'
  BY NextTyped, NextInv, NextBarrier DEF IInv
<1>4. Init => TypesInv /\ IInv /\ BInv
  BY InitTyped, InitInv, InitBarrier
<1>5. [][A]_vars => RoundAnsweredOnce
  BY PTL DEF RoundAnsweredOnce
<1> QED BY <1>2, <1>3, <1>4, <1>5, PTL DEF Spec
=============================================================================
