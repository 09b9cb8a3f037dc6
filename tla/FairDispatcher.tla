--------------------------- MODULE FairDispatcher ---------------------------
(***************************************************************************)
(* The admission controller of the persona runner                          *)
(* (internal/engine/fair_dispatcher.go): a mutex, a condition variable and *)
(* a FIFO list of waiters share Cap slots between correlations.  A task is *)
(* a goroutine that calls acquire and, when admitted, release; its steps   *)
(* are the stretches it runs while holding the mutex.                      *)
(*                                                                         *)
(* The context is the runner's own (acquireSlot): when it is cancelled a   *)
(* helper goroutine of each waiter broadcasts, without taking the mutex.   *)
(***************************************************************************)
EXTENDS Integers, FiniteSets, Sequences

CONSTANTS
    Task,          \* goroutines that dispatch, one per (handler, correlation)
    Correlation,   \* workflows
    CorrOf,        \* the correlation a task dispatches for
    Cap,           \* slots
    None           \* nobody

ASSUME DispatcherAssumption ==
    /\ IsFiniteSet(Task)
    /\ IsFiniteSet(Correlation)
    /\ CorrOf \in [Task -> Correlation]
    /\ Cap \in Nat \ {0}
    /\ None \notin Task

VARIABLES
    pc,         \* where each task is
    mutex,      \* the task that holds fd.mu between two steps, or None
    waiters,    \* fd.waiters
    admitted,   \* tasks whose fairWaiter is marked admitted
    total,      \* fd.total
    inflight,   \* fd.inflight; 0 for an absent key
    helper,     \* tasks whose helper goroutine stands by
    cancelled   \* the runner's context is done

vars == <<pc, mutex, waiters, admitted, total, inflight, helper, cancelled>>

\* "asleep" is inside cond.Wait, "parking" about to enter it.
Waiting == {"checking", "parking", "asleep", "woken"}

TypeOK ==
    /\ pc \in [Task -> {"idle", "holding", "gone"} \cup Waiting]
    /\ mutex \in Task \cup {None}
    /\ waiters \in Seq(Task)
    /\ admitted \subseteq Task
    /\ total \in Nat
    /\ inflight \in [Correlation -> Nat]
    /\ helper \subseteq Task
    /\ cancelled \in BOOLEAN

Init ==
    /\ pc = [t \in Task |-> "idle"]
    /\ mutex = None
    /\ waiters = <<>>
    /\ admitted = {}
    /\ total = 0
    /\ inflight = [c \in Correlation |-> 0]
    /\ helper = {}
    /\ cancelled = FALSE

-----------------------------------------------------------------------------

\* removeWaiter: the list without t, if it is there.
RemoveWaiter(s, t) ==
    IF \E i \in 1..Len(s) : s[i] = t
    THEN LET i == CHOOSE i \in 1..Len(s) : s[i] = t
         IN [j \in 1..(Len(s) - 1) |-> IF j < i THEN s[j] ELSE s[j + 1]]
    ELSE s

\* cond.Broadcast: every sleeper is to look again.
Broadcast(where) ==
    [t \in Task |-> IF where[t] = "asleep" THEN "woken" ELSE where[t]]

\* Correlations that hold a slot, c counted among them.
Active(held, c) == {d \in Correlation : held[d] > 0} \cup {c}

\* c's share of the slots, never below one.
FairShare(held, c) ==
    LET share == Cap \div Cardinality(Active(held, c))
    IN IF share < 1 THEN 1 ELSE share

\* atOrUnderFairShare, which tells whether c is strictly below its share.
UnderShare(held, c) == held[c] < FairShare(held, c)

\* Mutant: the pool takes one more.
FastPathBeyondCap(t) == total <= Cap /\ UnderShare(inflight, CorrOf[t])

FastPath(t) == total < Cap /\ UnderShare(inflight, CorrOf[t])

\* acquire, up to its loop: a slot at once, or a place among the waiters.
Acquire(t) ==
    /\ pc[t] = "idle"
    /\ mutex = None
    /\ \/ /\ FastPath(t)
          /\ pc' = [pc EXCEPT ![t] = "holding"]
          /\ total' = total + 1
          /\ inflight' = [inflight EXCEPT ![CorrOf[t]] = @ + 1]
          /\ UNCHANGED <<mutex, waiters, helper>>
       \/ /\ ~FastPath(t)
          /\ pc' = [pc EXCEPT ![t] = "checking"]
          /\ mutex' = t
          /\ waiters' = Append(waiters, t)
          /\ helper' = helper \cup {t}
          /\ UNCHANGED <<total, inflight>>
    /\ UNCHANGED <<admitted, cancelled>>

\* The loop returns: the fairWaiter is dropped and its helper stopped.
Leave(t, place) ==
    /\ pc' = [pc EXCEPT ![t] = place]
    /\ mutex' = None
    /\ helper' = helper \ {t}
    /\ admitted' = admitted \ {t}

\* Mutant: a done context is looked at before the admission.
TakesUnlessCancelled(t) == t \in admitted /\ ~cancelled

\* The loop looks at the admission before it looks at the context.
TakesAdmission(t) == t \in admitted

\* One turn of the loop, the mutex held.
Check(t) ==
    /\ pc[t] = "checking"
    /\ \/ /\ TakesAdmission(t)
          /\ Leave(t, "holding")
          /\ UNCHANGED waiters
       \/ /\ ~TakesAdmission(t)
          /\ cancelled
          /\ Leave(t, "gone")
          /\ waiters' = RemoveWaiter(waiters, t)
       \/ /\ ~TakesAdmission(t)
          /\ ~cancelled
          /\ pc' = [pc EXCEPT ![t] = "parking"]
          /\ UNCHANGED <<mutex, helper, waiters, admitted>>
    /\ UNCHANGED <<total, inflight, cancelled>>

\* cond.Wait joins the sleepers, then lets go of the mutex.
Park(t) ==
    /\ pc[t] = "parking"
    /\ pc' = [pc EXCEPT ![t] = "asleep"]
    /\ mutex' = None
    /\ UNCHANGED <<waiters, admitted, total, inflight, helper, cancelled>>

\* cond.Wait returns once it has the mutex again.
Awaken(t) ==
    /\ pc[t] = "woken"
    /\ mutex = None
    /\ pc' = [pc EXCEPT ![t] = "checking"]
    /\ mutex' = t
    /\ UNCHANGED <<waiters, admitted, total, inflight, helper, cancelled>>

-----------------------------------------------------------------------------

UnderShareWaiters(held) ==
    {i \in 1..Len(waiters) : UnderShare(held, CorrOf[waiters[i]])}

\* Mutant: the first pass walks the list from its end.
PicksYoungest(held) ==
    LET under == UnderShareWaiters(held)
    IN IF under # {}
       THEN {i \in under : \A j \in under : j <= i}
       ELSE {i \in 1..Len(waiters) : i = 1}

\* Mutant: no second pass.
PicksUnderShareOnly(held) ==
    LET under == UnderShareWaiters(held)
    IN {i \in under : \A j \in under : i <= j}

\* The place admitOne picks, if any: the oldest waiter under its share, or
\* else the oldest.
Picks(held) ==
    LET under == UnderShareWaiters(held)
    IN IF under # {}
       THEN {i \in under : \A j \in under : i <= j}
       ELSE {i \in 1..Len(waiters) : i = 1}

\* Mutant: an admission nobody is woken for.
AdmitSilently(w, held, where) ==
    /\ total' = total
    /\ inflight' = [held EXCEPT ![CorrOf[w]] = @ + 1]
    /\ admitted' = admitted \cup {w}
    /\ waiters' = RemoveWaiter(waiters, w)
    /\ pc' = where

\* admit: the slot just freed goes to w, and every sleeper is woken.
Admit(w, held, where) ==
    /\ total' = total
    /\ inflight' = [held EXCEPT ![CorrOf[w]] = @ + 1]
    /\ admitted' = admitted \cup {w}
    /\ waiters' = RemoveWaiter(waiters, w)
    /\ pc' = Broadcast(where)

\* Mutant: the caller releases once more.
ReleasesAgain(t) == pc

\* The caller goes on, one release for one acquire (executeDispatch's defer).
Released(t) == [pc EXCEPT ![t] = "idle"]

\* release and admitOne.
Release(t) ==
    LET held == [inflight EXCEPT ![CorrOf[t]] = @ - 1]
        where == Released(t)
    IN /\ pc[t] = "holding"
       /\ mutex = None
       /\ \/ \E i \in Picks(held) : Admit(waiters[i], held, where)
          \/ /\ Picks(held) = {}
             /\ total' = total - 1
             /\ inflight' = held
             /\ pc' = where
             /\ UNCHANGED <<admitted, waiters>>
       /\ UNCHANGED <<mutex, helper, cancelled>>

-----------------------------------------------------------------------------

\* The runner closes.
Cancel ==
    /\ ~cancelled
    /\ cancelled' = TRUE
    /\ UNCHANGED <<pc, mutex, waiters, admitted, total, inflight, helper>>

\* A helper goroutine finds the context done, whoever holds the mutex.
Help(t) ==
    /\ t \in helper
    /\ cancelled
    /\ pc' = Broadcast(pc)
    /\ helper' = helper \ {t}
    /\ UNCHANGED <<mutex, waiters, admitted, total, inflight, cancelled>>

Next ==
    \/ \E t \in Task : Acquire(t)
    \/ \E t \in Task : Check(t)
    \/ \E t \in Task : Park(t)
    \/ \E t \in Task : Awaken(t)
    \/ \E t \in Task : Release(t)
    \/ \E t \in Task : Help(t)
    \/ Cancel

Spec == Init /\ [][Next]_vars

\* The scheduler runs every goroutine that can run; Go's mutex starves
\* nobody, so a task that wants it again and again gets it.
Scheduled ==
    \A t \in Task :
        /\ WF_vars(Check(t))
        /\ WF_vars(Park(t))
        /\ WF_vars(Help(t))
        /\ SF_vars(Awaken(t))

\* Every handler returns: backends and commands have timeouts.
FairSpec == Spec /\ Scheduled /\ \A t \in Task : SF_vars(Release(t))

-----------------------------------------------------------------------------
(* Properties *)

\* Tasks a slot is accounted to: those that run, and those that have been
\* admitted and do not know it yet.
Busy ==
    {t \in Task : \/ pc[t] = "holding"
                  \/ pc[t] \in Waiting /\ t \in admitted}

\* Slots are neither leaked nor freed twice, whatever the order of admission,
\* cancellation and release (the invariant acquire's comment asks of callers).
SlotsAccounted ==
    /\ total = Cardinality(Busy)
    /\ \A c \in Correlation :
            inflight[c] = Cardinality({t \in Busy : CorrOf[t] = c})

\* No more than Cap handlers run at a time.
CapHolds == total <= Cap

\* A slot is given back only when nobody waits for one: a release hands it to
\* a waiter even when every waiter's correlation has its share (pass 2).
SlotHandedOn == [][total' < total => waiters = <<>>]_vars

\* A waiter is never overtaken by a younger one of its own correlation, nor,
\* while its correlation holds no slot, by any younger one (both passes walk
\* the list in its order).
NotOvertaken ==
    [][\A i, j \in 1..Len(waiters) :
            (i < j /\ waiters[j] \in admitted' \ admitted) =>
                /\ CorrOf[waiters[i]] # CorrOf[waiters[j]]
                /\ inflight'[CorrOf[waiters[i]]] > 0]_vars

\* As long as handlers return, everyone who waits is admitted, or leaves
\* because the runner closes.
EveryoneServed == \A t \in Task : pc[t] \in Waiting ~> pc[t] \notin Waiting
=============================================================================
