------------------------ MODULE EventDeliveryProofs ------------------------
(***************************************************************************)
(* Proofs about EventDelivery, for any subscribers, events, batch size and *)
(* number of crashes, republications and failed writes: in the cases where *)
(* delivery is at least once no stored event is lost, and the outbox       *)
(* delivers to each subscriber in the order of the log.                    *)
(***************************************************************************)
EXTENDS EventDelivery, FiniteSetTheorems, TLAPS

-----------------------------------------------------------------------------
(* What holds of every state *)

\* The types, and what the bounds count.
Typed ==
    /\ bus \in {"channel", "outbox"} /\ chain \in {"retry", "dedup"}
    /\ <<bus, chain>> \in Setups
    /\ stored \in 0..MaxEvents /\ letters \subseteq Letter
    /\ up \in {"running", "closed"}
    /\ checkpoint \in Nat /\ position \in Nat /\ upto \in Nat
    /\ checkpoint <= position /\ position <= upto /\ upto <= stored
    /\ unpublished \subseteq 1..stored
    /\ left \subseteq Subscriber /\ (left # {} => position < upto)
    /\ calls \subseteq Call
    /\ marks \in [Subscriber -> SUBSET Events]
    /\ redo \subseteq Letter /\ redone \subseteq Letter
    /\ handled \in [Subscriber -> SUBSET Events]
    /\ republished \in Nat /\ faults \in Nat /\ crashes \in Nat
    /\ republished + faults + crashes <= MaxTrouble

\* Without idempotency no call waits to enter it.  The outbox has at most one
\* call at a time, for the event after its position, and unless Close found it
\* inside a batch none once it is closed.
OneAtATime ==
    /\ chain # "dedup" => \A c \in calls : c.at # "enter"
    /\ bus = "outbox" =>
          /\ unpublished = {}
          /\ \A c, d \in calls : c = d
          /\ \A c \in calls :
                c.ev = position + 1 /\ position < upto /\ c.sub \notin left
          /\ up = "closed" /\ ~cut => position = upto

\* Only what is stored is delivered.
Known ==
    /\ \A s \in Subscriber : handled[s] \subseteq 1..stored
    /\ \A x \in calls \cup letters \cup redo : x.ev <= stored

\* A letter is told from the one that its own republication may leave behind,
\* and while it waits for its deletion its event is somewhere else as well.
Replaced(l) ==
    \/ l.ev \in handled[l.sub]
    \/ \E x \in calls \cup letters :
          x.sub = l.sub /\ x.ev = l.ev /\ x.pub = republished

Republications ==
    /\ \A x \in calls \cup letters \cup redo \cup redone : x.pub <= republished
    /\ \A l \in redone : l.pub < republished
    /\ Reliable => \A l \in redone : Replaced(l)

\* Whatever the outbox's position has passed is settled with everybody.
Passed ==
    Reliable /\ bus = "outbox" =>
        \A s \in Subscriber : \A e \in 1..position : Settled(s, e)

IInv ==
    /\ Typed /\ OneAtATime /\ Known /\ Republications
    /\ NothingLost /\ Passed /\ InOrder

-----------------------------------------------------------------------------
(* Calls and letters *)

LEMMA NewCalls ==
    ASSUME Typed, NEW s \in Subscriber, NEW e \in Events, NEW n \in 0..MaxTrouble
    PROVE  /\ NewCall(s, e, n) \in Call
           /\ NewCall(s, e, n).sub = s /\ NewCall(s, e, n).ev = e
           /\ NewCall(s, e, n).pub = n
           /\ chain # "dedup" => NewCall(s, e, n).at # "enter"
BY DeliveryAssumption DEF Typed, NewCall, Call

\* What c has become when its handler is called again, or for the first time,
\* or its letter is due.
SameCall(c, d) ==
    /\ d \in Call /\ d.sub = c.sub /\ d.ev = c.ev /\ d.pub = c.pub
    /\ chain # "dedup" => d.at # "enter"

LEMMA Again ==
    ASSUME Typed, NEW c \in Call, c.tries < MaxRetries
    PROVE  SameCall(c, [NewCall(c.sub, c.ev, c.pub) EXCEPT !.tries = c.tries + 1])
<1>1. /\ c.sub \in Subscriber /\ c.ev \in Events /\ c.pub \in 0..MaxTrouble
      /\ c.tries \in 0..MaxRetries
  BY DEF Call
<1> DEFINE n == NewCall(c.sub, c.ev, c.pub)
<1>2. /\ n \in Call /\ n.sub = c.sub /\ n.ev = c.ev /\ n.pub = c.pub
      /\ chain # "dedup" => n.at # "enter"
  BY <1>1, NewCalls
<1>3. c.tries + 1 \in 0..MaxRetries
  BY <1>1, DeliveryAssumption
<1> HIDE DEF n
<1>4. SameCall(c, [n EXCEPT !.tries = c.tries + 1])
  BY <1>2, <1>3 DEF SameCall, Call
<1> QED
  BY <1>4 DEF n

LEMMA Later ==
    ASSUME NEW c \in Call
    PROVE  /\ SameCall(c, [c EXCEPT !.at = "handler"])
           /\ SameCall(c, [c EXCEPT !.at = "letter"])
BY DEF SameCall, Call

\* What a step of a call changes: the call goes or goes on, and only where
\* delivery is not at least once does it go without its event being settled.
Left(c) ==
    /\ calls' = calls \ {c}
    /\ Reliable' => \/ c.ev \in handled'[c.sub]
                    \/ \E x \in letters' : x.sub = c.sub /\ x.ev = c.ev /\ x.pub = c.pub

GoesOn(c) == \E d : SameCall(c, d) /\ calls' = (calls \ {c}) \cup {d}

LEMMA CallEffect ==
    ASSUME Typed, OneAtATime, NEW c \in calls, CallStep(c)
    PROVE  /\ CallFrame
           /\ letters \subseteq letters' /\ letters' \subseteq Letter
           /\ \A x \in letters' \ letters :
                  x.sub = c.sub /\ x.ev = c.ev /\ x.pub = c.pub
           /\ marks' \in [Subscriber -> SUBSET Events]
           /\ handled' \in [Subscriber -> SUBSET Events]
           /\ \A s \in Subscriber :
                /\ handled[s] \subseteq handled'[s]
                /\ \A e \in handled'[s] \ handled[s] : s = c.sub /\ e = c.ev
           /\ \/ faults' = faults
              \/ faults' = faults + 1 /\ republished + faults' + crashes <= MaxTrouble
           /\ Left(c) \/ GoesOn(c)
<1>c. /\ c \in Call /\ c.sub \in Subscriber /\ c.ev \in Events
      /\ c.pub \in 0..MaxTrouble /\ c.tries \in 0..MaxRetries
  BY DEF Typed, Call
<1>1. CASE Skip(c)
  <2>1. Left(c)
    BY <1>1 DEF Skip, CallFrame, choice, OneAtATime, Reliable, Left
  <2> QED
    BY <1>1, <2>1 DEF Skip, Typed
<1>2. CASE Mark(c)
  <2>1. GoesOn(c)
    BY <1>2, <1>c, Later DEF Mark, GoesOn
  <2>2. marks' \in [Subscriber -> SUBSET Events]
    BY <1>2, <1>c DEF Mark, Typed
  <2> QED
    BY <1>2, <2>1, <2>2 DEF Mark, Typed
<1>3. CASE Succeed(c)
  <2>1. /\ handled' \in [Subscriber -> SUBSET Events]
        /\ handled'[c.sub] = handled[c.sub] \cup {c.ev}
        /\ \A s \in Subscriber \ {c.sub} : handled'[s] = handled[s]
    BY <1>3, <1>c DEF Succeed, Typed
  <2>2. Left(c)
    BY <1>3, <2>1 DEF Succeed, Left
  <2> QED
    BY <1>3, <2>1, <2>2 DEF Succeed, Typed
<1>4. CASE Fail(c)
  <2>1. GoesOn(c)
    BY <1>4, <1>c, Again, Later DEF Fail, GoesOn
  <2> QED
    BY <1>4, <2>1 DEF Fail, Typed
<1>5. CASE recordDeadLetter(c)
  <2> DEFINE l == [sub |-> c.sub, ev |-> c.ev, pub |-> c.pub]
  <2>1. l \in Letter /\ l.sub = c.sub /\ l.ev = c.ev /\ l.pub = c.pub
    BY <1>c DEF Letter
  <2>2. CASE letters' = letters \cup {l} /\ UNCHANGED faults
    <3>1. Left(c)
      BY <1>5, <2>1, <2>2 DEF recordDeadLetter, Left
    <3> QED
      BY <1>5, <2>1, <2>2, <3>1 DEF recordDeadLetter, Typed
  <2>3. CASE bus = "outbox" /\ up = "closed" /\ UNCHANGED <<letters, faults>>
    <3>1. ~Reliable'
      <4>1. position # upto
        BY <2>3 DEF OneAtATime, Typed
      <4>2. cut
        BY <2>3, <4>1, Zenon DEF OneAtATime
      <4> QED
        BY <1>5, <2>3, <4>2, Zenon
           DEF recordDeadLetter, CallFrame, choice, Reliable
    <3>2. Left(c)
      BY <1>5, <3>1 DEF recordDeadLetter, Left
    <3> QED
      BY <1>5, <2>3, <3>2 DEF recordDeadLetter, Typed
  <2>4. CASE Trouble /\ faults' = faults + 1 /\ UNCHANGED letters
    <3>1. faults' # 0 /\ republished + faults' + crashes <= MaxTrouble
      BY <2>4, DeliveryAssumption DEF Trouble, Typed
    <3>2. Left(c)
      BY <1>5, <3>1 DEF recordDeadLetter, Left, Reliable
    <3> QED
      BY <1>5, <2>4, <3>1, <3>2 DEF recordDeadLetter, Typed
  <2> QED
    BY <1>5, <2>2, <2>3, <2>4 DEF recordDeadLetter
<1> QED
  BY <1>1, <1>2, <1>3, <1>4, <1>5 DEF CallStep

-----------------------------------------------------------------------------
(* Types *)

LEMMA TypedInit == ASSUME Init PROVE Typed
<1>1. /\ <<bus, chain>> \in Setups
      /\ bus \in {"channel", "outbox"} /\ chain \in {"retry", "dedup"}
  BY DeliveryAssumption DEF Init
<1> QED
  BY <1>1, DeliveryAssumption DEF Init, Typed

LEMMA TypedCall ==
    ASSUME Typed, OneAtATime, NEW c \in calls, CallStep(c)
    PROVE  Typed'
<1>1. calls' \subseteq Call
  BY CallEffect DEF Left, GoesOn, SameCall, Typed
<1>2. /\ faults' \in Nat /\ republished' \in Nat /\ crashes' \in Nat
      /\ republished' + faults' + crashes' <= MaxTrouble
  BY CallEffect DEF CallFrame, retrying, Typed
<1> QED
  BY <1>1, <1>2, CallEffect DEF CallFrame, choice, polling, retrying, Typed

LEMMA TypedStep == ASSUME Typed, OneAtATime, [Next]_vars PROVE Typed'
<1> USE DeliveryAssumption
<1> USE DEF choice, durable, polling, retrying, counters
<1>1. CASE \E e \in Events : Publish(e)
  <2> PICK e \in Events : Publish(e)
    BY <1>1
  <2>1. calls' \subseteq Call
    BY NewCalls DEF Publish, Typed
  <2> QED
    BY <2>1 DEF Publish, Typed
<1>2. CASE pollOnce
  BY <1>2 DEF pollOnce, Least, Typed
<1>3. CASE Advance
  BY <1>3 DEF Advance, Typed
<1>4. CASE \E s \in Subscriber : dispatchEvent(s)
  <2> PICK s \in Subscriber : dispatchEvent(s)
    BY <1>4
  <2>1. position + 1 \in Events
    BY DEF dispatchEvent, Typed, Events
  <2>2. calls' \subseteq Call
    BY <2>1, NewCalls DEF dispatchEvent
  <2> QED
    BY <2>2 DEF dispatchEvent, Typed
<1>5. CASE \E c \in calls : CallStep(c)
  BY <1>5, TypedCall
<1>6. CASE Append
  BY <1>6 DEF Append, Typed
<1>7. CASE Checkpoint
  BY <1>7 DEF Checkpoint, Typed
<1>8. CASE LoadDeadLetters
  BY <1>8 DEF LoadDeadLetters, RetryFrame, Typed
<1>9. CASE \E l \in redo : Republish(l)
  <2> PICK l \in redo : Republish(l)
    BY <1>9
  <2>1. l \in Letter /\ l.ev \in Events
    BY DEF Typed, Letter
  <2>2. CASE UNCHANGED <<republished, redone, calls>>
    BY <2>2 DEF Republish, RetryFrame, Typed
  <2>3. CASE Trouble /\ republished' = republished + 1 /\ redone' = {l}
    <3>1. /\ republished' \in 0..MaxTrouble
          /\ republished' + faults + crashes <= MaxTrouble
      BY <2>3 DEF Trouble, Typed
    <3>2. calls' \subseteq Call
      BY <2>1, <2>3, <3>1, NewCalls DEF Republish, Typed
    <3> QED
      BY <2>1, <2>3, <3>1, <3>2 DEF Republish, RetryFrame, Typed
  <2> QED
    BY <2>2, <2>3 DEF Republish
<1>10. CASE \E l \in redone : DeleteDeadLetter(l)
  BY <1>10 DEF DeleteDeadLetter, RetryFrame, Typed
<1>11. CASE Close
  BY <1>11 DEF Close, Typed
<1>12. CASE Crash
  BY <1>12 DEF Crash, Fresh, Trouble, Typed
<1>13. CASE UNCHANGED vars
  BY <1>13 DEF vars, Typed
<1> QED
  BY <1>1, <1>2, <1>3, <1>4, <1>5, <1>6, <1>7, <1>8, <1>9, <1>10, <1>11, <1>12,
     <1>13 DEF Next, Progress

-----------------------------------------------------------------------------
(* The outbox calls one handler at a time *)

LEMMA OneAtATimeInit == ASSUME Init PROVE OneAtATime
BY DEF Init, OneAtATime

LEMMA OneAtATimeStep ==
    ASSUME Typed, OneAtATime, [Next]_vars
    PROVE  OneAtATime'
<1> USE DEF choice, durable, polling, retrying, counters
<1>1. CASE \E e \in Events : Publish(e)
  <2> PICK e \in Events : Publish(e)
    BY <1>1
  <2>1. bus # "outbox"
    BY DEF Publish, OneAtATime
  <2>2. 0 \in 0..MaxTrouble
    BY DeliveryAssumption
  <2>3. chain # "dedup" => \A c \in calls' : c.at # "enter"
    BY <2>2, NewCalls DEF Publish, OneAtATime
  <2> QED
    BY <2>1, <2>3 DEF Publish, OneAtATime
<1>2. CASE pollOnce
  <2>1. calls = {} /\ up = "running"
    BY <1>2 DEF pollOnce, OneAtATime, Typed
  <2> QED
    BY <1>2, <2>1 DEF pollOnce, OneAtATime
<1>3. CASE Advance
  <2>1. ~(up = "closed" /\ ~cut)
    BY <1>3 DEF Advance, OneAtATime, Typed
  <2> QED
    BY <1>3, <2>1 DEF Advance, OneAtATime
<1>4. CASE \E s \in Subscriber : dispatchEvent(s)
  <2> PICK s \in Subscriber : dispatchEvent(s)
    BY <1>4
  <2> DEFINE n == NewCall(s, position + 1, 0)
  <2>1. position + 1 \in Events /\ 0 \in 0..MaxTrouble /\ position < upto
    BY DeliveryAssumption DEF dispatchEvent, Typed, Events
  <2>2. n.sub = s /\ n.ev = position + 1 /\ (chain # "dedup" => n.at # "enter")
    BY <2>1, NewCalls
  <2>3. calls' = {n} /\ left' = left \ {s}
    BY DEF dispatchEvent
  <2> HIDE DEF n
  <2> QED
    BY <2>1, <2>2, <2>3 DEF dispatchEvent, OneAtATime
<1>5. CASE \E c \in calls : CallStep(c)
  <2> PICK c \in calls : CallStep(c)
    BY <1>5
  <2>1. CallFrame /\ (Left(c) \/ GoesOn(c))
    BY CallEffect
  <2>2. CASE calls' = calls \ {c}
    BY <2>1, <2>2 DEF CallFrame, OneAtATime
  <2>3. CASE GoesOn(c)
    BY <2>1, <2>3 DEF CallFrame, GoesOn, SameCall, OneAtATime
  <2> QED
    BY <2>1, <2>2, <2>3 DEF Left
<1>6. CASE Append
  BY <1>6 DEF Append, OneAtATime
<1>7. CASE Checkpoint
  BY <1>7 DEF Checkpoint, OneAtATime
<1>8. CASE LoadDeadLetters
  BY <1>8 DEF LoadDeadLetters, RetryFrame, OneAtATime
<1>9. CASE \E l \in redo : Republish(l)
  <2> PICK l \in redo : Republish(l)
    BY <1>9
  <2>1. CASE UNCHANGED calls
    BY <2>1 DEF Republish, RetryFrame, OneAtATime
  <2>2. CASE /\ bus = "channel" /\ Trouble
             /\ calls' = calls \cup {NewCall(s, l.ev, republished + 1) :
                                        s \in Subscriber}
    <3>1. l.ev \in Events /\ republished + 1 \in 0..MaxTrouble
      BY <2>2, DeliveryAssumption DEF Typed, Letter, Trouble
    <3>2. chain # "dedup" => \A c \in calls' : c.at # "enter"
      BY <2>2, <3>1, NewCalls DEF OneAtATime
    <3> QED
      BY <2>2, <3>2 DEF Republish, RetryFrame, OneAtATime
  <2> QED
    BY <2>1, <2>2 DEF Republish
<1>10. CASE \E l \in redone : DeleteDeadLetter(l)
  BY <1>10 DEF DeleteDeadLetter, RetryFrame, OneAtATime
<1>11. CASE Close
  <2>1. ~cut' => position = upto
    <3>1. ~cut' => ~(position < upto)
      BY <1>11, Zenon DEF Close
    <3> QED
      BY <3>1 DEF Typed
  <2> QED
    BY <1>11, <2>1 DEF Close, OneAtATime
<1>12. CASE Crash
  BY <1>12 DEF Crash, Fresh, OneAtATime
<1>13. CASE UNCHANGED vars
  BY <1>13 DEF vars, OneAtATime
<1> QED
  BY <1>1, <1>2, <1>3, <1>4, <1>5, <1>6, <1>7, <1>8, <1>9, <1>10, <1>11, <1>12,
     <1>13 DEF Next, Progress

-----------------------------------------------------------------------------
(* Only what is stored is delivered *)

LEMMA KnownInit == ASSUME Init PROVE Known
BY DEF Init, Known

LEMMA KnownStep ==
    ASSUME Typed, OneAtATime, Known, [Next]_vars
    PROVE  Known'
<1> USE DEF choice, durable, polling, retrying, counters
<1>n. /\ republished \in 0..MaxTrouble /\ 0 \in 0..MaxTrouble /\ stored \in Nat
      /\ 1..stored \subseteq Events
  BY DeliveryAssumption DEF Typed, Events
<1>1. CASE \E e \in Events : Publish(e)
  <2> PICK e \in Events : Publish(e)
    BY <1>1
  <2>1. e <= stored
    BY DEF Publish, Typed
  <2>2. \A x \in calls' : x.ev <= stored
    BY <1>n, <2>1, NewCalls DEF Publish, Known
  <2> QED
    BY <2>2 DEF Publish, Known
<1>2. CASE pollOnce
  BY <1>2 DEF pollOnce, Known
<1>3. CASE Advance
  BY <1>3 DEF Advance, Known
<1>4. CASE \E s \in Subscriber : dispatchEvent(s)
  <2> PICK s \in Subscriber : dispatchEvent(s)
    BY <1>4
  <2>1. position + 1 \in Events /\ position + 1 <= stored
    BY DeliveryAssumption DEF dispatchEvent, Typed, Events
  <2>2. \A x \in calls' : x.ev <= stored
    BY <1>n, <2>1, NewCalls DEF dispatchEvent
  <2> QED
    BY <2>2 DEF dispatchEvent, Known
<1>5. CASE \E c \in calls : CallStep(c)
  <2> PICK c \in calls : CallStep(c)
    BY <1>5
  <2>1. c.ev \in 1..stored
    BY <1>n DEF Known, Typed, Call, Events
  <2>2. \A x \in calls' \cup letters' \cup redo' : x.ev <= stored
    BY <2>1, CallEffect DEF CallFrame, Left, GoesOn, SameCall, Known
  <2>3. \A s \in Subscriber : handled'[s] \subseteq 1..stored
    BY <2>1, CallEffect DEF Known
  <2>4. stored' = stored
    BY CallEffect DEF CallFrame
  <2> QED
    BY <2>2, <2>3, <2>4 DEF Known
<1>6. CASE Append
  <2>1. \A x \in calls \cup letters \cup redo : x.ev \in Nat
    BY DEF Typed, Call, Letter, Events
  <2> QED
    BY <1>6, <1>n, <2>1 DEF Append, Known
<1>7. CASE Checkpoint
  BY <1>7 DEF Checkpoint, Known
<1>8. CASE LoadDeadLetters
  BY <1>8 DEF LoadDeadLetters, RetryFrame, Known
<1>9. CASE \E l \in redo : Republish(l)
  <2> PICK l \in redo : Republish(l)
    BY <1>9
  <2>1. CASE UNCHANGED calls
    BY <2>1 DEF Republish, RetryFrame, Known
  <2>2. CASE /\ Trouble
             /\ calls' = calls \cup {NewCall(s, l.ev, republished + 1) :
                                        s \in Subscriber}
    <3>1. /\ l.ev \in Events /\ l.ev <= stored
          /\ republished + 1 \in 0..MaxTrouble
      BY <2>2, DeliveryAssumption DEF Typed, Letter, Trouble, Known
    <3>2. \A x \in calls' : x.ev <= stored
      BY <2>2, <3>1, NewCalls DEF Known
    <3> QED
      BY <3>2 DEF Republish, RetryFrame, Known
  <2> QED
    BY <2>1, <2>2 DEF Republish
<1>10. CASE \E l \in redone : DeleteDeadLetter(l)
  BY <1>10 DEF DeleteDeadLetter, RetryFrame, Known
<1>11. CASE Close
  BY <1>11 DEF Close, Known
<1>12. CASE Crash
  BY <1>12 DEF Crash, Fresh, Known
<1>13. CASE UNCHANGED vars
  BY <1>13 DEF vars, Known
<1> QED
  BY <1>1, <1>2, <1>3, <1>4, <1>5, <1>6, <1>7, <1>8, <1>9, <1>10, <1>11, <1>12,
     <1>13 DEF Next, Progress

-----------------------------------------------------------------------------
(* Delivery does not become reliable again *)

LEMMA NoBetter ==
    ASSUME Typed, OneAtATime, [Next]_vars
    PROVE  /\ Reliable' => Reliable
           /\ UNCHANGED choice
<1> USE DEF choice, durable, polling, retrying, counters
<1>1. UNCHANGED choice
  BY DEF Next, Progress, CallStep, Publish, pollOnce, Advance, dispatchEvent,
         Skip, Mark, Succeed, Fail, recordDeadLetter, CallFrame, Append,
         Checkpoint, LoadDeadLetters, Republish, DeleteDeadLetter, RetryFrame,
         Close, Crash, vars
<1>2. faults' \in {faults, faults + 1}
  BY DEF Next, Progress, CallStep, Publish, pollOnce, Advance, dispatchEvent,
         Skip, Mark, Succeed, Fail, recordDeadLetter, CallFrame, Append,
         Checkpoint, LoadDeadLetters, Republish, DeleteDeadLetter, RetryFrame,
         Close, Crash, vars
<1>3. crashes' \in {crashes, crashes + 1}
  BY DEF Next, Progress, CallStep, Publish, pollOnce, Advance, dispatchEvent,
         Skip, Mark, Succeed, Fail, recordDeadLetter, CallFrame, Append,
         Checkpoint, LoadDeadLetters, Republish, DeleteDeadLetter, RetryFrame,
         Close, Crash, vars
<1>4. republished' \in {republished, republished + 1}
  BY DEF Next, Progress, CallStep, Publish, pollOnce, Advance, dispatchEvent,
         Skip, Mark, Succeed, Fail, recordDeadLetter, CallFrame, Append,
         Checkpoint, LoadDeadLetters, Republish, DeleteDeadLetter, RetryFrame,
         Close, Crash, vars
<1>5. cut => cut'
  BY DEF Next, Progress, CallStep, Publish, pollOnce, Advance, dispatchEvent,
         Skip, Mark, Succeed, Fail, recordDeadLetter, CallFrame, Append,
         Checkpoint, LoadDeadLetters, Republish, DeleteDeadLetter, RetryFrame,
         Close, Crash, vars
<1>6. /\ faults' = 0 => faults = 0
      /\ crashes' = 0 => crashes = 0
      /\ republished' = 0 => republished = 0
  BY <1>2, <1>3, <1>4 DEF Typed
<1> QED
  BY <1>1, <1>5, <1>6 DEF Reliable

-----------------------------------------------------------------------------
(* Letters that are published again *)

LEMMA RepublicationsInit == ASSUME Init PROVE Republications
BY DEF Init, Republications

\* Where nothing is lost and nothing is published again, that what takes the
\* place of a letter remains.
LEMMA RepublicationsKept ==
    ASSUME Republications, Reliable' => Reliable,
           UNCHANGED <<republished, redone>>,
           \A x \in calls' \cup letters' \cup redo' : x.pub <= republished,
           Reliable' => \A l \in redone : Replaced(l) => Replaced(l)'
    PROVE  Republications'
BY DEF Republications

LEMMA RepublicationsStep ==
    ASSUME Typed, OneAtATime, Republications, [Next]_vars
    PROVE  Republications'
<1> USE DEF choice, durable, polling, retrying, counters
<1>r. Reliable' => Reliable
  BY NoBetter
<1>n. republished \in 0..MaxTrouble /\ 0 \in 0..MaxTrouble
  BY DeliveryAssumption DEF Typed
<1>1. CASE \E e \in Events : Publish(e)
  <2> PICK e \in Events : Publish(e)
    BY <1>1
  <2>1. \A x \in calls' : x.pub <= republished
    BY <1>n, NewCalls DEF Publish, Republications
  <2>2. \A l \in redone : Replaced(l) => Replaced(l)'
    BY DEF Publish, Replaced
  <2> QED
    BY <1>r, <2>1, <2>2, RepublicationsKept DEF Publish, Republications
<1>2. CASE pollOnce
  BY <1>2, <1>r DEF pollOnce, Republications, Replaced
<1>3. CASE Advance
  BY <1>3, <1>r DEF Advance, Republications, Replaced
<1>4. CASE \E s \in Subscriber : dispatchEvent(s)
  <2> PICK s \in Subscriber : dispatchEvent(s)
    BY <1>4
  <2>1. position + 1 \in Events
    BY DeliveryAssumption DEF dispatchEvent, Typed, Events
  <2>2. \A x \in calls' : x.pub <= republished
    BY <1>n, <2>1, NewCalls DEF dispatchEvent
  <2>3. \A l \in redone : Replaced(l) => Replaced(l)'
    BY DEF dispatchEvent, Replaced
  <2> QED
    BY <1>r, <2>2, <2>3, RepublicationsKept DEF dispatchEvent, Republications
<1>5. CASE \E c \in calls : CallStep(c)
  <2> PICK c \in calls : CallStep(c)
    BY <1>5
  <2>0. c.pub <= republished
    BY DEF Republications
  <2>1. \A x \in calls' \cup letters' \cup redo' : x.pub <= republished
    BY <2>0, CallEffect DEF CallFrame, Left, GoesOn, SameCall, Republications
  <2>2. ASSUME NEW l \in redone, Reliable', Replaced(l)
        PROVE  Replaced(l)'
    <3>0. l.sub \in Subscriber
      BY DEF Typed, Letter
    <3>1. CASE l.ev \in handled[l.sub]
      BY <3>0, <3>1, CallEffect DEF Replaced
    <3>2. CASE \E x \in (calls \ {c}) \cup letters :
                  x.sub = l.sub /\ x.ev = l.ev /\ x.pub = republished
      BY <3>2, CallEffect DEF Replaced, Left, GoesOn, CallFrame
    <3>3. CASE c.sub = l.sub /\ c.ev = l.ev /\ c.pub = republished
      BY <2>2, <3>3, CallEffect DEF Replaced, Left, GoesOn, SameCall, CallFrame
    <3> QED
      BY <2>2, <3>1, <3>2, <3>3 DEF Replaced
  <2>3. UNCHANGED <<republished, redone>>
    BY CallEffect DEF CallFrame
  <2> QED
    BY <1>r, <2>1, <2>2, <2>3, RepublicationsKept
<1>6. CASE Append
  BY <1>6, <1>r DEF Append, Republications, Replaced
<1>7. CASE Checkpoint
  BY <1>7, <1>r DEF Checkpoint, Republications, Replaced
<1>8. CASE LoadDeadLetters
  BY <1>8, <1>r DEF LoadDeadLetters, RetryFrame, Republications, Replaced
<1>9. CASE \E l \in redo : Republish(l)
  <2> PICK l \in redo : Republish(l)
    BY <1>9
  <2>1. CASE UNCHANGED <<republished, redone, calls>>
    BY <1>r, <2>1 DEF Republish, RetryFrame, Republications, Replaced
  <2>2. CASE /\ Trouble /\ republished' = republished + 1 /\ redone' = {l}
             /\ calls' = IF bus = "channel"
                         THEN calls \cup {NewCall(s, l.ev, republished + 1) :
                                             s \in Subscriber}
                         ELSE calls
    <3>1. /\ l.ev \in Events /\ l.sub \in Subscriber
          /\ republished + 1 \in 0..MaxTrouble
      BY <2>2, DeliveryAssumption DEF Typed, Letter, Trouble
    <3>2. l.pub <= republished /\ l.pub \in Nat
      BY DEF Republications, Typed, Letter
    <3>3. \A x \in calls \cup letters \cup redo : x.pub <= republished + 1
      <4>1. \A x \in calls \cup letters \cup redo : x.pub \in Nat
        BY DEF Typed, Letter, Call
      <4> QED
        BY <1>n, <4>1 DEF Republications
    <3>4. \A x \in calls' : x.pub <= republished + 1
      BY <2>2, <3>1, <3>3, NewCalls
    <3>5. bus = "channel" => Replaced(l)'
      <4> DEFINE n == NewCall(l.sub, l.ev, republished + 1)
      <4>1. n.sub = l.sub /\ n.ev = l.ev /\ n.pub = republished + 1
        BY <3>1, NewCalls
      <4>2. bus = "channel" => n \in calls'
        BY <2>2, <3>1
      <4> HIDE DEF n
      <4> QED
        BY <2>2, <4>1, <4>2 DEF Replaced
    <3>6. bus # "channel" => ~Reliable'
      BY <1>n, <2>2 DEF Republish, RetryFrame, Reliable, Typed
    <3> QED
      BY <1>n, <2>2, <3>2, <3>3, <3>4, <3>5, <3>6
         DEF Republish, RetryFrame, Republications
  <2> QED
    BY <2>1, <2>2 DEF Republish
<1>10. CASE \E l \in redone : DeleteDeadLetter(l)
  BY <1>10 DEF DeleteDeadLetter, RetryFrame, Republications
<1>11. CASE Close
  BY <1>11, <1>r DEF Close, Republications, Replaced
<1>12. CASE Crash
  BY <1>12 DEF Crash, Fresh, Republications
<1>13. CASE UNCHANGED vars
  BY <1>13, <1>r DEF vars, Republications, Replaced
<1> QED
  BY <1>1, <1>2, <1>3, <1>4, <1>5, <1>6, <1>7, <1>8, <1>9, <1>10, <1>11, <1>12,
     <1>13 DEF Next, Progress

-----------------------------------------------------------------------------
(* Nothing is lost, and the outbox keeps the order *)

\* The three parts of what is promised to subscribers.
Delivery == NothingLost /\ Passed /\ InOrder

LEMMA DeliveryInit == ASSUME Init PROVE Delivery
BY DEF Init, Delivery, NothingLost, Passed, InOrder, Settled

\* A step that settles nothing new with anyone and forgets nothing, neither
\* what is settled nor a call.
LEMMA DeliveryKept ==
    ASSUME Typed, Delivery, Reliable' => Reliable,
           UNCHANGED <<bus, position>>, stored' \in {stored, stored + 1},
           \A s \in Subscriber, e \in 1..stored' : Settled(s, e)' <=> Settled(s, e),
           \A s \in Subscriber, e \in 1..stored : Called(s, e) => Called(s, e)',
           \A s \in Subscriber, e \in 1..stored' :
              Ahead(s, e) \/ e = stored + 1 => (Ahead(s, e) \/ Called(s, e))',
           bus = "outbox" => \A s \in Subscriber : ~Settled(s, stored + 1)
    PROVE  Delivery'
<1>1. stored \in Nat /\ position \in Nat /\ position <= stored
  BY DEF Typed
<1>2. 1..stored \subseteq 1..stored' /\ \A e \in 1..stored' : e \in 1..stored \/ e = stored + 1
  BY <1>1
<1>3. NothingLost'
  BY <1>1, <1>2 DEF Delivery, NothingLost
<1>4. Passed'
  BY <1>1, <1>2 DEF Delivery, Passed
<1>5. InOrder'
  BY <1>1, <1>2 DEF Delivery, InOrder
<1> QED
  BY <1>3, <1>4, <1>5 DEF Delivery
LEMMA DeliveryStep ==
    ASSUME IInv, [Next]_vars
    PROVE  Delivery'
<1> USE DEF choice, durable, polling, retrying, counters
<1>i. Typed /\ OneAtATime /\ Known /\ Republications /\ Delivery
  BY DEF IInv, Delivery
<1>r. (Reliable' => Reliable) /\ UNCHANGED choice
  BY <1>i, NoBetter
<1>n. /\ stored \in Nat /\ position \in Nat /\ position <= stored
      /\ upto \in Nat /\ position <= upto /\ upto <= stored
      /\ bus \in {"channel", "outbox"} /\ chain \in {"retry", "dedup"}
  BY <1>i DEF Typed
<1>s. \A s \in Subscriber : ~Settled(s, stored + 1)
  BY <1>i, <1>n DEF Known, Settled
<1>1. CASE \E e \in Events : Publish(e)
  <2> PICK e \in Events : Publish(e)
    BY <1>1
  <2>1. \A s \in Subscriber : Called(s, e)'
    <3> TAKE s \in Subscriber
    <3> DEFINE n == NewCall(s, e, 0)
    <3>1. n.sub = s /\ n.ev = e
      BY <1>i, NewCalls, DeliveryAssumption
    <3>2. n \in calls'
      BY DEF Publish
    <3> HIDE DEF n
    <3> QED
      BY <3>1, <3>2 DEF Called
  <2>2. /\ UNCHANGED <<stored, position, bus, letters, handled, upto, left>>
        /\ calls \subseteq calls' /\ unpublished' = unpublished \ {e}
    BY DEF Publish
  <2>3. \A s \in Subscriber, f \in 1..stored' :
            /\ Settled(s, f)' <=> Settled(s, f)
            /\ Called(s, f) => Called(s, f)'
            /\ Ahead(s, f) => (Ahead(s, f) \/ Called(s, f))'
    BY <2>1, <2>2 DEF Settled, Called, Ahead
  <2>4. stored + 1 \notin 1..stored'
    BY <1>n, <2>2
  <2> QED
    BY <1>i, <1>n, <1>r, <1>s, <2>2, <2>3, <2>4, DeliveryKept
<1>2. CASE pollOnce
  <2>1. /\ UNCHANGED <<stored, position, bus, letters, handled, calls, unpublished>>
        /\ position = upto /\ left' = Subscriber
    BY <1>2 DEF pollOnce
  <2>2. \A s \in Subscriber, f \in 1..stored' :
            /\ Settled(s, f)' <=> Settled(s, f)
            /\ Called(s, f) => Called(s, f)'
            /\ Ahead(s, f) => Ahead(s, f)'
    BY <2>1 DEF Settled, Called, Ahead
  <2>3. stored + 1 \notin 1..stored'
    BY <1>n, <2>1
  <2> QED
    BY <1>i, <1>n, <1>r, <1>s, <2>1, <2>2, <2>3, DeliveryKept
<1>3. CASE Advance
  <2>1. /\ UNCHANGED <<stored, bus, letters, handled, calls, unpublished, upto>>
        /\ position' = position + 1 /\ position < upto /\ left = {} /\ calls = {}
        /\ left' = IF position' < upto THEN Subscriber ELSE {}
        /\ bus = "outbox" /\ unpublished = {}
    BY <1>3, <1>i DEF Advance, OneAtATime
  <2>2. \A s \in Subscriber, f \in 1..stored : Settled(s, f)' <=> Settled(s, f)
    BY <2>1 DEF Settled
  <2>3. ASSUME Reliable', NEW s \in Subscriber, NEW f \in 1..position'
        PROVE  Settled(s, f)
    <3>1. CASE f \in 1..position
      BY <1>i, <1>r, <2>1, <2>3, <3>1 DEF Delivery, Passed
    <3>2. CASE f = position + 1
      <4>1. ~Called(s, f) /\ ~Ahead(s, f) /\ f \in 1..stored
        BY <1>n, <2>1, <3>2 DEF Called, Ahead
      <4> QED
        BY <1>i, <1>r, <2>3, <4>1 DEF Delivery, NothingLost
    <3> QED
      BY <1>n, <2>1, <3>1, <3>2
  <2>4. 1..position' \subseteq 1..stored
    BY <1>n, <2>1
  <2>5. Passed'
    BY <2>2, <2>3, <2>4 DEF Passed
  <2>6. NothingLost'
    <3> SUFFICES ASSUME Reliable', NEW s \in Subscriber, NEW f \in 1..stored'
                 PROVE  Settled(s, f)' \/ Ahead(s, f)'
      BY DEF NothingLost
    <3>1. CASE f \in 1..position'
      BY <2>2, <2>3, <2>4, <3>1
    <3>2. CASE f > position'
      BY <1>n, <2>1, <3>2 DEF Ahead
    <3> QED
      BY <1>n, <2>1, <3>1, <3>2
  <2>7. InOrder'
    <3> SUFFICES ASSUME Reliable', NEW s \in Subscriber, NEW e \in 1..stored',
                        Settled(s, e)', NEW f \in 1..e
                 PROVE  Settled(s, f)'
      BY DEF InOrder
    <3>1. f \in 1..stored /\ e \in 1..stored
      BY <1>n, <2>1
    <3> QED
      BY <1>i, <1>r, <2>1, <2>2, <3>1 DEF Delivery, InOrder
  <2> QED
    BY <2>5, <2>6, <2>7 DEF Delivery
<1>4. CASE \E s \in Subscriber : dispatchEvent(s)
  <2> PICK t \in Subscriber : dispatchEvent(t)
    BY <1>4
  <2> DEFINE n == NewCall(t, position + 1, 0)
  <2>1. /\ UNCHANGED <<stored, position, bus, letters, handled, unpublished, upto>>
        /\ calls = {} /\ calls' = {n} /\ left' = left \ {t}
    BY DEF dispatchEvent
  <2>2. n.sub = t /\ n.ev = position + 1
    <3>1. position + 1 \in Events
      BY <1>i, DeliveryAssumption DEF dispatchEvent, Typed, Events
    <3> QED
      BY <1>i, <3>1, NewCalls, DeliveryAssumption
  <2> HIDE DEF n
  <2>3. \A s \in Subscriber, f \in 1..stored' :
            /\ Settled(s, f)' <=> Settled(s, f)
            /\ Called(s, f) => Called(s, f)'
            /\ Ahead(s, f) => (Ahead(s, f) \/ Called(s, f))'
    BY <2>1, <2>2 DEF Settled, Called, Ahead
  <2>4. stored + 1 \notin 1..stored'
    BY <1>n, <2>1
  <2> QED
    BY <1>i, <1>n, <1>r, <1>s, <2>1, <2>3, <2>4, DeliveryKept
<1>5. CASE \E c \in calls : CallStep(c)
  <2> PICK c \in calls : CallStep(c)
    BY <1>5
  <2>1. /\ UNCHANGED <<stored, bus, position, upto, left, unpublished>>
        /\ letters \subseteq letters'
        /\ \A s \in Subscriber : handled[s] \subseteq handled'[s]
        /\ Left(c) \/ GoesOn(c)
    BY <1>i, CallEffect DEF CallFrame
  <2>2. \A s \in Subscriber, f \in 1..stored : Settled(s, f) => Settled(s, f)'
    BY <2>1 DEF Settled
  <2>3. \A s \in Subscriber, f \in 1..stored : Ahead(s, f) => Ahead(s, f)'
    BY <2>1 DEF Ahead
  <2>4. ASSUME Reliable', NEW s \in Subscriber, NEW f \in 1..stored, Called(s, f)
        PROVE  Called(s, f)' \/ Settled(s, f)'
    <3>1. CASE \E d \in calls \ {c} : d.sub = s /\ d.ev = f
      BY <2>1, <3>1 DEF Left, GoesOn, Called
    <3>2. CASE c.sub = s /\ c.ev = f
      BY <2>1, <2>4, <3>2 DEF Left, GoesOn, SameCall, Called, Settled
    <3> QED
      BY <2>4, <3>1, <3>2 DEF Called
  <2>5. NothingLost'
    BY <1>i, <1>r, <2>1, <2>2, <2>3, <2>4 DEF Delivery, NothingLost
  <2>6. Passed'
    <3>1. 1..position \subseteq 1..stored
      BY <1>n
    <3> QED
      BY <1>i, <1>r, <2>1, <2>2, <3>1 DEF Delivery, Passed
  <2>7. InOrder'
    <3> SUFFICES ASSUME Reliable', bus = "outbox", NEW s \in Subscriber,
                        NEW e \in 1..stored, Settled(s, e)', NEW f \in 1..e
                 PROVE  Settled(s, f)'
      BY <2>1 DEF InOrder
    <3>1. f \in 1..stored
      BY <1>n
    <3>2. CASE Settled(s, e)
      BY <1>i, <1>r, <2>2, <3>1, <3>2 DEF Delivery, InOrder
    <3>3. CASE ~Settled(s, e)
      <4>1. s = c.sub /\ e = c.ev
        BY <1>i, <3>3, CallEffect DEF Settled
      <4>2. e = position + 1
        BY <1>i, <4>1 DEF OneAtATime
      <4>3. f = e \/ f \in 1..position
        BY <1>n, <4>2
      <4> QED
        BY <1>i, <1>r, <2>2, <3>1, <4>3 DEF Delivery, Passed
    <3> QED
      BY <3>2, <3>3
  <2> QED
    BY <2>5, <2>6, <2>7 DEF Delivery
<1>6. CASE Append
  <2>1. /\ UNCHANGED <<bus, position, upto, left, letters, handled, calls>>
        /\ stored' = stored + 1
        /\ unpublished' =
              IF bus = "channel" THEN unpublished \cup {stored + 1} ELSE {}
        /\ bus = "outbox" => unpublished = {}
    BY <1>6, <1>i DEF Append, OneAtATime
  <2>2. \A s \in Subscriber, f \in 1..stored' :
            /\ Settled(s, f)' <=> Settled(s, f)
            /\ Called(s, f) => Called(s, f)'
    BY <2>1 DEF Settled, Called
  <2>3. \A s \in Subscriber, f \in 1..stored' :
            Ahead(s, f) \/ f = stored + 1 => Ahead(s, f)'
    BY <1>n, <2>1 DEF Ahead
  <2>4. 1..stored \subseteq 1..stored'
    BY <1>n, <2>1
  <2> QED
    BY <1>i, <1>n, <1>r, <1>s, <2>1, <2>2, <2>3, <2>4, DeliveryKept
<1>7. CASE UNCHANGED <<stored, bus, position, upto, left, unpublished, letters,
                       handled>> /\ calls \subseteq calls'
  <2>1. \A s \in Subscriber, f \in 1..stored' :
            /\ Settled(s, f)' <=> Settled(s, f)
            /\ Called(s, f) => Called(s, f)'
            /\ Ahead(s, f) => Ahead(s, f)'
    BY <1>7 DEF Settled, Called, Ahead
  <2>2. stored + 1 \notin 1..stored'
    BY <1>n, <1>7
  <2> QED
    BY <1>i, <1>n, <1>r, <1>s, <1>7, <2>1, <2>2, DeliveryKept
<1>8. CASE \E l \in redone : DeleteDeadLetter(l)
  <2> PICK l \in redone : DeleteDeadLetter(l)
    BY <1>8
  <2>1. /\ UNCHANGED <<stored, bus, position, upto, left, unpublished, handled, calls>>
        /\ letters \ {l} \subseteq letters' /\ republished' = republished
    BY DEF DeleteDeadLetter, RetryFrame
  <2>2. /\ l.pub \in Nat /\ l.pub < republished /\ l.sub \in Subscriber
        /\ republished \in Nat
    BY <1>i DEF Republications, Typed, Letter
  <2>3. Reliable' => bus # "outbox"
    BY <2>1, <2>2 DEF Reliable
  <2>4. ASSUME Reliable', NEW s \in Subscriber, NEW f \in 1..stored,
               Settled(s, f) \/ Called(s, f)
        PROVE  Settled(s, f)' \/ Called(s, f)'
    <3>1. CASE \/ f \in handled[s] \/ Called(s, f)
               \/ \E x \in letters \ {l} : x.sub = s /\ x.ev = f
      BY <2>1, <3>1 DEF Settled, Called
    <3>2. CASE l.sub = s /\ l.ev = f
      <4>1. Replaced(l)
        BY <1>i, <1>r, <2>4 DEF Republications
      <4> QED
        BY <2>1, <2>2, <3>2, <4>1 DEF Replaced, Settled, Called
    <3> QED
      BY <2>4, <3>1, <3>2 DEF Settled
  <2>5. \A s \in Subscriber, f \in 1..stored : Ahead(s, f) => Ahead(s, f)'
    BY <2>1 DEF Ahead
  <2>6. NothingLost'
    BY <1>i, <1>r, <2>1, <2>4, <2>5 DEF Delivery, NothingLost
  <2> QED
    BY <2>1, <2>3, <2>6 DEF Delivery, Passed, InOrder
<1>9. CASE Crash
  <2>1. /\ UNCHANGED <<stored, bus, letters, handled>>
        /\ position' = checkpoint /\ upto' = checkpoint
        /\ crashes' = crashes + 1
    BY <1>9 DEF Crash, Fresh
  <2>2. checkpoint \in Nat /\ checkpoint <= position /\ crashes' # 0
    BY <1>i, <2>1 DEF Typed
  <2>3. Reliable' => bus = "outbox"
    BY <1>n, <2>1, <2>2 DEF Reliable
  <2>4. \A s \in Subscriber, f \in 1..stored : Settled(s, f)' <=> Settled(s, f)
    BY <2>1 DEF Settled
  <2>5. 1..position' \subseteq 1..position /\ 1..position \subseteq 1..stored
    BY <1>n, <2>1, <2>2
  <2>6. Passed'
    BY <1>i, <1>r, <2>3, <2>4, <2>5 DEF Delivery, Passed
  <2>7. NothingLost'
    <3> SUFFICES ASSUME Reliable', NEW s \in Subscriber, NEW f \in 1..stored'
                 PROVE  Settled(s, f)' \/ Ahead(s, f)'
      BY DEF NothingLost
    <3>1. CASE f \in 1..position'
      BY <2>1, <2>3, <2>6, <3>1 DEF Passed
    <3>2. CASE f > position'
      BY <2>1, <2>2, <2>3, <3>2 DEF Ahead
    <3> QED
      BY <1>n, <2>1, <2>2, <3>1, <3>2
  <2>8. InOrder'
    <3> SUFFICES ASSUME Reliable', NEW s \in Subscriber, NEW e \in 1..stored',
                        Settled(s, e)', NEW f \in 1..e
                 PROVE  Settled(s, f)'
      BY DEF InOrder
    <3>1. f \in 1..stored /\ e \in 1..stored
      BY <1>n, <2>1
    <3> QED
      BY <1>i, <1>r, <2>1, <2>3, <2>4, <3>1 DEF Delivery, InOrder
  <2> QED
    BY <2>6, <2>7, <2>8 DEF Delivery
<1> QED
  BY <1>1, <1>2, <1>3, <1>4, <1>5, <1>6, <1>7, <1>8, <1>9
     DEF Next, Progress, Checkpoint, LoadDeadLetters, Republish, RetryFrame,
         Close, vars

-----------------------------------------------------------------------------
(* The theorems *)

\* The invariant, in every state of a behaviour.
THEOREM Inductive == Spec => []IInv
<1>1. Init => IInv
  BY TypedInit, OneAtATimeInit, KnownInit, RepublicationsInit, DeliveryInit
     DEF IInv, Delivery
<1>2. IInv /\ [Next]_vars => IInv'
  <2> SUFFICES ASSUME IInv, [Next]_vars PROVE IInv'
    OBVIOUS
  <2> QED
    BY TypedStep, OneAtATimeStep, KnownStep, RepublicationsStep, DeliveryStep
       DEF IInv, Delivery
<1> QED
  BY <1>1, <1>2, PTL DEF Spec

\* The state is of its types; the kept position is behind the outbox's, and
\* the outbox has one call in progress at most (outbox.go, dispatchEvent).
THEOREM TypeCorrect == Spec => []TypeOK
<1>1. ASSUME IInv PROVE TypeOK
  <2>1. bus = "outbox" => Cardinality(calls) <= 1
    <3> SUFFICES ASSUME bus = "outbox" PROVE Cardinality(calls) <= 1
      OBVIOUS
    <3>1. CASE calls = {}
      BY <3>1, FS_EmptySet
    <3>2. CASE \E c : calls = {c}
      BY <3>2, FS_Singleton
    <3>3. calls = {} \/ \E c : calls = {c}
      <4>1. \A c, d \in calls : c = d
        BY <1>1 DEF IInv, OneAtATime
      <4>2. ASSUME NEW c \in calls PROVE calls = {c}
        BY <4>1
      <4> QED
        BY <4>2
    <3> QED
      BY <3>1, <3>2, <3>3
  <2> QED
    BY <1>1, <2>1 DEF IInv, Typed, TypeOK
<1> QED
  BY <1>1, Inductive, PTL

\* At-least-once delivery, where the bus, the middleware and the faults allow
\* it: no stored event is lost for any subscriber.
THEOREM AtLeastOnce == Spec => []NothingLost
<1>1. IInv => NothingLost
  BY DEF IInv
<1> QED
  BY <1>1, Inductive, PTL

\* The outbox delivers to each subscriber in the order of the log.
THEOREM OrderKept == Spec => []InOrder
<1>1. IInv => InOrder
  BY DEF IInv
<1> QED
  BY <1>1, Inductive, PTL
=============================================================================
