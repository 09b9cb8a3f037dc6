---------------------- MODULE NotificationBrokerProofs ----------------------
(***************************************************************************)
(* Proofs about HandlerStream and NotificationBroker, for any dispatches,  *)
(* any number of streams that connect, break and displace one another, and *)
(* any capacity of their channels: the last stream to register keeps the   *)
(* name until its own end, a call waits on the list of one stream only,    *)
(* and a notice goes only to a stream that asked for it.                   *)
(***************************************************************************)
EXTENDS NotificationBroker, TLAPS

-----------------------------------------------------------------------------
(* What holds of every state of the streams *)

\* Where the goroutines and the registration are.
Places ==
    /\ server \in [Session -> Phase]
    /\ client \in [Session -> {"none", "reading", "gone"} \cup Dispatch]
    /\ streams \in Session \cup {NoSession}
    /\ panicked \in BOOLEAN
    /\ breaks \in 0..MaxBreaks /\ last \in Session \cup {NoSession}

\* What is on the way to the clients.
Queues ==
    /\ sendCh \in [Session -> Seq(Message)]
    /\ \A s \in Session : Len(sendCh[s]) <= SendCap
    /\ wire \in [Session -> Seq(Message)]

\* A call is on the list of the session it looked up, and on none once its
\* result channel is closed.
Lists ==
    /\ results \in [Session -> SUBSET Dispatch]
    /\ at \in [Dispatch -> {"idle", "found", "joined", "sent", "returned"}]
    /\ via \in [Dispatch -> Session \cup {NoSession}]
    /\ answers \subseteq Session \X Dispatch
    /\ shut \subseteq Dispatch /\ late \subseteq Dispatch
    /\ \A s \in Session : \A d \in results[s] :
            via[d] = s /\ at[d] \in {"joined", "sent"} /\ d \notin shut
    /\ \A d \in Dispatch :
            at[d] \in {"found", "joined", "sent"} => via[d] # NoSession
    /\ \A d \in shut : at[d] \in {"joined", "sent", "returned"}

StreamInv == Places /\ Queues /\ Lists /\ RegistrationKept

-----------------------------------------------------------------------------
(* What holds of every state of the watches *)

\* The types of the watches.
Watches ==
    /\ asking \in [Session -> {"no", "read", "added", "done", "withdrawn"}]
    /\ watch \in Session \cup {NoSession}
    /\ broker \in {"none", "spawned", "collected", "done"}
    /\ target \in Session \cup {NoSession}
    /\ projected \in BOOLEAN
    /\ told \cup excused \subseteq Session

\* A watch is asked for over a stream that is served, and who is watching, or
\* was when the broker looked, has asked.
Asked(s) == asking[s] \notin {"no", "read"}

Asking ==
    /\ \A s \in Session : server[s] \in {"none", "open", "added"} => asking[s] = "no"
    /\ watch # NoSession => Asked(watch)
    /\ target # NoSession => Asked(target) /\ broker # "none"
    /\ projected => broker # "none"

Holds(q, m) == \E i \in DOMAIN q : q[i] = m

Notices ==
    \A s \in Session : Holds(sendCh[s], "notice") => Asked(s) /\ broker # "none"

WatchInv == StreamInv /\ Watches /\ Asking /\ Notices

-----------------------------------------------------------------------------
(* Queues of messages *)

LEMMA Appended ==
    ASSUME NEW q \in Seq(Message), NEW m \in Message, NEW k
    PROVE  /\ Append(q, m) \in Seq(Message)
           /\ Len(Append(q, m)) = Len(q) + 1
           /\ Holds(Append(q, m), k) => k = m \/ Holds(q, k)
BY DEF Holds

LEMMA Shifted ==
    ASSUME NEW q \in Seq(Message), q # <<>>, NEW k
    PROVE  /\ Tail(q) \in Seq(Message) /\ Head(q) \in Message
           /\ Len(Tail(q)) = Len(q) - 1
           /\ Holds(Tail(q), k) => Holds(q, k)
BY DEF Holds

LEMMA EmptyQueue == <<>> \in Seq(Message) /\ \A k : ~Holds(<<>>, k)
BY DEF Holds

LEMMA Messages == {"displaced", "notice"} \subseteq Message /\ Dispatch \subseteq Message
BY DEF Message

-----------------------------------------------------------------------------
(* Places *)

LEMMA PlacesInit == ASSUME Init PROVE Places /\ RegistrationKept
<1>1. panicked \in BOOLEAN
  BY DEF Init
<1>2. server \in [Session -> Phase] /\ breaks \in 0..MaxBreaks
  BY StreamAssumption DEF Init, Phase
<1> QED
  BY <1>1, <1>2 DEF Init, Places, RegistrationKept

\* A stream moves to a phase that is not its end, and nothing else moves.
LEMMA MovesOn ==
    ASSUME Places, RegistrationKept, NEW s \in Session, NEW p \in Phase,
           server[s] \notin {"gone", "left"},
           Goto(s, p), UNCHANGED <<streams, last>>
    PROVE  server' \in [Session -> Phase] /\ RegistrationKept'
BY DEF Places, RegistrationKept, Goto, NoSession, Session

LEMMA PlacesStep ==
    ASSUME Places, Queues, RegistrationKept, [Next]_vars
    PROVE  Places' /\ RegistrationKept'
<1> USE StreamAssumption DEF calls
<1>p. Phase = {"none", "open", "added", "serving", "broken", "closed", "gone",
               "unacked", "left"}
  BY DEF Phase
<1>1. CASE \E s \in Session : Register(s)
  <2> PICK s \in Session : Register(s)
    BY <1>1
  <2>1. server' \in [Session -> Phase] /\ server'[s] = "added"
    BY <1>p DEF Register, Goto, Places
  <2>2. panicked' \in BOOLEAN
    <3>1. panicked' = panicked \/ panicked' = (streams \in Closed)
      BY DEF Register
    <3>2. (streams \in Closed) \in BOOLEAN
      OBVIOUS
    <3> QED
      BY <3>1, <3>2, Zenon DEF Places
  <2> QED
    BY <2>1, <2>2 DEF Register, Places, RegistrationKept
<1>2. CASE \E s \in Session : Serve(s)
  <2> PICK s \in Session : Serve(s)
    BY <1>2
  <2>1. server' \in [Session -> Phase] /\ RegistrationKept'
    BY <1>p, MovesOn DEF Serve
  <2> QED
    BY <2>1 DEF Serve, Places
<1>3. CASE \E s \in Session : SendLoop(s)
  BY <1>3 DEF SendLoop, Places, RegistrationKept
<1>4. CASE \E s \in Session : CloseSend(s)
  <2> PICK s \in Session : CloseSend(s)
    BY <1>4
  <2>1. server' \in [Session -> Phase] /\ RegistrationKept'
    BY <1>p, MovesOn DEF CloseSend
  <2> QED
    BY <2>1 DEF CloseSend, Places
<1>5. CASE \E s \in Session : Unregister(s)
  <2> PICK s \in Session : Unregister(s)
    BY <1>5
  <2> DEFINE p == IF server[s] = "closed" THEN "gone" ELSE "left"
  <2>1. p \in {"gone", "left"} /\ server' = [server EXCEPT ![s] = p]
    BY DEF Unregister, Goto
  <2> HIDE DEF p
  <2>2. /\ server' \in [Session -> Phase] /\ server'[s] \in {"gone", "left"}
        /\ \A r \in Session \ {s} : server'[r] = server[r]
    BY <1>p, <2>1 DEF Places
  <2>3. /\ UNCHANGED <<client, breaks, last>>
        /\ streams' = IF streams = s THEN NoSession ELSE streams
    BY DEF Unregister
  <2>4. panicked' \in BOOLEAN
    BY DEF Unregister, Places
  <2>5. RegistrationKept'
    BY <2>2, <2>3 DEF RegistrationKept, Places
  <2> QED
    BY <2>2, <2>3, <2>4, <2>5 DEF Places
<1>6. CASE \E s \in Session : Receive(s)
  <2> PICK s \in Session : Receive(s)
    BY <1>6
  <2>1. Head(wire[s]) \in Message
    BY Shifted DEF Receive, Queues
  <2>2. client' \in [Session -> {"none", "reading", "gone"} \cup Dispatch]
    BY <2>1 DEF Receive, Places, Message
  <2> QED
    BY <2>2 DEF Receive, ClientFrame, Places, RegistrationKept
<1>7. CASE \E s \in Session : Answer(s)
  BY <1>7 DEF Answer, ClientFrame, Places, RegistrationKept
<1>8. CASE \E s \in Session, d \in Dispatch : DeliverResult(s, d)
  BY <1>8 DEF DeliverResult, Places, RegistrationKept
<1>9. CASE \E d \in Dispatch : Join(d)
  BY <1>9 DEF Join, CallFrame, Places, RegistrationKept
<1>10. CASE \E d \in Dispatch : Send(d)
  BY <1>10 DEF Send, CallFrame, Places, RegistrationKept
<1>11. CASE \E s \in Session : Open(s)
  <2> PICK s \in Session : Open(s)
    BY <1>11
  <2>1. server' \in [Session -> Phase] /\ RegistrationKept'
    BY <1>p, MovesOn DEF Open
  <2> QED
    BY <2>1 DEF Open, Places
<1>12. CASE \E s \in Session : Break(s)
  <2> PICK s \in Session : Break(s)
    BY <1>12
  <2> DEFINE p == IF server[s] = "serving" THEN "broken" ELSE "unacked"
  <2>1. p \in {"broken", "unacked"} /\ Goto(s, p)
    BY DEF Break
  <2> HIDE DEF p
  <2>2. server' \in [Session -> Phase] /\ RegistrationKept'
    BY <1>p, <2>1, MovesOn DEF Break
  <2>3. breaks' \in 0..MaxBreaks
    BY DEF Break, Places
  <2> QED
    BY <2>2, <2>3 DEF Break, Places
<1>13. CASE \E d \in Dispatch : LookUp(d)
  BY <1>13 DEF LookUp, CallFrame, Places, RegistrationKept
<1>14. CASE \E d \in Dispatch : GiveUp(d)
  BY <1>14 DEF GiveUp, CallFrame, Places, RegistrationKept
<1>15. CASE UNCHANGED vars
  BY <1>15 DEF vars, Places, RegistrationKept
<1> QED
  BY <1>1, <1>2, <1>3, <1>4, <1>5, <1>6, <1>7, <1>8, <1>9, <1>10, <1>11, <1>12,
     <1>13, <1>14, <1>15 DEF Next, Progress, Environment

-----------------------------------------------------------------------------
(* Queues *)

LEMMA QueuesInit == ASSUME Init PROVE Queues
<1>1. Len(<<>>) = 0 /\ SendCap \in Nat
  BY StreamAssumption
<1> QED
  BY <1>1, EmptyQueue DEF Init, Queues

\* One message more, where there is room for it.
Puts(s, m) ==
    Len(sendCh[s]) < SendCap /\ sendCh' = [sendCh EXCEPT ![s] = Append(@, m)]

LEMMA Put ==
    ASSUME Queues, NEW s \in Session, NEW m \in Message, Puts(s, m)
    PROVE  /\ sendCh' \in [Session -> Seq(Message)]
           /\ \A r \in Session : Len(sendCh'[r]) <= SendCap
           /\ \A r \in Session, k \in Message :
                Holds(sendCh'[r], k) => Holds(sendCh[r], k) \/ (r = s /\ k = m)
<1>1. sendCh[s] \in Seq(Message)
  BY DEF Queues
<1>2. /\ Append(sendCh[s], m) \in Seq(Message)
      /\ Len(Append(sendCh[s], m)) = Len(sendCh[s]) + 1
      /\ \A k : Holds(Append(sendCh[s], m), k) => k = m \/ Holds(sendCh[s], k)
  BY <1>1, Appended
<1>3. /\ DOMAIN sendCh = Session /\ DOMAIN sendCh' = Session
      /\ sendCh'[s] = Append(sendCh[s], m)
      /\ \A r \in Session \ {s} : sendCh'[r] = sendCh[r]
  BY DEF Queues, Puts
<1>4. \A r \in Session : sendCh'[r] \in Seq(Message)
  BY <1>2, <1>3 DEF Queues
<1>5. sendCh' \in [Session -> Seq(Message)]
  <2>1. sendCh' = [r \in Session |-> sendCh'[r]]
    BY DEF Queues, Puts
  <2> QED
    BY <1>4, <2>1
<1>6. Len(sendCh[s]) \in Nat /\ SendCap \in Nat
  BY <1>1, StreamAssumption
<1>7. \A r \in Session : Len(sendCh'[r]) <= SendCap
  BY <1>2, <1>3, <1>6 DEF Queues, Puts
<1> QED
  BY <1>2, <1>3, <1>5, <1>7

\* What a step does to the send channels.
SendStep ==
    \/ UNCHANGED sendCh
    \/ \E s \in Session, m \in Dispatch \cup {"displaced"} : Puts(s, m)
    \/ \E s \in Session : /\ sendCh[s] # <<>>
                          /\ sendCh' = [sendCh EXCEPT ![s] = Tail(@)]

LEMMA SendSteps == ASSUME Places, Lists, [Next]_vars PROVE SendStep
<1> USE DEF calls
<1>1. CASE \E s \in Session : Register(s)
  <2> PICK s \in Session : Register(s)
    BY <1>1
  <2>1. UNCHANGED sendCh \/ (streams \in Session /\ Puts(streams, "displaced"))
    BY DEF Register, Places, Puts
  <2> QED
    BY <2>1 DEF SendStep
<1>2. CASE \E d \in Dispatch : Send(d)
  <2> PICK d \in Dispatch : Send(d)
    BY <1>2
  <2>1. CASE UNCHANGED sendCh
    BY <2>1 DEF SendStep
  <2>2. CASE Puts(via[d], d)
    <3>1. via[d] \in Session
      BY DEF Send, Lists
    <3> QED
      BY <2>2, <3>1 DEF SendStep
  <2> QED
    BY <2>1, <2>2 DEF Send, Puts
<1>3. CASE \E s \in Session : SendLoop(s)
  BY <1>3 DEF SendLoop, SendStep
<1>4. CASE UNCHANGED sendCh
  BY <1>4 DEF SendStep
<1> QED
  BY <1>1, <1>2, <1>3, <1>4
     DEF Next, Progress, Environment, Serve, CloseSend, Unregister, Receive,
         Answer, ClientFrame, DeliverResult, Join, CallFrame, Open, Break,
         LookUp, GiveUp, vars

LEMMA SendStepKeeps ==
    ASSUME Queues, SendStep
    PROVE  /\ sendCh' \in [Session -> Seq(Message)]
           /\ \A s \in Session : Len(sendCh'[s]) <= SendCap
           /\ \A s \in Session :
                Holds(sendCh'[s], "notice") => Holds(sendCh[s], "notice")
<1>1. CASE UNCHANGED sendCh
  BY <1>1 DEF Queues
<1>2. CASE \E s \in Session, m \in Dispatch \cup {"displaced"} : Puts(s, m)
  BY <1>2, Put, Messages, StreamAssumption
<1>3. CASE \E s \in Session : /\ sendCh[s] # <<>>
                              /\ sendCh' = [sendCh EXCEPT ![s] = Tail(@)]
  <2> PICK s \in Session : /\ sendCh[s] # <<>>
                           /\ sendCh' = [sendCh EXCEPT ![s] = Tail(@)]
    BY <1>3
  <2>1. sendCh[s] \in Seq(Message)
    BY DEF Queues
  <2>2. /\ Tail(sendCh[s]) \in Seq(Message)
        /\ Len(Tail(sendCh[s])) = Len(sendCh[s]) - 1
        /\ Holds(Tail(sendCh[s]), "notice") => Holds(sendCh[s], "notice")
    BY <2>1, Shifted
  <2>3. /\ sendCh' = [r \in Session |-> sendCh'[r]]
        /\ sendCh'[s] = Tail(sendCh[s])
        /\ \A r \in Session \ {s} : sendCh'[r] = sendCh[r]
    BY DEF Queues
  <2>4. \A r \in Session : sendCh'[r] \in Seq(Message)
    BY <2>2, <2>3 DEF Queues
  <2>5. sendCh' \in [Session -> Seq(Message)]
    BY <2>3, <2>4
  <2>6. Len(sendCh[s]) \in Nat /\ SendCap \in Nat
    BY <2>1, StreamAssumption
  <2>7. \A r \in Session : Len(sendCh'[r]) <= SendCap
    BY <2>2, <2>3, <2>6 DEF Queues
  <2> QED
    BY <2>2, <2>3, <2>5, <2>7
<1> QED
  BY <1>1, <1>2, <1>3 DEF SendStep

LEMMA QueuesStep ==
    ASSUME Places, Queues, Lists, [Next]_vars
    PROVE  Queues'
<1> USE DEF calls
<1>1. wire' \in [Session -> Seq(Message)]
  <2>1. ASSUME NEW s \in Session, NEW q \in Seq(Message),
               wire' = [wire EXCEPT ![s] = q]
        PROVE  wire' \in [Session -> Seq(Message)]
    BY <2>1 DEF Queues
  <2>2. CASE \E s \in Session : SendLoop(s)
    <3> PICK s \in Session : SendLoop(s)
      BY <2>2
    <3>1. sendCh[s] \in Seq(Message) /\ wire[s] \in Seq(Message)
      BY DEF Queues
    <3>2. Append(wire[s], Head(sendCh[s])) \in Seq(Message)
      BY <3>1, Shifted, Appended DEF SendLoop
    <3>3. CASE wire' = wire
      BY <3>3 DEF Queues
    <3>4. CASE wire' = [wire EXCEPT ![s] = Append(@, Head(sendCh[s]))]
      BY <2>1, <3>2, <3>4
    <3> QED
      BY <3>3, <3>4 DEF SendLoop
  <2>3. CASE \E s \in Session : Receive(s)
    <3> PICK s \in Session : Receive(s)
      BY <2>3
    <3>1. wire[s] \in Seq(Message)
      BY DEF Queues
    <3> DEFINE q == IF Head(wire[s]) = "displaced" THEN <<>> ELSE Tail(wire[s])
    <3>2. q \in Seq(Message)
      BY <3>1, Shifted, EmptyQueue DEF Receive
    <3>3. wire' = [wire EXCEPT ![s] = q]
      BY DEF Receive
    <3> HIDE DEF q
    <3> QED
      BY <2>1, <3>2, <3>3
  <2>4. CASE \E s \in Session : Break(s)
    BY <2>1, <2>4, EmptyQueue DEF Break
  <2>5. CASE UNCHANGED wire
    BY <2>5 DEF Queues
  <2> QED
    BY <2>2, <2>3, <2>4, <2>5
       DEF Next, Progress, Environment, Register, Serve, CloseSend, Unregister,
           Answer, ClientFrame, DeliverResult, Join, Send, CallFrame, Open,
           LookUp, GiveUp, vars
<1> QED
  BY <1>1, SendSteps, SendStepKeeps DEF Queues

-----------------------------------------------------------------------------
(* Lists *)

LEMMA ListsInit == ASSUME Init PROVE Lists
BY DEF Init, Lists

\* The calls on the list of a stream that is given up are closed.
LEMMA Unblocked ==
    ASSUME Lists, NEW s \in Session, Unblock(s), UNCHANGED <<via, answers, late>>
    PROVE  Lists'
<1>1. /\ results' \in [Session -> SUBSET Dispatch] /\ results'[s] = {}
      /\ \A r \in Session \ {s} : results'[r] = results[r]
  BY DEF Lists, Unblock
<1>2. /\ at' \in [Dispatch -> {"idle", "found", "joined", "sent", "returned"}]
      /\ \A d \in Dispatch :
            \/ at'[d] = at[d]
            \/ d \in results[s] /\ at[d] = "sent" /\ at'[d] = "returned"
  BY DEF Lists, Unblock
<1>3. shut' = shut \cup results[s] /\ results[s] \subseteq Dispatch
  BY DEF Lists, Unblock
<1>4. ASSUME NEW r \in Session, NEW d \in results'[r]
      PROVE  via'[d] = r /\ at'[d] \in {"joined", "sent"} /\ d \notin shut'
  <2>1. r # s /\ d \in results[r] /\ via[d] = r /\ d \in Dispatch
    BY <1>1, <1>4 DEF Lists
  <2>2. d \notin results[s]
    BY <2>1 DEF Lists
  <2> QED
    BY <1>2, <1>3, <2>1, <2>2 DEF Lists
<1>5. \A d \in Dispatch : at'[d] \in {"found", "joined", "sent"} => via'[d] # NoSession
  BY <1>2 DEF Lists
<1>6. \A d \in shut' : at'[d] \in {"joined", "sent", "returned"}
  BY <1>2, <1>3 DEF Lists
<1> QED
  BY <1>1, <1>2, <1>3, <1>4, <1>5, <1>6 DEF Lists

\* A call leaves the list it is on, if it is on any, and has returned.
LEMMA Taken ==
    ASSUME Lists, NEW d \in Dispatch, NEW r \in Session,
           at[d] \in {"joined", "sent"}, \A s \in Session \ {r} : d \notin results[s],
           at' = [at EXCEPT ![d] = "returned"],
           results' = [results EXCEPT ![r] = @ \ {d}],
           answers' \subseteq answers, UNCHANGED <<via, shut, late>>
    PROVE  Lists'
<1>1. /\ results' \in [Session -> SUBSET Dispatch]
      /\ results'[r] = results[r] \ {d}
      /\ \A s \in Session \ {r} : results'[s] = results[s]
  BY DEF Lists
<1>2. /\ at' \in [Dispatch -> {"idle", "found", "joined", "sent", "returned"}]
      /\ at'[d] = "returned" /\ \A c \in Dispatch \ {d} : at'[c] = at[c]
  BY DEF Lists
<1>3. ASSUME NEW s \in Session, NEW c \in results'[s]
      PROVE  via'[c] = s /\ at'[c] \in {"joined", "sent"} /\ c \notin shut'
  BY <1>1, <1>2, <1>3 DEF Lists
<1>4. \A c \in Dispatch : at'[c] \in {"found", "joined", "sent"} => via'[c] # NoSession
  BY <1>2 DEF Lists
<1>5. \A c \in shut' : at'[c] \in {"joined", "sent", "returned"}
  BY <1>2 DEF Lists
<1> QED
  BY <1>1, <1>2, <1>3, <1>4, <1>5 DEF Lists

LEMMA ListsStep ==
    ASSUME Places, Lists, [Next]_vars
    PROVE  Lists'
<1> USE DEF calls
<1>1. CASE \E s \in Session : Register(s)
  <2> PICK s \in Session : Register(s)
    BY <1>1
  <2>1. CASE streams = NoSession
    BY <2>1 DEF Register, Lists
  <2>2. CASE streams # NoSession
    BY <2>2, Unblocked DEF Register, Places
  <2> QED
    BY <2>1, <2>2
<1>2. CASE \E s \in Session : Unregister(s)
  <2> PICK s \in Session : Unregister(s)
    BY <1>2
  <2>1. CASE streams = s
    BY <2>1, Unblocked DEF Unregister
  <2>2. CASE streams # s
    BY <2>2 DEF Unregister, Lists
  <2> QED
    BY <2>1, <2>2
<1>3. CASE \E s \in Session, d \in Dispatch : DeliverResult(s, d)
  <2> PICK s \in Session, d \in Dispatch : DeliverResult(s, d)
    BY <1>3
  <2>1. CASE streams # NoSession /\ d \in results[streams]
    <3>1. /\ streams \in Session /\ at[d] \in {"joined", "sent"}
          /\ \A r \in Session \ {streams} : d \notin results[r]
      BY <2>1 DEF Places, Lists
    <3> QED
      BY <2>1, <3>1, Taken DEF DeliverResult
  <2>2. CASE ~(streams # NoSession /\ d \in results[streams])
    BY <2>2 DEF DeliverResult, Lists
  <2> QED
    BY <2>1, <2>2
<1>4. CASE \E s \in Session : Answer(s)
  BY <1>4 DEF Answer, ClientFrame, Lists
<1>5. CASE \E s \in Session : Break(s)
  BY <1>5 DEF Break, Lists
<1>6. CASE \E d \in Dispatch : LookUp(d)
  <2> PICK d \in Dispatch : LookUp(d)
    BY <1>6
  <2> DEFINE p == IF streams = NoSession THEN "returned" ELSE "found"
  <2>1. /\ p \in {"returned", "found"} /\ at' = [at EXCEPT ![d] = p]
        /\ p = "found" => streams # NoSession
    BY DEF LookUp
  <2> HIDE DEF p
  <2>2. /\ at' \in [Dispatch -> {"idle", "found", "joined", "sent", "returned"}]
        /\ at[d] = "idle" /\ at'[d] = p
        /\ \A c \in Dispatch \ {d} : at'[c] = at[c]
    BY <2>1 DEF LookUp, Lists
  <2>3. /\ via' \in [Dispatch -> Session \cup {NoSession}] /\ via'[d] = streams
        /\ \A c \in Dispatch \ {d} : via'[c] = via[c]
    BY DEF LookUp, Places, Lists
  <2>4. \A s \in Session : d \notin results[s]
    BY <2>2 DEF Lists
  <2>5. UNCHANGED <<results, answers, shut, late>> /\ d \notin shut
    BY <2>2 DEF LookUp, CallFrame, Lists
  <2>6. \A s \in Session : \A c \in results'[s] :
            via'[c] = s /\ at'[c] \in {"joined", "sent"} /\ c \notin shut'
    BY <2>2, <2>3, <2>4, <2>5 DEF Lists
  <2>7. \A c \in Dispatch : at'[c] \in {"found", "joined", "sent"} => via'[c] # NoSession
    BY <2>1, <2>2, <2>3 DEF Lists
  <2> QED
    BY <2>2, <2>3, <2>5, <2>6, <2>7 DEF Lists
<1>7. CASE \E d \in Dispatch : Join(d)
  <2> PICK d \in Dispatch : Join(d)
    BY <1>7
  <2>1. at[d] = "found" /\ via[d] \in Session /\ d \notin shut
    BY DEF Join, Lists
  <2>2. /\ at' \in [Dispatch -> {"idle", "found", "joined", "sent", "returned"}]
        /\ at'[d] = "joined" /\ \A c \in Dispatch \ {d} : at'[c] = at[c]
    BY DEF Join, Lists
  <2>3. /\ results' \in [Session -> SUBSET Dispatch]
        /\ results'[via[d]] = results[via[d]] \cup {d}
        /\ \A s \in Session \ {via[d]} : results'[s] = results[s]
    BY <2>1 DEF Join, Lists
  <2>4. UNCHANGED <<via, answers, shut>> /\ late' \subseteq Dispatch
    BY DEF Join, CallFrame, Lists
  <2>5. ASSUME NEW s \in Session, NEW c \in results'[s]
        PROVE  via'[c] = s /\ at'[c] \in {"joined", "sent"} /\ c \notin shut'
    <3>1. CASE c = d
      <4>1. d \notin results[s]
        BY <2>1 DEF Lists
      <4> QED
        BY <2>1, <2>2, <2>3, <2>4, <2>5, <3>1, <4>1
    <3>2. CASE c # d
      <4>1. c \in results[s] /\ c \in Dispatch
        BY <2>1, <2>3, <2>5, <3>2
      <4> QED
        BY <2>2, <2>4, <3>2, <4>1 DEF Lists
    <3> QED
      BY <3>1, <3>2
  <2>6. \A c \in Dispatch : at'[c] \in {"found", "joined", "sent"} => via'[c] # NoSession
    BY <2>1, <2>2, <2>4 DEF Lists
  <2>7. \A c \in shut' : at'[c] \in {"joined", "sent", "returned"}
    BY <2>2, <2>4 DEF Lists
  <2> QED
    BY <2>2, <2>3, <2>4, <2>5, <2>6, <2>7 DEF Lists
<1>8. CASE \E d \in Dispatch : Send(d)
  <2> PICK d \in Dispatch : Send(d)
    BY <1>8
  <2>1. UNCHANGED <<results, via, answers, shut, late>> /\ at[d] = "joined"
    BY DEF Send, CallFrame
  <2>2. CASE UNCHANGED at
    BY <2>1, <2>2 DEF Lists
  <2>3. CASE at' = [at EXCEPT ![d] = IF d \in shut THEN "returned" ELSE "sent"]
    <3> DEFINE p == IF d \in shut THEN "returned" ELSE "sent"
    <3>1. p \in {"returned", "sent"} /\ (p = "returned" => d \in shut)
      OBVIOUS
    <3>2. at' = [at EXCEPT ![d] = p]
      BY <2>3
    <3> HIDE DEF p
    <3>3. /\ at' \in [Dispatch -> {"idle", "found", "joined", "sent", "returned"}]
          /\ at'[d] = p /\ \A c \in Dispatch \ {d} : at'[c] = at[c]
      BY <3>1, <3>2 DEF Lists
    <3> QED
      BY <2>1, <3>1, <3>3 DEF Lists
  <2> QED
    BY <2>2, <2>3 DEF Send
<1>9. CASE \E d \in Dispatch : GiveUp(d)
  <2> PICK d \in Dispatch : GiveUp(d)
    BY <1>9
  <2>1. /\ via[d] \in Session /\ at[d] \in {"joined", "sent"}
        /\ \A s \in Session \ {via[d]} : d \notin results[s]
    BY DEF GiveUp, Lists
  <2> PICK r \in Session : r = via[d]
    BY <2>1
  <2> QED
    BY <2>1, Taken DEF GiveUp, CallFrame
<1>10. CASE UNCHANGED <<results, at, via, shut, late, answers>>
  BY <1>10 DEF Lists
<1> QED
  BY <1>1, <1>2, <1>3, <1>4, <1>5, <1>6, <1>7, <1>8, <1>9, <1>10
     DEF Next, Progress, Environment, Serve, SendLoop, CloseSend, Receive,
         ClientFrame, Open, vars

-----------------------------------------------------------------------------
(* The streams without watches *)

LEMMA StreamInit == ASSUME Init PROVE StreamInv
BY PlacesInit, QueuesInit, ListsInit DEF StreamInv

LEMMA StreamStep == ASSUME StreamInv, [Next]_vars PROVE StreamInv'
BY PlacesStep, QueuesStep, ListsStep DEF StreamInv

\* The types of the streams follow.
LEMMA StreamTypes == ASSUME StreamInv PROVE TypeOK
BY DEF StreamInv, Places, Queues, Lists, TypeOK

-----------------------------------------------------------------------------
(* Watches *)

\* No stream goes back to before it is served.
LEMMA Forward ==
    ASSUME Places, [Next]_vars, NEW s \in Session,
           server'[s] \in {"none", "open", "added"}
    PROVE  server[s] \in {"none", "open", "added"}
<1> DEFINE Early == {"none", "open", "added"}
<1>1. ASSUME NEW r \in Session, NEW p, Goto(r, p), p \in Early => server[r] \in Early
      PROVE  server[s] \in Early
  BY <1>1 DEF Goto, Places
<1>2. CASE \E r \in Session : Register(r) \/ Serve(r) \/ CloseSend(r) \/ Open(r)
  BY <1>1, <1>2 DEF Register, Serve, CloseSend, Open
<1>3. CASE \E r \in Session : Unregister(r)
  <2> PICK r \in Session : Unregister(r)
    BY <1>3
  <2> DEFINE p == IF server[r] = "closed" THEN "gone" ELSE "left"
  <2>1. p \notin Early /\ Goto(r, p)
    BY DEF Unregister
  <2> HIDE DEF p
  <2> QED
    BY <1>1, <2>1
<1>4. CASE \E r \in Session : Break(r)
  <2> PICK r \in Session : Break(r)
    BY <1>4
  <2> DEFINE p == IF server[r] = "serving" THEN "broken" ELSE "unacked"
  <2>1. p \notin Early /\ Goto(r, p)
    BY DEF Break
  <2> HIDE DEF p
  <2> QED
    BY <1>1, <2>1
<1>5. CASE UNCHANGED server
  BY <1>5
<1> QED
  BY <1>2, <1>3, <1>4, <1>5
     DEF Next, Progress, Environment, SendLoop, Receive, Answer, ClientFrame,
         DeliverResult, Join, Send, CallFrame, LookUp, GiveUp, vars

LEMMA WatchInvInit == ASSUME WatchInit PROVE WatchInv
<1>1. StreamInv
  BY StreamInit DEF WatchInit
<1>2. Watches /\ Asking
  BY DEF WatchInit, Watches, Asking
<1>3. Notices
  BY EmptyQueue DEF WatchInit, Init, Notices
<1> QED
  BY <1>1, <1>2, <1>3 DEF WatchInv

\* A step of the streams alone leaves the watches as they are.
LEMMA AskingStream ==
    ASSUME WatchInv, [Next]_vars, UNCHANGED <<watching, ending>>
    PROVE  Asking' /\ Notices'
<1>1. Places /\ Queues /\ Lists
  BY DEF WatchInv, StreamInv
<1>2. \A s \in Session : server'[s] \in {"none", "open", "added"} => asking[s] = "no"
  BY <1>1, Forward DEF WatchInv, Asking
<1>3. Asking'
  BY <1>2 DEF WatchInv, Asking, Asked, watching, ending
<1>4. \A s \in Session : Holds(sendCh'[s], "notice") => Holds(sendCh[s], "notice")
  BY <1>1, SendSteps, SendStepKeeps
<1>5. Notices'
  BY <1>4 DEF WatchInv, Notices, Asked, watching, ending
<1> QED
  BY <1>3, <1>5

\* A notice for s keeps the invariant of the streams.
LEMMA Notified ==
    ASSUME StreamInv, NEW s \in Session, Notify(s)
    PROVE  /\ StreamInv' /\ server' = server
           /\ excused' \subseteq excused \cup {s}
           /\ \A r \in Session :
                Holds(sendCh'[r], "notice") => Holds(sendCh[r], "notice") \/ r = s
<1> USE DEF calls
<1>1. Places /\ Queues /\ Lists /\ RegistrationKept
  BY DEF StreamInv
<1>2. panicked' \in BOOLEAN
  <2>1. (s \in Closed) \in BOOLEAN
    OBVIOUS
  <2> QED
    BY <2>1, Zenon DEF Notify
<1>3. Places' /\ Lists' /\ RegistrationKept'
  BY <1>1, <1>2 DEF Notify, Places, Lists, RegistrationKept
<1>4. UNCHANGED sendCh \/ Puts(s, "notice")
  <2>1. Len(sendCh[s]) \in Nat /\ Len(sendCh[s]) <= SendCap /\ SendCap \in Nat
    BY <1>1, StreamAssumption DEF Queues
  <2> QED
    BY <2>1 DEF Notify, Puts
<1>5. CASE UNCHANGED sendCh
  BY <1>1, <1>3, <1>5 DEF Notify, Queues, StreamInv
<1>6. CASE Puts(s, "notice")
  BY <1>1, <1>3, <1>6, Put, Messages DEF Notify, Queues, StreamInv
<1> QED
  BY <1>4, <1>5, <1>6

LEMMA WatchInvStep == ASSUME WatchInv, [WatchNext]_allVars PROVE WatchInv'
<1> USE DEF watching, ending, outcome
<1>i. StreamInv /\ Watches /\ Asking /\ Notices /\ Places
  BY DEF WatchInv, StreamInv
<1>t. ASSUME NEW s \in Session, NEW of, Take(s, of)
      PROVE  watch' = of /\ excused' \subseteq Session
  BY <1>i, <1>t DEF Take, Watches
<1>v. ASSUME UNCHANGED vars
      PROVE  /\ StreamInv' /\ server' = server
             /\ \A s \in Session : Holds(sendCh'[s], "notice") => Holds(sendCh[s], "notice")
  BY <1>i, <1>v, StreamStep DEF vars
<1>a. \A r \in Session, p \in {"read", "added", "done", "withdrawn"} :
        asking' = [asking EXCEPT ![r] = p] =>
           /\ asking' \in [Session -> {"no", "read", "added", "done", "withdrawn"}]
           /\ asking'[r] = p /\ \A s \in Session \ {r} : asking'[s] = asking[s]
  BY <1>i DEF Watches
<1>1. CASE [Next]_vars /\ UNCHANGED <<watching, ending>> /\ told' \cup excused' \subseteq Session
  BY <1>1, <1>i, StreamStep, AskingStream DEF WatchInv, Watches
<1>2. CASE \E s \in Session : Serves(s)
  <2> PICK s \in Session : Serves(s)
    BY <1>2
  <2>1. [Next]_vars /\ server[s] = "added" /\ server' = [server EXCEPT ![s] = "serving"]
    BY DEF Serves, Serve, Goto, Next, Progress
  <2>2. CASE UNCHANGED asking
    BY <1>1, <1>i, <2>1, <2>2 DEF Serves, Watches
  <2>3. CASE asking' = [asking EXCEPT ![s] = "read"]
    <3>1. /\ StreamInv'
          /\ \A r \in Session : Holds(sendCh'[r], "notice") => Holds(sendCh[r], "notice")
      BY <1>i, <2>1, StreamStep, SendSteps, SendStepKeeps DEF StreamInv
    <3>2. UNCHANGED <<watch, ending, outcome>> /\ asking[s] = "no"
      BY <1>i, <2>1 DEF Serves, Asking
    <3>3. Watches'
      BY <1>a, <1>i, <2>3, <3>2 DEF Watches
    <3>4. /\ server'[s] = "serving"
          /\ \A r \in Session \ {s} : server'[r] = server[r]
      BY <1>i, <2>1 DEF Places
    <3>5. Asking'
      BY <1>a, <1>i, <2>3, <3>2, <3>4 DEF Asking, Asked, Watches
    <3>6. Notices'
      BY <1>a, <1>i, <2>3, <3>1, <3>2 DEF Notices, Asked
    <3> QED
      BY <3>1, <3>3, <3>5, <3>6 DEF WatchInv
  <2> QED
    BY <2>2, <2>3 DEF Serves
<1>3. CASE \E s \in Session : Reads(s)
  <2> PICK s \in Session : Reads(s)
    BY <1>3
  <2>1. Next
    BY DEF Reads, Next, Progress
  <2>2. told' \cup excused' \subseteq Session
    BY <1>i DEF Reads, Watches
  <2> QED
    BY <1>1, <2>1, <2>2 DEF Reads
<1>4. CASE \E s \in Session : Leaves(s)
  <2> PICK s \in Session : Leaves(s)
    BY <1>4
  <2>1. Next
    BY DEF Leaves, Next, Progress
  <2>2. /\ UNCHANGED <<asking, ending, told>>
        /\ watch' = NoSession /\ excused' \subseteq Session
    BY <1>t DEF Leaves
  <2>3. /\ StreamInv'
        /\ \A r \in Session : Holds(sendCh'[r], "notice") => Holds(sendCh[r], "notice")
    BY <1>i, <2>1, StreamStep, SendSteps, SendStepKeeps DEF StreamInv
  <2>4. \A r \in Session : server'[r] \in {"none", "open", "added"} => asking[r] = "no"
    BY <1>i, <2>1, Forward DEF Asking
  <2>5. Watches' /\ Asking'
    BY <1>i, <2>2, <2>4 DEF Watches, Asking, Asked
  <2>6. Notices'
    BY <1>i, <2>2, <2>3 DEF Notices, Asked
  <2> QED
    BY <2>3, <2>5, <2>6 DEF WatchInv
<1>5. CASE \E s \in Session : AddWatch(s)
  <2> PICK s \in Session : AddWatch(s)
    BY <1>5
  <2>1. /\ asking[s] = "read" /\ asking' = [asking EXCEPT ![s] = "added"]
        /\ UNCHANGED <<vars, ending, told>> /\ watch' = s /\ excused' \subseteq Session
    BY <1>t DEF AddWatch
  <2>2. /\ asking' \in [Session -> {"no", "read", "added", "done", "withdrawn"}]
        /\ asking'[s] = "added" /\ \A r \in Session \ {s} : asking'[r] = asking[r]
    BY <1>a, <2>1
  <2>3. Watches'
    BY <1>i, <2>1, <2>2 DEF Watches
  <2>4. Asking'
    BY <1>i, <1>v, <2>1, <2>2 DEF Asking, Asked, Watches
  <2>5. Notices'
    BY <1>i, <1>v, <2>1, <2>2 DEF Notices, Asked
  <2> QED
    BY <1>v, <2>1, <2>3, <2>4, <2>5 DEF WatchInv
<1>6. CASE \E s \in Session : CatchUp(s)
  <2> PICK s \in Session : CatchUp(s)
    BY <1>6
  <2>1. /\ asking[s] = "added" /\ asking' = [asking EXCEPT ![s] = "done"]
        /\ UNCHANGED <<watch, ending, told>>
    BY DEF CatchUp
  <2>2. /\ asking' \in [Session -> {"no", "read", "added", "done", "withdrawn"}]
        /\ asking'[s] = "done" /\ \A r \in Session \ {s} : asking'[r] = asking[r]
    BY <1>a, <2>1
  <2>3. /\ StreamInv' /\ server' = server /\ excused' \subseteq Session
        /\ \A r \in Session : Holds(sendCh'[r], "notice") =>
              Holds(sendCh[r], "notice") \/ (r = s /\ projected)
    <3>1. CASE projected
      <4>1. Notify(s)
        BY <3>1 DEF CatchUp
      <4> QED
        BY <1>i, <3>1, <4>1, Notified DEF Watches
    <3>2. CASE ~projected
      <4>1. UNCHANGED vars /\ (excused' = excused \/ excused' = excused \cup {s})
        BY <3>2 DEF CatchUp
      <4> QED
        BY <1>i, <1>v, <4>1 DEF Watches
    <3> QED
      BY <3>1, <3>2
  <2>4. Watches'
    BY <1>i, <2>1, <2>2, <2>3 DEF Watches
  <2>5. Asking'
    BY <1>i, <2>1, <2>2, <2>3 DEF Asking, Asked, Watches
  <2>6. Notices'
    BY <1>i, <2>1, <2>2, <2>3 DEF Notices, Asked, Asking
  <2> QED
    BY <2>3, <2>4, <2>5, <2>6 DEF WatchInv
<1>7. CASE \E s \in Session : Unwatch(s)
  <2> PICK s \in Session : Unwatch(s)
    BY <1>7
  <2>1. /\ asking[s] = "done" /\ asking' = [asking EXCEPT ![s] = "withdrawn"]
        /\ UNCHANGED <<vars, ending, told>> /\ watch' = NoSession
        /\ excused' \subseteq Session
    BY <1>t DEF Unwatch
  <2>2. /\ asking' \in [Session -> {"no", "read", "added", "done", "withdrawn"}]
        /\ asking'[s] = "withdrawn" /\ \A r \in Session \ {s} : asking'[r] = asking[r]
    BY <1>a, <2>1
  <2>3. Watches'
    BY <1>i, <2>1, <2>2 DEF Watches
  <2>4. Asking'
    BY <1>i, <1>v, <2>1, <2>2 DEF Asking, Asked, Watches
  <2>5. Notices'
    BY <1>i, <1>v, <2>1, <2>2 DEF Notices, Asked
  <2> QED
    BY <1>v, <2>1, <2>3, <2>4, <2>5 DEF WatchInv
<1>8. CASE Ends \/ Collect
  <2>1. UNCHANGED <<vars, watching, projected, outcome>>
    BY <1>8 DEF Ends, Collect
  <2>2. Watches'
    BY <1>8, <1>i, <2>1 DEF Ends, Collect, Watches
  <2>3. Asking'
    BY <1>8, <1>i, <1>v, <2>1 DEF Ends, Collect, Asking, Asked
  <2>4. Notices'
    BY <1>8, <1>i, <1>v, <2>1 DEF Ends, Collect, Notices, Asked
  <2> QED
    BY <1>v, <2>1, <2>2, <2>3, <2>4 DEF WatchInv
<1>9. CASE Project
  <2>1. UNCHANGED <<vars, watching, broker, target, outcome>> /\ broker # "none"
        /\ projected' = TRUE
    BY <1>9 DEF Project
  <2>2. Watches'
    BY <1>i, <2>1 DEF Watches
  <2>3. Asking'
    BY <1>i, <1>v, <2>1 DEF Asking, Asked
  <2>4. Notices'
    BY <1>i, <1>v, <2>1 DEF Notices, Asked
  <2> QED
    BY <1>v, <2>1, <2>2, <2>3, <2>4 DEF WatchInv
<1>10. CASE handleTerminalEvent
  <2>1. /\ broker = "collected" /\ broker' = "done"
        /\ UNCHANGED <<watching, target, projected, told>>
    BY <1>10 DEF handleTerminalEvent
  <2>2. /\ StreamInv' /\ server' = server /\ excused' \subseteq Session
        /\ \A r \in Session : Holds(sendCh'[r], "notice") =>
              Holds(sendCh[r], "notice") \/ r = target
    <3>1. CASE target = NoSession
      BY <1>10, <1>i, <1>v, <3>1 DEF handleTerminalEvent, Watches
    <3>2. CASE target # NoSession
      <4>1. target \in Session /\ Notify(target)
        BY <1>10, <1>i, <3>2 DEF handleTerminalEvent, Watches
      <4> QED
        BY <1>i, <4>1, Notified DEF Watches
    <3> QED
      BY <3>1, <3>2
  <2>3. Watches'
    BY <1>i, <2>1, <2>2 DEF Watches
  <2>4. Asking'
    BY <1>i, <2>1, <2>2 DEF Asking, Asked
  <2>5. Notices'
    BY <1>i, <2>1, <2>2 DEF Notices, Asked, Asking, NoSession, Session
  <2> QED
    BY <2>2, <2>3, <2>4, <2>5 DEF WatchInv
<1>11. CASE Others \/ Undisturbed \/ \E s \in Session, d \in Dispatch : Delivers(s, d)
  <2>1. [Next]_vars /\ UNCHANGED <<watching, ending, outcome>>
    BY <1>11 DEF Others, Undisturbed, Delivers, Next, Progress, Environment
  <2> QED
    BY <1>1, <1>i, <2>1 DEF Watches
<1>12. CASE UNCHANGED allVars
  BY <1>1, <1>12, <1>i DEF allVars, Watches
<1> QED
  BY <1>2, <1>3, <1>4, <1>5, <1>6, <1>7, <1>8, <1>9, <1>10, <1>11, <1>12
     DEF WatchNext, WatchProgress

-----------------------------------------------------------------------------
(* The theorems *)

\* Without watches: the types of the streams, and the registration.
THEOREM StreamsInductive == Spec => []StreamInv
<1> QED
  BY StreamInit, StreamStep, PTL DEF Spec

\* A call waits on the list of the stream it looked up only
\* (stream_dispatcher.go, Dispatch), and no channel holds more than it can.
THEOREM StreamTypeCorrect == Spec => []TypeOK
<1>1. StreamInv => TypeOK
  BY StreamTypes
<1> QED
  BY <1>1, StreamsInductive, PTL

\* The invariant of the streams with their watches.
THEOREM WatchesInductive == WatchSpec => []WatchInv
<1> QED
  BY WatchInvInit, WatchInvStep, PTL DEF WatchSpec

\* A notice is sent only to a stream that asked for it, and only when the
\* workflow has ended (notification_broker.go).
THEOREM WatchTypeCorrect == WatchSpec => []WatchTypeOK
<1>1. WatchInv => WatchTypeOK
  BY StreamTypes DEF WatchInv, Watches, Notices, Asked, Holds, WatchTypeOK
<1> QED
  BY <1>1, WatchesInductive, PTL

\* The last stream to register keeps the name until its own end, whatever the
\* ends of displaced streams and the watches do (stream_dispatcher.go,
\* Unregister).
THEOREM NameKept == WatchSpec => []RegistrationKept
<1>1. WatchInv => RegistrationKept
  BY DEF WatchInv, StreamInv
<1> QED
  BY <1>1, WatchesInductive, PTL
=============================================================================
