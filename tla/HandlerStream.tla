--------------------------- MODULE HandlerStream ---------------------------
(***************************************************************************)
(* Handlers connected over gRPC (internal/grpchandler), for one handler    *)
(* name: the streams its clients open, the server goroutine of each        *)
(* (server.go), the registration and the calls that wait for results       *)
(* (stream_dispatcher.go), and the client that handles one message at a    *)
(* time (client.go).                                                       *)
(*                                                                         *)
(* A session is one stream, in the order they are opened; two processes    *)
(* may use the name at once.  Go panics when a closed channel is sent to:  *)
(* the process is gone then.                                               *)
(*                                                                         *)
(* Watches are added by NotificationBroker.  Left out: event injection,    *)
(* workflow registration, hooks and hints over the stream, the content of  *)
(* results (an error and an incomplete result are results), and the moment *)
(* between DeliverResult's look-up and its send.                           *)
(***************************************************************************)
EXTENDS Naturals, Sequences, FiniteSets

CONSTANTS
    Dispatch,    \* dispatches of the runner to this handler
    MaxSession,  \* bound: streams opened
    SendCap,     \* capacity of a session's send channel
    MaxBreaks    \* bound: streams that break

ASSUME StreamAssumption ==
    /\ IsFiniteSet(Dispatch)
    /\ Dispatch \cap {"none", "reading", "gone", "displaced", "notice"} = {}
    /\ MaxSession \in Nat /\ SendCap \in Nat \ {0} /\ MaxBreaks \in Nat

Session == 1..MaxSession
NoSession == 0

VARIABLES
    server,     \* session -> where HandleStream is
    client,     \* session -> where the client's recvLoop is
    sendCh,     \* session -> what its send channel holds
    wire,       \* session -> what the client has not read yet
    results,    \* session -> handlerStream.result: who waits for a result
    streams,    \* the registered session
    at,         \* dispatch -> where Dispatch is
    via,        \* dispatch -> the session it looked up
    answers,    \* results on their way to the server, <<session, dispatch>>
    panicked,   \* a closed channel was sent to
    breaks,     \* broken streams so far
    last,       \* the last session to register (history)
    shut,       \* dispatches whose result channel is closed
    late        \* dispatches that joined a session given up (history)

calls == <<at, via, shut, late>>
vars == <<server, client, sendCh, wire, results, streams, calls, answers,
          panicked, breaks, last>>

\* Up to "serving" the steps of HandleStream, then those of its end: the send
\* channel is closed, then the registration goes.  A stream that breaks before
\* the registration is acknowledged leaves its channel open.
Phase == {"none", "open", "added", "serving", "broken", "closed", "gone",
          "unacked", "left"}

\* A "notice" comes from the NotificationBroker (the module of that name).
Message == Dispatch \cup {"displaced", "notice"}

\* Sessions whose send channel is closed.
Closed == {s \in Session : server[s] \in {"closed", "gone"}}

TypeOK ==
    /\ server \in [Session -> Phase]
    /\ client \in [Session -> {"none", "reading", "gone"} \cup Dispatch]
    /\ sendCh \in [Session -> Seq(Message)]
    /\ \A s \in Session : Len(sendCh[s]) <= SendCap
    /\ wire \in [Session -> Seq(Message)]
    /\ results \in [Session -> SUBSET Dispatch]
    /\ streams \in Session \cup {NoSession}
    /\ at \in [Dispatch -> {"idle", "found", "joined", "sent", "returned"}]
    /\ via \in [Dispatch -> Session \cup {NoSession}]
    /\ answers \subseteq Session \X Dispatch
    /\ panicked \in BOOLEAN
    /\ breaks \in 0..MaxBreaks /\ last \in Session \cup {NoSession}
    /\ shut \subseteq Dispatch /\ late \subseteq Dispatch
    \* a dispatch is on the list of the session it looked up, if on any
    /\ \A s \in Session : \A d \in results[s] :
            via[d] = s /\ at[d] \in {"joined", "sent"}

Init ==
    /\ server = [s \in Session |-> "none"]
    /\ client = [s \in Session |-> "none"]
    /\ sendCh = [s \in Session |-> <<>>]
    /\ wire = [s \in Session |-> <<>>]
    /\ results = [s \in Session |-> {}]
    /\ streams = NoSession
    /\ at = [d \in Dispatch |-> "idle"]
    /\ via = [d \in Dispatch |-> NoSession]
    /\ answers = {}
    /\ panicked = FALSE
    /\ breaks = 0 /\ last = NoSession
    /\ shut = {} /\ late = {}

Goto(s, phase) == server' = [server EXCEPT ![s] = phase]

\* The result channels of s are closed: calls that wait for a result return;
\* one that has not sent yet will see it after that.
Unblock(s) ==
    /\ at' = [d \in Dispatch |->
                IF d \in results[s] /\ at[d] = "sent" THEN "returned" ELSE at[d]]
    /\ shut' = shut \cup results[s]
    /\ results' = [results EXCEPT ![s] = {}]

-----------------------------------------------------------------------------
(* The server's end of a stream: HandleStream *)

\* A client opens the next stream: the first start, a reconnection, or a
\* second process.
Open(s) ==
    /\ ~panicked /\ server[s] = "none" /\ \A r \in 1..(s - 1) : server[r] # "none"
    /\ Goto(s, "open")
    /\ client' = [client EXCEPT ![s] = "reading"]
    /\ UNCHANGED <<sendCh, wire, results, streams, calls,
                   answers, panicked, breaks, last>>

\* Mutant: the displaced stream's calls are left waiting.
RegisterOver(s) ==
    /\ ~panicked /\ server[s] = "open"
    /\ Goto(s, "added")
    /\ streams' = s /\ last' = s
    /\ sendCh' = IF streams # NoSession /\ streams \notin Closed
                        /\ Len(sendCh[streams]) < SendCap
                 THEN [sendCh EXCEPT ![streams] = Append(@, "displaced")]
                 ELSE sendCh
    /\ UNCHANGED <<client, wire, results, calls, answers, panicked, breaks>>

\* Register: whoever holds the name is told, if its channel has room, and its
\* waiting calls return with an error.
Register(s) ==
    /\ ~panicked /\ server[s] = "open"
    /\ Goto(s, "added")
    /\ streams' = s /\ last' = s
    /\ IF streams = NoSession
       THEN UNCHANGED <<sendCh, results, at, shut, panicked>>
       ELSE /\ panicked' = (streams \in Closed)
            /\ sendCh' = IF streams \notin Closed /\ Len(sendCh[streams]) < SendCap
                         THEN [sendCh EXCEPT ![streams] = Append(@, "displaced")]
                         ELSE sendCh
            /\ Unblock(streams)
    /\ UNCHANGED <<client, wire, via, late, answers, breaks>>

\* The proxy handler is registered and the stream is served.
Serve(s) ==
    /\ ~panicked /\ server[s] = "added"
    /\ Goto(s, "serving")
    /\ UNCHANGED <<client, sendCh, wire, results, streams, calls,
                   answers, panicked, breaks, last>>

\* The send loop; what a client that is gone would get is of no interest.
SendLoop(s) ==
    /\ ~panicked /\ server[s] = "serving" /\ sendCh[s] # <<>>
    /\ sendCh' = [sendCh EXCEPT ![s] = Tail(@)]
    /\ wire' = IF client[s] = "gone" THEN wire
               ELSE [wire EXCEPT ![s] = Append(@, Head(sendCh[s]))]
    /\ UNCHANGED <<server, client, results, streams, calls,
                   answers, panicked, breaks, last>>

\* DeliverResult: to whoever waits under that id on the stream that has the
\* name now; a result nobody waits for there is dropped.
DeliverResult(s, d) ==
    /\ ~panicked /\ server[s] = "serving" /\ <<s, d>> \in answers
    /\ answers' = answers \ {<<s, d>>}
    /\ IF streams # NoSession /\ d \in results[streams]
       THEN /\ at' = [at EXCEPT ![d] = "returned"]
            /\ results' = [results EXCEPT ![streams] = @ \ {d}]
       ELSE UNCHANGED <<at, results>>
    /\ UNCHANGED <<server, client, sendCh, wire, streams, via, shut,
                   late, panicked, breaks, last>>

\* The connection is lost, for both ends, with what is on it.
Break(s) ==
    /\ ~panicked /\ breaks < MaxBreaks /\ server[s] \in {"added", "serving"}
    /\ breaks' = breaks + 1
    /\ Goto(s, IF server[s] = "serving" THEN "broken" ELSE "unacked")
    /\ client' = [client EXCEPT ![s] = "gone"]
    /\ wire' = [wire EXCEPT ![s] = <<>>]
    /\ answers' = {a \in answers : a[1] # s}
    /\ UNCHANGED <<sendCh, results, streams, calls, panicked, last>>

\* close(sendCh), before the deferred clean-up.
CloseSend(s) ==
    /\ ~panicked /\ server[s] = "broken"
    /\ Goto(s, "closed")
    /\ UNCHANGED <<client, sendCh, wire, results, streams, calls,
                   answers, panicked, breaks, last>>

\* Mutant: without the token of the registration.
UnregisterName(s) ==
    /\ ~panicked /\ server[s] \in {"closed", "unacked"}
    /\ Goto(s, IF server[s] = "closed" THEN "gone" ELSE "left")
    /\ IF streams # NoSession
       THEN /\ streams' = NoSession
            /\ Unblock(streams)
       ELSE UNCHANGED <<streams, at, shut, results>>
    /\ UNCHANGED <<client, sendCh, wire, via, late, answers,
                   panicked, breaks, last>>

\* Only the registration this stream made is removed.
Unregister(s) ==
    /\ ~panicked /\ server[s] \in {"closed", "unacked"}
    /\ Goto(s, IF server[s] = "closed" THEN "gone" ELSE "left")
    /\ IF streams = s
       THEN /\ streams' = NoSession
            /\ Unblock(s)
       ELSE UNCHANGED <<streams, at, shut, results>>
    /\ UNCHANGED <<client, sendCh, wire, via, late, answers,
                   panicked, breaks, last>>

-----------------------------------------------------------------------------
(* The client: recvLoop *)

ClientFrame == UNCHANGED <<server, sendCh, results, streams, calls,
                           panicked, breaks, last>>

\* The next message: a dispatch occupies the loop until it is handled, a
\* notice is handled aside; a displacement ends it, without closing the stream.
Receive(s) ==
    /\ ~panicked /\ client[s] = "reading" /\ wire[s] # <<>>
    /\ wire' = [wire EXCEPT ![s] =
                    IF Head(@) = "displaced" THEN <<>> ELSE Tail(@)]
    /\ client' = [client EXCEPT ![s] =
            CASE Head(wire[s]) = "displaced" -> "gone"
              [] Head(wire[s]) = "notice"    -> "reading"
              [] OTHER                       -> Head(wire[s])]
    /\ ClientFrame /\ UNCHANGED answers

Answer(s) ==
    /\ ~panicked /\ client[s] \in Dispatch
    /\ answers' = answers \cup {<<s, client[s]>>}
    /\ client' = [client EXCEPT ![s] = "reading"]
    /\ ClientFrame /\ UNCHANGED wire

-----------------------------------------------------------------------------
(* A call: Dispatch and DispatchHint *)

CallFrame == UNCHANGED <<server, client, wire, streams, shut, answers,
                         breaks, last>>

\* The look-up; without a stream the handler is not found.
LookUp(d) ==
    /\ ~panicked /\ at[d] = "idle"
    /\ at' = [at EXCEPT ![d] = IF streams = NoSession THEN "returned" ELSE "found"]
    /\ via' = [via EXCEPT ![d] = streams]
    /\ CallFrame /\ UNCHANGED <<sendCh, results, panicked, late>>

\* The result channel is put on the list of the stream found, whether or not
\* that has been displaced in the meantime.
Join(d) ==
    /\ ~panicked /\ at[d] = "found"
    /\ at' = [at EXCEPT ![d] = "joined"]
    /\ results' = [results EXCEPT ![via[d]] = @ \cup {d}]
    /\ late' = IF streams = via[d] THEN late ELSE late \cup {d}
    /\ CallFrame /\ UNCHANGED <<sendCh, via, panicked>>

\* Into the stream's channel, as soon as it has room.
Send(d) ==
    /\ ~panicked /\ at[d] = "joined"
    /\ \/ /\ via[d] \in Closed
          /\ panicked' = TRUE /\ UNCHANGED <<sendCh, at>>
       \/ /\ via[d] \notin Closed /\ Len(sendCh[via[d]]) < SendCap
          /\ sendCh' = [sendCh EXCEPT ![via[d]] = Append(@, d)]
          /\ at' = [at EXCEPT ![d] = IF d \in shut THEN "returned" ELSE "sent"]
          /\ UNCHANGED panicked
    /\ CallFrame /\ UNCHANGED <<results, via, late>>

\* Mutant: without the deferred removal of the result channel.
GiveUpKeeping(d) ==
    /\ ~panicked /\ at[d] \in {"joined", "sent"}
    /\ at' = [at EXCEPT ![d] = "returned"]
    /\ CallFrame /\ UNCHANGED <<sendCh, via, results, panicked, late>>

\* The workflow is cancelled: the call gives up.
GiveUp(d) ==
    /\ ~panicked /\ at[d] \in {"joined", "sent"}
    /\ at' = [at EXCEPT ![d] = "returned"]
    /\ results' = [results EXCEPT ![via[d]] = @ \ {d}]
    /\ CallFrame /\ UNCHANGED <<sendCh, via, panicked, late>>

-----------------------------------------------------------------------------

Progress ==
    \/ \E s \in Session :
          \/ Register(s) \/ Serve(s) \/ SendLoop(s)
          \/ CloseSend(s) \/ Unregister(s)
          \/ Receive(s) \/ Answer(s)
          \/ \E d \in Dispatch : DeliverResult(s, d)
    \/ \E d \in Dispatch : Join(d) \/ Send(d)

Environment ==
    \/ \E s \in Session : Open(s) \/ Break(s)
    \/ \E d \in Dispatch : LookUp(d) \/ GiveUp(d)

Next == Progress \/ Environment

\* Goroutines and clients go on; nobody has to connect, break or cancel.
Spec == Init /\ [][Next]_vars /\ WF_vars(Progress)

-----------------------------------------------------------------------------
(* Properties *)

\* The last stream to register keeps the name until its own end: the end of a
\* displaced one does not take it away (stream_dispatcher.go, Unregister).
RegistrationKept ==
    last # NoSession /\ server[last] \notin {"gone", "left"} => streams = last

\* Joined a stream after it was displaced, or found the channel of one that
\* broke before it was acknowledged.
Abandoned(d) == d \in late \/ (via[d] # NoSession /\ server[via[d]] = "left")

\* Every call returns, however streams break and displace each other
\* meanwhile: with a result, or with an error when its stream is given up.
\* Excepted are calls that looked up a stream and joined it only after it was
\* displaced, whose result is looked for on another stream, and calls that find
\* the channel full of a stream that broke before it was acknowledged.
Returns ==
    \A d \in Dispatch :
        at[d] # "idle" ~> (at[d] = "returned" \/ panicked \/ Abandoned(d))
=============================================================================
