------------------------- MODULE NotificationBroker -------------------------
(***************************************************************************)
(* The streams of HandlerStream with the watches their clients ask for     *)
(* (internal/grpchandler/notification_broker.go), for one workflow that    *)
(* ends at some point: its terminal event is published on the in-process   *)
(* bus (internal/eventbus/channel.go), where the broker's subscription is  *)
(* a goroutine and the status projection's runs inside Publish.            *)
(*                                                                         *)
(* Watches are kept by handler name, and there is one name: a watch of the *)
(* workflow and a watch of all are the same entry.  A client that watches  *)
(* asks once, when it connects (client.go, runOnce).                       *)
(***************************************************************************)
EXTENDS HandlerStream

CONSTANT MaxLoad  \* bound: dispatches, watches and the workflow's end, together

ASSUME LoadAssumption == MaxLoad \in Nat

VARIABLES
    asking,     \* session -> how far its WatchRequest has come
    watch,      \* the session whose channel is watching, or NoSession
    broker,     \* the broker's goroutine for the terminal event
    target,     \* the session it has collected
    projected,  \* the status projection shows the workflow as ended
    told,       \* sessions whose client was told (history)
    excused     \* sessions that need not be told, see WatcherTold (history)

watching == <<asking, watch>>
ending == <<broker, target, projected>>
outcome == <<told, excused>>
allVars == <<vars, watching, ending, outcome>>

WatchTypeOK ==
    /\ TypeOK
    /\ asking \in [Session -> {"no", "read", "added", "done", "withdrawn"}]
    /\ watch \in Session \cup {NoSession}
    /\ broker \in {"none", "spawned", "collected", "done"}
    /\ target \in Session \cup {NoSession}
    /\ projected \in BOOLEAN
    /\ told \cup excused \subseteq Session
    \* what is in a channel was sent to it because somebody had asked there
    /\ \A s \in Session : "notice" \in {sendCh[s][i] : i \in DOMAIN sendCh[s]}
            => asking[s] \notin {"no", "read"} /\ broker # "none"

WatchInit ==
    /\ Init
    /\ asking = [s \in Session |-> "no"]
    /\ watch = NoSession
    /\ broker = "none" /\ target = NoSession /\ projected = FALSE
    /\ told = {} /\ excused = {}

\* Is the bound on what the streams have to do not reached yet?
Within ==
    Cardinality({d \in Dispatch : at[d] # "idle"})
        + Cardinality({s \in Session : asking[s] # "no"})
        + (IF broker = "none" THEN 0 ELSE 1) < MaxLoad

-----------------------------------------------------------------------------
(* The steps of HandlerStream that watches meet *)

\* The entry of the name is now of: who had it loses it.
Take(s, of) ==
    /\ watch' = of
    /\ excused' = excused \cup ({watch} \ {NoSession, s})

\* The receive loop starts, and its first message is a WatchRequest, unless
\* the client does not watch, or the stream breaks before it is read.
Serves(s) ==
    /\ Serve(s)
    /\ \/ UNCHANGED asking
       \/ Within /\ asking' = [asking EXCEPT ![s] = "read"]
    /\ UNCHANGED <<watch, ending, outcome>>

\* It delivers nothing while it is busy with the request.
Delivers(s, d) ==
    /\ asking[s] \notin {"read", "added"}
    /\ DeliverResult(s, d)
    /\ UNCHANGED <<watching, ending, outcome>>

\* A notice reaches the client.
Reads(s) ==
    /\ Receive(s)
    /\ told' = IF Head(wire[s]) = "notice" THEN told \cup {s} ELSE told
    /\ UNCHANGED <<watching, ending, excused>>

\* The deferred UnwatchAll, which goes by name, and right after it Unregister.
Leaves(s) ==
    /\ Unregister(s)
    /\ Take(s, NoSession)
    /\ UNCHANGED <<asking, ending, told>>

Others ==
    /\ \/ \E s \in Session : Register(s) \/ SendLoop(s) \/ CloseSend(s) \/ Answer(s)
       \/ \E d \in Dispatch : Join(d) \/ Send(d)
    /\ UNCHANGED <<watching, ending, outcome>>

-----------------------------------------------------------------------------
(* Watches *)

\* Watch: the entry is made under the lock, perhaps when the stream has ended
\* already ...
AddWatch(s) ==
    /\ ~panicked /\ asking[s] = "read"
    /\ asking' = [asking EXCEPT ![s] = "added"]
    /\ Take(s, s)
    /\ UNCHANGED <<vars, ending, told>>

\* A notice for s, without waiting for room in its channel.
Notify(s) ==
    /\ panicked' = (s \in Closed)
    /\ IF s \in Closed \/ Len(sendCh[s]) = SendCap
       THEN /\ excused' = excused \cup {s}
            /\ UNCHANGED sendCh
       ELSE /\ sendCh' = [sendCh EXCEPT ![s] = Append(@, "notice")]
            /\ UNCHANGED excused
    /\ UNCHANGED <<server, client, wire, results, streams, calls, answers,
                   breaks, last>>

\* Asked when the broker had looked and the projection was not updated.
InGap(s) == ~projected /\ broker \in {"collected", "done"} /\ target # s

\* Mutant: a new watch is told of later endings only.
NoCatchUp(s) ==
    /\ ~panicked /\ asking[s] = "added"
    /\ asking' = [asking EXCEPT ![s] = "done"]
    /\ excused' = IF InGap(s) THEN excused \cup {s} ELSE excused
    /\ UNCHANGED <<vars, watch, ending, told>>

\* ... and sendCatchUp asks the projection without it.
CatchUp(s) ==
    /\ ~panicked /\ asking[s] = "added"
    /\ asking' = [asking EXCEPT ![s] = "done"]
    /\ IF projected THEN Notify(s)
       ELSE /\ excused' = IF InGap(s) THEN excused \cup {s} ELSE excused
            /\ UNCHANGED vars
    /\ UNCHANGED <<watch, ending, told>>

\* The client withdraws its watch: the name's entry goes, whoever made it.
Unwatch(s) ==
    /\ ~panicked /\ server[s] = "serving" /\ client[s] # "gone"
    /\ asking[s] = "done"
    /\ asking' = [asking EXCEPT ![s] = "withdrawn"]
    /\ Take(s, NoSession)
    /\ UNCHANGED <<vars, ending, told>>

-----------------------------------------------------------------------------
(* The end of the workflow *)

\* Publish walks the subscriptions in order, typed ones first: the broker's
\* goroutine is on its way before the projection is updated.
Ends ==
    /\ ~panicked /\ broker = "none" /\ Within
    /\ broker' = "spawned"
    /\ UNCHANGED <<vars, watching, target, projected, outcome>>

Project ==
    /\ ~panicked /\ broker # "none" /\ ~projected
    /\ projected' = TRUE
    /\ UNCHANGED <<vars, watching, broker, target, outcome>>

\* handleTerminalEvent: the watchers are collected under the lock ...
Collect ==
    /\ ~panicked /\ broker = "spawned"
    /\ broker' = "collected" /\ target' = watch
    /\ UNCHANGED <<vars, watching, projected, outcome>>

\* ... and told without it.
handleTerminalEvent ==
    /\ ~panicked /\ broker = "collected"
    /\ broker' = "done"
    /\ IF target = NoSession THEN UNCHANGED <<vars, excused>> ELSE Notify(target)
    /\ UNCHANGED <<watching, target, projected, told>>

-----------------------------------------------------------------------------

WatchProgress ==
    \/ Others
    \/ \E s \in Session : Serves(s) \/ Reads(s) \/ Leaves(s)
    \/ \E s \in Session, d \in Dispatch : Delivers(s, d)
    \/ \E s \in Session : AddWatch(s) \/ CatchUp(s)
    \/ Project \/ Collect \/ handleTerminalEvent

Undisturbed ==
    /\ \/ \E s \in Session : Open(s) \/ Break(s)
       \/ \E d \in Dispatch : Within /\ LookUp(d)
       \/ \E d \in Dispatch : GiveUp(d)
    /\ UNCHANGED <<watching, ending, outcome>>

WatchNext ==
    \/ WatchProgress
    \/ Undisturbed
    \/ \E s \in Session : Unwatch(s)
    \/ Ends

WatchSpec == WatchInit /\ [][WatchNext]_allVars /\ WF_allVars(WatchProgress)

-----------------------------------------------------------------------------
(* Properties *)

\* Whoever watches is told that the workflow has ended, whether it ended
\* before, during or after the watch was made ("On registration, immediately
\* checks for already-terminal workflows and pushes catch-up notifications").
\* Excepted are clients that are gone or withdrew, a full channel, a watch
\* that the end or the request of another stream of that name took away, and
\* one made after the broker looked and before the projection was updated,
\* which the order of Publish allows.
WatcherTold ==
    \A s \in Session :
        (asking[s] = "done" /\ broker # "none") ~>
            \/ s \in told \cup excused
            \/ client[s] = "gone" \/ asking[s] = "withdrawn" \/ panicked
=============================================================================
