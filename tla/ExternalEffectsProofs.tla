----------------------- MODULE ExternalEffectsProofs -----------------------
(***************************************************************************)
(* Proofs about ExternalEffects, for any threads and tasks and any number  *)
(* of rounds, pushes and failures: nothing is created twice unless two     *)
(* things go wrong, and a handler that completes has said what it had to.  *)
(***************************************************************************)
EXTENDS ExternalEffects, FiniteSetTheorems, TLAPS

Created == [target : Target, marker : 0..MaxHeads, text : 0..MaxRounds, id : Nat]

Running == [at : {"idle", "posting", "creating", "comment", "review",
                  "epic", "tasks", "done"},
            history : SUBSET Slot, todo : SUBSET (Slot \cup Task),
            slot : Slot, out : SUBSET Slot, err : BOOLEAN,
            sha : 0..MaxHeads, approve : BOOLEAN, inline : BOOLEAN,
            tier : 1..3]

-----------------------------------------------------------------------------
(* What holds of every state *)

\* Everything is created under an id of its own.
Ids ==
    /\ IsFiniteSet(remote)
    /\ \A a \in remote : a.id <= Cardinality(remote)
    /\ \A a, b \in remote : a.id = b.id => a = b

\* The types of the rest of the state.
Typed ==
    /\ job \in {"replies", "review", "epic"}
    /\ remote \subseteq Created
    /\ head \in 1..MaxHeads
    /\ body \in [n : 0..MaxRounds, slots : SUBSET (Slot \cup Task)]
    /\ due \in {"no", "yes", "unstored"}
    /\ recorded \subseteq Slot
    /\ login \in {"unasked", "known", "unknown"}
    /\ run \in Running
    /\ trouble \in 0..MaxTrouble
    /\ lost \in BOOLEAN

\* What the three handlers do, create, and are asked for.
Replying ==
    /\ run.at \in {"idle", "posting", "creating"}
    /\ body.slots \subseteq Slot /\ run.todo \subseteq body.slots
    /\ \A a \in remote : a.target \in Slot \cup {"comment"}

Reviewing ==
    /\ run.at \in {"idle", "comment", "review", "done"}
    /\ \A a \in remote : a.target \in {"comment", "review"}

Planning ==
    /\ run.at \in {"idle", "epic", "tasks", "done"}
    /\ body.slots \subseteq Task /\ run.todo \subseteq Task
    /\ run.sha = 0
    /\ \A a \in remote : a.target \in {"epic"} \cup Task /\ a.marker = 0

\* A handler runs only while it is due, and it is due only after a round.
Roles ==
    /\ run.at = "idle" => run = Idle
    /\ run.at # "idle" => due = "yes"
    /\ due # "no" => body.n > 0
    /\ due = "unstored" => trouble > 0
    /\ login = "unknown" => trouble > 0
    /\ job = "replies" => Replying
    /\ job = "review" => Reviewing
    /\ job = "epic" => Planning

\* Nothing went wrong, or only the question for the login did.
Smooth == trouble = 0 \/ (trouble = 1 /\ login = "unknown")

\* What the history and the run count as posted is there, and so is the answer
\* to everything the run has dealt with.
RepliesPosted ==
    /\ \A s \in recorded \cup run.out \cup run.history : On(s) # {}
    /\ run.at \in {"posting", "creating"} =>
          \A s \in body.slots \ run.todo :
             \/ Conversation(s) # {}
             \/ run.at = "creating" /\ s = run.slot
             \/ run.err

\* As long as all goes smoothly the history knows of everything posted; until
\* something else goes wrong what is about to be posted is not there.
RepliesOnce ==
    /\ run.at \in {"posting", "creating"} =>
          run.history = recorded /\ run.out \cap run.todo = {}
    /\ run.at = "creating" => run.slot \notin run.todo
    /\ Smooth =>
          /\ ~run.err
          /\ \A a \in remote :
                a.target \in Slot => a.target \in recorded \cup run.out
    /\ OneFault /\ run.at = "creating" => On(run.slot) = {}
    /\ OneFault =>
          \A a, b \in remote : a.target = b.target => a = b \/ a.target = "comment"

\* In the first round, if nothing goes wrong, nothing is there before the
\* handler has created it.
Untouched ==
    /\ trouble = 0 /\ body.n <= 1
    /\ body.n = 0 \/ (due = "yes" /\ run.at \notin {"tasks", "done"})
    => remote = {}

ReviewPosted ==
    /\ recorded = {} /\ run.out = {} /\ run.history = {}
    /\ run.at = "done" => Reviews(run.sha) \cup On("comment") # {}

ReviewOnce ==
    OneFault /\ ~lost =>
        /\ run.at = "review" => Reviews(run.sha) = {}
        /\ \A a, b \in remote : SameTarget(a, b) => a = b \/ a.target = "comment"

\* The epic comes first.
EpicPosted ==
    /\ recorded = {} /\ run.out = {} /\ run.history = {}
    /\ remote # {} \/ run.at \in {"tasks", "done"} => On("epic") # {}

EpicOnce ==
    OneFault =>
        /\ run.at = "epic" => On("epic") = {}
        /\ run.at = "tasks" => \A t \in run.todo : On(t) = {}
        /\ \A a, b \in remote : a.target = b.target => a = b

RepliesInv == RepliesPosted /\ RepliesOnce
ReviewInv == ReviewPosted /\ Untouched /\ ReviewOnce
EpicInv == EpicPosted /\ Untouched /\ EpicOnce

IInv ==
    /\ Typed /\ Ids /\ Roles
    /\ job = "replies" => RepliesInv
    /\ job = "review" => ReviewInv
    /\ job = "epic" => EpicInv

-----------------------------------------------------------------------------
(* Creating something *)

\* One more thing, at t, under the marker and for the answer of this run.
Adds(t) ==
    \E x \in Created :
        /\ x \notin remote /\ remote' = remote \cup {x}
        /\ x.target = t /\ x.marker = run.sha /\ x.text = body.n

\* What lands is one more thing, under a new id.
LEMMA Landing ==
    ASSUME Typed, Ids, NEW t \in Target, Lands(t)
    PROVE  Adds(t) /\ Ids'
<1> DEFINE x == [target |-> t, marker |-> run.sha, text |-> body.n,
                 id |-> Cardinality(remote) + 1]
<1>1. Cardinality(remote) \in Nat
  BY FS_CardinalityType DEF Ids
<1>2. /\ x \in Created /\ x.id = Cardinality(remote) + 1
      /\ x.target = t /\ x.marker = run.sha /\ x.text = body.n
  BY <1>1 DEF Typed, Created, Running
<1>3. remote' = remote \cup {x}
  BY DEF Lands
<1> HIDE DEF x
<1>4. \A a \in remote : a.id \in Nat /\ a.id < x.id
  BY <1>1, <1>2 DEF Ids, Typed, Created
<1>5. x \notin remote
  BY <1>2, <1>4 DEF Created
<1>6. IsFiniteSet(remote') /\ Cardinality(remote') = Cardinality(remote) + 1
  BY <1>3, <1>5, FS_AddElement DEF Ids
<1>7. \A a \in remote' : a.id <= Cardinality(remote')
  BY <1>1, <1>2, <1>3, <1>4, <1>6
<1>8. \A a, b \in remote' : a.id = b.id => a = b
  BY <1>2, <1>3, <1>4 DEF Ids, Created
<1> QED
  BY <1>2, <1>3, <1>5, <1>6, <1>7, <1>8 DEF Adds, Ids


-----------------------------------------------------------------------------
(* Types *)

LEMMA TypedInit == ASSUME Init PROVE Typed /\ Ids
<1> DEFINE c == [target |-> "comment", marker |-> 0, text |-> 0, id |-> 0]
<1> USE EffectsAssumption
<1>1. c \in Created /\ c.id = 0
  BY DEF Created, Target, TopLevel
<1>2. remote = {} \/ remote = {c}
  BY DEF Init
<1> HIDE DEF c
<1>3. Idle \in Running
  BY DEF Idle, Running, Slot
<1>4. Typed
  <2>1. remote \subseteq Created
    BY <1>1, <1>2
  <2>2. body \in [n : 0..MaxRounds, slots : SUBSET (Slot \cup Task)]
    BY DEF Init
  <2>3. lost \in BOOLEAN
    BY DEF Init
  <2>4. head \in 1..MaxHeads /\ trouble \in 0..MaxTrouble
    BY DEF Init
  <2> QED
    BY <1>3, <2>1, <2>2, <2>3, <2>4 DEF Init, Typed
<1>5. Ids
  <2>1. CASE remote = {}
    BY <2>1, FS_EmptySet DEF Ids
  <2>2. CASE remote = {c}
    <3>1. IsFiniteSet(remote) /\ Cardinality(remote) = 1
      BY <2>2, FS_Singleton
    <3> QED
      BY <1>1, <2>2, <3>1 DEF Ids
  <2> QED
    BY <1>2, <2>1, <2>2
<1> QED
  BY <1>4, <1>5

\* Failures are counted up to their bound.
LEMMA Counting ==
    ASSUME Typed, Trouble \/ NoTrouble
    PROVE  trouble' \in 0..MaxTrouble
BY EffectsAssumption DEF Typed, Trouble, NoTrouble

\* A request to create something keeps the types.
LEMMA Requesting ==
    ASSUME Typed, Ids, NEW t \in Target,
           CreateOK(t) \/ CreateFails \/ CreateLost(t)
    PROVE  /\ remote' \subseteq Created /\ Ids'
           /\ trouble' \in 0..MaxTrouble
<1>1. CASE Lands(t)
  BY <1>1, Landing, Counting DEF Adds, Typed, CreateOK, CreateFails, CreateLost
<1>2. CASE UNCHANGED remote
  BY <1>2, Counting DEF Typed, Ids, CreateOK, CreateFails, CreateLost
<1> QED
  BY <1>1, <1>2 DEF CreateOK, CreateFails, CreateLost

LEMMA Targets ==
    /\ "comment" \in Target /\ "review" \in Target /\ "epic" \in Target
    /\ Slot \subseteq Target /\ Task \subseteq Target
BY DEF Target, TopLevel, Slot

\* The attempt is one of three.
LEMMA Tier ==
    ASSUME NEW r \in Running, NEW k \in 1..3
    PROVE  [r EXCEPT !.tier = k] \in Running
BY DEF Running

LEMMA TypedStep == ASSUME Typed, Ids, [Next]_vars PROVE Typed' /\ Ids'
<1> USE EffectsAssumption
<1>1. Idle \in Running
  BY DEF Idle, Running, Slot
<1>f. ASSUME UNCHANGED <<remote>> PROVE Ids'
  BY <1>f DEF Ids
<1>2. CASE Push
  BY <1>2, <1>f DEF Push, Typed
<1>3. CASE Round
  <2>1. body' \in [n : 0..MaxRounds, slots : SUBSET (Slot \cup Task)]
    BY <1>3 DEF Round, Asked, Typed, Slot
  <2> QED
    BY <1>3, <1>f, <2>1 DEF Round, Typed
<1>4. CASE Crash
  <2>1. body' \in [n : 0..MaxRounds, slots : SUBSET (Slot \cup Task)]
    BY <1>4 DEF Crash, Typed
  <2> QED
    BY <1>1, <1>4, <1>f, <2>1, Counting DEF Crash, Typed
<1>5. CASE BeginReplies
  <2> DEFINE r == [Idle EXCEPT !.at = "posting", !.history = recorded, !.todo = body.slots]
  <2>1. r \in Running
    BY <1>1 DEF Running, Typed
  <2> QED
    BY <1>5, <1>f, <2>1, Counting DEF BeginReplies, Began, Typed
<1>6. CASE AskLogin
  BY <1>6, <1>f, Counting DEF AskLogin, Typed
<1>7. CASE PostReply
  <2>1. run.slot \in Target /\ run.slot \in Slot
    BY Targets DEF Typed, Running
  <2>2. run' \in Running
    <3> DEFINE r == [run EXCEPT !.at = "posting", !.out = @ \cup {run.slot}]
               e == [run EXCEPT !.at = "posting", !.err = TRUE]
    <3>1. r \in Running
      BY <2>1 DEF Typed, Running
    <3>2. e \in Running
      BY <2>1 DEF Typed, Running
    <3> QED
      BY <1>7, <3>1, <3>2 DEF PostReply
  <2> QED
    BY <1>7, <2>1, <2>2, Requesting DEF PostReply, Typed
<1>8. CASE EndReplies
  BY <1>1, <1>8, <1>f, Counting DEF EndReplies, Completed, Failed, Typed, Running
<1>9. CASE \E s \in Slot : LookAt(s)
  <2> PICK s \in Slot : LookAt(s)
    BY <1>9
  <2> DEFINE r == [run EXCEPT !.todo = @ \ {s}]
             e == [run EXCEPT !.todo = @ \ {s}, !.at = "creating", !.slot = s]
  <2>1. r \in Running
    BY DEF Typed, Running
  <2>2. e \in Running
    BY DEF Typed, Running
  <2> QED
    BY <1>f, <2>1, <2>2, Counting DEF LookAt, Typed
<1>10. CASE BeginReview
  <2>1. run' \in Running
    <3> PICK sha \in 0..MaxHeads, approve, inline, parsed \in BOOLEAN :
          \/ Began([Idle EXCEPT !.at = IF parsed THEN "review" ELSE "comment",
                                !.sha = sha, !.approve = approve,
                                !.inline = inline])
          \/ Began([Idle EXCEPT !.at = "done", !.sha = sha])
      BY <1>10, ZenonT(30) DEF BeginReview
    <3> DEFINE at == IF parsed THEN "review" ELSE "comment"
    <3>1. at \in {"review", "comment"}
      BY Zenon
    <3> HIDE DEF at
    <3>2. [Idle EXCEPT !.at = at, !.sha = sha, !.approve = approve,
                       !.inline = inline] \in Running
      BY <1>1, <3>1 DEF Running
    <3>3. [Idle EXCEPT !.at = "done", !.sha = sha] \in Running
      BY <1>1 DEF Running
    <3> QED
      BY <3>2, <3>3 DEF Began, at
  <2>2. Trouble \/ NoTrouble
    BY <1>10 DEF BeginReview
  <2> QED
    BY <1>10, <1>f, <2>1, <2>2, Counting DEF BeginReview, Began, Typed
<1>11. CASE PostComment
  <2>1. [run EXCEPT !.at = "done"] \in Running
    BY DEF Typed, Running
  <2> QED
    BY <1>1, <1>11, <2>1, Requesting, Targets DEF PostComment, Typed
<1>12. CASE PostReview
  <2>1. run' \in Running
    <3> DEFINE d == [run EXCEPT !.at = "done"]
               c == [run EXCEPT !.approve = FALSE, !.tier = 2]
               w == [run EXCEPT !.inline = FALSE, !.tier = 3]
    <3>1. d \in Running
      BY DEF Typed, Running
    <3>2. c \in Running
      <4> DEFINE b == [run EXCEPT !.approve = FALSE]
      <4>1. b \in Running
        BY DEF Typed, Running
      <4>2. c = [b EXCEPT !.tier = 2]
        BY DEF Typed, Running
      <4> HIDE DEF b
      <4>3. [b EXCEPT !.tier = 2] \in Running
        BY <4>1, Tier, 2 \in 1..3, Zenon
      <4> QED
        BY <4>2, <4>3, Zenon
    <3>3. w \in Running
      <4> DEFINE b == [run EXCEPT !.inline = FALSE]
      <4>1. b \in Running
        BY DEF Typed, Running
      <4>2. w = [b EXCEPT !.tier = 3]
        BY DEF Typed, Running
      <4> HIDE DEF b
      <4>3. [b EXCEPT !.tier = 3] \in Running
        BY <4>1, Tier, 3 \in 1..3, Zenon
      <4> QED
        BY <4>2, <4>3, Zenon
    <3> QED
      BY <1>1, <1>12, <3>1, <3>2, <3>3 DEF PostReview, Downgrade, Strip
  <2>2. remote' \subseteq Created /\ Ids' /\ trouble' \in 0..MaxTrouble
    BY <1>12, <1>f, Requesting, Targets DEF PostReview, Typed
  <2>3. lost' \in BOOLEAN
    BY <1>12 DEF PostReview, Typed
  <2> QED
    BY <1>12, <2>1, <2>2, <2>3 DEF PostReview, Typed
<1>13. CASE BeginEpic
  <2>1. [Idle EXCEPT !.at = "done"] \in Running /\ [Idle EXCEPT !.at = "epic"] \in Running
    BY <1>1 DEF Running
  <2> QED
    BY <1>13, <1>f, <2>1, Counting DEF BeginEpic, Began, Typed
<1>14. CASE CreateEpic
  <2>1. [run EXCEPT !.at = "tasks", !.todo = body.slots] \in Running
    BY DEF Typed, Running
  <2> QED
    BY <1>1, <1>14, <2>1, Requesting, Targets DEF CreateEpic, Typed
<1>15. CASE Return
  BY <1>1, <1>15, <1>f, Counting DEF Return, Completed, Typed, Running
<1>16. CASE \E t \in Task : CreateTask(t)
  <2> PICK t \in Task : CreateTask(t)
    BY <1>16
  <2>1. [run EXCEPT !.todo = @ \ {t}] \in Running
    BY DEF Typed, Running
  <2> QED
    BY <2>1, Requesting, Targets DEF CreateTask, Typed
<1>17. CASE UNCHANGED vars
  BY <1>17, <1>f DEF vars, Typed
<1> QED
  BY <1>2, <1>3, <1>4, <1>5, <1>6, <1>7, <1>8, <1>9, <1>10, <1>11, <1>12,
     <1>13, <1>14, <1>15, <1>16, <1>17 DEF Next

-----------------------------------------------------------------------------
(* Which handler does what *)

\* A request adds one thing, or nothing and is then a failure.
LEMMA Requested ==
    ASSUME Typed, Ids, NEW t \in Target
    PROVE  /\ CreateOK(t) => Adds(t) /\ trouble' = trouble
           /\ CreateFails => UNCHANGED remote /\ trouble' = trouble + 1
           /\ CreateLost(t) => Adds(t) /\ trouble' = trouble + 1
BY Landing DEF CreateOK, CreateFails, CreateLost, Trouble, NoTrouble

\* What a step may add to what is there.
AddsWithin(T) ==
    \A a \in remote' : a \in remote \/ (a.target \in T /\ a.marker = run.sha)

LEMMA Within ==
    ASSUME Typed, Ids, NEW t \in Target,
           CreateOK(t) \/ CreateFails \/ CreateLost(t)
    PROVE  AddsWithin({t}) /\ remote \subseteq remote'
BY Requested DEF Adds, AddsWithin

LEMMA RolesInit == ASSUME Init PROVE Roles
BY DEF Init, Roles, Replying, Reviewing, Planning, Idle

\* A run that has ended leaves nothing behind, and troubles never lessen.
LEMMA RolesAtRest ==
    ASSUME Typed, Roles, run' = Idle, Trouble \/ NoTrouble,
           UNCHANGED <<job, body, login>>,
           due' = due \/ due' = "no" \/ (due' = "unstored" /\ Trouble),
           due = "yes",
           job = "replies" => AddsWithin({}),
           job = "review" => AddsWithin({"comment", "review"}),
           job = "epic" => AddsWithin({"epic"} \cup Task)
    PROVE  Roles'
<1>1. /\ Idle.at = "idle" /\ Idle.todo = {} /\ Idle.sha = 0
  BY DEF Idle
<1>2. trouble' \in Nat /\ trouble \in Nat /\ trouble' >= trouble
  BY EffectsAssumption DEF Typed, Trouble, NoTrouble
<1>3. due' = "unstored" => trouble' > 0
  BY <1>2, EffectsAssumption DEF Trouble, Roles, Typed
<1>4. job = "replies" => Replying'
  BY <1>1 DEF Roles, Replying, AddsWithin
<1>5. job = "review" => Reviewing'
  BY <1>1 DEF Roles, Reviewing, AddsWithin
<1>6. job = "epic" => Planning'
  BY <1>1 DEF Roles, Planning, AddsWithin
<1> QED
  BY <1>1, <1>2, <1>3, <1>4, <1>5, <1>6 DEF Roles

\* A run that goes on.
LEMMA RolesGoingOn ==
    ASSUME Typed, Roles, run'.at # "idle", due = "yes", Trouble \/ NoTrouble,
           UNCHANGED <<job, body, due>>,
           login' = login \/ (login' = "unknown" => Trouble),
           job = "replies" =>
              /\ AddsWithin(Slot)
              /\ run'.at \in {"posting", "creating"}
              /\ run'.todo \subseteq body.slots,
           job = "review" =>
              /\ AddsWithin({"comment", "review"})
              /\ run'.at \in {"comment", "review", "done"},
           job = "epic" =>
              /\ AddsWithin({"epic"} \cup Task)
              /\ run'.at \in {"epic", "tasks", "done"}
              /\ run'.sha = 0 /\ run'.todo \subseteq Task
    PROVE  Roles'
<1>2. trouble' \in Nat /\ trouble \in Nat /\ trouble' >= trouble
  BY EffectsAssumption DEF Typed, Trouble, NoTrouble
<1>3. login' = "unknown" => trouble' > 0
  BY <1>2, EffectsAssumption DEF Trouble, Roles, Typed
<1>4. job = "replies" => Replying'
  BY DEF Roles, Replying, AddsWithin
<1>5. job = "review" => Reviewing'
  BY DEF Roles, Reviewing, AddsWithin
<1>6. job = "epic" => Planning'
  BY DEF Roles, Planning, AddsWithin
<1> QED
  BY <1>2, <1>3, <1>4, <1>5, <1>6 DEF Roles

LEMMA RolesStep ==
    ASSUME Typed, Ids, Roles, [Next]_vars
    PROVE  Roles'
<1> USE EffectsAssumption
<1>r. run \in Running
  BY DEF Typed
<1>i. /\ Idle.at = "idle" /\ Idle.todo = {} /\ Idle.sha = 0
      /\ Idle.out = {} /\ Idle.history = {} /\ Idle \in Running
  BY DEF Idle, Running, Slot
<1>n. ASSUME UNCHANGED remote PROVE \A T : AddsWithin(T)
  BY <1>n DEF AddsWithin
<1>1. CASE Push
  BY <1>1 DEF Push, Roles, Replying, Reviewing, Planning
<1>2. CASE Round
  <2>1. body' \in [n : 1..MaxRounds, slots : Asked] /\ body' = [n |-> body'.n, slots |-> body'.slots]
    BY <1>2 DEF Round, Typed
  <2>2. run = Idle /\ run' = Idle
    BY <1>2 DEF Round, Roles
  <2>3. job = "replies" => body'.slots \subseteq Slot
    BY <2>1 DEF Asked, Slot
  <2>4. job = "epic" => body'.slots \subseteq Task
    BY <2>1 DEF Asked
  <2> QED
    BY <1>2, <1>i, <2>1, <2>2, <2>3, <2>4
       DEF Round, Roles, Replying, Reviewing, Planning
<1>3. CASE Crash
  <2>1. body'.n = body.n /\ (body' # body => job = "epic" /\ body'.slots = {})
    BY <1>3 DEF Crash, Typed
  <2>2. trouble' > 0 /\ run' = Idle /\ login' = "unasked"
    BY <1>3 DEF Crash, Trouble, Typed
  <2>3. job = "replies" => Replying'
    BY <1>3, <1>i, <2>1 DEF Crash, Roles, Replying
  <2>4. job = "review" => Reviewing'
    BY <1>3, <1>i DEF Crash, Roles, Reviewing
  <2>5. job = "epic" => Planning'
    BY <1>3, <1>i, <2>1 DEF Crash, Roles, Planning
  <2> QED
    BY <1>3, <1>i, <2>1, <2>2, <2>3, <2>4, <2>5 DEF Crash, Roles
<1>4. CASE BeginReplies
  <2>1. run'.at = "posting" /\ run'.todo = body.slots
    BY <1>4, <1>i DEF BeginReplies, Began, Running
  <2> QED
    BY <1>4, <1>n, <2>1, RolesGoingOn DEF BeginReplies, Began
<1>5. CASE AskLogin
  BY <1>5, <1>n, RolesGoingOn DEF AskLogin, Roles, Replying, Reviewing, Planning
<1>6. CASE PostReply
  <2>1. run'.at = "posting" /\ run'.todo = run.todo
    BY <1>6, <1>r DEF PostReply, Running
  <2>2. job = "replies" /\ due = "yes"
    BY <1>6 DEF PostReply, Roles, Reviewing, Planning, Typed
  <2>3. run.slot \in Slot /\ run.slot \in Target
    BY <1>r, Targets DEF Running
  <2>4. AddsWithin(Slot)
    BY <1>6, <2>3, Within DEF PostReply, AddsWithin
  <2>5. Trouble \/ NoTrouble
    BY <1>6 DEF PostReply, CreateOK, CreateFails, CreateLost
  <2> QED
    BY <1>6, <2>1, <2>2, <2>4, <2>5, RolesGoingOn DEF PostReply, Roles, Replying
<1>7. CASE EndReplies
  <2>1. due = "yes" /\ run' = Idle
    BY <1>7 DEF EndReplies, Completed, Failed, Roles
  <2> QED
    BY <1>7, <1>n, <2>1, RolesAtRest DEF EndReplies, Completed, Failed
<1>8. CASE \E s \in Slot : LookAt(s)
  <2> PICK s \in Slot : LookAt(s)
    BY <1>8
  <2> DEFINE r == [run EXCEPT !.todo = @ \ {s}]
             e == [run EXCEPT !.todo = @ \ {s}, !.at = "creating", !.slot = s]
  <2>0. /\ run.at = "posting" => r.at = "posting"
        /\ e.at = "creating"
        /\ r.todo \subseteq run.todo /\ e.todo \subseteq run.todo
    BY <1>r DEF Running
  <2> HIDE DEF r, e
  <2>1. run'.at \in {"posting", "creating"} /\ run'.todo \subseteq run.todo
    BY <2>0 DEF LookAt, r, e
  <2>2. job = "replies" /\ due = "yes"
    BY DEF LookAt, Roles, Reviewing, Planning, Typed
  <2> QED
    BY <1>n, <2>1, <2>2, RolesGoingOn DEF LookAt, Roles, Replying
<1>9. CASE BeginReview
  <2>1. run'.at \in {"comment", "review", "done"}
    <3> PICK sha \in 0..MaxHeads, approve, inline, parsed \in BOOLEAN :
          \/ Began([Idle EXCEPT !.at = IF parsed THEN "review" ELSE "comment",
                                !.sha = sha, !.approve = approve,
                                !.inline = inline])
          \/ Began([Idle EXCEPT !.at = "done", !.sha = sha])
      BY <1>9, ZenonT(30) DEF BeginReview
    <3> QED
      BY <1>i DEF Began, Running
  <2>2. Trouble \/ NoTrouble
    BY <1>9 DEF BeginReview
  <2> QED
    BY <1>9, <1>n, <2>1, <2>2, RolesGoingOn DEF BeginReview, Began
<1>10. CASE PostComment
  <2>1. job = "review" /\ due = "yes"
    BY <1>10 DEF PostComment, Roles, Replying, Planning, Typed
  <2>2. AddsWithin({"comment", "review"})
    BY <1>10, Within, Targets DEF PostComment, AddsWithin
  <2>3. Trouble \/ NoTrouble
    BY <1>10 DEF PostComment, CreateOK, CreateFails, CreateLost
  <2>4. run' = Idle \/ run'.at = "done"
    BY <1>10, <1>r DEF PostComment, Running
  <2>5. CASE run' = Idle
    BY <1>10, <2>1, <2>2, <2>3, <2>5, RolesAtRest DEF PostComment
  <2>6. CASE run'.at = "done"
    BY <1>10, <2>1, <2>2, <2>3, <2>6, RolesGoingOn DEF PostComment
  <2> QED
    BY <2>4, <2>5, <2>6
<1>11. CASE PostReview
  <2>1. job = "review" /\ due = "yes"
    BY <1>11 DEF PostReview, Roles, Replying, Planning, Typed
  <2>2. AddsWithin({"comment", "review"})
    BY <1>11, <1>n, Within, Targets DEF PostReview, AddsWithin
  <2>3. Trouble \/ NoTrouble
    BY <1>11 DEF PostReview, CreateOK, CreateFails, CreateLost, NoTrouble
  <2>4. run' = Idle \/ run'.at \in {"review", "done"}
    BY <1>11, <1>r DEF PostReview, Downgrade, Strip, Running
  <2>5. CASE run' = Idle
    BY <1>11, <2>1, <2>2, <2>3, <2>5, RolesAtRest DEF PostReview
  <2>6. CASE run'.at \in {"review", "done"}
    BY <1>11, <2>1, <2>2, <2>3, <2>6, RolesGoingOn DEF PostReview
  <2> QED
    BY <2>4, <2>5, <2>6
<1>12. CASE BeginEpic
  <2>1. run'.at \in {"epic", "done"} /\ run'.sha = 0 /\ run'.todo = {}
    BY <1>12, <1>i DEF BeginEpic, Began, Running
  <2> QED
    BY <1>12, <1>n, <2>1, RolesGoingOn DEF BeginEpic, Began
<1>13. CASE CreateEpic
  <2>1. job = "epic" /\ due = "yes" /\ run.sha = 0 /\ body.slots \subseteq Task
    BY <1>13 DEF CreateEpic, Roles, Replying, Reviewing, Planning, Typed
  <2>2. AddsWithin({"epic"} \cup Task)
    BY <1>13, Within, Targets DEF CreateEpic, AddsWithin
  <2>3. Trouble \/ NoTrouble
    BY <1>13 DEF CreateEpic, CreateOK, CreateFails, CreateLost
  <2>4. \/ run' = Idle
        \/ run'.at = "tasks" /\ run'.todo = body.slots /\ run'.sha = run.sha
    BY <1>13, <1>r DEF CreateEpic, Running
  <2>5. CASE run' = Idle
    BY <1>13, <2>1, <2>2, <2>3, <2>5, RolesAtRest DEF CreateEpic
  <2>6. CASE run'.at = "tasks" /\ run'.todo = body.slots /\ run'.sha = run.sha
    BY <1>13, <2>1, <2>2, <2>3, <2>6, RolesGoingOn DEF CreateEpic
  <2> QED
    BY <2>4, <2>5, <2>6
<1>14. CASE Return
  <2>1. due = "yes" /\ run' = Idle
    BY <1>14 DEF Return, Completed, Roles
  <2> QED
    BY <1>14, <1>n, <2>1, RolesAtRest DEF Return, Completed
<1>15. CASE \E t \in Task : CreateTask(t)
  <2> PICK t \in Task : CreateTask(t)
    BY <1>15
  <2>1. job = "epic" /\ due = "yes" /\ run.sha = 0 /\ run.todo \subseteq Task
    BY DEF CreateTask, Roles, Replying, Reviewing, Planning, Typed
  <2>2. AddsWithin({"epic"} \cup Task)
    BY Within, Targets DEF CreateTask, AddsWithin
  <2>3. Trouble \/ NoTrouble
    BY DEF CreateTask, CreateOK, CreateFails, CreateLost
  <2>4. run'.at = "tasks" /\ run'.todo \subseteq run.todo /\ run'.sha = run.sha
    BY <1>r DEF CreateTask, Running
  <2> QED
    BY <2>1, <2>2, <2>3, <2>4, RolesGoingOn DEF CreateTask
<1>16. CASE UNCHANGED vars
  BY <1>16 DEF vars, Roles, Replying, Reviewing, Planning
<1> QED
  BY <1>1, <1>2, <1>3, <1>4, <1>5, <1>6, <1>7, <1>8, <1>9, <1>10, <1>11, <1>12,
     <1>13, <1>14, <1>15, <1>16 DEF Next

-----------------------------------------------------------------------------
(* What never lessens *)

LEMMA Lasting ==
    ASSUME Typed, Ids, Roles, [Next]_vars
    PROVE  /\ job' = job /\ remote \subseteq remote'
           /\ trouble' \in {trouble, trouble + 1} /\ body'.n >= body.n
           /\ OneFault' => OneFault
<1>1. job' = job
  BY DEF Next, vars, Push, Round, Crash, BeginReplies, Began, AskLogin,
         PostReply, EndReplies, LookAt, BeginReview, PostComment, PostReview,
         BeginEpic, CreateEpic, Return, CreateTask
<1>2. trouble' \in {trouble, trouble + 1}
  BY DEF Next, vars, Push, Round, Crash, BeginReplies, Began, AskLogin,
         PostReply, EndReplies, Completed, LookAt, BeginReview, PostComment,
         PostReview, BeginEpic, CreateEpic, Return, CreateTask, CreateOK,
         CreateFails, CreateLost, Trouble, NoTrouble
<1>3. remote \subseteq remote'
  BY DEF Next, vars, Push, Round, Crash, BeginReplies, Began, AskLogin,
         PostReply, EndReplies, LookAt, BeginReview, PostComment, PostReview,
         BeginEpic, CreateEpic, Return, CreateTask, CreateOK, CreateFails,
         CreateLost, Lands
<1>4. body'.n = body.n \/ body'.n = body.n + 1
  <2>1. CASE Round
    BY <2>1 DEF Round
  <2>2. CASE Crash
    BY <2>2 DEF Crash, Typed
  <2>3. CASE UNCHANGED body
    BY <2>3
  <2> QED
    BY <2>1, <2>2, <2>3 DEF Next, vars, Push, BeginReplies, Began, AskLogin, PostReply,
       EndReplies, LookAt, BeginReview, PostComment, PostReview, BeginEpic,
       CreateEpic, Return, CreateTask
<1>5. trouble \in Nat /\ body.n \in Nat
  BY EffectsAssumption DEF Typed
<1>6. body'.n >= body.n
  BY <1>4, <1>5
<1>7. OneFault' => OneFault
  BY <1>1, <1>2, <1>4, <1>5 DEF OneFault
<1> QED
  BY <1>1, <1>2, <1>3, <1>6, <1>7

-----------------------------------------------------------------------------
(* Replies *)

LEMMA RepliesSteps ==
    ASSUME Typed, Roles, job = "replies", [Next]_vars
    PROVE  \/ Round \/ Crash \/ BeginReplies \/ AskLogin \/ PostReply \/ EndReplies
           \/ \E s \in Slot : LookAt(s)
           \/ UNCHANGED vars
BY DEF Roles, Replying, Next, Push, BeginReview, PostComment, PostReview,
       BeginEpic, CreateEpic, Return, CreateTask

LEMMA RepliesInit == ASSUME Init, job = "replies" PROVE RepliesInv
<1>1. Slot \cap {"comment"} = {}
  BY EffectsAssumption DEF Slot
<1>2. /\ run.at = "idle" /\ run.out = {} /\ run.history = {} /\ ~run.err
      /\ recorded = {}
  BY DEF Init, Idle
<1>3. \A a \in remote : a.target = "comment"
  BY DEF Init
<1> QED
  BY <1>1, <1>2, <1>3 DEF RepliesInv, RepliesPosted, RepliesOnce

\* A run that has ended has nothing left to post.
LEMMA RepliesAtRest ==
    ASSUME Typed, Ids, Roles, RepliesInv, job = "replies", [Next]_vars,
           run' = Idle, UNCHANGED remote,
           recorded' \subseteq recorded \cup run.out,
           Smooth' => Smooth /\ recorded' = recorded \cup run.out
    PROVE  RepliesInv'
<1>1. Idle.at = "idle" /\ Idle.out = {} /\ Idle.history = {} /\ ~Idle.err
  BY DEF Idle
<1>2. OneFault' => OneFault
  BY Lasting
<1>3. RepliesPosted'
  BY <1>1 DEF RepliesInv, RepliesPosted, On
<1>4. RepliesOnce'
  BY <1>1, <1>2 DEF RepliesInv, RepliesOnce
<1> QED
  BY <1>3, <1>4 DEF RepliesInv

LEMMA RepliesStep ==
    ASSUME Typed, Ids, Roles, RepliesInv, job = "replies", [Next]_vars
    PROVE  RepliesInv'
<1> USE EffectsAssumption
<1>r. run \in Running
  BY DEF Typed
<1>i. /\ Idle.at = "idle" /\ Idle.out = {} /\ Idle.history = {} /\ ~Idle.err
      /\ Idle \in Running
  BY DEF Idle, Running, Slot
<1>l. /\ job' = job /\ remote \subseteq remote' /\ (OneFault' => OneFault)
      /\ trouble' \in {trouble, trouble + 1} /\ trouble \in Nat
  BY Lasting DEF Typed
<1>s. Smooth' => login' = "unknown" \/ trouble = 0
  BY <1>l DEF Smooth
<1>u. ASSUME UNCHANGED login, trouble' # trouble PROVE ~Smooth'
  BY <1>l, <1>u DEF Smooth, Roles
<1>1. CASE Round
  <2>1. run = Idle /\ run' = Idle /\ UNCHANGED remote /\ UNCHANGED recorded
        /\ (Smooth' => Smooth)
    BY <1>1 DEF Round, Roles, Smooth
  <2> QED
    BY <1>i, <2>1, RepliesAtRest
<1>2. CASE Crash
  <2>1. /\ run' = Idle /\ UNCHANGED remote /\ UNCHANGED recorded
        /\ trouble' = trouble + 1 /\ login' = "unasked"
    BY <1>2 DEF Crash, Trouble
  <2>2. ~Smooth'
    BY <1>l, <2>1 DEF Smooth
  <2> QED
    BY <2>1, <2>2, RepliesAtRest
<1>3. CASE BeginReplies
  <2>1. /\ UNCHANGED remote /\ UNCHANGED recorded /\ UNCHANGED body
        /\ UNCHANGED login /\ UNCHANGED trouble
        /\ run = Idle
        /\ run'.at = "posting" /\ run'.history = recorded
        /\ run'.todo = body.slots /\ run'.out = {} /\ ~run'.err
    <3> DEFINE r == [Idle EXCEPT !.at = "posting", !.history = recorded,
                                 !.todo = body.slots]
    <3>1. /\ r.at = "posting" /\ r.history = recorded
          /\ r.todo = body.slots /\ r.out = {}
      BY <1>i DEF Running
    <3>2. ~r.err
      BY DEF Idle
    <3> HIDE DEF r
    <3> QED
      BY <1>3, <3>1, <3>2 DEF BeginReplies, Began, NoTrouble, Roles, r
  <2>2. RepliesPosted'
    BY <1>i, <2>1 DEF RepliesInv, RepliesPosted, On
  <2>3. Smooth' => Smooth
    BY <2>1 DEF Smooth
  <2>4. RepliesOnce'
    BY <1>i, <1>l, <2>1, <2>3 DEF RepliesInv, RepliesOnce
  <2> QED
    BY <2>2, <2>4 DEF RepliesInv
<1>4. CASE AskLogin
  <2>1. UNCHANGED <<remote, recorded, body, run>>
    BY <1>4 DEF AskLogin
  <2>2. Smooth' => Smooth
    BY <1>4, <1>l DEF AskLogin, Smooth, Trouble, NoTrouble
  <2>3. RepliesPosted'
    BY <2>1 DEF RepliesInv, RepliesPosted, On, Conversation
  <2>4. RepliesOnce'
    BY <1>l, <2>1, <2>2 DEF RepliesInv, RepliesOnce, On
  <2> QED
    BY <2>3, <2>4 DEF RepliesInv
<1>5. CASE PostReply
  <2> PICK z : z = run.slot
    OBVIOUS
  <2>0. z \in Slot /\ z \in Target /\ run.at = "creating"
    BY <1>r, <1>5, Targets DEF Running, PostReply
  <2>1. /\ UNCHANGED recorded /\ UNCHANGED body /\ UNCHANGED login
        /\ run'.at = "posting" /\ run'.history = run.history
        /\ run'.todo = run.todo
    BY <1>5, <1>r DEF PostReply, Running
  <2>2. CASE CreateOK(z) /\ run' = [run EXCEPT !.at = "posting", !.out = @ \cup {z}]
    <3>1. run'.out = run.out \cup {z}
      BY <1>r, <2>2 DEF Running
    <3>2. run'.err = run.err
      BY <1>r, <2>2 DEF Running
    <3>3. Adds(z) /\ trouble' = trouble
      BY <2>0, <2>2, Requested
    <3> PICK x \in Created :
          /\ x \notin remote /\ remote' = remote \cup {x} /\ x.target = z
      BY <3>3 DEF Adds
    <3>4. On(z)' # {} /\ Conversation(z)' # {}
      BY DEF On, Conversation
    <3>5. RepliesPosted'
      <4>1. \A s \in recorded' \cup run'.out \cup run'.history : On(s)' # {}
        BY <2>1, <3>1, <3>4 DEF RepliesInv, RepliesPosted, On
      <4>2. ASSUME NEW s \in body'.slots \ run'.todo
            PROVE  Conversation(s)' # {} \/ run'.err
        BY <2>0, <2>1, <3>2, <3>4, <4>2, <1>l
           DEF RepliesInv, RepliesPosted, Conversation
      <4> QED
        BY <4>1, <4>2 DEF RepliesPosted
    <3>6. Smooth' => Smooth
      BY <2>1, <3>3 DEF Smooth
    <3>7. OneFault' => On(z) = {}
      BY <1>l, <2>0 DEF RepliesInv, RepliesOnce
    <3>8. OneFault' => \A a, b \in remote' :
                          a.target = b.target => a = b \/ a.target = "comment"
      BY <1>l, <3>7 DEF RepliesInv, RepliesOnce, On
    <3>9. RepliesOnce'
      BY <2>0, <2>1, <3>1, <3>2, <3>6, <3>8 DEF RepliesInv, RepliesOnce
    <3> QED
      BY <3>5, <3>9 DEF RepliesInv
  <2>3. CASE /\ CreateFails \/ CreateLost(z)
             /\ run' = [run EXCEPT !.at = "posting", !.err = TRUE]
    <3>1. run'.out = run.out
      BY <1>r, <2>3 DEF Running
    <3>2. run'.err
      BY <1>r, <2>3 DEF Running
    <3>3. UNCHANGED remote \/ Adds(z)
      BY <2>0, <2>3, Requested
    <3>4. trouble' # trouble
      BY <1>l, <2>3 DEF CreateFails, CreateLost, Trouble
    <3>5. RepliesPosted'
      BY <1>l, <2>1, <3>1, <3>2 DEF RepliesInv, RepliesPosted, On
    <3>6. ~Smooth'
      BY <1>u, <2>1, <3>4
    <3>7. OneFault' => On(z) = {}
      BY <1>l, <2>0 DEF RepliesInv, RepliesOnce
    <3>8. OneFault' => \A a, b \in remote' :
                          a.target = b.target => a = b \/ a.target = "comment"
      BY <1>l, <3>3, <3>7 DEF RepliesInv, RepliesOnce, On, Adds
    <3>9. RepliesOnce'
      BY <2>0, <2>1, <3>1, <3>6, <3>8 DEF RepliesInv, RepliesOnce
    <3> QED
      BY <3>5, <3>9 DEF RepliesInv
  <2> QED
    BY <1>5, <2>2, <2>3 DEF PostReply
<1>6. CASE EndReplies
  <2>1. run' = Idle /\ UNCHANGED remote /\ recorded' \subseteq recorded \cup run.out
    BY <1>6 DEF EndReplies, Completed, Failed
  <2>2. Smooth' => Smooth /\ recorded' = recorded \cup run.out
    <3>1. CASE Completed /\ NoTrouble
      BY <1>6, <3>1, <1>u, <1>l DEF EndReplies, Completed, NoTrouble, Trouble, Smooth
    <3>2. CASE Completed /\ Trouble
      BY <1>6, <3>2, <1>u, <1>l DEF EndReplies, Trouble
    <3>3. CASE Failed /\ NoTrouble /\ ~NoFirstErr
      BY <1>6, <3>3 DEF EndReplies, NoFirstErr, NoTrouble, Smooth,
                        RepliesInv, RepliesOnce
    <3> QED
      BY <1>6, <3>1, <3>2, <3>3 DEF EndReplies, Completed
  <2> QED
    BY <2>1, <2>2, RepliesAtRest
<1>7. CASE \E s \in Slot : LookAt(s)
  <2> PICK s \in Slot : LookAt(s)
    BY <1>7
  <2> DEFINE r == [run EXCEPT !.todo = @ \ {s}]
             e == [run EXCEPT !.todo = @ \ {s}, !.at = "creating", !.slot = s]
  <2>1. /\ UNCHANGED <<remote, recorded, body, login>>
        /\ run.at = "posting" /\ s \in run.todo
    BY DEF LookAt
  <2>2. /\ r.at = run.at /\ r.todo = run.todo \ {s}
        /\ r.out = run.out /\ r.history = run.history
    BY <1>r DEF Running
  <2>3. /\ e.at = "creating" /\ e.slot = s /\ e.todo = run.todo \ {s}
        /\ e.out = run.out /\ e.history = run.history
    BY <1>r DEF Running
  <2>4. r.err = run.err /\ e.err = run.err
    BY <1>r DEF Running
  <2>s. Smooth' => Smooth
    BY <1>l, <1>u, <2>1 DEF Smooth
  <2> HIDE DEF r, e
  <2>5. CASE (s \in run.history \/ AlreadyThere(s)) /\ run' = r
    <3>1. Conversation(s) # {}
      BY <2>5 DEF RepliesInv, RepliesPosted, AlreadyThere, On, Conversation
    <3>2. RepliesPosted'
      BY <2>1, <2>2, <2>4, <2>5, <3>1
         DEF RepliesInv, RepliesPosted, On, Conversation
    <3>3. RepliesOnce'
      BY <1>l, <2>1, <2>2, <2>4, <2>s, <2>5 DEF RepliesInv, RepliesOnce
    <3> QED
      BY <3>2, <3>3 DEF RepliesInv
  <2>6. CASE /\ s \notin run.history /\ run' = e
             /\ (NoTrouble /\ ~AlreadyThere(s)) \/ Trouble
    <3>1. RepliesPosted'
      BY <2>1, <2>3, <2>4, <2>6 DEF RepliesInv, RepliesPosted, On, Conversation
    <3>2. s \notin recorded \cup run.out
      BY <2>1, <2>6 DEF RepliesInv, RepliesOnce
    <3>3. Smooth => On(s) = {}
      BY <3>2 DEF RepliesInv, RepliesOnce, On
    <3>4. OneFault' => On(s)' = {}
      <4>1. CASE Trouble
        <5>1. OneFault' => trouble = 0
          BY <1>l, <4>1 DEF OneFault, Trouble
        <5> QED
          BY <2>1, <3>3, <5>1 DEF Smooth, On
      <4>2. CASE NoTrouble /\ ~AlreadyThere(s) /\ On(s) # {}
        <5>1. login = "unknown"
          BY <2>1, <2>6, <4>2 DEF LookAt, AlreadyThere, On, Conversation, Typed
        <5>2. OneFault' => Smooth
          BY <1>l, <5>1 DEF OneFault, Smooth, Roles
        <5> QED
          BY <3>3, <4>2, <5>2
      <4>3. CASE On(s) = {}
        BY <2>1, <4>3 DEF On
      <4> QED
        BY <2>6, <4>1, <4>2, <4>3
    <3>5. RepliesOnce'
      BY <1>l, <2>1, <2>3, <2>4, <2>s, <2>6, <3>4 DEF RepliesInv, RepliesOnce
    <3> QED
      BY <3>1, <3>5 DEF RepliesInv
  <2> QED
    BY <2>5, <2>6 DEF LookAt, r, e
<1>8. CASE UNCHANGED vars
  BY <1>8 DEF vars, RepliesInv, RepliesPosted, RepliesOnce, Smooth, OneFault,
              On, Conversation
<1> QED
  BY <1>1, <1>2, <1>3, <1>4, <1>5, <1>6, <1>7, <1>8, RepliesSteps

-----------------------------------------------------------------------------
(* What the first round finds *)

LEMMA UntouchedInit == ASSUME Init, job # "replies" PROVE Untouched
BY DEF Init, Untouched

\* Something has gone wrong, or nothing was created, or the handler is done.
LEMMA UntouchedKept ==
    ASSUME Typed, Roles, Untouched, trouble' \in {trouble, trouble + 1},
           \/ trouble' # trouble
           \/ UNCHANGED <<body, due, remote>> /\ run'.at \in {run.at, "tasks", "done"}
           \/ UNCHANGED <<body, due, remote>> /\ due = "yes"
                 /\ run.at \notin {"tasks", "done"}
           \/ UNCHANGED <<body, due>> /\ due = "yes" /\ run'.at \in {"tasks", "done"}
           \/ UNCHANGED body /\ due = "yes" /\ due' = "no"
    PROVE  Untouched'
<1>1. trouble \in Nat /\ body.n \in Nat
  BY EffectsAssumption DEF Typed
<1> QED
  BY <1>1 DEF Untouched, Roles

-----------------------------------------------------------------------------
(* The review *)

LEMMA ReviewSteps ==
    ASSUME Typed, Roles, job = "review", [Next]_vars
    PROVE  \/ Push \/ Round \/ Crash \/ BeginReview \/ PostComment \/ PostReview
           \/ Return \/ UNCHANGED vars
BY DEF Roles, Reviewing, Next, BeginReplies, AskLogin, LookAt, PostReply,
       EndReplies, BeginEpic, CreateEpic, CreateTask

LEMMA ReviewInit == ASSUME Init, job = "review" PROVE ReviewInv
<1>1. Idle.at = "idle" /\ Idle.out = {} /\ Idle.history = {}
  BY DEF Idle
<1>2. ReviewPosted
  BY <1>1 DEF Init, ReviewPosted
<1>3. ReviewOnce
  BY <1>1 DEF Init, ReviewOnce
<1> QED
  BY <1>2, <1>3, UntouchedInit DEF ReviewInv

\* How a review begins.
LEMMA ReviewBegun ==
    ASSUME Typed, Roles, BeginReview
    PROVE  /\ run'.out = {} /\ run'.history = {} /\ run = Idle
           /\ \/ /\ run'.at \in {"comment", "review"}
                 /\ Trouble \/ Reviews(run'.sha) = {}
              \/ run'.at = "done" /\ Reviews(run'.sha) # {}
           /\ due = "yes" /\ (Trouble \/ NoTrouble)
           /\ UNCHANGED <<job, remote, head, body, due, recorded, login, lost>>
<1>i. Idle \in Running /\ Idle.out = {} /\ Idle.history = {}
  BY EffectsAssumption DEF Idle, Running, Slot
<1> PICK sha \in 0..MaxHeads, approve, inline, parsed \in BOOLEAN :
      \/ /\ Began([Idle EXCEPT !.at = IF parsed THEN "review" ELSE "comment",
                               !.sha = sha, !.approve = approve,
                               !.inline = inline])
         /\ Trouble \/ (Reviews(sha) = {} /\ NoTrouble)
      \/ /\ Began([Idle EXCEPT !.at = "done", !.sha = sha])
         /\ Reviews(sha) # {} /\ NoTrouble
  BY ZenonT(30) DEF BeginReview
<1> DEFINE at == IF parsed THEN "review" ELSE "comment"
<1>1. at \in {"review", "comment"}
  BY Zenon
<1> HIDE DEF at
<1> DEFINE p == [Idle EXCEPT !.at = at, !.sha = sha, !.approve = approve,
                             !.inline = inline]
           d == [Idle EXCEPT !.at = "done", !.sha = sha]
<1>2. p.at = at /\ p.sha = sha /\ p.out = {} /\ p.history = {}
  BY <1>i DEF Running
<1>3. d.at = "done" /\ d.sha = sha /\ d.out = {} /\ d.history = {}
  BY <1>i DEF Running
<1> HIDE DEF p, d
<1>4. \/ Began(p) /\ (Trouble \/ (Reviews(sha) = {} /\ NoTrouble))
      \/ Began(d) /\ Reviews(sha) # {} /\ NoTrouble
  BY DEF at, p, d
<1>5. run = Idle
  BY <1>4 DEF Began, Roles
<1>6. CASE Began(p) /\ (Trouble \/ (Reviews(sha) = {} /\ NoTrouble))
  BY <1>1, <1>2, <1>5, <1>6 DEF Began
<1>7. CASE Began(d) /\ Reviews(sha) # {} /\ NoTrouble
  BY <1>3, <1>5, <1>7 DEF Began
<1> QED
  BY <1>4, <1>6, <1>7

LEMMA ReviewStep ==
    ASSUME Typed, Ids, Roles, ReviewInv, job = "review", [Next]_vars
    PROVE  ReviewInv'
<1> USE EffectsAssumption
<1>r. run \in Running
  BY DEF Typed
<1>i. Idle.at = "idle" /\ Idle.out = {} /\ Idle.history = {}
  BY DEF Idle
<1>l. /\ job' = job /\ remote \subseteq remote' /\ (OneFault' => OneFault)
      /\ trouble' \in {trouble, trouble + 1} /\ trouble \in Nat
      /\ body.n \in Nat
  BY Lasting DEF Typed
<1>1. CASE Push
  BY <1>1 DEF Push, ReviewInv, ReviewPosted, ReviewOnce, Untouched, OneFault,
              Reviews, On
<1>2. CASE Round
  <2>1. /\ run = Idle /\ run' = Idle
        /\ UNCHANGED <<remote, recorded, trouble, lost>> /\ body'.n = body.n + 1
    BY <1>2 DEF Round, Roles
  <2>2. ReviewPosted' /\ ReviewOnce'
    BY <1>i, <1>l, <2>1 DEF ReviewInv, ReviewPosted, ReviewOnce
  <2>3. Untouched'
    BY <1>l, <2>1 DEF ReviewInv, Untouched
  <2> QED
    BY <2>2, <2>3 DEF ReviewInv
<1>3. CASE Crash
  <2>1. /\ run' = Idle /\ UNCHANGED <<remote, recorded, lost>>
        /\ trouble' # trouble
    BY <1>3, <1>l DEF Crash, Trouble
  <2>2. ReviewPosted' /\ ReviewOnce'
    BY <1>i, <1>l, <2>1 DEF ReviewInv, ReviewPosted, ReviewOnce
  <2> QED
    BY <1>l, <2>1, <2>2, UntouchedKept DEF ReviewInv
<1>4. CASE BeginReview
  <2>1. ReviewPosted'
    BY <1>4, ReviewBegun DEF ReviewInv, ReviewPosted, Reviews, On
  <2>2. Untouched'
    <3>1. \/ trouble' # trouble
          \/ /\ UNCHANGED <<body, due, remote>>
             /\ due = "yes" /\ run.at \notin {"tasks", "done"}
      BY <1>4, <1>i, ReviewBegun
    <3> QED
      BY <1>l, <3>1, UntouchedKept DEF ReviewInv
  <2>3. Trouble /\ OneFault' => remote' = {}
    <3>1. Trouble /\ OneFault' => trouble = 0 /\ body.n <= 1
      BY <1>4, <1>l, ReviewBegun DEF Trouble, OneFault
    <3> QED
      BY <1>4, <1>i, <3>1, ReviewBegun DEF ReviewInv, Untouched
  <2>4. ReviewOnce'
    <3>1. OneFault' /\ run'.at = "review" => Reviews(run.sha)' = {}
      BY <1>4, <2>3, ReviewBegun DEF Reviews, On
    <3> QED
      BY <1>4, <1>l, <3>1, ReviewBegun DEF ReviewInv, ReviewOnce
  <2> QED
    BY <2>1, <2>2, <2>4 DEF ReviewInv
<1>5. CASE PostComment
  <2>0. due = "yes" /\ "comment" \in Target
    BY <1>5, Targets DEF PostComment, Roles
  <2>1. UNCHANGED <<body, due, recorded, lost>>
    BY <1>5 DEF PostComment
  <2>2. CASE CreateOK("comment") /\ run' = [run EXCEPT !.at = "done"]
    <3>1. run'.at = "done" /\ run'.out = run.out /\ run'.history = run.history
      BY <1>r, <2>2 DEF Running
    <3>2. Adds("comment")
      BY <2>0, <2>2, Requested
    <3>3. ReviewPosted'
      BY <2>1, <3>1, <3>2 DEF ReviewInv, ReviewPosted, Adds, On
    <3>4. ReviewOnce'
      BY <1>l, <2>1, <3>1, <3>2 DEF ReviewInv, ReviewOnce, Adds, SameTarget
    <3> QED
      BY <1>l, <2>0, <2>1, <3>1, <3>3, <3>4, UntouchedKept DEF ReviewInv
  <2>3. CASE (CreateFails \/ CreateLost("comment")) /\ run' = Idle
    <3>1. trouble' # trouble /\ (UNCHANGED remote \/ Adds("comment"))
      BY <1>l, <2>0, <2>3, Requested
    <3>2. ReviewPosted'
      BY <1>i, <2>1, <2>3 DEF ReviewInv, ReviewPosted
    <3>3. ReviewOnce'
      BY <1>i, <1>l, <2>1, <2>3, <3>1 DEF ReviewInv, ReviewOnce, Adds, SameTarget
    <3> QED
      BY <1>l, <3>1, <3>2, <3>3, UntouchedKept DEF ReviewInv
  <2> QED
    BY <1>5, <2>2, <2>3 DEF PostComment
<1>6. CASE PostReview
  <2>0. due = "yes" /\ "review" \in Target /\ run.at = "review"
    BY <1>6, Targets DEF PostReview, Roles
  <2>1. UNCHANGED <<body, due, recorded>>
    BY <1>6 DEF PostReview
  <2>2. CASE CreateOK("review") /\ run' = [run EXCEPT !.at = "done"] /\ UNCHANGED lost
    <3>1. /\ run'.at = "done" /\ run'.out = run.out /\ run'.history = run.history
          /\ run'.sha = run.sha
      BY <1>r, <2>2 DEF Running
    <3>2. Adds("review")
      BY <2>0, <2>2, Requested
    <3>3. ReviewPosted'
      BY <2>1, <3>1, <3>2 DEF ReviewInv, ReviewPosted, Adds, Reviews, On
    <3>4. OneFault' /\ ~lost' => Reviews(run.sha) = {}
      BY <1>l, <2>0, <2>2 DEF ReviewInv, ReviewOnce
    <3>5. ReviewOnce'
      BY <1>l, <2>1, <2>2, <3>1, <3>2, <3>4
         DEF ReviewInv, ReviewOnce, Adds, SameTarget, Reviews, On
    <3> QED
      BY <1>l, <2>0, <2>1, <3>1, <3>3, <3>5, UntouchedKept DEF ReviewInv
  <2>3. ASSUME Downgrade \/ Strip \/ run' = Idle
        PROVE  /\ run' = Idle \/ (run'.at = "review" /\ run'.sha = run.sha)
               /\ run'.out = {} /\ run'.history = {}
    <3>1. CASE run' = [run EXCEPT !.approve = FALSE, !.tier = 2]
      BY <1>r, <2>0, <3>1 DEF Running, ReviewInv, ReviewPosted
    <3>2. CASE run' = [run EXCEPT !.inline = FALSE, !.tier = 3]
      BY <1>r, <2>0, <3>2 DEF Running, ReviewInv, ReviewPosted
    <3>3. CASE run' = Idle
      BY <1>i, <3>3
    <3> QED
      BY <2>3, <3>1, <3>2, <3>3, Zenon DEF Downgrade, Strip
  <2>4. CASE /\ Downgrade \/ Strip \/ run' = Idle
             /\ UNCHANGED <<remote, trouble, lost>>
    <3>1. ReviewPosted'
      BY <1>i, <2>1, <2>3, <2>4 DEF ReviewInv, ReviewPosted
    <3>2. ReviewOnce'
      BY <1>i, <1>l, <2>0, <2>3, <2>4 DEF ReviewInv, ReviewOnce, Reviews, On
    <3> QED
      BY <1>l, <2>0, <2>1, <2>4, <3>1, <3>2, UntouchedKept DEF ReviewInv
  <2>5. CASE CreateFails /\ Strip /\ UNCHANGED lost
    <3>1. trouble' # trouble /\ UNCHANGED remote
      BY <1>l, <2>0, <2>5, Requested
    <3>2. ReviewPosted'
      BY <1>i, <2>1, <2>3, <2>5 DEF ReviewInv, ReviewPosted
    <3>3. ReviewOnce'
      BY <1>i, <1>l, <2>0, <2>3, <2>5, <3>1 DEF ReviewInv, ReviewOnce, Reviews, On
    <3> QED
      BY <1>l, <3>1, <3>2, <3>3, UntouchedKept DEF ReviewInv
  <2>6. CASE CreateLost("review") /\ Strip /\ lost' = (lost \/ run.inline)
    <3>1. trouble' # trouble /\ Adds("review")
      BY <1>l, <2>0, <2>6, Requested
    <3>2. ReviewPosted'
      BY <1>i, <2>1, <2>3, <2>6 DEF ReviewInv, ReviewPosted
    <3>3. ~lost' => ~lost /\ run' = Idle
      BY <2>6, Zenon DEF Strip
    <3>4. OneFault' /\ ~lost' => Reviews(run.sha) = {}
      BY <1>l, <2>0, <3>3 DEF ReviewInv, ReviewOnce
    <3>5. ReviewOnce'
      BY <1>i, <1>l, <3>1, <3>3, <3>4
         DEF ReviewInv, ReviewOnce, Adds, SameTarget, Reviews, On
    <3> QED
      BY <1>l, <3>1, <3>2, <3>5, UntouchedKept DEF ReviewInv
  <2> QED
    BY <1>6, <2>2, <2>4, <2>5, <2>6 DEF PostReview
<1>7. CASE Return
  <2>1. /\ run' = Idle /\ due = "yes" /\ UNCHANGED <<remote, body, lost>>
        /\ recorded' = {}
        /\ trouble' # trouble \/ due' = "no"
    BY <1>7, <1>l DEF Return, Completed, Roles, Trouble, ReviewInv, ReviewPosted
  <2>2. ReviewPosted' /\ ReviewOnce'
    BY <1>i, <1>l, <2>1 DEF ReviewInv, ReviewPosted, ReviewOnce
  <2> QED
    BY <1>l, <2>1, <2>2, UntouchedKept DEF ReviewInv
<1>8. CASE UNCHANGED vars
  BY <1>8 DEF vars, ReviewInv, ReviewPosted, ReviewOnce, Untouched, OneFault,
              Reviews, On
<1> QED
  BY <1>1, <1>2, <1>3, <1>4, <1>5, <1>6, <1>7, <1>8, ReviewSteps

-----------------------------------------------------------------------------
(* The epic *)

LEMMA EpicSteps ==
    ASSUME Typed, Roles, job = "epic", [Next]_vars
    PROVE  \/ Round \/ Crash \/ BeginEpic \/ CreateEpic \/ Return
           \/ \E t \in Task : CreateTask(t)
           \/ UNCHANGED vars
BY DEF Roles, Planning, Next, Push, BeginReplies, AskLogin, LookAt, PostReply,
       EndReplies, BeginReview, PostComment, PostReview

LEMMA EpicInit == ASSUME Init, job = "epic" PROVE EpicInv
<1>1. Idle.at = "idle" /\ Idle.out = {} /\ Idle.history = {}
  BY DEF Idle
<1>2. EpicPosted
  BY <1>1 DEF Init, EpicPosted
<1>3. EpicOnce
  BY <1>1 DEF Init, EpicOnce
<1> QED
  BY <1>2, <1>3, UntouchedInit DEF EpicInv

LEMMA EpicStep ==
    ASSUME Typed, Ids, Roles, EpicInv, job = "epic", [Next]_vars
    PROVE  EpicInv'
<1> USE EffectsAssumption
<1>r. run \in Running
  BY DEF Typed
<1>i. Idle.at = "idle" /\ Idle.out = {} /\ Idle.history = {} /\ Idle \in Running
  BY DEF Idle, Running, Slot
<1>l. /\ job' = job /\ remote \subseteq remote' /\ (OneFault' => OneFault)
      /\ trouble' \in {trouble, trouble + 1} /\ trouble \in Nat
      /\ body.n \in Nat
  BY Lasting DEF Typed
<1>e. "epic" \notin Task /\ "epic" \in Target
  BY Targets
<1>1. CASE Round
  <2>1. /\ run = Idle /\ run' = Idle
        /\ UNCHANGED <<remote, recorded, trouble>> /\ body'.n = body.n + 1
    BY <1>1 DEF Round, Roles
  <2>2. EpicPosted'
    BY <1>i, <2>1 DEF EpicInv, EpicPosted, On
  <2>3. EpicOnce'
    BY <1>i, <1>l, <2>1 DEF EpicInv, EpicOnce
  <2>4. Untouched'
    BY <1>l, <2>1 DEF EpicInv, Untouched
  <2> QED
    BY <2>2, <2>3, <2>4 DEF EpicInv
<1>2. CASE Crash
  <2>1. run' = Idle /\ UNCHANGED <<remote, recorded>> /\ trouble' # trouble
    BY <1>2, <1>l DEF Crash, Trouble
  <2>2. EpicPosted'
    BY <1>i, <2>1 DEF EpicInv, EpicPosted, On
  <2>3. EpicOnce'
    BY <1>i, <1>l, <2>1 DEF EpicInv, EpicOnce
  <2> QED
    BY <1>l, <2>1, <2>2, <2>3, UntouchedKept DEF EpicInv
<1>3. CASE BeginEpic
  <2>1. /\ run'.out = {} /\ run'.history = {} /\ run = Idle /\ due = "yes"
        /\ UNCHANGED <<remote, body, due, recorded>>
        /\ \/ run'.at = "done" /\ On("epic") # {} /\ NoTrouble
           \/ run'.at = "epic" /\ ((On("epic") = {} /\ NoTrouble) \/ Trouble)
    BY <1>3, <1>i DEF BeginEpic, Began, ExistingEpic, Roles, Running
  <2>2. EpicPosted'
    BY <2>1 DEF EpicInv, EpicPosted, On
  <2>3. Trouble /\ OneFault' => remote = {}
    <3>1. Trouble /\ OneFault' => trouble = 0 /\ body.n <= 1
      BY <1>l, <2>1 DEF Trouble, OneFault
    <3> QED
      BY <1>i, <2>1, <3>1 DEF EpicInv, Untouched
  <2>4. EpicOnce'
    BY <1>l, <2>1, <2>3 DEF EpicInv, EpicOnce, On
  <2> QED
    BY <1>i, <1>l, <2>1, <2>2, <2>4, UntouchedKept DEF EpicInv
<1>4. CASE CreateEpic
  <2>0. /\ due = "yes" /\ run.at = "epic" /\ UNCHANGED <<body, due, recorded>>
        /\ body.slots \subseteq Task
    BY <1>4 DEF CreateEpic, Roles, Planning
  <2>1. OneFault' => remote = {}
    BY <1>l, <2>0 DEF EpicInv, EpicPosted, EpicOnce
  <2>2. CASE /\ CreateOK("epic")
             /\ run' = [run EXCEPT !.at = "tasks", !.todo = body.slots]
    <3>1. /\ run'.at = "tasks" /\ run'.out = run.out
          /\ run'.history = run.history /\ run'.todo \subseteq Task
      BY <1>r, <2>0, <2>2 DEF Running
    <3>2. Adds("epic")
      BY <1>e, <2>2, Requested
    <3>3. EpicPosted'
      BY <2>0, <3>1, <3>2 DEF EpicInv, EpicPosted, On, Adds
    <3>4. EpicOnce'
      BY <1>e, <2>1, <3>1, <3>2 DEF EpicOnce, On, Adds
    <3> QED
      BY <1>l, <2>0, <3>1, <3>3, <3>4, UntouchedKept DEF EpicInv
  <2>3. CASE (CreateFails \/ CreateLost("epic")) /\ run' = Idle
    <3>1. trouble' # trouble /\ (UNCHANGED remote \/ Adds("epic"))
      BY <1>e, <1>l, <2>3, Requested
    <3>2. EpicPosted'
      BY <1>i, <2>0, <2>3, <3>1 DEF EpicInv, EpicPosted, On, Adds
    <3>3. EpicOnce'
      BY <1>i, <2>1, <2>3, <3>1 DEF EpicOnce, Adds
    <3> QED
      BY <1>l, <3>1, <3>2, <3>3, UntouchedKept DEF EpicInv
  <2> QED
    BY <1>4, <2>2, <2>3 DEF CreateEpic
<1>5. CASE Return
  <2>1. /\ run' = Idle /\ due = "yes" /\ UNCHANGED <<remote, body>>
        /\ recorded' = {}
        /\ trouble' # trouble \/ due' = "no"
    BY <1>5, <1>l DEF Return, Completed, Roles, Trouble, EpicInv, EpicPosted
  <2>2. EpicPosted'
    BY <1>i, <2>1 DEF EpicInv, EpicPosted, On
  <2>3. EpicOnce'
    BY <1>i, <1>l, <2>1 DEF EpicInv, EpicOnce
  <2> QED
    BY <1>l, <2>1, <2>2, <2>3, UntouchedKept DEF EpicInv
<1>6. CASE \E t \in Task : CreateTask(t)
  <2> PICK t \in Task : CreateTask(t)
    BY <1>6
  <2>1. /\ run.at = "tasks" /\ due = "yes" /\ t \in run.todo
        /\ UNCHANGED <<body, due, recorded>>
    BY DEF CreateTask, Roles
  <2>2. /\ run'.at = "tasks" /\ run'.out = run.out
        /\ run'.history = run.history /\ run'.todo = run.todo \ {t}
    BY <1>r, <2>1 DEF CreateTask, Running
  <2>3. UNCHANGED remote \/ Adds(t)
    BY Requested, Targets DEF CreateTask
  <2>4. EpicPosted'
    BY <1>l, <2>1, <2>2 DEF EpicInv, EpicPosted, On
  <2>5. OneFault' => On(t) = {}
    BY <1>l, <2>1 DEF EpicInv, EpicOnce
  <2>6. EpicOnce'
    BY <1>l, <2>1, <2>2, <2>3, <2>5 DEF EpicInv, EpicOnce, On, Adds
  <2> QED
    BY <1>l, <2>1, <2>2, <2>4, <2>6, UntouchedKept DEF EpicInv
<1>7. CASE UNCHANGED vars
  BY <1>7 DEF vars, EpicInv, EpicPosted, EpicOnce, Untouched, OneFault, On
<1> QED
  BY <1>1, <1>2, <1>3, <1>4, <1>5, <1>6, <1>7, EpicSteps

-----------------------------------------------------------------------------
(* The theorems *)

\* The invariant of all three handlers.
THEOREM Inductive == Spec => []IInv
<1>1. Init => IInv
  <2> SUFFICES ASSUME Init PROVE IInv
    OBVIOUS
  <2> QED
    BY TypedInit, RolesInit, RepliesInit, ReviewInit, EpicInit DEF IInv
<1>2. IInv /\ [Next]_vars => IInv'
  <2> SUFFICES ASSUME IInv, [Next]_vars PROVE IInv'
    OBVIOUS
  <2> QED
    BY TypedStep, RolesStep, RepliesStep, ReviewStep, EpicStep, Lasting DEF IInv
<1> QED
  BY <1>1, <1>2, PTL DEF Spec

\* The state is of its types, ids are unique, and what the log records as
\* posted is there (pr_comment_poster.go, postStructured).
THEOREM TypeCorrect == Spec => []TypeOK
<1>1. IInv => TypeOK
  BY DEF IInv, Typed, Ids, Roles, RepliesInv, RepliesPosted, ReviewInv,
         ReviewPosted, EpicInv, EpicPosted, TypeOK, On, Created, Running
<1> QED
  BY <1>1, Inductive, PTL

\* Nothing is posted or created a second time before two things went wrong.
THEOREM NothingTwice == Spec => []RepeatNeedsTwoFaults
<1>1. IInv => RepeatNeedsTwoFaults
  BY DEF IInv, Typed, RepliesInv, RepliesOnce, ReviewInv, ReviewOnce, EpicInv,
         EpicOnce, RepeatNeedsTwoFaults, SameTarget
<1> QED
  BY <1>1, Inductive, PTL

\* A handler completes only when what it had to say is there.
THEOREM SaidBeforeDone == Spec => CompletedIsPosted
<1> DEFINE Said ==
      due = "yes" /\ due' # "yes" =>
        CASE job = "replies" -> \A s \in body.slots : Conversation(s) # {}
          [] job = "review"  -> Reviews(run.sha) \cup On("comment") # {}
          [] job = "epic"    -> On("epic") # {}
<1>1. IInv /\ [Next]_vars => [Said]_vars
  <2> SUFFICES ASSUME IInv, [Next]_vars, due = "yes", due' # "yes"
               PROVE  Said
    OBVIOUS
  <2>1. CASE job = "replies"
    <3>1. EndReplies
      BY <2>1, RepliesSteps
         DEF IInv, Round, Crash, BeginReplies, Began, AskLogin, PostReply, LookAt, vars
    <3>2. run.at = "posting" /\ run.todo = {} /\ ~run.err
      BY <3>1 DEF EndReplies, Failed, NoFirstErr
    <3>3. \A s \in body.slots : Conversation(s) # {}
      BY <2>1, <3>2 DEF IInv, RepliesInv, RepliesPosted
    <3> QED
      BY <2>1, <3>3
  <2>2. CASE job = "review"
    <3>1. Return
      BY <2>2, ReviewSteps
         DEF IInv, Push, Round, Crash, BeginReview, Began, PostComment,
             PostReview, vars
    <3>2. Reviews(run.sha) \cup On("comment") # {}
      BY <2>2, <3>1 DEF Return, IInv, Roles, Reviewing, ReviewInv, ReviewPosted
    <3> QED
      BY <2>2, <3>2
  <2>3. CASE job = "epic"
    <3>1. Return
      BY <2>3, EpicSteps
         DEF IInv, Round, Crash, BeginEpic, Began, CreateEpic, CreateTask, vars
    <3>2. On("epic") # {}
      BY <2>3, <3>1 DEF Return, IInv, EpicInv, EpicPosted
    <3> QED
      BY <2>3, <3>2
  <2> QED
    BY <2>1, <2>2, <2>3 DEF IInv, Typed
<1> QED
  BY <1>1, Inductive, PTL DEF Spec, CompletedIsPosted
=============================================================================
