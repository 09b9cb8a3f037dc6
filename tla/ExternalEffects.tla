--------------------------- MODULE ExternalEffects ---------------------------
(***************************************************************************)
(* Handlers whose work is a change in somebody else's system, under a      *)
(* runner that dispatches them again after a failure, an operator's retry, *)
(* or a restart: the poster of replies on a pull request                   *)
(* (internal/handler/pr_comment_poster.go), the poster of its review       *)
(* (pr_consolidator.go), and the creator of a Jira epic and its tasks      *)
(* (internal/jiraplanner/creator.go).  Each looks at what is already there *)
(* before it creates anything; a call may fail, and may fail although it   *)
(* was carried out.                                                        *)
(*                                                                         *)
(* A behaviour is about one of them, job.  The look and the creation that  *)
(* follows it are one step: nobody else posts under Rick's account.  Left  *)
(* out: clients that are not configured, and the links between tasks.      *)
(***************************************************************************)
EXTENDS Naturals, FiniteSets

CONSTANTS
    Thread,     \* review threads that may be replied to
    Task,       \* the tasks of the plan, with distinct titles
    MaxRounds,  \* bound: times the workflow comes to the handler
    MaxHeads,   \* bound: head commits of the pull request
    MaxTrouble  \* bound: calls, look-ups and writes that fail, and crashes

ASSUME EffectsAssumption ==
    /\ IsFiniteSet(Thread) /\ IsFiniteSet(Task)
    /\ Thread \cap Task = {}
    /\ {"summary", "reply", "comment", "review", "epic"} \cap (Thread \cup Task) = {}
    /\ MaxRounds \in Nat /\ MaxHeads \in Nat \ {0} /\ MaxTrouble \in Nat

\* "summary" and "reply" are top-level comments of the poster, "comment" is
\* what the consolidator posts when the answer is not JSON, or anybody under
\* Rick's account in an earlier workflow.
TopLevel == {"summary", "reply", "comment"}
Slot == {"summary", "reply"} \cup Thread
Target == TopLevel \cup Thread \cup {"review", "epic"} \cup Task

VARIABLES
    job,       \* "replies", "review" or "epic"
    remote,    \* what has been created, for which answer; a review has a
               \* marker with its head, or none (0)
    head,      \* head commit of the pull request
    body,      \* what the persona before it last asked for: pr-replier's
               \* answer and where it is to go, or the plan
    due,       \* "yes" until the handler completes; "unstored" if it has,
               \* but its events could not be written
    recorded,  \* the log's PRCommentPosted that are not skipped
    login,     \* botLogin: "unasked", "known" or "unknown"
    run,       \* the handler's run, if there is one
    trouble,   \* failures and crashes so far
    lost       \* a review with inline comments went through, and its answer
               \* did not come back (history)

vars == <<job, remote, head, body, due, recorded, login, run, trouble, lost>>

\* history, todo and out are loadPosterHistory, what is left to create, and
\* the events to return; slot is the one it is at and err is firstErr.  sha,
\* approve and inline are the review being posted, tier which attempt it is.
Idle == [at |-> "idle", history |-> {}, todo |-> {}, slot |-> "summary",
         out |-> {}, err |-> FALSE,
         sha |-> 0, approve |-> FALSE, inline |-> FALSE, tier |-> 1]

TypeOK ==
    /\ job \in {"replies", "review", "epic"}
    /\ remote \subseteq [target : Target, marker : 0..MaxHeads,
                          text : 0..MaxRounds, id : Nat]
    /\ \A a, b \in remote : a.id = b.id => a = b
    /\ head \in 1..MaxHeads
    /\ body \in [n : 0..MaxRounds, slots : SUBSET (Slot \cup Task)]
    /\ due \in {"no", "yes", "unstored"}
    /\ recorded \subseteq Slot
    /\ login \in {"unasked", "known", "unknown"}
    /\ run \in [at : {"idle", "posting", "creating", "comment", "review",
                      "epic", "tasks", "done"},
                history : SUBSET Slot, todo : SUBSET (Slot \cup Task),
                slot : Slot, out : SUBSET Slot, err : BOOLEAN,
                sha : 0..MaxHeads, approve : BOOLEAN, inline : BOOLEAN,
                tier : 1..3]
    /\ trouble \in 0..MaxTrouble
    /\ lost \in BOOLEAN
    \* what the log knows of was posted
    /\ \A s \in recorded : \E a \in remote : a.target = s

\* An earlier workflow may have commented on the pull request.
Init ==
    /\ job \in {"replies", "review", "epic"}
    /\ \/ remote = {}
       \/ /\ job = "replies"
          /\ remote = {[target |-> "comment", marker |-> 0, text |-> 0, id |-> 0]}
    /\ head = 1
    /\ body = [n |-> 0, slots |-> {}]
    /\ due = "no"
    /\ recorded = {}
    /\ login = "unasked"
    /\ run = Idle
    /\ trouble = 0
    /\ lost = FALSE

-----------------------------------------------------------------------------
(* The systems outside. *)

Trouble == trouble < MaxTrouble /\ trouble' = trouble + 1
NoTrouble == UNCHANGED trouble

On(t) == {a \in remote : a.target = t}
Reviews(sha) == {a \in On("review") : a.marker = sha}

\* A request to create something at t is carried out, or is not, or is
\* although the caller sees a failure.
Lands(t) ==
    remote' = remote \cup {[target |-> t, marker |-> run.sha, text |-> body.n,
                            id |-> Cardinality(remote) + 1]}
CreateOK(t) == Lands(t) /\ NoTrouble
CreateFails == Trouble /\ UNCHANGED remote
CreateLost(t) == Trouble /\ Lands(t)

\* Somebody pushes to the branch under review.
Push ==
    /\ job = "review" /\ head < MaxHeads
    /\ head' = head + 1
    /\ UNCHANGED <<job, remote, body, due, recorded, login, run, trouble, lost>>

-----------------------------------------------------------------------------
(* The workflow around the handler. *)

\* pr-replier answers in plain text, or in JSON with or without a summary.
Asked ==
    CASE job = "replies" -> {{"reply"}} \cup SUBSET ({"summary"} \cup Thread)
      [] job = "review"  -> {{}}
      [] job = "epic"    -> {Task}

\* The workflow comes to the handler, for the first time, in another feedback
\* round, or because an operator retries from a persona before it.
Round ==
    /\ run.at = "idle"
    /\ body.n < MaxRounds
    /\ \E slots \in Asked : body' = [n |-> body.n + 1, slots |-> slots]
    /\ due' = "yes"
    /\ UNCHANGED <<job, remote, head, recorded, login, run, trouble, lost>>

Began(r) ==
    /\ due = "yes" /\ run.at = "idle"
    /\ run' = r
    /\ UNCHANGED <<job, remote, head, body, due, recorded, login, lost>>

\* The handler has returned an error: the events it made go with it
\* (LocalDispatcher.Dispatch), and it will be dispatched again.
Failed == run' = Idle /\ UNCHANGED <<due, recorded>>

\* Mutant: a skip counts as a post.
CountsSkips ==
    /\ run' = Idle
    /\ due' = "no" /\ recorded' = recorded \cup (body.slots \cap Slot) /\ NoTrouble

\* It has returned without: its events are stored, or not, and published.
Completed ==
    /\ run' = Idle
    /\ \/ due' = "no" /\ recorded' = recorded \cup run.out /\ NoTrouble
       \/ due' = "unstored" /\ UNCHANGED recorded /\ Trouble

\* The process dies; what it had in memory is gone, which for plan-jira
\* includes the plan (planning state), for task-creator not.
Crash ==
    /\ Trouble
    /\ run' = Idle
    /\ login' = "unasked"
    /\ due' \in IF due = "unstored" THEN {"no", "yes"} ELSE {due}
    /\ body' \in {body} \cup
                 (IF job = "epic" THEN {[body EXCEPT !.slots = {}]} ELSE {})
    /\ UNCHANGED <<job, remote, head, recorded, lost>>

-----------------------------------------------------------------------------
(* Replies. *)

Conversation(s) ==
    {a \in remote : a.target = s \/ {a.target, s} \subseteq TopLevel}

\* Mutant: only the body is compared.
SameBody(s) == \E a \in Conversation(s) : a.text = body.n

\* duplicateIssueHash and duplicateReviewReplyHash, authorPostedIssueComment
\* and authorRepliedOnThread.
AlreadyThere(s) ==
    \E a \in Conversation(s) : a.text = body.n \/ login = "known"

BeginReplies ==
    /\ job = "replies"
    /\ Began([Idle EXCEPT !.at = "posting", !.history = recorded,
                          !.todo = body.slots])
    /\ NoTrouble

\* ensureBotLogin, once in the life of the process.
AskLogin ==
    /\ run.at = "posting" /\ run.todo \ run.history # {}
    /\ login = "unasked"
    /\ \/ login' = "known" /\ NoTrouble
       \/ login' = "unknown" /\ Trouble
    /\ UNCHANGED <<job, remote, head, body, due, recorded, run, lost>>

\* The summary goes first.  A list that cannot be read does not stop the post.
LookAt(s) ==
    /\ run.at = "posting" /\ s \in run.todo
    /\ s \in Thread => "summary" \notin run.todo
    /\ s \notin run.history => login # "unasked"
    /\ \/ /\ s \in run.history \/ AlreadyThere(s)
          /\ run' = [run EXCEPT !.todo = @ \ {s}]
          /\ NoTrouble
       \/ /\ s \notin run.history
          /\ (NoTrouble /\ ~AlreadyThere(s)) \/ Trouble
          /\ run' = [run EXCEPT !.todo = @ \ {s}, !.at = "creating", !.slot = s]
    /\ UNCHANGED <<job, remote, head, body, due, recorded, login, lost>>

\* One that fails does not stop the others.
PostReply ==
    /\ run.at = "creating"
    /\ \/ /\ CreateOK(run.slot)
          /\ run' = [run EXCEPT !.at = "posting", !.out = @ \cup {run.slot}]
       \/ /\ CreateFails \/ CreateLost(run.slot)
          /\ run' = [run EXCEPT !.at = "posting", !.err = TRUE]
    /\ UNCHANGED <<job, head, body, due, recorded, login, lost>>

\* Mutant: the error of a reply is logged only.
NoError == TRUE

\* postStructured returns the first error, if there was one.
NoFirstErr == ~run.err

EndReplies ==
    /\ run.at = "posting" /\ run.todo = {}
    /\ \/ NoFirstErr /\ Completed
       \/ ~NoFirstErr /\ Failed /\ NoTrouble
    /\ UNCHANGED <<job, remote, head, body, login, lost>>

-----------------------------------------------------------------------------
(* The review. *)

\* The look-up of the head, the reading of the reviews, and the answer of the
\* model, which is JSON or not.
BeginReview ==
    /\ job = "review"
    /\ \E sha \in 0..MaxHeads, approve, inline, parsed \in BOOLEAN :
          LET post == [Idle EXCEPT !.at = IF parsed THEN "review" ELSE "comment",
                                   !.sha = sha, !.approve = approve,
                                   !.inline = inline]
          IN /\ sha \in {0, head}
             /\ ~parsed => ~approve /\ ~inline
             /\ \/ sha = 0 /\ Trouble /\ Began(post)
                \/ sha = head /\ Reviews(sha) = {} /\ NoTrouble /\ Began(post)
                \/ sha = head /\ Trouble /\ Began(post)
                \/ /\ sha = head /\ Reviews(sha) # {} /\ NoTrouble
                   /\ Began([Idle EXCEPT !.at = "done", !.sha = sha])

\* The answer goes into a plain comment, without a marker.
PostComment ==
    /\ run.at = "comment"
    /\ \/ CreateOK("comment") /\ run' = [run EXCEPT !.at = "done"]
       \/ (CreateFails \/ CreateLost("comment")) /\ run' = Idle
    /\ UNCHANGED <<job, head, body, due, recorded, login, lost>>

\* The author of a pull request may not approve it: posted as a comment.
Downgrade ==
    /\ run.approve /\ run.tier = 1
    /\ run' = [run EXCEPT !.approve = FALSE, !.tier = 2]

\* Any other error: without the inline comments if there are any.
Strip ==
    run' = IF run.inline THEN [run EXCEPT !.inline = FALSE, !.tier = 3] ELSE Idle

\* postConsolidatedReview's three attempts.
PostReview ==
    /\ run.at = "review"
    /\ \/ /\ CreateOK("review")
          /\ run' = [run EXCEPT !.at = "done"]
          /\ UNCHANGED lost
       \/ /\ run.approve  \* rejected: the author's own
          /\ Downgrade \/ (run.tier # 1 /\ run' = Idle)
          /\ UNCHANGED <<remote, trouble, lost>>
       \/ /\ run.inline   \* rejected: a comment outside the diff
          /\ Strip
          /\ UNCHANGED <<remote, trouble, lost>>
       \/ CreateFails /\ Strip /\ UNCHANGED lost
       \/ CreateLost("review") /\ Strip /\ lost' = (lost \/ run.inline)
    /\ UNCHANGED <<job, head, body, due, recorded, login>>

-----------------------------------------------------------------------------
(* The epic. *)

\* Mutant: the epic is looked up by nothing.
NoEpic == {}

\* findExistingEpic, by the correlation's marker.
ExistingEpic == On("epic")

\* Without a plan the handler fails at once.
BeginEpic ==
    /\ job = "epic" /\ body.slots # {}
    /\ \/ ExistingEpic # {} /\ NoTrouble /\ Began([Idle EXCEPT !.at = "done"])
       \/ /\ (ExistingEpic = {} /\ NoTrouble) \/ Trouble
          /\ Began([Idle EXCEPT !.at = "epic"])

CreateEpic ==
    /\ run.at = "epic"
    /\ \/ /\ CreateOK("epic")
          /\ run' = [run EXCEPT !.at = "tasks", !.todo = body.slots]
       \/ (CreateFails \/ CreateLost("epic")) /\ run' = Idle
    /\ UNCHANGED <<job, head, body, due, recorded, login, lost>>

\* A task that cannot be created is counted in the summary, and left out.
CreateTask(t) ==
    /\ run.at = "tasks" /\ t \in run.todo
    /\ CreateOK(t) \/ CreateFails \/ CreateLost(t)
    /\ run' = [run EXCEPT !.todo = @ \ {t}]
    /\ UNCHANGED <<job, head, body, due, recorded, login, lost>>

Return ==
    /\ run.at = "done" \/ (run.at = "tasks" /\ run.todo = {})
    /\ Completed
    /\ UNCHANGED <<job, remote, head, body, login, lost>>

-----------------------------------------------------------------------------

Next ==
    \/ Push \/ Round \/ Crash
    \/ BeginReplies \/ AskLogin \/ PostReply \/ EndReplies
    \/ \E s \in Slot : LookAt(s)
    \/ BeginReview \/ PostComment \/ PostReview
    \/ BeginEpic \/ CreateEpic \/ Return
    \/ \E t \in Task : CreateTask(t)

Spec == Init /\ [][Next]_vars

-----------------------------------------------------------------------------
(* Properties *)

SameTarget(a, b) == a.target = b.target /\ a.marker = b.marker

\* One fault at most, and for the two that look in one place only, no further
\* round that makes them look again.
OneFault == trouble = 0 \/ (trouble = 1 /\ (job = "replies" \/ body.n <= 1))

\* Nothing is created twice (a comment or reply, a review of one head, an
\* epic, a task) unless two things went wrong, however often the handler is
\* dispatched again and whatever it says the next time: for replies the
\* handler's own history, the text and the author cover for one another.  Two
\* gaps are left out: a review whose answer was lost is posted again without
\* its inline comments, and the plain comment is not looked for.
RepeatNeedsTwoFaults ==
    OneFault /\ ~lost =>
        \A a, b \in remote : SameTarget(a, b) => a = b \/ a.target = "comment"

\* A handler that completes has said what it had to: every reply of a partly
\* failed run is there before the workflow goes on (or Rick has spoken in that
\* place before), and the head it looked up has a review, or the pull request a
\* comment.
CompletedIsPosted ==
    [][due = "yes" /\ due' # "yes" =>
        CASE job = "replies" -> \A s \in body.slots : Conversation(s) # {}
          [] job = "review"  -> Reviews(run.sha) \cup On("comment") # {}
          [] job = "epic"    -> On("epic") # {}]_vars
=============================================================================
