------------------------- MODULE WorkflowLifecycle -------------------------
(***************************************************************************)
(* What the engine promises about a workflow's status, without saying how: *)
(* who may move it where.  A resume is a promise (owed) that the engine    *)
(* keeps later, and keeping it may set the workflow running again whatever *)
(* happened in between.  WorkflowEngine implements this specification.     *)
(***************************************************************************)
EXTENDS Naturals

VARIABLES
    status,   \* the status the stored stream folds to
    begun,    \* the request has been taken up
    owed      \* resumes accepted and not yet acted on

vars == <<status, begun, owed>>

Settled == {"completed", "failed", "cancelled"}

Init ==
    /\ status = "requested"
    /\ begun = FALSE
    /\ owed = 0

\* The request is taken up once: it starts the workflow, is refused because
\* nobody knows its definition, or comes too late to matter.
Begin ==
    /\ ~begun
    /\ begun' = TRUE
    /\ \/ status = "requested" /\ status' = "running"
       \/ status \in {"requested", "cancelled"} /\ status' = "failed"
       \/ UNCHANGED status
    /\ UNCHANGED owed

\* The engine or an operator stops a running workflow for review.
Pause ==
    /\ status = "running"
    /\ status' = "paused"
    /\ UNCHANGED <<begun, owed>>

\* Only a running workflow completes.
Complete ==
    /\ status = "running"
    /\ status' = "completed"
    /\ UNCHANGED <<begun, owed>>

\* A paused workflow fails only by a rejected hint.
Fail ==
    /\ status \in {"running", "paused"}
    /\ status' = "failed"
    /\ UNCHANGED <<begun, owed>>

Cancel ==
    /\ status \in {"requested", "running", "paused"}
    /\ status' = "cancelled"
    /\ UNCHANGED <<begun, owed>>

Resume ==
    /\ status = "paused"
    /\ status' = "running"
    /\ owed' = owed + 1
    /\ UNCHANGED begun

\* An automatic retry, or one of an operator; a completed workflow has none.
Retry ==
    /\ status \in {"failed", "cancelled"}
    /\ status' = "running"
    /\ UNCHANGED <<begun, owed>>

\* One resume is acted on once, and may reopen the workflow.
Honour ==
    /\ owed > 0
    /\ owed' = owed - 1
    /\ status' \in {status, "running"}
    /\ UNCHANGED begun

Next ==
    \/ Begin
    \/ Pause
    \/ Complete
    \/ Fail
    \/ Cancel
    \/ Resume
    \/ Retry
    \/ Honour

Spec == Init /\ [][Next]_vars
=============================================================================
