---------------------------- MODULE WorkflowDef ----------------------------
(***************************************************************************)
(* A workflow definition (internal/engine/workflow_def.go): which personas *)
(* must complete, which persona runs after which, and how failing verdicts *)
(* are turned into feedback.  The definition is a constant of every other  *)
(* module: the registry replaces definitions, it never edits one in place. *)
(***************************************************************************)
EXTENDS Integers, FiniteSets

CONSTANTS
    Persona,                \* handler names that can occur in the workflow
    Required,               \* WorkflowDef.Required
    Graph,                  \* WorkflowDef.Graph: persona -> its predecessors
    MaxIterations,          \* WorkflowDef.MaxIterations
    EscalateOnMaxIter,      \* pause instead of failing at the limit
    SynchronousFeedback,    \* the review-consolidator emits the feedback
    ConsolidatedReviewers,  \* members of that barrier
    PartialReviewOnFailure, \* absorb a category reviewer's failure as a skip
    CategoryReviewers,      \* the personas isCategoryReviewer names
    None                    \* the empty string: no persona

ASSUME DefAssumption ==
    /\ None \notin Persona
    /\ Required \subseteq Persona
    /\ DOMAIN Graph \subseteq Persona
    /\ \A p \in DOMAIN Graph : Graph[p] \subseteq Persona
    /\ MaxIterations \in Nat
    /\ EscalateOnMaxIter \in BOOLEAN
    /\ SynchronousFeedback \in BOOLEAN
    /\ ConsolidatedReviewers \subseteq Persona
    /\ PartialReviewOnFailure \in BOOLEAN
    /\ CategoryReviewers \subseteq Persona

-----------------------------------------------------------------------------

\* The personas with a predecessor in S: one BFS layer of DownstreamOf.
Dependents(S) == {h \in DOMAIN Graph : Graph[h] \cap S # {}}

\* What the BFS of DownstreamOf visits: the least set that holds p and every
\* dependent of its members.
Downstream ==
    [p \in Persona |->
        {q \in Persona : \A S \in SUBSET Persona :
            p \in S /\ Dependents(S) \subseteq S => q \in S}]

\* Is p's failing verdict answered by the review-consolidator?
IsConsolidatedReviewer(p) == SynchronousFeedback /\ p \in ConsolidatedReviewers

\* What a WorkflowRetried from phase p un-completes: everything downstream of
\* p and, for a member of the barrier, of its siblings too.
PersonasToInvalidateFor(p) ==
    Downstream[p] \cup
        (IF IsConsolidatedReviewer(p)
            THEN UNION {Downstream[q] : q \in ConsolidatedReviewers}
            ELSE {})
=============================================================================
