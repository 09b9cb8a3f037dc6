-------------------------- MODULE MCWorkflowEngine --------------------------
(* develop-only without its committer, for TLC: the feedback loop alone.   *)
EXTENDS WorkflowEngine

CONSTANTS developer, reviewer

ShortGraph ==
    [p \in {developer, reviewer} |->
        IF p = reviewer THEN {developer} ELSE {}]
ShortPairs == {<<reviewer, developer>>}
=============================================================================
