-------------------------- MODULE MCPersonaRunner --------------------------
(* workspace-dev without its workspace and committer, for TLC: reviewer and *)
(* qa follow the developer, the consolidator joins them, the quality gate   *)
(* follows it.                                                              *)
EXTENDS PersonaRunner

CONSTANTS developer, reviewer, qa, consolidator, gate

DevGraph ==
    [p \in Persona |->
        CASE p = developer         -> {}
          [] p \in {reviewer, qa} -> {developer}
          [] p = consolidator      -> {reviewer, qa} \cap Persona
          [] p = gate              -> {consolidator}]
DevPairs == {<<reviewer, developer>>, <<qa, developer>>}

DevOutcomes ==
    [p \in Persona |->
        CASE p = developer    -> {"complete", "hint", "unsure"}
          [] p = reviewer     -> {"pass", "fail", "advisory"}
          [] p = qa           -> {"pass"}
          [] p = consolidator -> {"complete"}
          [] p = gate         -> {"complete"}]

\* develop-only: a hinting developer and a reviewer.
LineGraph == [p \in Persona |-> CASE p = reviewer -> {developer} [] p = gate -> {reviewer} [] OTHER -> {}]
LinePairs == {<<reviewer, developer>>}
LineOutcomes ==
    [p \in Persona |->
        CASE p = developer -> {"complete", "hint", "unsure"}
          [] p = reviewer  -> {"pass", "fail", "advisory"}
          [] OTHER         -> {"complete", "transient", "rate_limited", "incomplete"}]

\* What the theorem about the review consolidator assumes of a definition that
\* has one.
ASSUME BarrierShape == ReviewConsolidator = None \/ Barrier
=============================================================================
