-------------------------- MODULE MCFairDispatcher --------------------------
(* Two workflows share the pool: a has more handlers ready than its share.  *)
EXTENDS FairDispatcher

CONSTANTS a1, a2, a3, b1, a, b

TwoWorkflows == [t \in {a1, a2, a3, b1} |-> IF t = b1 THEN b ELSE a]
=============================================================================
