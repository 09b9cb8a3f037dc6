------------------------- MODULE MCWorkflowThrottle -------------------------
(* A few requests for one slot; nobody knows the definition of one of them. *)
EXTENDS WorkflowThrottle
=============================================================================
