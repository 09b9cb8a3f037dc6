------------------------- MODULE MCExternalEffects -------------------------
(* Two review threads, two tasks, three rounds, and a push.                 *)
EXTENDS ExternalEffects

CONSTANTS t1, t2, k1, k2
=============================================================================
