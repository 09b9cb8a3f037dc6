-------------------------- MODULE MCHandlerStream --------------------------
(* Two dispatches and two watches over two streams, for TLC. *)
EXTENDS NotificationBroker

CONSTANTS d1, d2
=============================================================================
