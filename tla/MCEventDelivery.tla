-------------------------- MODULE MCEventDelivery --------------------------
(* Both buses with retries, and the outbox with the documented order of the *)
(* middleware, for TLC.                                                     *)
EXTENDS EventDelivery

CONSTANTS s1, s2

BusSetups == {<<"channel", "retry">>, <<"outbox", "retry">>, <<"outbox", "dedup">>}
=============================================================================
