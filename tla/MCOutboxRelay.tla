--------------------------- MODULE MCOutboxRelay ---------------------------
(* Instances of OutboxRelay small enough for TLC.                          *)
EXTENDS OutboxRelay

TwoReservations == {<<"reservation", 1>>, <<"reservation", 2>>}
=============================================================================
