-------------------------- MODULE MCConnectionPool --------------------------
(* An instance of ConnectionPool small enough for TLC.                     *)
EXTENDS ConnectionPool, TLC

CONSTANTS r1, r2, p1, c1, m1, n1, u1

(* A reservation, a payment and a charge of one user, the handler of a     *)
(* topic event, and a message.                                             *)
MixedTasks == {r1, p1, c1, n1, m1}
MixedKind == (r1 :> "reserve" @@ p1 :> "pay" @@ c1 :> "charge" @@
              n1 :> "send" @@ m1 :> "consume")
OneUser == {u1}
MixedPayer == [t \in MixedTasks |-> u1]

(* Two reservations and nothing else.                                      *)
TwoReservations == {r1, r2}
ReservationKind == [t \in TwoReservations |-> "reserve"]
ReservationPayer == [t \in TwoReservations |-> u1]
=============================================================================
