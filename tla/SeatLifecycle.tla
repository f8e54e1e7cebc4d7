--------------------------- MODULE SeatLifecycle ---------------------------
(***************************************************************************)
(* What the seat table promises: a seat is Available, then Reserved, then  *)
(* Booked, one seat and one stage at a time, and never goes back.          *)
(***************************************************************************)
CONSTANT Seats

VARIABLE seat

Init == seat = [s \in Seats |-> "Available"]

Reserve(s) ==
  /\ seat[s] = "Available"
  /\ seat' = [seat EXCEPT ![s] = "Reserved"]

Book(s) ==
  /\ seat[s] = "Reserved"
  /\ seat' = [seat EXCEPT ![s] = "Booked"]

Next == \E s \in Seats : Reserve(s) \/ Book(s)

Spec == Init /\ [][Next]_seat
=============================================================================
