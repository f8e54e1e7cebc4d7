---------------------------- MODULE MCSeatBoard ----------------------------
(* An instance of SeatBoard small enough for TLC: a concert and one of its *)
(* performances have the same id.                                          *)
EXTENDS SeatBoard

CONSTANTS s1, s2, id1, id2

TwoSeats == {s1, s2}
OneConcert == [p \in Performances |-> id1]
OneSeatEach == [s \in TwoSeats |-> IF s = s1 THEN id1 ELSE id2]
=============================================================================
