---------------------------- MODULE MCTicketing ----------------------------
(* Instances of Ticketing small enough for TLC.                            *)
EXTENDS Ticketing, TLC

SafetySymmetry == Permutations(Users) \cup Permutations(Seats)
=============================================================================
