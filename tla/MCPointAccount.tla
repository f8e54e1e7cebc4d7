--------------------------- MODULE MCPointAccount ---------------------------
(* An instance of PointAccount small enough for TLC.                       *)
EXTENDS PointAccount, TLC

Charges == {1, 2}
OpSymmetry == Permutations(Ops) \cup Permutations(Users)
=============================================================================
