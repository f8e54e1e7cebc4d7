---------------------------- MODULE PointLedger ----------------------------
(***************************************************************************)
(* What the point tables promise: every accepted operation is applied to   *)
(* the balance all accepted operations before it have left, and leaves one *)
(* history row that records its type and the balance it left.              *)
(***************************************************************************)
EXTENDS Integers, Sequences

CONSTANTS Users, Amounts, InitialPoint, MaxPoint

VARIABLES balance, history

Init ==
  /\ balance = [u \in Users |-> InitialPoint]
  /\ history = [u \in Users |-> <<>>]

Post(u, type, amount) ==
  /\ amount \in 0 .. MaxPoint
  /\ balance' = [balance EXCEPT ![u] = amount]
  /\ history' = [history EXCEPT ![u] = Append(@, [type |-> type, amount |-> amount])]

Next ==
  \E u \in Users, a \in Amounts :
    \/ Post(u, "CHARGE", balance[u] + a)
    \/ Post(u, "USE", balance[u] - a)

Spec == Init /\ [][Next]_<<balance, history>>
=============================================================================
