--------------------------- MODULE QueueLifecycle ---------------------------
(***************************************************************************)
(* What becomes of a queue token: it waits, is moved with others, is       *)
(* active, and ends.  A move that fails loses all it moves.  An ended      *)
(* token may be revived, by a first access that was in progress; a token   *)
(* never waits again, and a lost one stays lost.                           *)
(***************************************************************************)
CONSTANT Tokens

VARIABLE status

Init == status = [t \in Tokens |-> "none"]

(* All tokens of T go from one status to another.                          *)
Move(T, from, to) ==
  /\ \A t \in T : status[t] = from
  /\ status' = [t \in Tokens |-> IF t \in T THEN to ELSE status[t]]

Issue(t) == Move({t}, "none", "waiting")
End(t) == Move({t}, "active", "ended")
Revive(t) == Move({t}, "ended", "active")

(* What is moved is taken, activated or lost as a whole.                   *)
Moving == {t \in Tokens : status[t] = "moving"}
Take(T) == Moving = {} /\ Move(T, "waiting", "moving")
Activate == Move(Moving, "moving", "active")
Lose == Move(Moving, "moving", "lost")

Next ==
  \/ \E t \in Tokens : Issue(t) \/ End(t) \/ Revive(t)
  \/ \E T \in SUBSET Tokens : Take(T)
  \/ Activate \/ Lose

Spec == Init /\ [][Next]_status
=============================================================================
