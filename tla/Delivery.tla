------------------------------ MODULE Delivery ------------------------------
(***************************************************************************)
(* What the outbox promises of an event: it is published at least once,    *)
(* unless the broker loses it.  Its row is written first; attempts to      *)
(* publish it come after the row, any number of them; the row is marked    *)
(* only after an attempt, and a marked row never becomes unsent again.     *)
(***************************************************************************)
CONSTANTS
  Events,
  Lossless  \* TRUE: every attempt reaches the broker

VARIABLES
  row,   \* row[e]: none, unsent or sent
  tried, \* events of which an attempt has ended
  topic  \* events the broker holds

vars == <<row, tried, topic>>

Init ==
  /\ row = [e \in Events |-> "none"]
  /\ tried = {} /\ topic = {}

Write(e) ==
  /\ row[e] = "none"
  /\ row' = [row EXCEPT ![e] = "unsent"]
  /\ UNCHANGED <<tried, topic>>

(* An attempt ends; it has published the event, or was lost.               *)
Publish(e) ==
  /\ row[e] # "none"
  /\ tried' = tried \cup {e}
  /\ \/ topic' = topic \cup {e}
     \/ ~Lossless /\ UNCHANGED topic

Attempt(e) == Publish(e) /\ UNCHANGED row

Mark(e) ==
  /\ e \in tried
  /\ row' = [row EXCEPT ![e] = "sent"]
  /\ UNCHANGED <<tried, topic>>

(* Both at once, for a system that is looked at one send at a time.        *)
AttemptAndMark(e) == Publish(e) /\ row' = [row EXCEPT ![e] = "sent"]

Next == \E e \in Events : Write(e) \/ Attempt(e) \/ Mark(e) \/ AttemptAndMark(e)

Spec == Init /\ [][Next]_vars
=============================================================================
