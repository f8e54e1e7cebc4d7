-------------------------- MODULE Delivery_proofs --------------------------
(***************************************************************************)
(* What follows from the promises of Delivery, for any set of events.      *)
(***************************************************************************)
EXTENDS Delivery, TLAPS

(* The row comes before the attempts, these before the message and mark.   *)
DeliveryInv ==
  /\ row \in [Events -> {"none", "unsent", "sent"}]
  /\ topic \subseteq tried
  /\ tried \subseteq {e \in Events : row[e] # "none"}
  /\ \A e \in Events : row[e] = "sent" => e \in tried
  /\ Lossless => tried \subseteq topic

LEMMA DeliveryInit == Init => DeliveryInv
BY DEF Init, DeliveryInv

LEMMA DeliveryStep == DeliveryInv /\ [Next]_vars => DeliveryInv'
<1> SUFFICES ASSUME DeliveryInv, [Next]_vars PROVE DeliveryInv'
  OBVIOUS
<1> USE DEF DeliveryInv
<1>1. ASSUME NEW e \in Events, Write(e) PROVE DeliveryInv'
  BY <1>1 DEF Write
<1>2. ASSUME NEW e \in Events, Attempt(e) PROVE DeliveryInv'
  BY <1>2 DEF Attempt, Publish
<1>3. ASSUME NEW e \in Events, Mark(e) PROVE DeliveryInv'
  BY <1>3 DEF Mark
<1>4. ASSUME NEW e \in Events, AttemptAndMark(e) PROVE DeliveryInv'
  BY <1>4 DEF AttemptAndMark, Publish
<1>5. CASE UNCHANGED vars
  BY <1>5 DEF vars
<1> QED BY <1>1, <1>2, <1>3, <1>4, <1>5 DEF Next

LEMMA DeliveryAlways == Spec => []DeliveryInv
BY DeliveryInit, DeliveryStep, PTL DEF Spec

(* No message without its row, which is written before the first attempt.  *)
NothingInvented == \A e \in topic : row[e] # "none"
(* No row is marked that nobody tried to send.                             *)
NothingSkipped == \A e \in Events : row[e] = "sent" => e \in tried
(* With a broker that loses nothing a marked row has its message.          *)
NothingLost == Lossless => \A e \in Events : row[e] = "sent" => e \in topic

Faithful == NothingInvented /\ NothingSkipped /\ NothingLost

(* A message always has its row, a marked row was always tried, and with a *)
(* broker that loses nothing it always has its message.                    *)
THEOREM MessagesMatchRows == Spec => []Faithful
<1>1. DeliveryInv => Faithful
  BY DEF DeliveryInv, Faithful, NothingInvented, NothingSkipped, NothingLost
<1> QED BY <1>1, DeliveryAlways, PTL
=============================================================================
