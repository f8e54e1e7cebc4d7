------------------------- MODULE Ticketing_proofs -------------------------
(***************************************************************************)
(* Proofs about the saga, for any number of users, seats and requests.     *)
(***************************************************************************)
EXTENDS Ticketing, FiniteSetTheorems, TLAPS

-----------------------------------------------------------------------------
(* Messages are told apart by their topic and their id.                    *)
LEMMA MessagesDiffer ==
  /\ \A c, d \in Calls : Request(c) = Request(d) => c = d
  /\ \A p, q \in Pays : Payment(p) = Payment(q) => p = q
  /\ \A c \in Calls, p \in Pays : Request(c) # Payment(p)
  /\ \A c \in Calls : Request(c) \in Messages /\ Request(c) \in Requests
  /\ \A p \in Pays : Payment(p) \in Messages /\ Payment(p) \notin Requests
  /\ \A m \in Messages : \/ \E c \in Calls : m = Request(c)
                         \/ \E p \in Pays : m = Payment(p)
BY DEF Request, Payment, Messages, Requests, Payments

(* Who reserves what, and who pays for what: a request that has started    *)
(* names a user and a seat, a payment that has started names a reservation *)
(* that committed.                                                         *)
Started ==
  /\ \A c \in Calls : rpc[c] # "idle" => request[c] \in Row
  /\ \A p \in Pays : ppc[p] # "idle" => bill[p] \in Calls /\ rpc[bill[p]] = "committed"

(* A payment that has charged read enough points.                         *)
Funded == \A p \in PayingTx : CanUsePoint(p)

TypeInv == TypeOK /\ Started /\ Funded

LEMMA TypeInit == Init => TypeInv
<1>1. ASSUME Init PROVE TypeInv
  BY <1>1, TicketingAssumption
     DEF Init, TypeInv, TypeOK, Started, Funded, PayingTx, ResvPc, PayPc, PointRow, SeatStatus,
         OutboxStatus, Requests, Messages
<1> QED BY <1>1

(* One step of the model keeps every variable in its set.                  *)
LEMMA TypeStep == TypeInv /\ [Next]_vars => TypeInv'
<1> SUFFICES ASSUME TypeInv, [Next]_vars PROVE TypeInv'
  OBVIOUS
<1> USE TicketingAssumption DEF TypeInv, TypeOK, Started, Funded, PayingTx,
        CanUsePoint, ResvPc, PayPc, PointRow, SeatStatus,
        OutboxStatus, Fault, vars, resvVars, payVars, relayVars, seatVars
<1>1. ASSUME NEW c \in Calls, NEW u \in Users, NEW s \in Seats, ReserveStart(c, u, s)
      PROVE  TypeInv'
  BY <1>1 DEF ReserveStart, Row
<1>2. ASSUME NEW c \in Calls, ReserveInsert(c) PROVE TypeInv'
  BY <1>2 DEF ReserveInsert
<1>3. ASSUME NEW c \in Calls, ReserveOutbox(c) PROVE TypeInv'
  BY <1>3, MessagesDiffer DEF ReserveOutbox, CreateOutbox
<1>4. ASSUME NEW c \in Calls, ReserveCommit(c) PROVE TypeInv'
  BY <1>4 DEF ReserveCommit
<1>5. ASSUME NEW c \in Calls, ReserveFail(c) PROVE TypeInv'
  BY <1>5 DEF ReserveFail
<1>6. ASSUME NEW p \in Pays, NEW c \in Calls, PayStart(p, c) PROVE TypeInv'
  BY <1>6 DEF PayStart, Reservations, Row
<1>7. ASSUME NEW p \in Pays, PayCharge(p) PROVE TypeInv'
  BY <1>7 DEF PayCharge
<1>8. ASSUME NEW p \in Pays, PayOutbox(p) PROVE TypeInv'
  BY <1>8, MessagesDiffer DEF PayOutbox, CreateOutbox
<1>9. ASSUME NEW p \in Pays, PayCommit(p) PROVE TypeInv'
  <2>1. request[bill[p]] \in Row /\ Payer(p) \in Users
    BY <1>9 DEF PayCommit, Payer, Row
  <2>2. seen[p].amount - Price \in Nat /\ seen[p].version + 1 \in Nat
    BY <1>9 DEF PayCommit
  <2> QED BY <1>9, <2>1, <2>2 DEF PayCommit
<1>10. ASSUME NEW p \in Pays, PayFail(p) PROVE TypeInv'
  BY <1>10 DEF PayFail, PayingTx
<1>11. ASSUME NEW m \in Messages, NEW s, NEW from, NEW to \in SeatStatus, Consume(m, s, from, to)
       PROVE  TypeInv'
  BY <1>11 DEF Consume, SeatMove
<1>12. ASSUME NEW c \in Calls, ReserveSeat(c) PROVE TypeInv'
  BY <1>11, <1>12, MessagesDiffer DEF ReserveSeat
<1>13. ASSUME NEW p \in Pays, BookingSeat(p) PROVE TypeInv'
  BY <1>11, <1>13, MessagesDiffer DEF BookingSeat
<1>14. ASSUME NEW m \in Messages, SendOutbox(m), scheduled' \subseteq scheduled PROVE TypeInv'
  <2>1. /\ UNCHANGED <<rpc, request, ppc, bill, seen, point, seat, missed>>
        /\ tried' = tried \cup {m}
        /\ \/ topic' = topic \cup {m} /\ seatInbox' = seatInbox \cup {m}
           \/ UNCHANGED <<topic, seatInbox>>
    BY <1>14 DEF SendOutbox, Publish
  <2>2. outbox' \in [Messages -> OutboxStatus] /\ faults' \in 0 .. MaxFaults
    BY <1>14 DEF SendOutbox
  <2> QED BY <1>14, <2>1, <2>2
<1>15. ASSUME NEW m \in Messages, HandleSend(m) PROVE TypeInv'
  BY <1>15, <1>14 DEF HandleSend
<1>16. ASSUME NEW c \in Calls, BatchResend(c) PROVE TypeInv'
  BY <1>16, <1>14, MessagesDiffer DEF BatchResend
<1>17. ASSUME NEW m \in Messages, Redeliver(m) PROVE TypeInv'
  BY <1>17 DEF Redeliver
<1>18. CASE Crash
  BY <1>18 DEF Crash
<1>19. CASE UNCHANGED vars
  BY <1>19
<1> QED
  BY <1>1, <1>2, <1>3, <1>4, <1>5, <1>6, <1>7, <1>8, <1>9, <1>10, <1>12, <1>13,
     <1>15, <1>16, <1>17, <1>18, <1>19
  DEF Next, ReserveStep, PayStep

(* Every reachable state is typed: in particular no balance is ever        *)
(* negative, whatever payments race on it.                                 *)
THEOREM TypeCorrect == Spec => []TypeOK
<1>1. TypeInv => TypeOK
  BY DEF TypeInv
<1> QED BY <1>1, TypeInit, TypeStep, PTL DEF Spec

-----------------------------------------------------------------------------
(* Which transactions have an outbox row, and what may have been sent.     *)
OutboxInv ==
  /\ \A c \in Calls :
       /\ rpc[c] \in {"outboxed", "committed"} => outbox[Request(c)] # "none"
       /\ outbox[Request(c)] # "none" => rpc[c] \notin {"idle", "checked", "inserted"}
  /\ \A p \in Pays :
       /\ ppc[p] \in {"outboxed", "paid"} => outbox[Payment(p)] # "none"
       /\ outbox[Payment(p)] # "none" => ppc[p] \notin {"idle", "read", "charged"}
  /\ \A m \in tried : outbox[m] # "none"

LEMMA OutboxInit == Init => OutboxInv
BY MessagesDiffer DEF Init, OutboxInv

LEMMA OutboxStep == TypeInv /\ OutboxInv /\ [Next]_vars => OutboxInv'
<1> SUFFICES ASSUME TypeInv, OutboxInv, [Next]_vars PROVE OutboxInv'
  OBVIOUS
<1> USE MessagesDiffer DEF TypeInv, TypeOK, OutboxInv, ResvPc, PayPc, OutboxStatus,
        Fault, vars, resvVars, payVars, relayVars, seatVars
<1>1. ASSUME NEW c \in Calls, ReserveStep(c) PROVE OutboxInv'
  <2>1. ASSUME NEW u \in Users, NEW s \in Seats, ReserveStart(c, u, s) PROVE OutboxInv'
    BY <2>1 DEF ReserveStart
  <2>2. CASE ReserveInsert(c)
    BY <2>2 DEF ReserveInsert
  <2>3. CASE ReserveOutbox(c)
    <3>1. outbox' = [outbox EXCEPT ![Request(c)] = "unsent"] /\ tried' = tried
      BY <2>3 DEF ReserveOutbox, CreateOutbox
    <3>2. Request(c) \notin tried
      BY <2>3 DEF ReserveOutbox
    <3> QED BY <2>3, <3>1, <3>2 DEF ReserveOutbox
  <2>4. CASE ReserveCommit(c)
    BY <2>4 DEF ReserveCommit
  <2>5. CASE ReserveFail(c)
    BY <2>5 DEF ReserveFail
  <2> QED BY <1>1, <2>1, <2>2, <2>3, <2>4, <2>5 DEF ReserveStep
<1>2. ASSUME NEW p \in Pays, PayStep(p) PROVE OutboxInv'
  <2>1. ASSUME NEW c \in Calls, PayStart(p, c) PROVE OutboxInv'
    BY <2>1 DEF PayStart
  <2>2. CASE PayCharge(p)
    BY <2>2 DEF PayCharge
  <2>3. CASE PayOutbox(p)
    <3>1. outbox' = [outbox EXCEPT ![Payment(p)] = "unsent"] /\ tried' = tried
      BY <2>3 DEF PayOutbox, CreateOutbox
    <3>2. Payment(p) \notin tried
      BY <2>3 DEF PayOutbox
    <3> QED BY <2>3, <3>1, <3>2 DEF PayOutbox
  <2>4. CASE PayCommit(p)
    BY <2>4 DEF PayCommit
  <2>5. CASE PayFail(p)
    BY <2>5 DEF PayFail, PayingTx
  <2> QED BY <1>2, <2>1, <2>2, <2>3, <2>4, <2>5 DEF PayStep
<1>3. ASSUME NEW m \in Messages, SendOutbox(m) PROVE OutboxInv'
  BY <1>3 DEF SendOutbox
<1>4. ASSUME NEW m \in Messages, HandleSend(m) PROVE OutboxInv'
  <2>1. CASE SendOutbox(m)
    BY <1>3, <2>1
  <2>2. CASE UNCHANGED <<outbox, tried, resvVars, payVars>>
    BY <2>2
  <2> QED BY <1>4, <2>1, <2>2 DEF HandleSend
<1>5. ASSUME NEW c \in Calls, BatchResend(c) PROVE OutboxInv'
  BY <1>3, <1>5 DEF BatchResend
<1>6. CASE Crash
  BY <1>6 DEF Crash
<1>7. CASE UNCHANGED <<resvVars, payVars, outbox, tried>>
  BY <1>7
<1> QED
  BY <1>1, <1>2, <1>4, <1>5, <1>6, <1>7
  DEF Next, ReserveSeat, BookingSeat, Consume, Redeliver

LEMMA OutboxAlways == Spec => [](TypeInv /\ OutboxInv)
BY TypeInit, TypeStep, OutboxInit, OutboxStep, PTL DEF Spec

(* Every committed reservation and payment has its outbox row.             *)
THEOREM CommittedHasOutboxAlways == Spec => []CommittedHasOutbox
<1>1. OutboxInv => CommittedHasOutbox
  BY DEF OutboxInv, CommittedHasOutbox
<1> QED BY <1>1, OutboxAlways, PTL

(* No payment event exists without a committed reservation whose own event *)
(* was written before it.                                                  *)
THEOREM PaymentFollowsReservationAlways == Spec => []PaymentFollowsReservation
<1>1. TypeInv /\ OutboxInv => PaymentFollowsReservation
  BY DEF TypeInv, Started, OutboxInv, PaymentFollowsReservation, Reservations
<1> QED BY <1>1, OutboxAlways, PTL

-----------------------------------------------------------------------------
(* Seats.  Only the two consumers write a seat row, and what a started     *)
(* request or payment refers to never changes.                             *)
LEMMA OnlyConsumersMoveSeats ==
  [Next]_vars => \/ UNCHANGED seat
                 \/ \E c \in Calls : ReserveSeat(c)
                 \/ \E p \in Pays : BookingSeat(p)
<1> SUFFICES ASSUME [Next]_vars,
                    ~ \E c \in Calls : ReserveSeat(c),
                    ~ \E p \in Pays : BookingSeat(p)
             PROVE  UNCHANGED seat
  OBVIOUS
<1> USE DEF vars, seatVars
<1>1. ASSUME NEW c \in Calls, ReserveStep(c) PROVE UNCHANGED seat
  BY <1>1 DEF ReserveStep, ReserveStart, ReserveInsert, ReserveOutbox, ReserveCommit,
              ReserveFail
<1>2. ASSUME NEW p \in Pays, PayStep(p) PROVE UNCHANGED seat
  BY <1>2 DEF PayStep, PayStart, PayCharge, PayOutbox, PayCommit, PayFail
<1> QED
  BY <1>1, <1>2 DEF Next, BatchResend, HandleSend, SendOutbox, Redeliver, Crash

LEMMA EventsKeepTheirMeaning ==
  TypeInv /\ [Next]_vars =>
    /\ topic \subseteq topic'
    /\ \A c \in Calls : rpc[c] # "idle" => request'[c] = request[c]
    /\ \A p \in Pays : ppc[p] # "idle" =>
         bill'[p] = bill[p] /\ request'[bill[p]] = request[bill[p]]
<1> DEFINE Kept ==
      /\ topic \subseteq topic'
      /\ \A c \in Calls : rpc[c] # "idle" => request'[c] = request[c]
      /\ \A p \in Pays : ppc[p] # "idle" =>
           bill'[p] = bill[p] /\ request'[bill[p]] = request[bill[p]]
<1> SUFFICES ASSUME TypeInv, [Next]_vars PROVE Kept
  OBVIOUS
<1> USE DEF TypeInv, TypeOK, Started, vars, resvVars, payVars, relayVars
<1>1. ASSUME NEW c \in Calls, ReserveStep(c) PROVE Kept
  <2>1. ASSUME NEW u \in Users, NEW s \in Seats, ReserveStart(c, u, s) PROVE Kept
    BY <2>1 DEF ReserveStart
  <2> QED BY <1>1, <2>1 DEF ReserveStep, ReserveInsert, ReserveOutbox, CreateOutbox,
                            ReserveCommit, ReserveFail
<1>2. ASSUME NEW p \in Pays, PayStep(p) PROVE Kept
  <2>1. ASSUME NEW c \in Calls, PayStart(p, c) PROVE Kept
    BY <2>1 DEF PayStart
  <2> QED BY <1>2, <2>1 DEF PayStep, PayCharge, PayOutbox, CreateOutbox, PayCommit,
                            PayFail
<1>3. ASSUME NEW m \in Messages, SendOutbox(m) PROVE Kept
  BY <1>3 DEF SendOutbox, Publish
<1>4. CASE UNCHANGED <<resvVars, payVars, topic>>
  BY <1>4
<1>5. ASSUME NEW m \in Messages, HandleSend(m) PROVE Kept
  BY <1>3, <1>4, <1>5 DEF HandleSend
<1>6. ASSUME NEW c \in Calls, BatchResend(c) PROVE Kept
  BY <1>3, <1>6, MessagesDiffer DEF BatchResend
<1>7. CASE Crash
  BY <1>7 DEF Crash
<1> QED
  BY <1>1, <1>2, <1>4, <1>5, <1>6, <1>7
  DEF Next, ReserveSeat, BookingSeat, Consume, Redeliver

LEMMA SeatInit == Init => SeatStateIsExplained
BY DEF Init, SeatStateIsExplained

LEMMA SeatStep ==
  TypeInv /\ OutboxInv /\ SeatStateIsExplained /\ [Next]_vars => SeatStateIsExplained'
<1> SUFFICES ASSUME TypeInv, OutboxInv, SeatStateIsExplained, [Next]_vars, NEW s \in Seats
             PROVE  /\ seat'[s] # "Available" =>
                         \E c \in Calls : Request(c) \in topic' /\ request'[c].seat = s
                    /\ seat'[s] = "Booked" =>
                         \E p \in Pays : Payment(p) \in topic' /\ request'[bill'[p]].seat = s
  BY DEF SeatStateIsExplained
<1>1. \A c \in Calls : Request(c) \in topic =>
        Request(c) \in topic' /\ request'[c] = request[c]
  BY EventsKeepTheirMeaning DEF OutboxInv, TypeInv, TypeOK
<1>2. \A p \in Pays : Payment(p) \in topic =>
        Payment(p) \in topic' /\ request'[bill'[p]] = request[bill[p]]
  <2> SUFFICES ASSUME NEW p \in Pays, Payment(p) \in topic
               PROVE  Payment(p) \in topic' /\ request'[bill'[p]] = request[bill[p]]
    OBVIOUS
  <2>1. ppc[p] # "idle"
    BY DEF OutboxInv, TypeInv, TypeOK
  <2> QED BY <2>1, EventsKeepTheirMeaning
<1>3. /\ seat[s] # "Available" => \E c \in Calls : Request(c) \in topic /\ request[c].seat = s
      /\ seat[s] = "Booked" => \E p \in Pays : Payment(p) \in topic /\ request[bill[p]].seat = s
  BY DEF SeatStateIsExplained
<1>4. CASE UNCHANGED seat
  BY <1>1, <1>2, <1>3, <1>4
<1>5. ASSUME NEW c \in Calls, ReserveSeat(c)
      PROVE  seat'[s] = seat[s] \/ (/\ seat'[s] = "Reserved"
                                    /\ Request(c) \in topic
                                    /\ request[c].seat = s)
  BY <1>5 DEF ReserveSeat, Consume, SeatMove, TypeInv, TypeOK
<1>6. ASSUME NEW p \in Pays, BookingSeat(p)
      PROVE  seat'[s] = seat[s] \/ (/\ seat[s] = "Reserved"
                                    /\ Payment(p) \in topic
                                    /\ request[bill[p]].seat = s)
  BY <1>6 DEF BookingSeat, Consume, SeatMove, TypeInv, TypeOK
<1>7. CASE \E c \in Calls : ReserveSeat(c)
  BY <1>1, <1>2, <1>3, <1>5, <1>7
<1>8. CASE \E p \in Pays : BookingSeat(p)
  BY <1>1, <1>2, <1>3, <1>6, <1>8
<1> QED BY <1>4, <1>7, <1>8, OnlyConsumersMoveSeats

(* No seat is taken or booked without an event that says so.               *)
THEOREM SeatStateIsExplainedAlways == Spec => []SeatStateIsExplained
BY OutboxAlways, SeatInit, SeatStep, PTL DEF Spec

-----------------------------------------------------------------------------
(* Money.  A snapshot is never ahead of the row, it is the row when the    *)
(* versions agree, and a payment that holds the row lock holds the current *)
(* row and holds it alone.                                                 *)
InTx(p) == ppc[p] \in {"read", "charged", "outboxed"}

SnapshotInv ==
  /\ \A p \in Pays : InTx(p) =>
       /\ seen[p].version <= point[Payer(p)].version
       /\ seen[p].version = point[Payer(p)].version => seen[p] = point[Payer(p)]
  /\ \A p \in PayingTx : seen[p] = point[Payer(p)]
  /\ \A p, q \in PayingTx : Payer(p) = Payer(q) => p = q

LEMMA PayersKept ==
  TypeInv /\ [Next]_vars => \A p \in Pays : ppc[p] # "idle" => Payer(p)' = Payer(p)
BY EventsKeepTheirMeaning DEF Payer

LEMMA PayersAreUsers ==
  TypeInv => \A p \in Pays : ppc[p] # "idle" => Payer(p) \in Users /\ point[Payer(p)] \in PointRow
BY DEF TypeInv, TypeOK, Started, Payer, Row

(* Outside of payments no step writes points, snapshots or payment states. *)
LEMMA OnlyPaymentsMoveMoney ==
  [Next]_vars => \/ UNCHANGED <<ppc, seen, point>>
                 \/ \E p \in Pays : PayStep(p)
                 \/ Crash
<1> SUFFICES ASSUME [Next]_vars, ~ \E p \in Pays : PayStep(p), ~ Crash
             PROVE  UNCHANGED <<ppc, seen, point>>
  OBVIOUS
<1> USE DEF vars, payVars
<1>1. ASSUME NEW c \in Calls, ReserveStep(c) PROVE UNCHANGED <<ppc, seen, point>>
  BY <1>1 DEF ReserveStep, ReserveStart, ReserveInsert, ReserveOutbox, ReserveCommit,
              ReserveFail
<1> QED
  BY <1>1 DEF Next, BatchResend, HandleSend, SendOutbox, ReserveSeat, BookingSeat,
              Consume, Redeliver

(* Transactions that roll back, or nothing at all, leave the money alone.  *)
LEMMA RollbackKeepsMoney ==
  ASSUME TypeInv, SnapshotInv, MoneyMatchesPayments, [Next]_vars,
         UNCHANGED <<seen, point>>,
         \A p \in Pays : \/ ppc'[p] = ppc[p]
                         \/ ppc'[p] = "failed"
                         \/ ppc[p] = "charged" /\ ppc'[p] = "outboxed",
         \A p \in Pays : ppc'[p] = "failed" => ppc[p] # "paid"
  PROVE  SnapshotInv' /\ MoneyMatchesPayments'
<1>1. \A p \in Pays : InTx(p)' => InTx(p) /\ Payer(p)' = Payer(p)
  BY PayersKept DEF InTx
<1>2. \A p \in PayingTx' : p \in PayingTx /\ InTx(p) /\ Payer(p)' = Payer(p)
  BY <1>1 DEF PayingTx, InTx
<1>3. SnapshotInv'
  BY <1>1, <1>2 DEF SnapshotInv
<1>4. \A u \in Users : PaidBy(u)' = PaidBy(u)
  BY PayersKept DEF PaidBy
<1>5. MoneyMatchesPayments'
  BY <1>4 DEF MoneyMatchesPayments
<1> QED BY <1>3, <1>5

LEMMA CommitMovesMoney ==
  ASSUME TypeInv, SnapshotInv, MoneyMatchesPayments, [Next]_vars,
         NEW p \in Pays, PayCommit(p),
         NEW u \in Users, Payer(p) = u
  PROVE  SnapshotInv' /\ MoneyMatchesPayments'
<1>1. /\ p \in PayingTx /\ ppc[p] # "paid" /\ ppc[p] # "idle"
      /\ seen[p] = point[u] /\ point[u] \in PointRow
  BY PayersAreUsers DEF PayCommit, PayingTx, SnapshotInv
<1>2. /\ point' = [point EXCEPT ![u] = [amount |-> seen[p].amount - Price,
                                        version |-> seen[p].version + 1]]
      /\ ppc' = [ppc EXCEPT ![p] = "paid"]
      /\ seen' = seen /\ bill' = bill /\ request' = request
  BY DEF PayCommit, resvVars
<1>3. \A q \in Pays : Payer(q)' = Payer(q)
  BY <1>2 DEF Payer
<1>4. ppc \in [Pays -> PayPc] /\ seen \in [Pays -> PointRow] /\ point \in [Users -> PointRow]
  BY DEF TypeInv, TypeOK
<1>5. SnapshotInv'
  <2>1. ASSUME NEW q \in Pays, InTx(q)'
        PROVE  /\ seen[q].version <= point'[Payer(q)].version
               /\ seen[q].version = point'[Payer(q)].version => seen[q] = point'[Payer(q)]
    <3>1. q # p /\ InTx(q) /\ Payer(q) \in Users
      BY <1>2, <1>4, <2>1, PayersAreUsers DEF InTx, PayPc
    <3>2. /\ seen[q].version <= point[Payer(q)].version
          /\ seen[q].version = point[Payer(q)].version => seen[q] = point[Payer(q)]
      BY <3>1 DEF SnapshotInv
    <3> QED BY <1>1, <1>2, <1>4, <3>1, <3>2 DEF PointRow
  <2>2. ASSUME NEW q \in PayingTx' PROVE q \in PayingTx /\ q # p /\ Payer(q) # u /\ Payer(q) \in Users
    <3>1. q \in PayingTx /\ q # p
      BY <1>2, <1>4 DEF PayingTx
    <3> QED BY <1>1, <3>1, PayersAreUsers DEF SnapshotInv, PayingTx
  <2>3. \A q \in PayingTx' : seen[q] = point'[Payer(q)]
    BY <1>2, <1>4, <2>2 DEF SnapshotInv
  <2>4. \A q, r \in PayingTx' : Payer(q) = Payer(r) => q = r
    BY <2>2 DEF SnapshotInv
  <2> QED BY <1>2, <1>3, <2>1, <2>2, <2>3, <2>4 DEF SnapshotInv, PayingTx
<1>6. \A v \in Users : IsFiniteSet(PaidBy(v)) /\ Cardinality(PaidBy(v)) \in Nat
  BY TicketingAssumption, FS_Subset, FS_CardinalityType DEF PaidBy
<1>7. ASSUME NEW v \in Users, v # u
      PROVE  point'[v].amount + Price * Cardinality(PaidBy(v)') = InitialPoint
  <2>1. PaidBy(v)' = PaidBy(v) /\ point'[v] = point[v]
    BY <1>1, <1>2, <1>3, <1>4, <1>7 DEF PaidBy
  <2> QED BY <2>1 DEF MoneyMatchesPayments
<1>8. point'[u].amount + Price * Cardinality(PaidBy(u)') = InitialPoint
  <2> DEFINE n == Cardinality(PaidBy(u))
  <2>1. PaidBy(u)' = PaidBy(u) \cup {p} /\ p \notin PaidBy(u)
    BY <1>1, <1>2, <1>3, <1>4 DEF PaidBy
  <2>2. Cardinality(PaidBy(u)') = n + 1
    BY <1>1, <1>6, <2>1, FS_AddElement
  <2>3. point'[u].amount = point[u].amount - Price
    BY <1>1, <1>2, <1>4
  <2>4. point[u].amount + Price * n = InitialPoint
    BY <1>1 DEF MoneyMatchesPayments
  <2>5. n \in Nat /\ Price \in Nat /\ InitialPoint \in Nat /\ point[u].amount \in Nat
    BY <1>1, <1>6, TicketingAssumption DEF PointRow
  <2> HIDE DEF n
  <2>6. Price * (n + 1) = Price * n + Price
    BY <2>5
  <2>7. Price * n \in Nat
    BY <2>5
  <2> QED BY <2>2, <2>3, <2>4, <2>5, <2>6, <2>7
<1>9. \A v \in Users : point'[v].amount + Price * Cardinality(PaidBy(v)') = InitialPoint
  BY <1>7, <1>8
<1>10. MoneyMatchesPayments'
  BY <1>9 DEF MoneyMatchesPayments
<1> QED BY <1>5, <1>10

LEMMA MoneyInit == Init => SnapshotInv /\ MoneyMatchesPayments
<1> SUFFICES ASSUME Init PROVE SnapshotInv /\ MoneyMatchesPayments
  OBVIOUS
<1>1. SnapshotInv
  BY DEF Init, SnapshotInv, InTx, PayingTx
<1>2. \A u \in Users : PaidBy(u) = {}
  BY DEF Init, PaidBy
<1>3. Price * 0 = 0 /\ InitialPoint + 0 = InitialPoint
  BY TicketingAssumption
<1>4. MoneyMatchesPayments
  BY <1>2, <1>3, FS_EmptySet DEF Init, MoneyMatchesPayments
<1> QED BY <1>1, <1>4

LEMMA MoneyStep ==
  TypeInv /\ SnapshotInv /\ MoneyMatchesPayments /\ [Next]_vars
    => SnapshotInv' /\ MoneyMatchesPayments'
<1> SUFFICES ASSUME TypeInv, SnapshotInv, MoneyMatchesPayments, [Next]_vars
             PROVE  SnapshotInv' /\ MoneyMatchesPayments'
  OBVIOUS
<1>1. ppc \in [Pays -> PayPc] /\ seen \in [Pays -> PointRow] /\ bill \in [Pays -> Calls \cup {None}]
  BY DEF TypeInv, TypeOK
<1>2. CASE UNCHANGED <<ppc, seen, point>>
  BY <1>1, <1>2, RollbackKeepsMoney
<1>3. CASE Crash
  <2>1. \A p \in Pays : ppc'[p] = ppc[p] \/ (ppc'[p] = "failed" /\ ppc[p] # "paid")
    BY <1>3 DEF Crash
  <2>2. \A p \in Pays : ppc'[p] = "failed" => ppc[p] # "paid"
    BY <1>3 DEF Crash
  <2>3. UNCHANGED <<seen, point>>
    BY <1>3 DEF Crash
  <2> QED BY <2>1, <2>2, <2>3, RollbackKeepsMoney
<1>4. ASSUME NEW p \in Pays, PayOutbox(p) \/ PayFail(p)
      PROVE  SnapshotInv' /\ MoneyMatchesPayments'
  <2>1. /\ UNCHANGED <<seen, point>>
        /\ \A q \in Pays : \/ ppc'[q] = ppc[q]
                           \/ ppc'[q] = "failed"
                           \/ ppc[q] = "charged" /\ ppc'[q] = "outboxed"
        /\ \A q \in Pays : ppc'[q] = "failed" => ppc[q] # "paid"
    BY <1>1, <1>4 DEF PayOutbox, PayFail, PayingTx
  <2> QED BY <2>1, RollbackKeepsMoney
<1>5. ASSUME NEW p \in Pays, NEW c \in Calls, PayStart(p, c)
      PROVE  SnapshotInv' /\ MoneyMatchesPayments'
  <2>1. /\ ppc[p] = "idle" /\ ppc' = [ppc EXCEPT ![p] = "read"]
        /\ seen' = [seen EXCEPT ![p] = point[request[c].user]]
        /\ bill' = [bill EXCEPT ![p] = c]
        /\ point' = point /\ request' = request
    BY <1>5 DEF PayStart, resvVars
  <2>2. \A q \in Pays \ {p} : Payer(q)' = Payer(q) /\ InTx(q)' = InTx(q) /\ seen'[q] = seen[q]
    BY <1>1, <2>1 DEF Payer, InTx
  <2>3. PayingTx' = PayingTx /\ p \notin PayingTx
    BY <1>1, <2>1 DEF PayingTx
  <2>4. Payer(p)' = request[c].user /\ seen'[p] = point[request[c].user]
    BY <1>1, <2>1 DEF Payer
  <2>5. point[request[c].user] \in PointRow
    <3>1. Payer(p)' \in Users
      BY <2>1, <1>1, TypeStep, PayersAreUsers DEF TypeInv, TypeOK, Started, Payer, Row
    <3> QED BY <2>4, <3>1 DEF TypeInv, TypeOK
  <2>6. SnapshotInv'
    BY <2>1, <2>2, <2>3, <2>4, <2>5 DEF SnapshotInv, PointRow, PayingTx
  <2>7. \A u \in Users : PaidBy(u)' = PaidBy(u)
    BY <1>1, <2>1, <2>2 DEF PaidBy
  <2> QED BY <2>1, <2>6, <2>7 DEF MoneyMatchesPayments
<1>6. ASSUME NEW p \in Pays, PayCharge(p)
      PROVE  SnapshotInv' /\ MoneyMatchesPayments'
  <2>1. /\ ppc[p] = "read" /\ ppc' = [ppc EXCEPT ![p] = "charged"]
        /\ seen' = seen /\ point' = point /\ bill' = bill /\ request' = request
        /\ point[Payer(p)].version = seen[p].version
        /\ RowFree(Payer(p))
    BY <1>6 DEF PayCharge, resvVars
  <2>2. \A q \in Pays : Payer(q)' = Payer(q) /\ InTx(q)' = InTx(q)
    BY <1>1, <2>1 DEF Payer, InTx
  <2>3. PayingTx' = PayingTx \cup {p} /\ seen[p] = point[Payer(p)]
    BY <1>1, <2>1 DEF PayingTx, SnapshotInv, InTx
  <2>4. SnapshotInv'
    <3>1. \A q \in PayingTx : Payer(q) # Payer(p)
      BY <2>1 DEF RowFree
    <3>2. \A q \in PayingTx' : q \in Pays /\ seen[q] = point[Payer(q)]
      BY <2>3 DEF SnapshotInv, PayingTx
    <3>3. \A q, r \in PayingTx' : Payer(q) = Payer(r) => q = r
      BY <2>3, <3>1 DEF SnapshotInv
    <3>4. \A q \in Pays : InTx(q) =>
            /\ seen[q].version <= point[Payer(q)].version
            /\ seen[q].version = point[Payer(q)].version => seen[q] = point[Payer(q)]
      BY DEF SnapshotInv
    <3> QED BY <2>1, <2>2, <3>2, <3>3, <3>4 DEF SnapshotInv
  <2>5. \A u \in Users : PaidBy(u)' = PaidBy(u)
    BY <1>1, <2>1, <2>2 DEF PaidBy
  <2> QED BY <2>1, <2>4, <2>5 DEF MoneyMatchesPayments
<1>7. ASSUME NEW p \in Pays, PayCommit(p) PROVE SnapshotInv' /\ MoneyMatchesPayments'
  <2>1. PICK u \in Users : Payer(p) = u
    BY <1>7, PayersAreUsers DEF PayCommit
  <2> QED BY <1>7, <2>1, CommitMovesMoney
<1>8. ASSUME NEW p \in Pays, PayStep(p) PROVE SnapshotInv' /\ MoneyMatchesPayments'
  BY <1>4, <1>5, <1>6, <1>7, <1>8 DEF PayStep
<1> QED BY <1>2, <1>3, <1>8, OnlyPaymentsMoveMoney

(* However many payments race on a user's points, what is gone from the    *)
(* balance is exactly the price of the payments that committed.            *)
THEOREM MoneyMatchesPaymentsAlways == Spec => []MoneyMatchesPayments
BY TypeInit, TypeStep, MoneyInit, MoneyStep, PTL DEF Spec

-----------------------------------------------------------------------------
(* How a request gets from one stage to the next.                          *)
LEMMA ReserveMoves ==
  ASSUME TypeInv, [Next]_vars, NEW d \in Calls
  PROVE  \/ rpc'[d] = rpc[d]
         \/ rpc[d] = "idle" /\ rpc'[d] = "checked"
         \/ ReserveInsert(d)
         \/ rpc[d] \in {"inserted", "outboxed"}
         \/ rpc[d] = "checked" /\ rpc'[d] = "failed"
BY DEF Next, ReserveStep, PayStep, vars, resvVars, TypeInv, TypeOK,
       ReserveStart, ReserveInsert, ReserveOutbox, ReserveCommit, ReserveFail, BatchResend,
       SendOutbox, HandleSend, ReserveSeat, BookingSeat, Consume, PayStart, PayCharge,
       PayOutbox, PayCommit, PayFail, Redeliver, Crash

LEMMA RequestsNeverReturn ==
  ASSUME TypeInv, [Next]_vars, NEW c \in Calls, rpc[c] # "idle"
  PROVE  rpc'[c] # "idle"
<1>1. ASSUME NEW d \in Calls, ReserveStep(d) PROVE rpc'[c] # "idle"
  BY <1>1 DEF ReserveStep, ReserveStart, ReserveInsert, ReserveOutbox, ReserveCommit,
              ReserveFail, TypeInv, TypeOK
<1>2. ASSUME NEW p \in Pays, PayStep(p) PROVE rpc' = rpc
  BY <1>2 DEF PayStep, PayStart, PayCharge, PayOutbox, PayCommit, PayFail, resvVars
<1> QED BY <1>1, <1>2 DEF Next, BatchResend, SendOutbox, ReserveSeat, BookingSeat, Consume,
           HandleSend, Redeliver, Crash, vars, resvVars

(* A request starts only with a seat that is Available.                    *)
LEMMA StartIsChecked ==
  ASSUME TypeInv, [Next]_vars, NEW c \in Calls, rpc[c] = "idle", rpc'[c] # "idle"
  PROVE  \E u \in Users, s \in Seats :
           /\ seat[s] = "Available"
           /\ rpc'[c] = "checked" /\ request'[c] = [user |-> u, seat |-> s]
<1>1. ASSUME NEW d \in Calls, NEW u \in Users, NEW s \in Seats, ReserveStart(d, u, s)
      PROVE  d = c /\ ReserveStart(c, u, s)
  BY <1>1 DEF ReserveStart, TypeInv, TypeOK
<1>2. ASSUME NEW d \in Calls,
             ReserveInsert(d) \/ ReserveOutbox(d) \/ ReserveCommit(d) \/ ReserveFail(d)
      PROVE  FALSE
  BY <1>2 DEF ReserveInsert, ReserveOutbox, ReserveCommit, ReserveFail, TypeInv, TypeOK
<1>3. ASSUME NEW p \in Pays, PayStep(p) PROVE FALSE
  BY <1>3 DEF PayStep, PayStart, PayCharge, PayOutbox, PayCommit, PayFail, resvVars
<1>4. \E u \in Users, s \in Seats : ReserveStart(c, u, s)
  BY <1>1, <1>2, <1>3 DEF Next, ReserveStep, BatchResend, SendOutbox, ReserveSeat,
     BookingSeat, Consume, HandleSend, Redeliver, Crash, vars, resvVars
<1> QED BY <1>4 DEF ReserveStart, TypeInv, TypeOK

(* A seat is never Available again, and a committed reservation stays.     *)
LEMMA RefusalsStay ==
  ASSUME TypeInv, [Next]_vars
  PROVE  /\ \A s \in Seats : seat[s] # "Available" => seat'[s] # "Available"
         /\ \A c \in Calls : rpc[c] = "committed" =>
              rpc'[c] = "committed" /\ request'[c] = request[c]
<1>1. \A s \in Seats : seat[s] # "Available" => seat'[s] # "Available"
  BY OnlyConsumersMoveSeats DEF ReserveSeat, BookingSeat, Consume, SeatMove, TypeInv, TypeOK
<1>2. ASSUME NEW c \in Calls, rpc[c] = "committed"
      PROVE  rpc'[c] = "committed" /\ request'[c] = request[c]
  BY <1>2, EventsKeepTheirMeaning, ReserveMoves DEF ReserveInsert
<1> QED BY <1>1, <1>2

(* What the checks before the transaction are worth: of the requests that  *)
(* come too late none commits, for any number of users, seats, requests,   *)
(* payments and crashes.                                                   *)
THEOREM LateRequestIsRefusedAlways == Spec => LateRequestIsRefused
<1> DEFINE Held(row) == \E d \in Calls : rpc[d] = "committed" /\ request[d] = row
           Kept(c, u, s) ==
             /\ Refused(u, s)
             /\ \/ rpc[c] \in {"idle", "failed"}
                \/ rpc[c] = "checked" /\ Held([user |-> u, seat |-> s])
                \/ rpc[c] # "idle" /\ request[c] # [user |-> u, seat |-> s]
<1>1. ASSUME NEW c \in Calls, NEW u \in Users, NEW s \in Seats,
             TypeInv, Kept(c, u, s), [Next]_vars
      PROVE  Kept(c, u, s)'
  <2> DEFINE row == [user |-> u, seat |-> s]
  <2>1. ASSUME Held(row) PROVE Held(row)'
    <3>1. PICK d \in Calls : rpc[d] = "committed" /\ request[d] = row
      BY <2>1
    <3>2. rpc'[d] = "committed" /\ request'[d] = row
      BY <1>1, <3>1, RefusalsStay
    <3> QED BY <3>2
  <2>2. Refused(u, s) <=> seat[s] # "Available" \/ Held(row)
    BY DEF Refused, Reservations
  <2>3. Refused(u, s)' <=> seat'[s] # "Available" \/ Held(row)'
    BY DEF Refused, Reservations
  <2>4. Refused(u, s)'
    BY <1>1, <2>1, <2>2, <2>3, RefusalsStay
  <2>5. CASE rpc[c] = "idle" /\ rpc'[c] # "idle"
    <3>1. PICK v \in Users, w \in Seats :
            /\ seat[w] = "Available"
            /\ rpc'[c] = "checked" /\ request'[c] = [user |-> v, seat |-> w]
      BY <1>1, <2>5, StartIsChecked
    <3>2. CASE v = u /\ w = s
      <4>1. Held(row)'
        BY <1>1, <2>1, <2>2, <3>1, <3>2
      <4> QED BY <2>4, <3>1, <4>1
    <3>3. CASE ~(v = u /\ w = s)
      <4>1. request'[c] # row
        BY <3>1, <3>3
      <4> QED BY <2>4, <3>1, <4>1
    <3> QED BY <3>2, <3>3
  <2>6. CASE rpc[c] = "idle" /\ rpc'[c] = "idle"
    BY <2>4, <2>6
  <2>7. CASE rpc[c] = "failed"
    BY <1>1, <2>4, <2>7, ReserveMoves DEF ReserveInsert
  <2>8. CASE rpc[c] # "idle" /\ request[c] # row
    <3>1. request'[c] # row /\ rpc'[c] # "idle"
      BY <1>1, <2>8, EventsKeepTheirMeaning, RequestsNeverReturn
    <3> QED BY <2>4, <3>1
  <2>9. CASE rpc[c] = "checked" /\ Held(row) /\ request[c] = row
    <3>1. ~ ReserveInsert(c)
      BY <2>9 DEF ReserveInsert, FindReservationBy, Reservations
    <3>2. rpc'[c] \in {"checked", "failed"}
      BY <1>1, <2>9, <3>1, ReserveMoves
    <3> QED BY <2>1, <2>4, <2>9, <3>2
  <2> QED BY <1>1, <2>5, <2>6, <2>7, <2>8, <2>9
<1>2. ASSUME NEW c \in Calls, NEW u \in Users, NEW s \in Seats
      PROVE  Spec => [](rpc[c] = "idle" /\ Refused(u, s) =>
                          [](request[c] = [user |-> u, seat |-> s] => rpc[c] # "committed"))
  <2>1. rpc[c] = "idle" /\ Refused(u, s) => Kept(c, u, s)
    OBVIOUS
  <2>2. Kept(c, u, s) => (request[c] = [user |-> u, seat |-> s] => rpc[c] # "committed")
    OBVIOUS
  <2>3. TypeInv /\ Kept(c, u, s) /\ [Next]_vars => Kept(c, u, s)'
    BY <1>1
  <2> HIDE DEF Kept
  <2> QED BY <2>1, <2>2, <2>3, OutboxAlways, PTL DEF Spec
<1> QED BY <1>2 DEF LateRequestIsRefused

-----------------------------------------------------------------------------
(* The outbox.                                                             *)

(* With sends one at a time, of which any statement may fail, crashes,     *)
(* redelivery and a batch that sends again, the saga keeps the promises of *)
(* Delivery.                                                               *)
THEOREM ImplementsDelivery == Spec => SendsFollowDelivery
<1>1. Init => Outbox!Init
  BY DEF Init, Outbox!Init
<1>2. TypeInv /\ OutboxInv /\ [Next]_vars => [Outbox!Next]_(Outbox!vars)
  <2> SUFFICES ASSUME TypeInv, OutboxInv, [Next]_vars
               PROVE  Outbox!Next \/ UNCHANGED <<outbox, tried, topic>>
    BY DEF Outbox!vars
  <2> USE DEF Outbox!Next
  <2>1. ASSUME NEW m \in Messages, CreateOutbox(m), outbox[m] = "none" PROVE Outbox!Write(m)
    BY <2>1 DEF CreateOutbox, Outbox!Write, TypeInv, TypeOK
  <2>2. ASSUME NEW m \in Messages, SendOutbox(m)
        PROVE  Outbox!Attempt(m) \/ Outbox!AttemptAndMark(m)
    <3>1. Outbox!Publish(m)
      BY <2>2 DEF SendOutbox, Publish, Outbox!Publish
    <3>2. UNCHANGED outbox \/ outbox' = [outbox EXCEPT ![m] = "sent"]
      BY <2>2 DEF SendOutbox
    <3> QED BY <3>1, <3>2 DEF Outbox!Attempt, Outbox!AttemptAndMark
  <2>3. CASE UNCHANGED <<outbox, tried, topic>>
    BY <2>3
  <2>4. ASSUME NEW c \in Calls, ReserveStep(c)
        PROVE  Outbox!Next \/ UNCHANGED <<outbox, tried, topic>>
    <3>1. ASSUME ReserveOutbox(c) PROVE Outbox!Next
      <4>1. Request(c) \in Messages /\ outbox[Request(c)] = "none" /\ CreateOutbox(Request(c))
        BY <3>1, MessagesDiffer DEF ReserveOutbox, OutboxInv
      <4> QED BY <2>1, <4>1
    <3> QED BY <2>4, <3>1 DEF ReserveStep, ReserveStart, ReserveInsert, ReserveCommit,
                              ReserveFail, relayVars
  <2>5. ASSUME NEW p \in Pays, PayStep(p)
        PROVE  Outbox!Next \/ UNCHANGED <<outbox, tried, topic>>
    <3>1. ASSUME PayOutbox(p) PROVE Outbox!Next
      <4>1. Payment(p) \in Messages /\ outbox[Payment(p)] = "none" /\ CreateOutbox(Payment(p))
        BY <3>1, MessagesDiffer DEF PayOutbox, OutboxInv
      <4> QED BY <2>1, <4>1
    <3> QED BY <2>5, <3>1 DEF PayStep, PayStart, PayCharge, PayCommit, PayFail, relayVars
  <2>6. ASSUME NEW m \in Messages, HandleSend(m)
        PROVE  Outbox!Next \/ UNCHANGED <<outbox, tried, topic>>
    BY <2>2, <2>6 DEF HandleSend, relayVars
  <2>7. ASSUME NEW c \in Calls, BatchResend(c) PROVE Outbox!Next
    BY <2>2, <2>7, MessagesDiffer DEF BatchResend
  <2> QED BY <2>3, <2>4, <2>5, <2>6, <2>7 DEF Next, ReserveSeat, BookingSeat, Consume,
             Redeliver, Crash, vars, relayVars
<1> QED BY <1>1, <1>2, OutboxAlways, PTL DEF Spec, SendsFollowDelivery, Outbox!Spec

(* A payment event whose handler is gone, dead with the process or with a  *)
(* failing statement, before it sent: it is not sent later either.  The    *)
(* batch only ever sends requests, so no message of the payment reaches    *)
(* the consumer that books its seat.                                       *)
LostStaysLost == \A p \in Pays : [](Lost(p) => []Lost(p))

(* What the process forgets of a payment nothing in the system makes up    *)
(* for, however long it runs and often it restarts.                        *)
THEOREM LostPaymentIsNeverSent == Spec => LostStaysLost
<1>1. ASSUME NEW p \in Pays, TypeInv, OutboxInv, Lost(p), [Next]_vars PROVE Lost(p)'
  <2> USE MessagesDiffer DEF Lost, TypeInv, TypeOK, OutboxInv
  <2>1. ASSUME NEW m \in Messages, m # Payment(p), CreateOutbox(m) PROVE Lost(p)'
    BY <1>1, <2>1 DEF CreateOutbox
  <2>2. ASSUME NEW m \in Messages, m # Payment(p), SendOutbox(m), scheduled' \subseteq scheduled
        PROVE  Lost(p)'
    BY <1>1, <2>2 DEF SendOutbox, Publish
  <2>3. ASSUME NEW c \in Calls, ReserveStep(c) PROVE Lost(p)'
    <3>1. CASE ReserveOutbox(c)
      BY <2>1, <3>1 DEF ReserveOutbox
    <3> QED BY <1>1, <2>3, <3>1 DEF ReserveStep, ReserveStart, ReserveInsert, ReserveCommit,
                                    ReserveFail, relayVars
  <2>4. ASSUME NEW q \in Pays, PayStep(q) PROVE Lost(p)'
    <3>1. CASE PayOutbox(q)
      BY <1>1, <2>1, <3>1 DEF PayOutbox
    <3> QED BY <1>1, <2>4, <3>1 DEF PayStep, PayStart, PayCharge, PayCommit, PayFail, relayVars
  <2>5. ASSUME NEW m \in Messages, HandleSend(m) PROVE Lost(p)'
    <3>1. m # Payment(p) /\ scheduled' \subseteq scheduled
      BY <1>1, <2>5 DEF HandleSend
    <3>2. CASE SendOutbox(m)
      BY <2>2, <3>1, <3>2
    <3>3. CASE UNCHANGED <<outbox, topic>>
      BY <1>1, <3>1, <3>3
    <3> QED BY <2>5, <3>2, <3>3 DEF HandleSend
  <2>6. ASSUME NEW c \in Calls, BatchResend(c) PROVE Lost(p)'
    BY <2>2, <2>6 DEF BatchResend
  <2> QED BY <1>1, <2>3, <2>4, <2>5, <2>6 DEF Next, ReserveSeat, BookingSeat, Consume,
             Redeliver, Crash, vars, relayVars
<1>2. ASSUME NEW p \in Pays PROVE Spec => [](Lost(p) => []Lost(p))
  <2> DEFINE L == Lost(p)
  <2>1. TypeInv /\ OutboxInv /\ L /\ [Next]_vars => L'
    BY <1>1
  <2> HIDE DEF L
  <2>2. Spec => [](L => []L)
    BY <2>1, OutboxAlways, PTL DEF Spec
  <2> QED BY <2>2 DEF L
<1> QED BY <1>2 DEF LostStaysLost
=============================================================================
