----------------------------- MODULE Ticketing -----------------------------
(***************************************************************************)
(* The ticketing saga: a user reserves a seat, the reservation event       *)
(* reserves the seat row, the user pays with points, the payment event     *)
(* books the seat.                                                         *)
(*                                                                         *)
(* The steps are database transactions, an outbox row written on a         *)
(* connection of its own, an asynchronous send to Kafka, a cron job that   *)
(* sends again what was left unsent, and consumers that run whenever a     *)
(* message reaches them.  No step waits for another unless the code does.  *)
(***************************************************************************)
EXTENDS Integers, FiniteSets

CONSTANTS
  Users,        \* user ids
  Seats,        \* seat ids of one performance
  Calls,        \* POST /reservations requests, named by the id of the row one creates
  Pays,         \* POST /payments requests, named by the id of the row one creates
  Price,        \* the amount of every seat
  InitialPoint, \* the points every user starts with
  BatchSize,    \* how many rows getOutboxes takes (100 in the code)
  MaxFaults,    \* bound: crashes and failing statements of senders and consumers
  BrokerUp,     \* TRUE: no send to Kafka fails or times out
  None          \* the absence of a value

ASSUME TicketingAssumption ==
  /\ Price \in Nat
  /\ InitialPoint \in Nat
  /\ BatchSize \in Nat /\ MaxFaults \in Nat
  /\ BrokerUp \in BOOLEAN
  /\ Calls \subseteq Nat /\ Pays \subseteq Nat
  /\ IsFiniteSet(Pays)
  /\ None \notin Calls

VARIABLES
  rpc,        \* rpc[c]: how far the reserve request c has come
  request,    \* request[c]: the user and the seat of c, its reservation row
  ppc,        \* ppc[p]: how far the payment request p has come
  bill,       \* bill[p]: the reservation p pays, None before p starts
  seen,       \* seen[p]: the point row in the snapshot of p's transaction
  point,      \* point[u]: the committed point row of the user
  seat,       \* seat[s]: the status of the seat row
  outbox,     \* outbox[m]: the outbox row of message m
  scheduled,  \* messages whose send handler waits in the event loop
  tried,      \* history: messages of which a send attempt has ended
  topic,      \* messages the broker holds
  seatInbox,  \* messages the performance consumer has still to handle
  missed,     \* history: messages whose handler failed with the database
  faults      \* how many crashes and failing statements there were

resvVars == <<rpc, request>>
payVars == <<ppc, bill, seen>>
relayVars == <<outbox, scheduled, tried, topic>>
seatVars == <<seat, seatInbox, missed>>
vars == <<resvVars, payVars, point, relayVars, seatVars, faults>>

-----------------------------------------------------------------------------
(* Messages: one outbox row per transaction, one Kafka message per row.    *)

Request(c) == <<"reservation.request.topic", c>>
Payment(p) == <<"payment.pay.topic", p>>
Requests == {Request(c) : c \in Calls}
Payments == {Payment(p) : p \in Pays}
Messages == Requests \cup Payments

SeatStatus == {"Available", "Reserved", "Booked"}
OutboxStatus == {"none", "unsent", "sent"}
ResvPc == {"idle", "checked", "inserted", "outboxed", "committed", "failed"}
PayPc == {"idle", "read", "charged", "outboxed", "paid", "failed"}
PointRow == [amount : Nat, version : Nat]
Row == [user : Users, seat : Seats]

(* Mutant: rows are read before they are committed.                        *)
ReservationsUncommitted == {c \in Calls : rpc[c] \in {"inserted", "outboxed", "committed"}}

(* The reservation rows other connections see; all of them stay REQUEST.   *)
Reservations == {c \in Calls : rpc[c] = "committed"}
PayingTx == {p \in Pays : ppc[p] \in {"charged", "outboxed"}}
Payer(p) == request[bill[p]].user

TypeOK ==
  /\ rpc \in [Calls -> ResvPc]
  /\ request \in [Calls -> Row \cup {None}]
  /\ ppc \in [Pays -> PayPc]
  /\ bill \in [Pays -> Calls \cup {None}]
  /\ seen \in [Pays -> PointRow]
  /\ point \in [Users -> PointRow]
  /\ seat \in [Seats -> SeatStatus]
  /\ outbox \in [Messages -> OutboxStatus]
  /\ scheduled \subseteq Messages
  /\ tried \subseteq Messages
  /\ topic \subseteq tried
  /\ seatInbox \subseteq topic
  /\ missed \subseteq topic
  /\ faults \in 0 .. MaxFaults

Init ==
  /\ rpc = [c \in Calls |-> "idle"]
  /\ request = [c \in Calls |-> None]
  /\ ppc = [p \in Pays |-> "idle"]
  /\ bill = [p \in Pays |-> None]
  /\ seen = [p \in Pays |-> [amount |-> 0, version |-> 0]]
  /\ point = [u \in Users |-> [amount |-> InitialPoint, version |-> 1]]
  /\ seat = [s \in Seats |-> "Available"]
  /\ outbox = [m \in Messages |-> "none"]
  /\ scheduled = {} /\ tried = {} /\ topic = {} /\ seatInbox = {} /\ missed = {}
  /\ faults = 0

(* A statement of a sender or of a consumer fails.                         *)
Fault == faults < MaxFaults /\ faults' = faults + 1

-----------------------------------------------------------------------------
(* Outbox and relay.                                                       *)

(* Mutant: the row is created without isSent: false.                       *)
CreateOutboxAsSent(m) ==
  /\ outbox' = [outbox EXCEPT ![m] = "sent"]
  /\ scheduled' = scheduled \cup {m}
  /\ UNCHANGED <<tried, topic>>

(* Mutant: the row is saved and no topic event is emitted.                 *)
CreateOutboxSilently(m) ==
  /\ outbox' = [outbox EXCEPT ![m] = "unsent"]
  /\ UNCHANGED <<scheduled, tried, topic>>

(* The outbox row is saved on the default connection and is durable at     *)
(* once; emitting the topic event only schedules its handler.              *)
CreateOutbox(m) ==
  /\ outbox' = [outbox EXCEPT ![m] = "unsent"]
  /\ scheduled' = scheduled \cup {m}
  /\ UNCHANGED <<tried, topic>>

(* The message reaches the broker, and with it the one handler of its      *)
(* topic the application has.                                              *)
Publish(m) ==
  /\ topic' = topic \cup {m}
  /\ seatInbox' = seatInbox \cup {m}

(* sendOutbox: the send errors, times out or succeeds, and in every case   *)
(* the row is then saved as sent, unless the save fails.                   *)
SendOutbox(m) ==
  /\ outbox[m] = "unsent"
  /\ tried' = tried \cup {m}
  /\ \/ Publish(m)
     \/ ~BrokerUp /\ UNCHANGED <<topic, seatInbox>>
  /\ \/ outbox' = [outbox EXCEPT ![m] = "sent"] /\ UNCHANGED faults
     \/ Fault /\ UNCHANGED outbox
  /\ UNCHANGED <<resvVars, payVars, point, seat, missed>>

(* The handler of the topic event.  Without an unsent row getOutboxBy      *)
(* throws, and it may fail; the listener logs what is thrown, and nothing  *)
(* is sent.                                                                *)
HandleSend(m) ==
  /\ m \in scheduled
  /\ scheduled' = scheduled \ {m}
  /\ \/ SendOutbox(m)
     \/ /\ \/ outbox[m] # "unsent" /\ UNCHANGED faults
           \/ Fault
        /\ UNCHANGED <<outbox, tried, topic, resvVars, payVars, point, seatVars>>

(* getOutboxes takes the oldest rows of a table by transaction id and      *)
(* drops the isSent condition it is called with.                           *)
Page(table) ==
  {m \in table : /\ outbox[m] # "none"
                 /\ Cardinality({k \in table : k[2] < m[2] /\ outbox[k] # "none"}) < BatchSize}

(* What the two batch jobs find, each in its own table.                    *)
GetOutboxes == {m[2] : m \in Page(Requests) \cup Page(Payments)}

(* Both jobs give the ids they find to the reservation service, so no      *)
(* payment row is ever sent by a batch.  A call that fails before the send *)
(* changes nothing: the job comes again.                                   *)
BatchResend(c) ==
  /\ c \in GetOutboxes
  /\ SendOutbox(Request(c))
  /\ UNCHANGED scheduled

-----------------------------------------------------------------------------
(* POST /reservations                                                      *)

(* The seat row is read outside any transaction.  The queue guard comes    *)
(* first and is TokenQueue's: a user may hold several tokens, and a late   *)
(* SETEX revives an ended one, so any user may get here at any time.       *)
ReserveStart(c, u, s) ==
  /\ rpc[c] = "idle"
  /\ seat[s] = "Available"
  /\ rpc' = [rpc EXCEPT ![c] = "checked"]
  /\ request' = [request EXCEPT ![c] = [user |-> u, seat |-> s]]
  /\ UNCHANGED <<payVars, point, relayVars, seatVars, faults>>

(* Mutant: the rows are looked for under another status.                   *)
FindReservationByNone(row) == {}

(* findReservationBy runs outside the transaction: it sees committed rows. *)
FindReservationBy(row) == {r \in Reservations : request[r] = row}

ReserveInsert(c) ==
  /\ rpc[c] = "checked"
  /\ FindReservationBy(request[c]) = {}
  /\ rpc' = [rpc EXCEPT ![c] = "inserted"]
  /\ UNCHANGED <<request, payVars, point, relayVars, seatVars, faults>>

ReserveOutbox(c) ==
  /\ rpc[c] = "inserted"
  /\ rpc' = [rpc EXCEPT ![c] = "outboxed"]
  /\ CreateOutbox(Request(c))
  /\ UNCHANGED <<request, payVars, point, seatVars, faults>>

(* Mutant: COMMIT without waiting for the outbox row.                      *)
ReserveCommitEarly(c) ==
  /\ rpc[c] \in {"inserted", "outboxed"}
  /\ rpc' = [rpc EXCEPT ![c] = "committed"]
  /\ UNCHANGED <<request, payVars, point, relayVars, seatVars, faults>>

ReserveCommit(c) ==
  /\ rpc[c] = "outboxed"
  /\ rpc' = [rpc EXCEPT ![c] = "committed"]
  /\ UNCHANGED <<request, payVars, point, relayVars, seatVars, faults>>

(* A duplicate is refused, or the insert, the outbox save or COMMIT fails. *)
ReserveFail(c) ==
  /\ \/ rpc[c] = "checked" /\ FindReservationBy(request[c]) # {}
     \/ rpc[c] \in {"inserted", "outboxed"}
  /\ rpc' = [rpc EXCEPT ![c] = "failed"]
  /\ UNCHANGED <<request, payVars, point, relayVars, seatVars, faults>>

-----------------------------------------------------------------------------
(* POST /payments                                                          *)

(* BEGIN and the reads: the reservation must be a committed REQUEST row of *)
(* the paying user, and the point row comes from the same snapshot.        *)
PayStart(p, c) ==
  /\ ppc[p] = "idle"
  /\ c \in Reservations
  /\ ppc' = [ppc EXCEPT ![p] = "read"]
  /\ bill' = [bill EXCEPT ![p] = c]
  /\ seen' = [seen EXCEPT ![p] = point[request[c].user]]
  /\ UNCHANGED <<resvVars, point, relayVars, seatVars, faults>>

(* Mutant: the balance is not checked.                                     *)
CanUsePointUnchecked(p) == TRUE

CanUsePoint(p) == seen[p].amount - Price >= 0

(* UPDATE takes the row lock and keeps it until the transaction ends.      *)
RowFree(u) == \A p \in PayingTx : Payer(p) # u

(* Mutant: the version is missing from the WHERE clause.                   *)
PayChargeAnyVersion(p) ==
  /\ ppc[p] = "read"
  /\ CanUsePoint(p)
  /\ RowFree(Payer(p))
  /\ ppc' = [ppc EXCEPT ![p] = "charged"]
  /\ UNCHANGED <<resvVars, bill, seen, point, relayVars, seatVars, faults>>

(* UPDATE ... WHERE version = the version read, then the history and the   *)
(* payment row, all inside the transaction.                                *)
PayCharge(p) ==
  /\ ppc[p] = "read"
  /\ CanUsePoint(p)
  /\ RowFree(Payer(p))
  /\ point[Payer(p)].version = seen[p].version
  /\ ppc' = [ppc EXCEPT ![p] = "charged"]
  /\ UNCHANGED <<resvVars, bill, seen, point, relayVars, seatVars, faults>>

PayOutbox(p) ==
  /\ ppc[p] = "charged"
  /\ ppc' = [ppc EXCEPT ![p] = "outboxed"]
  /\ CreateOutbox(Payment(p))
  /\ UNCHANGED <<resvVars, bill, seen, point, seatVars, faults>>

PayCommit(p) ==
  /\ ppc[p] = "outboxed"
  /\ ppc' = [ppc EXCEPT ![p] = "paid"]
  /\ point' = [point EXCEPT ![Payer(p)] = [amount |-> seen[p].amount - Price,
                                           version |-> seen[p].version + 1]]
  /\ UNCHANGED <<resvVars, bill, seen, relayVars, seatVars, faults>>

(* Too few points, another version, or a failing statement: ROLLBACK.      *)
PayFail(p) ==
  /\ \/ ppc[p] = "read" /\ ~CanUsePoint(p)
     \/ /\ ppc[p] = "read"
        /\ RowFree(Payer(p))
        /\ point[Payer(p)].version # seen[p].version
     \/ p \in PayingTx
  /\ ppc' = [ppc EXCEPT ![p] = "failed"]
  /\ UNCHANGED <<resvVars, bill, seen, point, relayVars, seatVars, faults>>

-----------------------------------------------------------------------------
(* The consumer of both topics.  The queue consumer declares a handler for *)
(* the reservations too, but an application keeps one handler per pattern, *)
(* and this one is registered last.                                        *)

(* Mutant: the entity's status check is missing.                           *)
SeatMoveUnguarded(s, from, to) == seat' = [seat EXCEPT ![s] = to]

(* Mutant: both moves check that the seat is reservable.                   *)
SeatMoveReservable(s, from, to) ==
  seat' = IF seat[s] = "Available" THEN [seat EXCEPT ![s] = to] ELSE seat

SeatMove(s, from, to) ==
  seat' = IF seat[s] = from THEN [seat EXCEPT ![s] = to] ELSE seat

(* A handler that throws, because the seat has another status or the       *)
(* database fails, has still consumed its message.                         *)
Consume(m, s, from, to) ==
  /\ m \in seatInbox
  /\ seatInbox' = seatInbox \ {m}
  /\ \/ SeatMove(s, from, to) /\ UNCHANGED <<missed, faults>>
     \/ Fault /\ missed' = missed \cup {m} /\ UNCHANGED seat
  /\ UNCHANGED <<resvVars, payVars, point, relayVars>>

ReserveSeat(c) == Consume(Request(c), request[c].seat, "Available", "Reserved")

BookingSeat(p) == Consume(Payment(p), request[bill[p]].seat, "Reserved", "Booked")

(* Kafka redelivers a message whose offset was not committed.              *)
Redeliver(m) ==
  /\ m \in topic
  /\ seatInbox' = seatInbox \cup {m}
  /\ UNCHANGED <<resvVars, payVars, point, relayVars, seat, missed, faults>>

(* The process dies: open transactions roll back, the event loop is lost,  *)
(* MySQL and Kafka keep what they hold.                                    *)
Crash ==
  /\ Fault
  /\ rpc' = [c \in Calls |-> IF rpc[c] \in {"checked", "inserted", "outboxed"}
                             THEN "failed" ELSE rpc[c]]
  /\ ppc' = [p \in Pays |-> IF ppc[p] \in {"read", "charged", "outboxed"}
                            THEN "failed" ELSE ppc[p]]
  /\ scheduled' = {}
  /\ UNCHANGED <<request, bill, seen, point, outbox, tried, topic, seatVars>>

-----------------------------------------------------------------------------
ReserveStep(c) ==
  \/ \E u \in Users, s \in Seats : ReserveStart(c, u, s)
  \/ ReserveInsert(c) \/ ReserveOutbox(c) \/ ReserveCommit(c) \/ ReserveFail(c)

PayStep(p) ==
  \/ \E c \in Calls : PayStart(p, c)
  \/ PayCharge(p) \/ PayOutbox(p) \/ PayCommit(p) \/ PayFail(p)

Next ==
  \/ \E c \in Calls : ReserveStep(c) \/ BatchResend(c) \/ ReserveSeat(c)
  \/ \E p \in Pays : PayStep(p) \/ BookingSeat(p)
  \/ \E m \in Messages : HandleSend(m) \/ Redeliver(m)
  \/ Crash

Spec == Init /\ [][Next]_vars

(* The event loop runs what is scheduled, the cron sends again the rows it *)
(* finds on its page, and those only, and the consumer keeps polling;      *)
(* nobody is obliged to reserve, pay or commit.                            *)
Fairness ==
  /\ \A m \in Messages : WF_vars(HandleSend(m))
  /\ \A c \in Calls : /\ WF_vars(BatchResend(c))
                      /\ WF_vars(ReserveSeat(c))
  /\ \A p \in Pays : WF_vars(BookingSeat(p))

FairSpec == Spec /\ Fairness
-----------------------------------------------------------------------------
(* Safety of the saga.                                                     *)

(* A committed reservation or payment has its outbox row: createOutbox is  *)
(* awaited inside the transaction callback, so COMMIT never precedes it    *)
(* and no crash can leave a committed row without an event to send.        *)
CommittedHasOutbox ==
  /\ \A c \in Calls : rpc[c] = "committed" => outbox[Request(c)] # "none"
  /\ \A p \in Pays : ppc[p] = "paid" => outbox[Payment(p)] # "none"

(* The points a user has lost are the price of that user's committed       *)
(* payments, whatever payments ran at the same time on stale reads: the    *)
(* version in the UPDATE's WHERE loses no update, and the deduction and    *)
(* the payment row commit together.                                        *)
PaidBy(u) == {p \in Pays : ppc[p] = "paid" /\ Payer(p) = u}

MoneyMatchesPayments ==
  \A u \in Users :
    point[u].amount + Price * Cardinality(PaidBy(u)) = InitialPoint

(* A payment event is only ever written for a reservation that committed,  *)
(* and whose own event was therefore written before it.                    *)
PaymentFollowsReservation ==
  \A p \in Pays : outbox[Payment(p)] # "none" =>
    /\ bill[p] \in Reservations
    /\ outbox[Request(bill[p])] # "none"

(* No seat leaves Available but by a reservation message for that seat,    *)
(* and none is Booked but by a payment message for it as well, whatever    *)
(* the broker duplicates, delays or reorders.                              *)
SeatStateIsExplained ==
  \A s \in Seats :
    /\ seat[s] # "Available" =>
         \E c \in Calls : Request(c) \in topic /\ request[c].seat = s
    /\ seat[s] = "Booked" =>
         \E p \in Pays : Payment(p) \in topic /\ request[bill[p]].seat = s

(* A request that comes once its seat has left Available, or a reservation *)
(* of the same user and seat has committed, never commits, with whatever   *)
(* delay and after whatever crash.  Of requests that overlap these events  *)
(* the checks, which come before the transaction, say nothing.             *)
Refused(u, s) ==
  \/ seat[s] # "Available"
  \/ \E d \in Reservations : request[d] = [user |-> u, seat |-> s]

LateRequestIsRefused ==
  \A c \in Calls, u \in Users, s \in Seats :
    [](rpc[c] = "idle" /\ Refused(u, s) =>
         [](request[c] = [user |-> u, seat |-> s] => rpc[c] # "committed"))

(* Sends that fail before or after the message is out, crashes and the     *)
(* batch do to rows and messages what Delivery allows, which is also all   *)
(* that the overlapping sends of OutboxRelay can do.                       *)
Outbox == INSTANCE Delivery WITH
  Events <- Messages, Lossless <- BrokerUp, row <- outbox
SendsFollowDelivery == Outbox!Spec

-----------------------------------------------------------------------------
(* Liveness.  Each property names the ways in which the code loses what it *)
(* has promised, and claims that there is no other.                        *)

(* The one attempt was lost, and the row is marked: nobody tries again.    *)
Dropped(m) == m \in tried \ topic /\ outbox[m] = "sent"

(* The row is unsent, its handler is gone and no job finds it: it is not   *)
(* among the oldest rows.                                                  *)
Starved(c) ==
  outbox[Request(c)] = "unsent" /\ Request(c) \notin scheduled /\ c \notin GetOutboxes

(* The row is unsent and its handler is gone, which for a payment is the   *)
(* end: no job sends payments.                                             *)
Lost(p) ==
  outbox[Payment(p)] = "unsent" /\ Payment(p) \notin scheduled \cup topic

SeatTaken(c) == request[c] # None /\ seat[request[c].seat] # "Available"
SeatBooked(p) == bill[p] # None /\ seat[request[bill[p]].seat] = "Booked"

(* A committed reservation takes its seat, even if the process dies before *)
(* the send or the send's last statement fails, unless the broker lost its *)
(* message, its row is starved, or the consumer's handler failed.          *)
ReservedSeatIsTaken ==
  \A c \in Calls :
    rpc[c] = "committed" ~> \/ SeatTaken(c)
                            \/ Dropped(Request(c)) \/ Starved(c) \/ Request(c) \in missed

(* A payment that begins when its seat has been reserved books it once it  *)
(* commits, unless its event is lost in one of these ways.  Of one that    *)
(* begins earlier this does not hold: see PaidSeatIsBooked.                *)
TimelyPaymentBooks ==
  \A p \in Pays :
    [](ppc[p] = "read" /\ SeatTaken(bill[p]) =>
         (ppc[p] = "paid" ~> \/ SeatBooked(p)
                             \/ Dropped(Payment(p)) \/ Lost(p) \/ Payment(p) \in missed))

(* A payment event has nobody but its handler to send it, since no batch   *)
(* sends payment rows: as long as nothing has failed it is sent.           *)
PaymentIsSent ==
  \A p \in Pays : ppc[p] = "paid" ~> outbox[Payment(p)] = "sent" \/ faults > 0

-----------------------------------------------------------------------------
(* What the documents say of the system and the code does not do.          *)

(* A reservation is paid at most once (README.md:356).                     *)
PaidAtMostOnce ==
  \A p, q \in Pays :
    ppc[p] = "paid" /\ ppc[q] = "paid" /\ bill[p] = bill[q] => p = q

(* Only one user holds a seat (README.md:316).                             *)
SeatHasOneHolder ==
  \A c, d \in Reservations :
    request[c].seat = request[d].seat => request[c].user = request[d].user

(* The seat of a committed payment becomes Booked (README.md:359).         *)
PaidSeatIsBooked ==
  \A p \in Pays : ppc[p] = "paid" ~> SeatBooked(p)
=============================================================================
