----------------------------- MODULE SeatStore -----------------------------
(***************************************************************************)
(* The seat rows: reserveSeat and bookingSeat as the consumers run them.   *)
(* A handler reads the row, asks the entity, and writes the new status     *)
(* with an UPDATE that demands the version read.  There is no transaction  *)
(* around the two statements, and handlers of one seat overlap: several    *)
(* processes consume, and the two topics are independent.                  *)
(***************************************************************************)
EXTENDS Integers

CONSTANTS
  Seats,    \* seat ids
  Handlers, \* runs of a consumer handler, one per delivery of a message
  None      \* the absence of a seat

VARIABLES
  pc,   \* pc[h]: how far the handler has come
  call, \* call[h]: the method and the seat it was called with
  seen, \* seen[h]: the seat row it has read
  row   \* row[s]: the seat row

vars == <<pc, call, seen, row>>

Methods == {"reserve", "booking"}
Calls == [method : Methods, seat : Seats]
Status == {"Available", "Reserved", "Booked"}
SeatRow == [status : Status, version : 1 .. 3]
Pc == {"idle", "read", "done", "refused", "conflict", "dead"}

TypeOK ==
  /\ pc \in [Handlers -> Pc]
  /\ call \in [Handlers -> Calls \cup {None}]
  /\ seen \in [Handlers -> SeatRow \cup {None}]
  /\ row \in [Seats -> SeatRow]

Init ==
  /\ pc = [h \in Handlers |-> "idle"]
  /\ call = [h \in Handlers |-> None]
  /\ seen = [h \in Handlers |-> None]
  /\ row = [s \in Seats |-> [status |-> "Available", version |-> 1]]

-----------------------------------------------------------------------------
Seat(h) == call[h].seat

(* A message is delivered and getSeatByPk reads the row.                   *)
GetSeat(h, c) ==
  /\ pc[h] = "idle"
  /\ pc' = [pc EXCEPT ![h] = "read"]
  /\ call' = [call EXCEPT ![h] = c]
  /\ seen' = [seen EXCEPT ![h] = row[c.seat]]
  /\ UNCHANGED row

(* The transition each method of the entity makes, and from where.         *)
From(method) == IF method = "reserve" THEN "Available" ELSE "Reserved"
To(method) == IF method = "reserve" THEN "Reserved" ELSE "Booked"

(* isReservable and isBookComplete, asked of the row read.                 *)
Allowed(h) == seen[h].status = From(call[h].method)

(* Mutant: the version is missing from the WHERE clause.                   *)
VersionMatchesAny(h) == TRUE

(* Mutant: the version found is compared with the version to write.        *)
VersionMatchesNext(h) == row[Seat(h)].version = seen[h].version + 1

VersionMatches(h) == row[Seat(h)].version = seen[h].version

NextVersion(h) == seen[h].version + 1

(* updateSeatStatus is one auto-committed statement.                       *)
UpdateSeatStatus(h) ==
  /\ pc[h] = "read" /\ Allowed(h) /\ VersionMatches(h)
  /\ pc' = [pc EXCEPT ![h] = "done"]
  /\ row' = [row EXCEPT ![Seat(h)] = [status |-> To(call[h].method),
                                      version |-> NextVersion(h)]]
  /\ UNCHANGED <<call, seen>>

(* The entity throws, no row is affected, or the process dies: the handler *)
(* ends without an effect, and nobody calls it again.                      *)
End(h, outcome) ==
  /\ pc[h] = "read"
  /\ pc' = [pc EXCEPT ![h] = outcome]
  /\ UNCHANGED <<call, seen, row>>

Refuse(h) == End(h, "refused") /\ ~Allowed(h)
Conflict(h) == End(h, "conflict") /\ Allowed(h) /\ ~VersionMatches(h)
Die(h) == End(h, "dead")

Next ==
  \E h \in Handlers :
    \/ \E c \in Calls : GetSeat(h, c)
    \/ UpdateSeatStatus(h) \/ Refuse(h) \/ Conflict(h) \/ Die(h)

Spec == Init /\ [][Next]_vars

-----------------------------------------------------------------------------
(* However many handlers race on a seat, one of them reserves it and one   *)
(* of them books it: only the first request succeeds.                      *)
OneWinnerPerSeat ==
  \A g, h \in Handlers :
    pc[g] = "done" /\ pc[h] = "done" /\ call[g] = call[h] => g = h

(* A handler that loses the race loses to a handler that did the very same *)
(* to the seat: dropping its message loses nothing.                        *)
ConflictWasDone ==
  \A h \in Handlers : pc[h] = "conflict" =>
    \E g \in Handlers : pc[g] = "done" /\ call[g] = call[h]

(* The version tells the stage: comparing versions detects every change of *)
(* the status between a handler's two statements.                          *)
VersionOf == [status \in Status |-> CASE status = "Available" -> 1
                                      [] status = "Reserved" -> 2
                                      [] status = "Booked" -> 3]

VersionTellsStatus == \A s \in Seats : row[s].version = VersionOf[row[s].status]

(* Seats move as the lifecycle allows.                                     *)
Lifecycle == INSTANCE SeatLifecycle WITH seat <- [s \in Seats |-> row[s].status]
ActsAsLifecycle == Lifecycle!Spec
=============================================================================
