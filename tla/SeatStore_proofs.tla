-------------------------- MODULE SeatStore_proofs --------------------------
(***************************************************************************)
(* Proofs about SeatStore for any seats and any number of handlers.        *)
(***************************************************************************)
EXTENDS SeatStore, TLAPS

Started == \A h \in Handlers : pc[h] # "idle" => call[h] \in Calls /\ seen[h] \in SeatRow

(* What a handler has read was the row at some time before.                *)
SeenIsPast ==
  \A h \in Handlers : pc[h] # "idle" =>
    /\ seen[h].version = VersionOf[seen[h].status]
    /\ seen[h].version <= row[Seat(h)].version

(* A handler that is done has taken its seat past the stage it began at.   *)
DoneIsPast ==
  \A h \in Handlers : pc[h] = "done" =>
    VersionOf[From(call[h].method)] < row[Seat(h)].version

(* Every stage a seat has left was ended by a handler.                     *)
StagesHaveWinners ==
  \A c \in Calls : VersionOf[From(c.method)] < row[c.seat].version =>
    \E g \in Handlers : pc[g] = "done" /\ call[g] = c

TypeInv == TypeOK /\ Started
StageInv == VersionTellsStatus /\ SeenIsPast /\ DoneIsPast /\ StagesHaveWinners

-----------------------------------------------------------------------------
LEMMA Stages ==
  /\ VersionOf["Available"] = 1 /\ VersionOf["Reserved"] = 2 /\ VersionOf["Booked"] = 3
  /\ \A m \in Methods : /\ From(m) \in Status /\ To(m) \in Status
                        /\ VersionOf[To(m)] = VersionOf[From(m)] + 1
                        /\ VersionOf[From(m)] \in 1 .. 2
<1>1. VersionOf["Available"] = 1
  BY DEF VersionOf, Status
<1>2. VersionOf["Reserved"] = 2
  BY DEF VersionOf, Status
<1>3. VersionOf["Booked"] = 3
  BY DEF VersionOf, Status
<1> QED BY <1>1, <1>2, <1>3 DEF From, To, Methods, Status

LEMMA StageInit == Init => TypeInv /\ StageInv /\ OneWinnerPerSeat /\ ConflictWasDone
<1> SUFFICES ASSUME Init PROVE TypeInv /\ StageInv /\ OneWinnerPerSeat /\ ConflictWasDone
  OBVIOUS
<1>1. \A s \in Seats : row[s].status = "Available" /\ row[s].version = 1
  <2> SUFFICES ASSUME NEW s \in Seats PROVE row[s].status = "Available" /\ row[s].version = 1
    OBVIOUS
  <2>1. row[s] = [status |-> "Available", version |-> 1]
    BY DEF Init
  <2> QED BY <2>1
<1>2. TypeInv
  BY DEF Init, TypeInv, TypeOK, Started, Pc, SeatRow, Status
<1>3. VersionTellsStatus
  BY <1>1, Stages DEF VersionTellsStatus
<1>4. SeenIsPast /\ DoneIsPast /\ OneWinnerPerSeat /\ ConflictWasDone
  BY DEF Init, SeenIsPast, DoneIsPast, OneWinnerPerSeat, ConflictWasDone
<1>5. StagesHaveWinners
  BY <1>1, Stages DEF StagesHaveWinners, Calls
<1> QED BY <1>2, <1>3, <1>4, <1>5 DEF StageInv

(* An accepted write takes the row exactly one stage further.              *)
LEMMA UpdateAdvances ==
  ASSUME TypeInv, StageInv, NEW h \in Handlers, UpdateSeatStatus(h)
  PROVE  /\ call[h] \in Calls /\ Seat(h) \in Seats
         /\ row[Seat(h)].status = From(call[h].method)
         /\ row[Seat(h)].version = VersionOf[From(call[h].method)]
         /\ row'[Seat(h)] = [status |-> To(call[h].method),
                             version |-> VersionOf[To(call[h].method)]]
         /\ row'[Seat(h)].status = To(call[h].method)
         /\ row'[Seat(h)].version = VersionOf[To(call[h].method)]
         /\ \A s \in Seats : s # Seat(h) => row'[s] = row[s]
         /\ \A s \in Seats : row[s].version \in 1 .. 3
<1>1. call[h] \in Calls /\ seen[h] \in SeatRow
  BY DEF UpdateSeatStatus, TypeInv, Started
<1>2. Seat(h) \in Seats /\ call[h].method \in Methods
  BY <1>1 DEF Calls, Seat
<1>3. \A s \in Seats : row[s].version \in 1 .. 3 /\ row[s].status \in Status
  BY DEF TypeInv, TypeOK, SeatRow
<1>4. /\ seen[h].version = VersionOf[From(call[h].method)]
      /\ row[Seat(h)].version = seen[h].version
  BY DEF UpdateSeatStatus, Allowed, VersionMatches, StageInv, SeenIsPast
<1>5. row[Seat(h)].status = From(call[h].method)
  BY <1>2, <1>3, <1>4, Stages DEF StageInv, VersionTellsStatus, Status, Methods, From
<1>6. NextVersion(h) = VersionOf[To(call[h].method)]
  BY <1>2, <1>4, Stages DEF NextVersion
<1>7. row' = [row EXCEPT ![Seat(h)] = [status |-> To(call[h].method),
                                       version |-> VersionOf[To(call[h].method)]]]
  BY <1>6 DEF UpdateSeatStatus
<1>8. row'[Seat(h)] = [status |-> To(call[h].method),
                       version |-> VersionOf[To(call[h].method)]]
  BY <1>2, <1>7 DEF TypeInv, TypeOK
<1>9. \A s \in Seats : s # Seat(h) => row'[s] = row[s]
  BY <1>7 DEF TypeInv, TypeOK
<1> QED BY <1>1, <1>2, <1>3, <1>4, <1>5, <1>8, <1>9

LEMMA TypeStep == TypeInv /\ StageInv /\ [Next]_vars => TypeInv'
<1> SUFFICES ASSUME TypeInv, StageInv, [Next]_vars PROVE TypeInv'
  OBVIOUS
<1> USE DEF TypeInv, TypeOK, Started, Pc
<1>1. ASSUME NEW h \in Handlers, NEW c \in Calls, GetSeat(h, c) PROVE TypeInv'
  <2>1. row[c.seat] \in SeatRow
    BY DEF Calls
  <2> QED BY <1>1, <2>1 DEF GetSeat
<1>2. ASSUME NEW h \in Handlers, UpdateSeatStatus(h) PROVE TypeInv'
  <2>1. /\ Seat(h) \in Seats /\ call[h].method \in Methods
        /\ row'[Seat(h)] = [status |-> To(call[h].method),
                            version |-> VersionOf[To(call[h].method)]]
        /\ \A s \in Seats : s # Seat(h) => row'[s] = row[s]
    BY <1>2, UpdateAdvances DEF Calls
  <2>2. row'[Seat(h)] \in SeatRow
    BY <2>1, Stages DEF SeatRow
  <2>3. row' \in [Seats -> SeatRow]
    BY <1>2, <2>1, <2>2 DEF UpdateSeatStatus
  <2> QED BY <1>2, <2>3 DEF UpdateSeatStatus
<1>3. ASSUME NEW h \in Handlers, Refuse(h) \/ Conflict(h) \/ Die(h) PROVE TypeInv'
  BY <1>3 DEF Refuse, Conflict, Die, End
<1>4. CASE UNCHANGED vars
  BY <1>4 DEF vars
<1> QED BY <1>1, <1>2, <1>3, <1>4 DEF Next

(* A handler under way keeps its call; one that is done stays done.        *)
LEMMA CallsKept ==
  ASSUME TypeInv, [Next]_vars, NEW h \in Handlers, pc[h] # "idle"
  PROVE  /\ call'[h] = call[h] /\ seen'[h] = seen[h]
         /\ pc[h] = "done" => pc'[h] = "done"
<1> USE DEF TypeInv, TypeOK
<1>1. CASE \E g \in Handlers, c \in Calls : GetSeat(g, c)
  BY <1>1 DEF GetSeat
<1>2. CASE \E g \in Handlers : UpdateSeatStatus(g) \/ Refuse(g) \/ Conflict(g) \/ Die(g)
  BY <1>2 DEF UpdateSeatStatus, Refuse, Conflict, Die, End
<1>3. CASE UNCHANGED vars
  BY <1>3 DEF vars
<1> QED BY <1>1, <1>2, <1>3 DEF Next

(* Only the UPDATE moves a row or makes a handler succeed.                 *)
LEMMA OnlyUpdatesMoveRows ==
  ASSUME TypeInv, [Next]_vars, ~ \E h \in Handlers : UpdateSeatStatus(h)
  PROVE  /\ row' = row
         /\ \A h \in Handlers : pc'[h] = "done" => pc[h] = "done"
<1> USE DEF TypeInv, TypeOK
<1>1. CASE \E g \in Handlers, c \in Calls : GetSeat(g, c)
  BY <1>1 DEF GetSeat
<1>2. CASE \E g \in Handlers : Refuse(g) \/ Conflict(g) \/ Die(g)
  BY <1>2 DEF Refuse, Conflict, Die, End
<1>3. CASE UNCHANGED vars
  BY <1>3 DEF vars
<1> QED BY <1>1, <1>2, <1>3 DEF Next

(* No step takes a seat back.                                              *)
LEMMA VersionsGrow ==
  ASSUME TypeInv, StageInv, [Next]_vars, NEW s \in Seats
  PROVE  /\ row[s].version <= row'[s].version
         /\ row[s].version \in 1 .. 3 /\ row'[s].version \in 1 .. 3
<1>1. row[s].version \in 1 .. 3 /\ row'[s].version \in 1 .. 3
  BY TypeStep DEF TypeInv, TypeOK, SeatRow
<1>2. CASE \E h \in Handlers : UpdateSeatStatus(h)
  <2>1. PICK h \in Handlers : UpdateSeatStatus(h)
    BY <1>2
  <2>2. call[h].method \in Methods
    BY <2>1, UpdateAdvances DEF Calls
  <2>3. VersionOf[From(call[h].method)] <= VersionOf[To(call[h].method)]
    BY <2>2, Stages
  <2>4. CASE s = Seat(h)
    BY <1>1, <2>1, <2>3, <2>4, UpdateAdvances
  <2>5. CASE s # Seat(h)
    <3>1. row'[s] = row[s]
      BY <2>1, <2>5, UpdateAdvances
    <3> QED BY <1>1, <3>1
  <2> QED BY <2>4, <2>5
<1>3. CASE ~ \E h \in Handlers : UpdateSeatStatus(h)
  BY <1>1, <1>3, OnlyUpdatesMoveRows
<1> QED BY <1>1, <1>2, <1>3

LEMMA StageStep == TypeInv /\ StageInv /\ [Next]_vars => StageInv'
<1> SUFFICES ASSUME TypeInv, StageInv, [Next]_vars PROVE StageInv'
  OBVIOUS
<1>1. VersionTellsStatus'
  <2> SUFFICES ASSUME NEW s \in Seats PROVE row'[s].version = VersionOf[row'[s].status]
    BY DEF VersionTellsStatus
  <2>1. CASE \E h \in Handlers : UpdateSeatStatus(h)
    <3>1. PICK h \in Handlers : UpdateSeatStatus(h)
      BY <2>1
    <3>2. CASE s = Seat(h)
      BY <3>1, <3>2, UpdateAdvances
    <3>3. CASE s # Seat(h)
      BY <3>1, <3>3, UpdateAdvances DEF StageInv, VersionTellsStatus
    <3> QED BY <3>2, <3>3
  <2>2. CASE ~ \E h \in Handlers : UpdateSeatStatus(h)
    BY <2>2, OnlyUpdatesMoveRows DEF StageInv, VersionTellsStatus
  <2> QED BY <2>1, <2>2
<1>2. SeenIsPast'
  <2> SUFFICES ASSUME NEW h \in Handlers, pc'[h] # "idle"
               PROVE  /\ seen'[h].version = VersionOf[seen'[h].status]
                      /\ seen'[h].version <= row'[call'[h].seat].version
    BY DEF SeenIsPast, Seat
  <2>1. CASE pc[h] # "idle"
    <3>1. call'[h] = call[h] /\ seen'[h] = seen[h] /\ call[h].seat \in Seats
      BY <2>1, CallsKept DEF TypeInv, Started, Calls
    <3>2. /\ seen[h].version = VersionOf[seen[h].status] /\ seen[h].version \in 1 .. 3
          /\ seen[h].version <= row[call[h].seat].version
      BY <2>1 DEF StageInv, SeenIsPast, Seat, TypeInv, Started, SeatRow
    <3>3. row[call[h].seat].version <= row'[call[h].seat].version
      BY <3>1, VersionsGrow
    <3>4. /\ row[call[h].seat].version \in 1 .. 3
          /\ row'[call[h].seat].version \in 1 .. 3
      BY <3>1, VersionsGrow
    <3> QED BY <3>1, <3>2, <3>3, <3>4
  <2>2. CASE pc[h] = "idle"
    <3>1. PICK c \in Calls : GetSeat(h, c)
      BY <2>2 DEF Next, GetSeat, UpdateSeatStatus, Refuse, Conflict, Die, End, vars,
                  TypeInv, TypeOK
    <3>2. call'[h] = c /\ seen'[h] = row[c.seat] /\ row' = row /\ c.seat \in Seats
      BY <3>1 DEF GetSeat, TypeInv, TypeOK, Calls
    <3>3. row[c.seat].version = VersionOf[row[c.seat].status]
      BY <3>2 DEF StageInv, VersionTellsStatus
    <3>4. row[c.seat].version \in 1 .. 3
      BY <3>2, VersionsGrow
    <3> QED BY <3>2, <3>3, <3>4
  <2> QED BY <2>1, <2>2
<1>3. DoneIsPast'
  <2> SUFFICES ASSUME NEW h \in Handlers, pc'[h] = "done"
               PROVE  VersionOf[From(call'[h].method)] < row'[call'[h].seat].version
    BY DEF DoneIsPast, Seat
  <2>1. CASE pc[h] = "done"
    <3>1. /\ call'[h] = call[h] /\ call[h].seat \in Seats /\ call[h].method \in Methods
      BY <2>1, CallsKept DEF TypeInv, Started, Calls
    <3>2. VersionOf[From(call[h].method)] < row[call[h].seat].version
      BY <2>1 DEF StageInv, DoneIsPast, Seat
    <3>3. /\ row[call[h].seat].version <= row'[call[h].seat].version
          /\ row[call[h].seat].version \in 1 .. 3
          /\ row'[call[h].seat].version \in 1 .. 3
      BY <3>1, VersionsGrow
    <3>4. VersionOf[From(call[h].method)] \in 1 .. 2
      BY <3>1, Stages
    <3> QED BY <3>1, <3>2, <3>3, <3>4
  <2>2. CASE pc[h] # "done"
    <3>1. UpdateSeatStatus(h)
      BY <2>2 DEF Next, GetSeat, UpdateSeatStatus, Refuse, Conflict, Die, End, vars,
                  TypeInv, TypeOK
    <3>2. /\ call'[h] = call[h] /\ call[h].method \in Methods
          /\ row'[call[h].seat].version = VersionOf[To(call[h].method)]
      BY <3>1, UpdateAdvances DEF UpdateSeatStatus, Seat, Calls
    <3>3. VersionOf[From(call[h].method)] < VersionOf[To(call[h].method)]
      BY <3>2, Stages
    <3> QED BY <3>2, <3>3
  <2> QED BY <2>1, <2>2
<1>4. StagesHaveWinners'
  <2> SUFFICES ASSUME NEW c \in Calls, VersionOf[From(c.method)] < row'[c.seat].version
               PROVE  \E g \in Handlers : pc'[g] = "done" /\ call'[g] = c
    BY DEF StagesHaveWinners
  <2>1. CASE VersionOf[From(c.method)] < row[c.seat].version
    <3>1. PICK g \in Handlers : pc[g] = "done" /\ call[g] = c
      BY <2>1 DEF StageInv, StagesHaveWinners
    <3>2. pc'[g] = "done" /\ call'[g] = c
      BY <3>1, CallsKept
    <3> QED BY <3>2
  <2>2. CASE ~(VersionOf[From(c.method)] < row[c.seat].version)
    <3>1. PICK h \in Handlers : UpdateSeatStatus(h)
      BY <2>2, OnlyUpdatesMoveRows
    <3>2. c.seat \in Seats /\ c.method \in Methods
      BY DEF Calls
    <3>3. c.seat = Seat(h)
      BY <2>2, <3>1, <3>2, UpdateAdvances
    <3>4. /\ call[h].method \in Methods /\ call[h] \in Calls
          /\ row[c.seat].version = VersionOf[From(call[h].method)]
          /\ row'[c.seat].version = VersionOf[To(call[h].method)]
      BY <3>1, <3>3, UpdateAdvances DEF Calls
    <3>5. VersionOf[From(c.method)] = VersionOf[From(call[h].method)]
      BY <2>2, <3>2, <3>4, Stages
    <3>6. c.method = call[h].method
      BY <3>2, <3>4, <3>5, Stages DEF From, Methods
    <3>7. c = call[h]
      BY <3>3, <3>4, <3>6 DEF Calls, Seat
    <3>8. pc'[h] = "done" /\ call'[h] = call[h]
      BY <3>1 DEF UpdateSeatStatus, TypeInv, TypeOK
    <3> QED BY <3>7, <3>8
  <2> QED BY <2>1, <2>2
<1> QED BY <1>1, <1>2, <1>3, <1>4 DEF StageInv

LEMMA StageAlways == Spec => [](TypeInv /\ StageInv)
BY StageInit, TypeStep, StageStep, PTL DEF Spec

(* Handlers and rows stay well typed: no seat is ever past its third       *)
(* version.                                                                *)
THEOREM TypeCorrect == Spec => []TypeOK
BY StageAlways, PTL DEF TypeInv

(* The version of a row always tells its status.                           *)
THEOREM VersionTellsStatusAlways == Spec => []VersionTellsStatus
BY StageAlways, PTL DEF StageInv

-----------------------------------------------------------------------------
LEMMA WinnerStep == TypeInv /\ StageInv /\ OneWinnerPerSeat /\ [Next]_vars => OneWinnerPerSeat'
<1> SUFFICES ASSUME TypeInv, StageInv, OneWinnerPerSeat, [Next]_vars,
                    NEW g \in Handlers, NEW h \in Handlers,
                    pc'[g] = "done", pc'[h] = "done", call'[g] = call'[h]
             PROVE  g = h
  BY DEF OneWinnerPerSeat
<1>1. CASE \E k \in Handlers : UpdateSeatStatus(k)
  <2>1. PICK k \in Handlers : UpdateSeatStatus(k)
    BY <1>1
  <2>2. /\ call' = call
        /\ \A i \in Handlers : pc'[i] = IF i = k THEN "done" ELSE pc[i]
    BY <2>1 DEF UpdateSeatStatus, TypeInv, TypeOK
  <2>3. \A i \in Handlers : pc[i] = "done" => call[i] # call[k]
    <3> SUFFICES ASSUME NEW i \in Handlers, pc[i] = "done", call[i] = call[k] PROVE FALSE
      OBVIOUS
    <3>1. VersionOf[From(call[k].method)] < row[Seat(k)].version
      BY DEF StageInv, DoneIsPast, Seat
    <3>2. /\ row[Seat(k)].version = VersionOf[From(call[k].method)]
          /\ call[k].method \in Methods
      BY <2>1, UpdateAdvances DEF Calls
    <3> QED BY <3>1, <3>2, Stages
  <2> QED BY <2>2, <2>3 DEF OneWinnerPerSeat
<1>2. CASE ~ \E k \in Handlers : UpdateSeatStatus(k)
  <2>1. pc[g] = "done" /\ pc[h] = "done"
    BY <1>2, OnlyUpdatesMoveRows
  <2>2. call'[g] = call[g] /\ call'[h] = call[h]
    BY <2>1, CallsKept
  <2> QED BY <2>1, <2>2 DEF OneWinnerPerSeat
<1> QED BY <1>1, <1>2

(* One handler reserves a seat and one books it, however many try.         *)
THEOREM OneWinnerPerSeatAlways == Spec => []OneWinnerPerSeat
BY StageInit, WinnerStep, StageAlways, PTL DEF Spec

LEMMA ConflictStep == TypeInv /\ StageInv /\ ConflictWasDone /\ [Next]_vars => ConflictWasDone'
<1> SUFFICES ASSUME TypeInv, StageInv, ConflictWasDone, [Next]_vars,
                    NEW h \in Handlers, pc'[h] = "conflict"
             PROVE  \E g \in Handlers : pc'[g] = "done" /\ call'[g] = call'[h]
  BY DEF ConflictWasDone
<1>1. pc[h] = "conflict" \/ Conflict(h)
  BY DEF Next, GetSeat, UpdateSeatStatus, Refuse, Conflict, Die, End, vars, TypeInv, TypeOK
<1>2. pc[h] # "idle"
  BY <1>1 DEF Conflict, End
<1>3. \E g \in Handlers : pc[g] = "done" /\ call[g] = call[h]
  <2>1. CASE pc[h] = "conflict"
    BY <2>1 DEF ConflictWasDone
  <2>2. CASE Conflict(h)
    <3>1. call[h] \in Calls /\ Seat(h) \in Seats /\ call[h].seat = Seat(h)
      BY <1>2 DEF TypeInv, Started, Calls, Seat
    <3>2. /\ seen[h].version = VersionOf[From(call[h].method)]
          /\ seen[h].version <= row[Seat(h)].version
          /\ seen[h].version # row[Seat(h)].version
      BY <1>2, <2>2 DEF Conflict, Allowed, VersionMatches, StageInv, SeenIsPast
    <3>3. row[Seat(h)].version \in 1 .. 3 /\ seen[h].version \in 1 .. 3
      BY <1>2, <3>1 DEF TypeInv, TypeOK, Started, SeatRow
    <3>4. VersionOf[From(call[h].method)] < row[call[h].seat].version
      BY <3>1, <3>2, <3>3
    <3> QED BY <3>1, <3>4 DEF StageInv, StagesHaveWinners
  <2> QED BY <1>1, <2>1, <2>2
<1>4. PICK g \in Handlers : pc[g] = "done" /\ call[g] = call[h]
  BY <1>3
<1>5. pc'[g] = "done" /\ call'[g] = call[g] /\ call'[h] = call[h]
  BY <1>2, <1>4, CallsKept
<1> QED BY <1>4, <1>5

(* A handler that loses a race loses to one that did the same to the seat. *)
THEOREM ConflictWasDoneAlways == Spec => []ConflictWasDone
BY StageInit, ConflictStep, StageAlways, PTL DEF Spec

-----------------------------------------------------------------------------
(* The unlocked read and the conditional UPDATE together implement the     *)
(* seat lifecycle, whatever the interleaving of the handlers.              *)
THEOREM ImplementsSeatLifecycle == Spec => ActsAsLifecycle
<1> DEFINE seat == [s \in Seats |-> row[s].status]
<1>1. Init => Lifecycle!Init
  <2> SUFFICES ASSUME Init, NEW s \in Seats PROVE row[s].status = "Available"
    BY DEF Lifecycle!Init
  <2>1. row[s] = [status |-> "Available", version |-> 1]
    BY DEF Init
  <2> QED BY <2>1
<1>2. TypeInv /\ StageInv /\ [Next]_vars => [Lifecycle!Next]_seat
  <2> SUFFICES ASSUME TypeInv, StageInv, [Next]_vars
               PROVE  Lifecycle!Next \/ seat' = seat
    OBVIOUS
  <2>1. ASSUME NEW h \in Handlers, UpdateSeatStatus(h) PROVE Lifecycle!Next
    <3>1. /\ Seat(h) \in Seats /\ call[h].method \in Methods
          /\ row[Seat(h)].status = From(call[h].method)
          /\ row'[Seat(h)].status = To(call[h].method)
          /\ \A s \in Seats : s # Seat(h) => row'[s] = row[s]
      BY <2>1, UpdateAdvances DEF Calls
    <3>2. seat' = [seat EXCEPT ![Seat(h)] = To(call[h].method)]
      BY <3>1
    <3>3. CASE call[h].method = "reserve"
      BY <3>1, <3>2, <3>3 DEF Lifecycle!Next, Lifecycle!Reserve, From, To
    <3>4. CASE call[h].method = "booking"
      BY <3>1, <3>2, <3>4 DEF Lifecycle!Next, Lifecycle!Book, From, To
    <3> QED BY <3>1, <3>3, <3>4 DEF Methods
  <2>2. CASE ~ \E h \in Handlers : UpdateSeatStatus(h)
    BY <2>2, OnlyUpdatesMoveRows
  <2> QED BY <2>1, <2>2
<1> QED BY <1>1, <1>2, StageAlways, PTL DEF Spec, ActsAsLifecycle, Lifecycle!Spec
=============================================================================
