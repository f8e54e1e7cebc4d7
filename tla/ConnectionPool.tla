--------------------------- MODULE ConnectionPool ---------------------------
(***************************************************************************)
(* The pool of database connections.  A query of the default manager       *)
(* borrows a connection for itself; a transaction borrows one at BEGIN and *)
(* keeps it to its end.  A booking does both: inside its transaction the   *)
(* duplicate check and the outbox row ask for a second connection.         *)
(*                                                                         *)
(* The pool serves those who wait in order and lets them wait for ever.    *)
(***************************************************************************)
EXTENDS Integers, Sequences, FiniteSets

CONSTANTS
  Conns,  \* connections of the pool (connectionLimit is 20)
  Tasks,  \* requests, handlers of topic events and handlers of messages
  Kind,   \* Kind[t]: which code the task runs
  Users,  \* user ids
  Payer,  \* Payer[t]: the user whose point row a payment or a charge updates
  None    \* no connection, nobody

Kinds == {"reserve", "pay", "charge", "send", "consume"}

ASSUME PoolAssumption ==
  /\ IsFiniteSet(Conns) /\ IsFiniteSet(Tasks)
  /\ Kind \in [Tasks -> Kinds]
  /\ Payer \in [Tasks -> Users]
  /\ None \notin Conns \cup Tasks

VARIABLES
  stage,   \* stage[t]: the statement the task has come to
  mode,    \* mode[t]: whether it still has to ask, waits in the pool, or was served
  tx,      \* tx[t]: the connection of its transaction
  query,   \* query[t]: the connection its query has borrowed
  queue,   \* those who wait for a connection, in order
  lock,    \* lock[u]: the transaction that has the row lock of the user's points
  handlers \* topic handlers that wait in the event loop

vars == <<stage, mode, tx, query, queue, lock, handlers>>

(* Queries of the default manager run on a connection of their own, the    *)
(* statements of a transactional repository on the connection of BEGIN.    *)
Queries == {"getUser", "getSeatByPk", "findReservationBy", "saveOutbox",
            "getOutboxBy", "saveSent", "updateSeatStatus"}
Statements == {"save", "updatePoint", "commit", "rollback"}
Stages == {"idle", "begin", "ended"} \cup Queries \cup Statements

(* The order of the statements, from the facades down to the repositories; *)
(* what a transaction reads on its own connection is left out.             *)
Reserve == [idle |-> "getUser", getUser |-> "getSeatByPk", getSeatByPk |-> "begin",
            begin |-> "findReservationBy", findReservationBy |-> "save",
            save |-> "saveOutbox", saveOutbox |-> "commit"]

Pay == [idle |-> "begin", begin |-> "updatePoint", updatePoint |-> "save",
        save |-> "saveOutbox", saveOutbox |-> "commit"]

(* Mutant: the user is read with the repository of the default manager.    *)
ChargeOnTwo == [idle |-> "begin", begin |-> "getUser", getUser |-> "updatePoint",
                updatePoint |-> "save", save |-> "commit"]

Charge == [idle |-> "begin", begin |-> "updatePoint", updatePoint |-> "save",
           save |-> "commit"]

Send == [idle |-> "getOutboxBy", getOutboxBy |-> "saveSent", saveSent |-> "ended"]

Consume == [idle |-> "getSeatByPk", getSeatByPk |-> "updateSeatStatus",
            updateSeatStatus |-> "ended"]

After(t) ==
  CASE Kind[t] = "reserve" -> Reserve[stage[t]]
    [] Kind[t] = "pay"     -> Pay[stage[t]]
    [] Kind[t] = "charge"  -> Charge[stage[t]]
    [] Kind[t] = "send"    -> Send[stage[t]]
    [] Kind[t] = "consume" -> Consume[stage[t]]

TypeOK ==
  /\ stage \in [Tasks -> Stages]
  /\ mode \in [Tasks -> {"ready", "waiting", "served"}]
  /\ tx \in [Tasks -> Conns \cup {None}]
  /\ query \in [Tasks -> Conns \cup {None}]
  /\ queue \in Seq(Tasks)
  /\ lock \in [Users -> Tasks \cup {None}]
  /\ handlers \in Nat

Init ==
  /\ stage = [t \in Tasks |-> "idle"]
  /\ mode = [t \in Tasks |-> "ready"]
  /\ tx = [t \in Tasks |-> None]
  /\ query = [t \in Tasks |-> None]
  /\ queue = <<>>
  /\ lock = [u \in Users |-> None]
  /\ handlers = 0

-----------------------------------------------------------------------------
(* The pool.                                                               *)

Free == {k \in Conns : \A t \in Tasks : k \notin {tx[t], query[t]}}

(* Connection k is t's: for its transaction, or for its query.             *)
Lend(t, k, txs, queries) ==
  IF stage[t] = "begin"
  THEN tx' = [txs EXCEPT ![t] = k] /\ query' = queries
  ELSE tx' = txs /\ query' = [queries EXCEPT ![t] = k]

(* getConnection: one that is free, or a place at the end of the queue,    *)
(* where neither the pool nor the caller counts the time.                  *)
Borrow(t) ==
  /\ mode[t] = "ready"
  /\ stage[t] \in Queries \cup {"begin"}
  /\ \/ /\ \E k \in Free : Lend(t, k, tx, query)
        /\ mode' = [mode EXCEPT ![t] = "served"]
        /\ UNCHANGED queue
     \/ /\ Free = {}
        /\ mode' = [mode EXCEPT ![t] = "waiting"]
        /\ queue' = Append(queue, t)
        /\ UNCHANGED <<tx, query>>
  /\ UNCHANGED <<stage, lock, handlers>>

(* release: the connection goes to the first who waits.                    *)
Release(k, txs, queries, modes) ==
  IF queue = <<>>
  THEN tx' = txs /\ query' = queries /\ mode' = modes /\ UNCHANGED queue
  ELSE /\ Lend(Head(queue), k, txs, queries)
       /\ mode' = [modes EXCEPT ![Head(queue)] = "served"]
       /\ queue' = Tail(queue)

-----------------------------------------------------------------------------
(* Tasks.                                                                  *)

(* Mutant: the handler runs without its event.                             *)
StartUncalled(t) ==
  /\ stage[t] = "idle"
  /\ stage' = [stage EXCEPT ![t] = After(t)]
  /\ handlers' = IF Kind[t] = "send" THEN handlers - 1 ELSE handlers
  /\ UNCHANGED <<mode, tx, query, queue, lock>>

(* A client calls, a message arrives, or the event loop runs a handler.    *)
Start(t) ==
  /\ stage[t] = "idle"
  /\ stage' = [stage EXCEPT ![t] = After(t)]
  /\ IF Kind[t] = "send"
     THEN handlers > 0 /\ handlers' = handlers - 1
     ELSE UNCHANGED handlers
  /\ UNCHANGED <<mode, tx, query, queue, lock>>

(* A query ends and returns its connection.  Emitting the topic event      *)
(* after the outbox row is saved schedules a handler.                      *)
QueryEnds(t) ==
  /\ mode[t] = "served" /\ stage[t] \in Queries
  /\ stage' = [stage EXCEPT ![t] = After(t)]
  /\ Release(query[t], tx, [query EXCEPT ![t] = None], [mode EXCEPT ![t] = "ready"])
  /\ handlers' = IF stage[t] = "saveOutbox" THEN handlers + 1 ELSE handlers
  /\ UNCHANGED lock

(* Mutant: the transaction is begun by hand and an error does not end it.  *)
QueryFailsOpen(t) ==
  /\ mode[t] = "served" /\ stage[t] \in Queries
  /\ stage' = [stage EXCEPT ![t] = "ended"]
  /\ Release(query[t], tx, [query EXCEPT ![t] = None], [mode EXCEPT ![t] = "ready"])
  /\ UNCHANGED <<lock, handlers>>

(* The query fails, or what it finds makes the code throw.                 *)
QueryFails(t) ==
  /\ mode[t] = "served" /\ stage[t] \in Queries
  /\ stage' = [stage EXCEPT ![t] = IF tx[t] = None THEN "ended" ELSE "rollback"]
  /\ Release(query[t], tx, [query EXCEPT ![t] = None], [mode EXCEPT ![t] = "ready"])
  /\ UNCHANGED <<lock, handlers>>

Begin(t) ==
  /\ mode[t] = "served" /\ stage[t] = "begin"
  /\ stage' = [stage EXCEPT ![t] = After(t)]
  /\ mode' = [mode EXCEPT ![t] = "ready"]
  /\ UNCHANGED <<tx, query, queue, lock, handlers>>

Save(t) ==
  /\ stage[t] = "save"
  /\ stage' = [stage EXCEPT ![t] = After(t)]
  /\ UNCHANGED <<mode, tx, query, queue, lock, handlers>>

(* The UPDATE of the point row takes its lock.                             *)
UpdatePoint(t) ==
  /\ stage[t] = "updatePoint"
  /\ lock[Payer[t]] = None
  /\ lock' = [lock EXCEPT ![Payer[t]] = t]
  /\ stage' = [stage EXCEPT ![t] = After(t)]
  /\ UNCHANGED <<mode, tx, query, queue, handlers>>

(* The statement fails, the version has changed, or the points are too few. *)
StatementFails(t) ==
  /\ stage[t] \in {"save", "updatePoint"}
  /\ stage' = [stage EXCEPT ![t] = "rollback"]
  /\ UNCHANGED <<mode, tx, query, queue, lock, handlers>>

(* MySQL ends the wait for a row lock, unlike the pool.                    *)
LockTimeout(t) ==
  /\ stage[t] = "updatePoint"
  /\ lock[Payer[t]] # None
  /\ stage' = [stage EXCEPT ![t] = "rollback"]
  /\ UNCHANGED <<mode, tx, query, queue, lock, handlers>>

(* Mutant: after ROLLBACK the query runner is not released.                *)
EndLeaking(t) ==
  /\ stage[t] \in {"commit", "rollback"}
  /\ stage' = [stage EXCEPT ![t] = "ended"]
  /\ lock' = [u \in Users |-> IF lock[u] = t THEN None ELSE lock[u]]
  /\ IF stage[t] = "commit"
     THEN Release(tx[t], [tx EXCEPT ![t] = None], query, mode)
     ELSE UNCHANGED <<mode, tx, query, queue>>
  /\ UNCHANGED handlers

(* COMMIT or ROLLBACK; transaction() releases the connection either way.   *)
End(t) ==
  /\ stage[t] \in {"commit", "rollback"}
  /\ stage' = [stage EXCEPT ![t] = "ended"]
  /\ lock' = [u \in Users |-> IF lock[u] = t THEN None ELSE lock[u]]
  /\ Release(tx[t], [tx EXCEPT ![t] = None], query, mode)
  /\ UNCHANGED handlers

Step(t) ==
  \/ Borrow(t) \/ QueryEnds(t) \/ QueryFails(t) \/ Begin(t) \/ Save(t)
  \/ UpdatePoint(t) \/ StatementFails(t) \/ LockTimeout(t) \/ End(t)

Next == \E t \in Tasks : Start(t) \/ Step(t)

Spec == Init /\ [][Next]_vars

(* The database answers, and the code goes on when it has.                 *)
FairSpec == Spec /\ \A t \in Tasks : WF_vars(Step(t))

-----------------------------------------------------------------------------
(* Safety.                                                                 *)

Held(t) == {tx[t], query[t]} \ {None}

(* Transactions of the two bookings that are open.                         *)
OpenBookings == {t \in Tasks : Kind[t] \in {"reserve", "pay"} /\ tx[t] # None}

(* Nobody can ever return a connection: all of them are borrowed, and      *)
(* whoever holds one waits in the pool for another.                        *)
Stalled == Free = {} /\ \A t \in Tasks : Held(t) # {} => mode[t] = "waiting"

(* The pool only stalls when as many bookings as it has connections are in *)
(* their transactions: charges, message handlers and a wait for a row lock *)
(* never contribute, and fewer bookings than connections cannot stall it.  *)
StallNeedsFullHouse ==
  Stalled => Cardinality(OpenBookings) >= Cardinality(Conns)

(* What has ended holds neither a connection nor a row lock, whichever     *)
(* statement failed.                                                       *)
EndedHoldsNothing ==
  \A t \in Tasks : stage[t] = "ended" =>
    Held(t) = {} /\ \A u \in Users : lock[u] # t

-----------------------------------------------------------------------------
(* Liveness.                                                               *)

Ended(t) == stage[t] = "ended"

(* Unless the pool stalls, every task that was started ends, however long  *)
(* it waits for connections and row locks.                                 *)
TaskEndsUnlessStalled ==
  \A t \in Tasks : stage[t] # "idle" ~> Ended(t) \/ Stalled

(* What README.md:927 says of the reservation of a seat: nothing to fear   *)
(* from a deadlock.                                                        *)
TaskEnds == \A t \in Tasks : stage[t] # "idle" ~> Ended(t)
=============================================================================
