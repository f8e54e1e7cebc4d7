---------------------------- MODULE PointAccount ----------------------------
(***************************************************************************)
(* The point rows: chargeUserPoint and useUserPoint as MySQL runs them.    *)
(* Each operation is a transaction that reads the row from its snapshot,   *)
(* computes the new balance in the process, and writes it back with an     *)
(* UPDATE that demands the version read.  Many run at the same time, and   *)
(* any of them can be rolled back until COMMIT.                            *)
(***************************************************************************)
EXTENDS Integers, Sequences

CONSTANTS
  Users,        \* user ids; a user has one point row
  Ops,          \* calls of chargeUserPoint and useUserPoint
  Amounts,      \* the amounts they are called with
  InitialPoint, \* the points every user starts with
  MaxPoint,     \* the largest value of the int column
  None          \* the absence of a call

ASSUME PointAssumption ==
  /\ Amounts \subseteq Nat
  /\ MaxPoint \in Nat
  /\ InitialPoint \in 0 .. MaxPoint

VARIABLES
  pc,     \* pc[o]: how far the transaction of o has come
  cmd,    \* cmd[o]: the call, None before it starts
  seen,   \* seen[o]: the point row in its snapshot
  point,  \* point[u]: the committed point row
  history \* history[u]: the committed history rows by id

vars == <<pc, cmd, seen, point, history>>

Types == {"CHARGE", "USE"}
Call == [user : Users, type : Types, amount : Amounts]
Pc == {"idle", "read", "updated", "done", "conflict", "failed"}
PointRow == [amount : 0 .. MaxPoint, version : Nat]
HistoryRow == [type : Types, amount : 0 .. MaxPoint]

TypeOK ==
  /\ pc \in [Ops -> Pc]
  /\ cmd \in [Ops -> Call \cup {None}]
  /\ seen \in [Ops -> PointRow]
  /\ point \in [Users -> PointRow]
  /\ history \in [Users -> Seq(HistoryRow)]

Init ==
  /\ pc = [o \in Ops |-> "idle"]
  /\ cmd = [o \in Ops |-> None]
  /\ seen = [o \in Ops |-> [amount |-> 0, version |-> 0]]
  /\ point = [u \in Users |-> [amount |-> InitialPoint, version |-> 1]]
  /\ history = [u \in Users |-> <<>>]

-----------------------------------------------------------------------------
User(o) == cmd[o].user

(* BEGIN and getPointByPk: a snapshot read without a lock.                 *)
Read(o, call) ==
  /\ pc[o] = "idle"
  /\ pc' = [pc EXCEPT ![o] = "read"]
  /\ cmd' = [cmd EXCEPT ![o] = call]
  /\ seen' = [seen EXCEPT ![o] = point[call.user]]
  /\ UNCHANGED <<point, history>>

(* Mutant: usePoint does not ask canUsePoint and the column is signed.     *)
AcceptsUnchecked(o) == TRUE

(* usePoint refuses a negative balance, the column a value out of range.   *)
NewAmount(o) ==
  IF cmd[o].type = "CHARGE" THEN seen[o].amount + cmd[o].amount
                            ELSE seen[o].amount - cmd[o].amount
Accepts(o) == NewAmount(o) \in 0 .. MaxPoint

(* Mutant: the version found is compared with the version to write.        *)
VersionMatchesNext(o) == point[User(o)].version = seen[o].version + 1

(* Mutant: the version is missing from the WHERE clause.                   *)
VersionMatchesAny(o) == TRUE

(* UPDATE looks at the latest committed row, not at the snapshot.          *)
VersionMatches(o) == point[User(o)].version = seen[o].version

(* Mutant: the row is looked up and then saved, with no lock between.      *)
RowFreeAlways(o) == TRUE

(* UPDATE holds the row lock until its transaction ends; others wait.      *)
RowFree(o) == \A p \in Ops : pc[p] = "updated" => User(p) # User(o)

Update(o) ==
  /\ pc[o] = "read"
  /\ Accepts(o) /\ RowFree(o) /\ VersionMatches(o)
  /\ pc' = [pc EXCEPT ![o] = "updated"]
  /\ UNCHANGED <<cmd, seen, point, history>>

(* No row is affected: OptimisticLockVersionMismatchError.                 *)
Conflict(o) ==
  /\ pc[o] = "read"
  /\ Accepts(o) /\ RowFree(o) /\ ~VersionMatches(o)
  /\ pc' = [pc EXCEPT ![o] = "conflict"]
  /\ UNCHANGED <<cmd, seen, point, history>>

HistoryOf(o) == [type |-> cmd[o].type, amount |-> NewAmount(o)]

(* The history row was inserted under the row lock; COMMIT publishes both. *)
Commit(o) ==
  /\ pc[o] = "updated"
  /\ pc' = [pc EXCEPT ![o] = "done"]
  /\ point' = [point EXCEPT ![User(o)] = [amount |-> NewAmount(o),
                                          version |-> seen[o].version + 1]]
  /\ history' = [history EXCEPT ![User(o)] = Append(@, HistoryOf(o))]
  /\ UNCHANGED <<cmd, seen>>

(* A refused balance, an error, a deadline of the lock or the death of the *)
(* process: ROLLBACK.                                                      *)
Rollback(o) ==
  /\ pc[o] \in {"read", "updated"}
  /\ pc' = [pc EXCEPT ![o] = "failed"]
  /\ UNCHANGED <<cmd, seen, point, history>>

Next ==
  \E o \in Ops :
    \/ \E call \in Call : Read(o, call)
    \/ Update(o) \/ Conflict(o) \/ Commit(o) \/ Rollback(o)

Spec == Init /\ [][Next]_vars

-----------------------------------------------------------------------------
(* Of the operations that read the same version at most one succeeds: the  *)
(* rule that of concurrent charges a single one is accepted.               *)
OneWinnerPerVersion ==
  \A o, p \in Ops :
    /\ pc[o] = "done" /\ pc[p] = "done"
    /\ User(o) = User(p) /\ seen[o].version = seen[p].version
    => o = p

(* An operation is only refused for a conflict when another one that read  *)
(* the same version has succeeded: the user's requests never all fail by   *)
(* fighting each other.                                                    *)
ConflictHasWinner ==
  \A o \in Ops : pc[o] = "conflict" =>
    \E p \in Ops : /\ pc[p] = "done"
                   /\ User(p) = User(o)
                   /\ seen[p].version = seen[o].version

(* The history ends in the balance of the row and has one row per version  *)
(* after the first, although row and history are separate statements.      *)
HistoryMatchesPoint ==
  \A u \in Users :
    /\ point[u].version = Len(history[u]) + 1
    /\ history[u] # <<>> => point[u].amount = history[u][Len(history[u])].amount

(* No update is lost: every committed operation acts on the balance that   *)
(* the one committed before it left, though it computed on its snapshot.   *)
Ledger == INSTANCE PointLedger WITH balance <- [u \in Users |-> point[u].amount]
ActsAsLedger == Ledger!Spec
=============================================================================
