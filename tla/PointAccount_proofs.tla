------------------------ MODULE PointAccount_proofs ------------------------
(***************************************************************************)
(* Proofs about PointAccount for any users, operations and amounts.        *)
(***************************************************************************)
EXTENDS PointAccount, TLAPS

(* An operation under way knows its call.                                  *)
Started == \A o \in Ops : pc[o] # "idle" => cmd[o] \in Call

(* A snapshot is never newer than the row, and one of the row's version is *)
(* the row.                                                                *)
SnapshotIsPast ==
  \A o \in Ops : pc[o] # "idle" =>
    /\ seen[o].version >= 1
    /\ seen[o].version <= point[User(o)].version
    /\ seen[o].version = point[User(o)].version => seen[o] = point[User(o)]

(* The holder of the row lock is alone and still sees the committed row.   *)
HolderIsCurrent ==
  \A o \in Ops : pc[o] = "updated" =>
    /\ Accepts(o)
    /\ seen[o] = point[User(o)]
    /\ \A p \in Ops : pc[p] = "updated" /\ User(p) = User(o) => p = o

(* What has committed is in the past.                                      *)
DoneIsPast == \A o \in Ops : pc[o] = "done" => seen[o].version < point[User(o)].version

(* Every version the row has left behind was left by an operation.         *)
VersionsHaveWinners ==
  \A u \in Users, v \in Nat :
    1 <= v /\ v < point[u].version =>
      \E p \in Ops : pc[p] = "done" /\ User(p) = u /\ seen[p].version = v

VersionsPositive == \A u \in Users : point[u].version >= 1

TypeInv == TypeOK /\ Started
LockInv == SnapshotIsPast /\ HolderIsCurrent /\ DoneIsPast /\ VersionsPositive

-----------------------------------------------------------------------------
(* What an accepted operation writes has the column's type.                *)
LEMMA AcceptedAmount ==
  ASSUME NEW o \in Ops, Accepts(o), cmd[o] \in Call
  PROVE  HistoryOf(o) \in HistoryRow /\ NewAmount(o) \in 0 .. MaxPoint
<1>1. NewAmount(o) \in 0 .. MaxPoint
  BY DEF Accepts
<1>2. cmd[o].type \in Types
  BY DEF Call
<1> QED BY <1>1, <1>2 DEF HistoryOf, HistoryRow

LEMMA TypeInit == Init => TypeInv /\ LockInv
<1> SUFFICES ASSUME Init PROVE TypeInv /\ LockInv
  OBVIOUS
<1>1. TypeOK
  BY PointAssumption DEF Init, TypeOK, PointRow, Pc, HistoryRow
<1>2. Started /\ SnapshotIsPast /\ HolderIsCurrent /\ DoneIsPast
  BY DEF Init, Started, SnapshotIsPast, HolderIsCurrent, DoneIsPast
<1>3. VersionsPositive
  <2> SUFFICES ASSUME NEW u \in Users PROVE point[u].version >= 1
    BY DEF VersionsPositive
  <2>1. point[u] = [amount |-> InitialPoint, version |-> 1]
    BY DEF Init
  <2>2. point[u].version = 1
    BY <2>1
  <2> QED BY <2>2
<1> QED BY <1>1, <1>2, <1>3 DEF TypeInv, LockInv

LEMMA TypeStep == TypeInv /\ LockInv /\ [Next]_vars => TypeInv'
<1> SUFFICES ASSUME TypeInv, LockInv, [Next]_vars PROVE TypeInv'
  OBVIOUS
<1> USE DEF TypeInv, LockInv, TypeOK, Started, Pc
<1>1. ASSUME NEW o \in Ops, NEW call \in Call, Read(o, call) PROVE TypeInv'
  <2>1. call.user \in Users
    BY DEF Call
  <2>2. point[call.user] \in PointRow
    BY <2>1
  <2> QED BY <1>1, <2>2 DEF Read
<1>2. ASSUME NEW o \in Ops, Update(o) PROVE TypeInv'
  BY <1>2 DEF Update
<1>3. ASSUME NEW o \in Ops, Conflict(o) PROVE TypeInv'
  BY <1>3 DEF Conflict
<1>4. ASSUME NEW o \in Ops, Commit(o) PROVE TypeInv'
  <2>1. cmd[o] \in Call /\ Accepts(o)
    BY <1>4 DEF Commit, HolderIsCurrent
  <2>2. HistoryOf(o) \in HistoryRow /\ NewAmount(o) \in 0 .. MaxPoint
    BY <2>1, AcceptedAmount
  <2>3. User(o) \in Users
    BY <2>1 DEF Call, User
  <2>4. seen[o].version + 1 \in Nat
    BY DEF PointRow
  <2>5. point' \in [Users -> PointRow]
    BY <1>4, <2>2, <2>3, <2>4 DEF Commit, PointRow
  <2>6. Append(history[User(o)], HistoryOf(o)) \in Seq(HistoryRow)
    BY <2>2, <2>3
  <2>7. history' \in [Users -> Seq(HistoryRow)]
    BY <1>4, <2>6 DEF Commit
  <2> QED BY <1>4, <2>5, <2>7 DEF Commit
<1>5. ASSUME NEW o \in Ops, Rollback(o) PROVE TypeInv'
  BY <1>5 DEF Rollback
<1>6. CASE UNCHANGED vars
  BY <1>6 DEF vars
<1> QED BY <1>1, <1>2, <1>3, <1>4, <1>5, <1>6 DEF Next

-----------------------------------------------------------------------------
(* A committing operation raises the version of its own row by one.        *)
LEMMA CommitRaisesVersion ==
  ASSUME TypeInv, LockInv, NEW o \in Ops, Commit(o)
  PROVE  /\ User(o) \in Users /\ cmd[o] \in Call
         /\ seen[o] = point[User(o)] /\ Accepts(o)
         /\ point'[User(o)] = [amount |-> NewAmount(o),
                               version |-> point[User(o)].version + 1]
         /\ \A u \in Users : u # User(o) => point'[u] = point[u]
         /\ point'[User(o)].version = point[User(o)].version + 1
         /\ \A u \in Users : point[u].version \in Nat
<1>1. pc[o] = "updated" /\ cmd[o] \in Call
  BY DEF Commit, TypeInv, Started
<1>2. User(o) \in Users
  BY <1>1 DEF User, Call
<1>3. seen[o] = point[User(o)] /\ Accepts(o)
  BY <1>1 DEF LockInv, HolderIsCurrent
<1>4. \A u \in Users : point[u].version \in Nat
  BY DEF TypeInv, TypeOK, PointRow
<1> QED BY <1>1, <1>2, <1>3, <1>4 DEF Commit, TypeInv, TypeOK

LEMMA LockStep == TypeInv /\ LockInv /\ [Next]_vars => LockInv'
<1> SUFFICES ASSUME TypeInv, LockInv, [Next]_vars PROVE LockInv'
  OBVIOUS
<1>0. \A o \in Ops : seen[o].version \in Nat
  BY DEF TypeInv, TypeOK, PointRow
<1>v. \A u \in Users : point[u].version \in Nat
  BY DEF TypeInv, TypeOK, PointRow
<1>u. \A o \in Ops : pc[o] # "idle" => User(o) \in Users
  BY DEF TypeInv, Started, Call, User
<1>1. ASSUME NEW o \in Ops, NEW call \in Call, Read(o, call) PROVE LockInv'
  <2>1. call.user \in Users
    BY DEF Call
  <2>2. /\ pc' = [pc EXCEPT ![o] = "read"] /\ cmd' = [cmd EXCEPT ![o] = call]
        /\ seen' = [seen EXCEPT ![o] = point[call.user]]
        /\ point' = point /\ pc[o] = "idle"
    BY <1>1 DEF Read
  <2>3. User(o)' = call.user /\ seen'[o] = point[call.user] /\ pc'[o] = "read"
    BY <2>2 DEF User, TypeInv, TypeOK
  <2>4. \A p \in Ops : p # o => /\ pc'[p] = pc[p] /\ seen'[p] = seen[p]
                                /\ User(p)' = User(p) /\ Accepts(p)' = Accepts(p)
    BY <2>2 DEF User, Accepts, NewAmount, TypeInv, TypeOK
  <2>5. SnapshotIsPast'
    BY <2>1, <2>2, <2>3, <2>4, <1>v DEF SnapshotIsPast, LockInv, VersionsPositive
  <2>6. HolderIsCurrent'
    BY <2>2, <2>3, <2>4 DEF HolderIsCurrent, LockInv
  <2>7. DoneIsPast' /\ VersionsPositive'
    BY <2>2, <2>3, <2>4 DEF DoneIsPast, VersionsPositive, LockInv
  <2> QED BY <2>5, <2>6, <2>7 DEF LockInv
<1>2. ASSUME NEW o \in Ops, Update(o) PROVE LockInv'
  <2>1. /\ pc' = [pc EXCEPT ![o] = "updated"] /\ pc[o] = "read"
        /\ cmd' = cmd /\ seen' = seen /\ point' = point
    BY <1>2 DEF Update
  <2>2. \A p \in Ops : User(p)' = User(p) /\ Accepts(p)' = Accepts(p)
    BY <2>1 DEF User, Accepts, NewAmount
  <2>3. \A p \in Ops : pc'[p] = IF p = o THEN "updated" ELSE pc[p]
    BY <2>1 DEF TypeInv, TypeOK
  <2>4. SnapshotIsPast' /\ DoneIsPast' /\ VersionsPositive'
    BY <2>1, <2>2, <2>3 DEF SnapshotIsPast, DoneIsPast, VersionsPositive, LockInv
  <2>5. Accepts(o) /\ RowFree(o) /\ seen[o].version = point[User(o)].version
    BY <1>2 DEF Update, VersionMatches
  <2>6. seen[o] = point[User(o)]
    BY <2>1, <2>5 DEF LockInv, SnapshotIsPast
  <2>7. HolderIsCurrent'
    BY <2>1, <2>2, <2>3, <2>5, <2>6 DEF HolderIsCurrent, LockInv, RowFree
  <2> QED BY <2>4, <2>7 DEF LockInv
<1>3. ASSUME NEW o \in Ops, Conflict(o) \/ Rollback(o) PROVE LockInv'
  <2>1. /\ pc'[o] \in {"conflict", "failed"} /\ pc[o] # "idle"
        /\ \A p \in Ops : p # o => pc'[p] = pc[p]
        /\ cmd' = cmd /\ seen' = seen /\ point' = point
    BY <1>3 DEF Conflict, Rollback, TypeInv, TypeOK
  <2>2. \A p \in Ops : User(p)' = User(p) /\ Accepts(p)' = Accepts(p)
    BY <2>1 DEF User, Accepts, NewAmount
  <2>3. SnapshotIsPast' /\ DoneIsPast' /\ VersionsPositive'
    BY <2>1, <2>2 DEF SnapshotIsPast, DoneIsPast, VersionsPositive, LockInv
  <2>4. HolderIsCurrent'
    BY <2>1, <2>2 DEF HolderIsCurrent, LockInv
  <2> QED BY <2>3, <2>4 DEF LockInv
<1>4. ASSUME NEW o \in Ops, Commit(o) PROVE LockInv'
  <2>1. /\ User(o) \in Users /\ seen[o] = point[User(o)]
        /\ point'[User(o)].version = point[User(o)].version + 1
        /\ \A u \in Users : u # User(o) => point'[u] = point[u]
    BY <1>4, CommitRaisesVersion
  <2>2. /\ pc' = [pc EXCEPT ![o] = "done"] /\ pc[o] = "updated"
        /\ cmd' = cmd /\ seen' = seen
    BY <1>4 DEF Commit
  <2>3. \A p \in Ops : User(p)' = User(p) /\ Accepts(p)' = Accepts(p)
    BY <2>2 DEF User, Accepts, NewAmount
  <2>4. \A p \in Ops : pc'[p] = IF p = o THEN "done" ELSE pc[p]
    BY <2>2 DEF TypeInv, TypeOK
  <2>5. SnapshotIsPast'
    <3> SUFFICES ASSUME NEW p \in Ops, pc'[p] # "idle"
                 PROVE  /\ seen'[p].version >= 1
                        /\ seen'[p].version <= point'[User(p)'].version
                        /\ seen'[p].version = point'[User(p)'].version
                             => seen'[p] = point'[User(p)']
      BY DEF SnapshotIsPast
    <3>1. pc[p] # "idle" /\ seen'[p] = seen[p] /\ User(p)' = User(p) /\ User(p) \in Users
      BY <2>2, <2>3, <2>4, <1>u
    <3>2. seen[p].version >= 1 /\ seen[p].version <= point[User(p)].version
      BY <3>1 DEF LockInv, SnapshotIsPast
    <3>3. CASE User(p) = User(o)
      BY <3>1, <3>2, <3>3, <2>1, <1>0, <1>v
    <3>4. CASE User(p) # User(o)
      BY <3>1, <3>2, <3>4, <2>1 DEF LockInv, SnapshotIsPast
    <3> QED BY <3>3, <3>4
  <2>6. HolderIsCurrent'
    <3> SUFFICES ASSUME NEW p \in Ops, pc'[p] = "updated"
                 PROVE  /\ Accepts(p)'
                        /\ seen'[p] = point'[User(p)']
                        /\ \A q \in Ops : pc'[q] = "updated" /\ User(q)' = User(p)' => q = p
      BY DEF HolderIsCurrent
    <3>1. p # o /\ pc[p] = "updated" /\ User(p) \in Users
      BY <2>4, <1>u
    <3>2. User(p) # User(o)
      BY <3>1, <2>2 DEF LockInv, HolderIsCurrent
    <3> QED BY <3>1, <3>2, <2>1, <2>2, <2>3, <2>4 DEF LockInv, HolderIsCurrent
  <2>7. DoneIsPast'
    <3> SUFFICES ASSUME NEW p \in Ops, pc'[p] = "done"
                 PROVE  seen'[p].version < point'[User(p)'].version
      BY DEF DoneIsPast
    <3>1. pc[p] # "idle" /\ User(p) \in Users /\ (p = o \/ pc[p] = "done")
      BY <2>2, <2>4, <1>u
    <3>2. CASE p = o
      BY <3>2, <2>1, <2>2, <2>3, <1>v
    <3>3. CASE p # o
      <4>1. seen[p].version < point[User(p)].version
        BY <3>1, <3>3 DEF LockInv, DoneIsPast
      <4> QED BY <4>1, <3>1, <2>1, <2>2, <2>3, <1>0, <1>v
    <3> QED BY <3>2, <3>3
  <2>8. VersionsPositive'
    BY <2>1, <1>v DEF LockInv, VersionsPositive
  <2> QED BY <2>5, <2>6, <2>7, <2>8 DEF LockInv
<1>5. CASE UNCHANGED vars
  BY <1>5 DEF vars, LockInv, SnapshotIsPast, HolderIsCurrent, DoneIsPast, VersionsPositive,
              User, Accepts, NewAmount
<1> QED BY <1>1, <1>2, <1>3, <1>4, <1>5 DEF Next

LEMMA LockAlways == Spec => [](TypeInv /\ LockInv)
BY TypeInit, TypeStep, LockStep, PTL DEF Spec

(* The state of every operation, row and history stays well typed, and no  *)
(* balance leaves the range the code and the column allow.                 *)
THEOREM TypeCorrect == Spec => []TypeOK
BY LockAlways, PTL DEF TypeInv

-----------------------------------------------------------------------------
LEMMA CallsKept ==
  ASSUME TypeInv, [Next]_vars, NEW o \in Ops, pc[o] # "idle"
  PROVE  /\ User(o) \in Users /\ User(o)' = User(o) /\ seen'[o] = seen[o]
         /\ pc[o] = "done" => pc'[o] = "done"
         /\ pc[o] = "conflict" => pc'[o] = "conflict"
<1> USE DEF TypeInv, TypeOK, Started, User, Call
<1>1. CASE \E p \in Ops, call \in Call : Read(p, call)
  BY <1>1 DEF Read
<1>2. CASE \E p \in Ops : Update(p) \/ Conflict(p) \/ Commit(p) \/ Rollback(p)
  BY <1>2 DEF Update, Conflict, Commit, Rollback
<1>3. CASE UNCHANGED vars
  BY <1>3 DEF vars
<1> QED BY <1>1, <1>2, <1>3 DEF Next

(* Only COMMIT makes an operation succeed or moves a point row.            *)
LEMMA OnlyCommitsMovePoints ==
  ASSUME TypeInv, [Next]_vars, ~ \E o \in Ops : Commit(o)
  PROVE  /\ point' = point /\ history' = history
         /\ \A o \in Ops : pc'[o] = "done" => pc[o] = "done"
<1> USE DEF TypeInv, TypeOK
<1>1. CASE \E p \in Ops, call \in Call : Read(p, call)
  BY <1>1 DEF Read
<1>2. CASE \E p \in Ops : Update(p) \/ Conflict(p) \/ Rollback(p)
  BY <1>2 DEF Update, Conflict, Rollback
<1>3. CASE UNCHANGED vars
  BY <1>3 DEF vars
<1> QED BY <1>1, <1>2, <1>3 DEF Next

LEMMA WinnerStep ==
  TypeInv /\ LockInv /\ OneWinnerPerVersion /\ [Next]_vars => OneWinnerPerVersion'
<1> SUFFICES ASSUME TypeInv, LockInv, OneWinnerPerVersion, [Next]_vars,
                    NEW p \in Ops, NEW q \in Ops,
                    pc'[p] = "done", pc'[q] = "done",
                    User(p)' = User(q)', seen'[p].version = seen'[q].version
             PROVE  p = q
  BY DEF OneWinnerPerVersion
<1>1. CASE \E o \in Ops : Commit(o)
  <2>1. PICK o \in Ops : Commit(o)
    BY <1>1
  <2>2. /\ seen' = seen /\ pc[o] = "updated" /\ cmd' = cmd
        /\ \A r \in Ops : pc'[r] = IF r = o THEN "done" ELSE pc[r]
    BY <2>1 DEF Commit, TypeInv, TypeOK
  <2>3. User(p) = User(q) /\ seen[p].version = seen[q].version
    BY <2>2 DEF User
  <2>4. \A r \in Ops : /\ seen[r].version \in Nat
                       /\ pc[r] = "done" => seen[r].version < point[User(r)].version
    BY DEF LockInv, DoneIsPast, TypeInv, TypeOK, PointRow
  <2>5. seen[o].version = point[User(o)].version
    BY <2>1, CommitRaisesVersion
  <2>6. CASE p = o \/ q = o
    BY <2>2, <2>3, <2>4, <2>5, <2>6
  <2>7. CASE p # o /\ q # o
    BY <2>2, <2>3, <2>7 DEF OneWinnerPerVersion
  <2> QED BY <2>6, <2>7
<1>2. CASE ~ \E o \in Ops : Commit(o)
  <2>1. pc[p] = "done" /\ pc[q] = "done"
    BY <1>2, OnlyCommitsMovePoints
  <2>2. /\ User(p)' = User(p) /\ User(q)' = User(q)
        /\ seen'[p] = seen[p] /\ seen'[q] = seen[q]
    BY <2>1, CallsKept
  <2> QED BY <2>1, <2>2 DEF OneWinnerPerVersion
<1> QED BY <1>1, <1>2

(* Of the operations that read one version of a user's points, at most one *)
(* is ever accepted.                                                       *)
THEOREM OneWinnerPerVersionAlways == Spec => []OneWinnerPerVersion
<1>1. Init => OneWinnerPerVersion
  BY DEF Init, OneWinnerPerVersion
<1> QED BY <1>1, WinnerStep, LockAlways, PTL DEF Spec

-----------------------------------------------------------------------------
LEMMA VersionsStep ==
  TypeInv /\ LockInv /\ VersionsHaveWinners /\ [Next]_vars => VersionsHaveWinners'
<1> SUFFICES ASSUME TypeInv, LockInv, VersionsHaveWinners, [Next]_vars,
                    NEW u \in Users, NEW v \in Nat, 1 <= v, v < point'[u].version
             PROVE  \E p \in Ops : pc'[p] = "done" /\ User(p)' = u /\ seen'[p].version = v
  BY DEF VersionsHaveWinners
<1>1. CASE v < point[u].version
  <2>1. PICK p \in Ops : pc[p] = "done" /\ User(p) = u /\ seen[p].version = v
    BY <1>1 DEF VersionsHaveWinners
  <2>2. pc'[p] = "done" /\ User(p)' = u /\ seen'[p].version = v
    BY <2>1, CallsKept
  <2> QED BY <2>2
<1>2. CASE ~(v < point[u].version)
  <2>1. \E o \in Ops : Commit(o)
    BY <1>2, OnlyCommitsMovePoints
  <2>2. PICK o \in Ops : Commit(o)
    BY <2>1
  <2>3. /\ seen[o] = point[User(o)] /\ point[u].version \in Nat
        /\ point'[User(o)].version = point[User(o)].version + 1
        /\ u # User(o) => point'[u] = point[u]
    BY <2>2, CommitRaisesVersion
  <2>4. u = User(o) /\ v = seen[o].version
    BY <2>3, <1>2
  <2>5. pc'[o] = "done" /\ User(o)' = User(o) /\ seen'[o] = seen[o]
    BY <2>2 DEF Commit, User, TypeInv, TypeOK
  <2> QED BY <2>4, <2>5
<1> QED BY <1>1, <1>2

LEMMA ConflictStep ==
  TypeInv /\ LockInv /\ VersionsHaveWinners /\ ConflictHasWinner /\ [Next]_vars
    => ConflictHasWinner'
<1> SUFFICES ASSUME TypeInv, LockInv, VersionsHaveWinners, ConflictHasWinner, [Next]_vars,
                    NEW o \in Ops, pc'[o] = "conflict"
             PROVE  \E p \in Ops : /\ pc'[p] = "done" /\ User(p)' = User(o)'
                                   /\ seen'[p].version = seen'[o].version
  BY DEF ConflictHasWinner
<1>1. pc[o] = "conflict" \/ Conflict(o)
  BY DEF Next, Read, Update, Conflict, Commit, Rollback, vars, TypeInv, TypeOK
<1>2. pc[o] # "idle"
  BY <1>1 DEF Conflict
<1>3. User(o)' = User(o) /\ User(o) \in Users /\ seen'[o] = seen[o]
  BY <1>2, CallsKept
<1>4. \E p \in Ops : pc[p] = "done" /\ User(p) = User(o) /\ seen[p].version = seen[o].version
  <2>1. CASE pc[o] = "conflict"
    BY <2>1 DEF ConflictHasWinner
  <2>2. CASE Conflict(o)
    <3>1. seen[o].version # point[User(o)].version
      BY <2>2 DEF Conflict, VersionMatches
    <3>2. /\ seen[o].version \in Nat /\ point[User(o)].version \in Nat
          /\ 1 <= seen[o].version /\ seen[o].version <= point[User(o)].version
      BY <1>2, <1>3 DEF LockInv, SnapshotIsPast, TypeInv, TypeOK, PointRow
    <3> QED BY <3>1, <3>2, <1>3 DEF VersionsHaveWinners
  <2> QED BY <1>1, <2>1, <2>2
<1>5. PICK p \in Ops : pc[p] = "done" /\ User(p) = User(o) /\ seen[p].version = seen[o].version
  BY <1>4
<1>6. pc'[p] = "done" /\ User(p)' = User(p) /\ seen'[p] = seen[p]
  BY <1>5, CallsKept
<1> QED BY <1>3, <1>5, <1>6

(* Whoever is refused for a conflict was beaten by an operation that read  *)
(* the same version and was accepted.                                      *)
THEOREM ConflictHasWinnerAlways == Spec => []ConflictHasWinner
<1>1. Init => VersionsHaveWinners
  <2> SUFFICES ASSUME Init, NEW u \in Users, NEW v \in Nat, 1 <= v, v < point[u].version
               PROVE  FALSE
    BY DEF VersionsHaveWinners
  <2>1. point[u] = [amount |-> InitialPoint, version |-> 1]
    BY DEF Init
  <2>2. point[u].version = 1
    BY <2>1
  <2> QED BY <2>2
<1>2. Init => ConflictHasWinner
  BY DEF Init, ConflictHasWinner
<1> QED BY <1>1, <1>2, VersionsStep, ConflictStep, LockAlways, PTL DEF Spec

-----------------------------------------------------------------------------
LEMMA HistoryStep ==
  TypeInv /\ LockInv /\ HistoryMatchesPoint /\ [Next]_vars => HistoryMatchesPoint'
<1> SUFFICES ASSUME TypeInv, LockInv, HistoryMatchesPoint, [Next]_vars, NEW u \in Users
             PROVE  /\ point'[u].version = Len(history'[u]) + 1
                    /\ history'[u] # <<>> =>
                         point'[u].amount = history'[u][Len(history'[u])].amount
  BY DEF HistoryMatchesPoint
<1>0. history[u] \in Seq(HistoryRow)
  BY DEF TypeInv, TypeOK
<1>1. CASE \E o \in Ops : Commit(o)
  <2>1. PICK o \in Ops : Commit(o)
    BY <1>1
  <2>2. /\ cmd[o] \in Call /\ Accepts(o) /\ User(o) \in Users
        /\ point'[User(o)] = [amount |-> NewAmount(o),
                              version |-> point[User(o)].version + 1]
        /\ \A w \in Users : w # User(o) => point'[w] = point[w]
    BY <2>1, CommitRaisesVersion
  <2>3. history' = [history EXCEPT ![User(o)] = Append(@, HistoryOf(o))]
    BY <2>1 DEF Commit
  <2>4. CASE u = User(o)
    <3>1. HistoryOf(o) \in HistoryRow /\ HistoryOf(o).amount = NewAmount(o)
      BY <2>2, AcceptedAmount DEF HistoryOf
    <3>2. history'[u] = Append(history[u], HistoryOf(o))
      BY <2>3, <2>4 DEF TypeInv, TypeOK
    <3>3. /\ Len(history'[u]) = Len(history[u]) + 1
          /\ history'[u][Len(history'[u])] = HistoryOf(o)
      BY <3>1, <3>2, <1>0
    <3>4. point'[u].version = point[u].version + 1 /\ point'[u].amount = NewAmount(o)
      BY <2>2, <2>4
    <3> QED BY <3>1, <3>3, <3>4 DEF HistoryMatchesPoint
  <2>5. CASE u # User(o)
    BY <2>2, <2>3, <2>5 DEF HistoryMatchesPoint, TypeInv, TypeOK
  <2> QED BY <2>4, <2>5
<1>2. CASE ~ \E o \in Ops : Commit(o)
  BY <1>2, OnlyCommitsMovePoints DEF HistoryMatchesPoint
<1> QED BY <1>1, <1>2

(* The history of a user always ends in the balance of the point row and   *)
(* holds one row for every version after the first.                        *)
THEOREM HistoryMatchesPointAlways == Spec => []HistoryMatchesPoint
<1>1. Init => HistoryMatchesPoint
  <2> SUFFICES ASSUME Init, NEW u \in Users
               PROVE  point[u].version = Len(history[u]) + 1 /\ history[u] = <<>>
    BY DEF HistoryMatchesPoint
  <2>1. point[u] = [amount |-> InitialPoint, version |-> 1] /\ history[u] = <<>>
    BY DEF Init
  <2>2. point[u].version = 1 /\ Len(history[u]) = 0
    BY <2>1
  <2> QED BY <2>1, <2>2
<1> QED BY <1>1, HistoryStep, LockAlways, PTL DEF Spec

-----------------------------------------------------------------------------
LEMMA CommitPosts ==
  ASSUME TypeInv, LockInv, NEW o \in Ops, Commit(o)
  PROVE  Ledger!Next
<1> DEFINE balance == [u \in Users |-> point[u].amount]
<1> DEFINE u == User(o)
<1>1. /\ u \in Users /\ cmd[o] \in Call /\ seen[o] = point[u] /\ Accepts(o)
      /\ point'[u] = [amount |-> NewAmount(o), version |-> point[u].version + 1]
      /\ \A w \in Users : w # u => point'[w] = point[w]
  BY CommitRaisesVersion
<1>2. /\ cmd[o].amount \in Amounts /\ cmd[o].type \in Types
      /\ NewAmount(o) \in 0 .. MaxPoint
  BY <1>1 DEF Call, Accepts
<1>3. point'[u].amount = NewAmount(o) /\ seen[o].amount = balance[u]
  BY <1>1
<1>4. [w \in Users |-> point'[w].amount] = [balance EXCEPT ![u] = NewAmount(o)]
  BY <1>1, <1>3
<1>5. history' = [history EXCEPT ![u] =
                    Append(@, [type |-> cmd[o].type, amount |-> NewAmount(o)])]
  BY DEF Commit, HistoryOf
<1>6. /\ NewAmount(o) \in 0 .. MaxPoint
      /\ balance' = [balance EXCEPT ![u] = NewAmount(o)]
  BY <1>2, <1>4
<1>7. CASE cmd[o].type = "CHARGE"
  <2>1. NewAmount(o) = balance[u] + cmd[o].amount
    BY <1>3, <1>7 DEF NewAmount
  <2>2. history' = [history EXCEPT ![u] = Append(@, [type |-> "CHARGE", amount |-> NewAmount(o)])]
    BY <1>5, <1>7
  <2> HIDE DEF u, balance
  <2>3. \E w \in Users, a \in Amounts :
          /\ balance[w] + a \in 0 .. MaxPoint
          /\ balance' = [balance EXCEPT ![w] = balance[w] + a]
          /\ history' = [history EXCEPT ![w] =
                            Append(@, [type |-> "CHARGE", amount |-> balance[w] + a])]
    BY <1>1, <1>2, <1>6, <2>1, <2>2
  <2> QED BY <2>3 DEF Ledger!Next, Ledger!Post, balance
<1>8. CASE cmd[o].type = "USE"
  <2>1. NewAmount(o) = balance[u] - cmd[o].amount
    BY <1>3, <1>8 DEF NewAmount
  <2>2. history' = [history EXCEPT ![u] = Append(@, [type |-> "USE", amount |-> NewAmount(o)])]
    BY <1>5, <1>8
  <2> HIDE DEF u, balance
  <2>3. \E w \in Users, a \in Amounts :
          /\ balance[w] - a \in 0 .. MaxPoint
          /\ balance' = [balance EXCEPT ![w] = balance[w] - a]
          /\ history' = [history EXCEPT ![w] =
                            Append(@, [type |-> "USE", amount |-> balance[w] - a])]
    BY <1>1, <1>2, <1>6, <2>1, <2>2
  <2> QED BY <2>3 DEF Ledger!Next, Ledger!Post, balance
<1> QED BY <1>2, <1>7, <1>8 DEF Types

(* The optimistic transactions implement the ledger: each commit applies   *)
(* its operation to the balance that the commit before it left.            *)
THEOREM ImplementsLedger == Spec => ActsAsLedger
<1> DEFINE balance == [u \in Users |-> point[u].amount]
<1>1. Init => Ledger!Init
  <2> SUFFICES ASSUME Init PROVE Ledger!Init
    OBVIOUS
  <2>1. \A u \in Users : point[u].amount = InitialPoint
    <3> SUFFICES ASSUME NEW u \in Users PROVE point[u].amount = InitialPoint
      OBVIOUS
    <3>1. point[u] = [amount |-> InitialPoint, version |-> 1]
      BY DEF Init
    <3> QED BY <3>1
  <2> QED BY <2>1 DEF Init, Ledger!Init
<1>2. TypeInv /\ LockInv /\ [Next]_vars => [Ledger!Next]_<<balance, history>>
  <2> SUFFICES ASSUME TypeInv, LockInv, [Next]_vars
               PROVE  Ledger!Next \/ <<balance, history>>' = <<balance, history>>
    OBVIOUS
  <2>1. CASE \E o \in Ops : Commit(o)
    BY <2>1, CommitPosts
  <2>2. CASE ~ \E o \in Ops : Commit(o)
    BY <2>2, OnlyCommitsMovePoints
  <2> QED BY <2>1, <2>2
<1> QED BY <1>1, <1>2, LockAlways, PTL DEF Spec, ActsAsLedger, Ledger!Spec
=============================================================================
