----------------------- MODULE ConnectionPool_proofs -----------------------
(* Proofs about the pool of connections, for any number of connections and *)
(* any mix of tasks.                                                       *)
EXTENDS ConnectionPool, FiniteSetTheorems, TLAPS

(* The stages a task passes, and those of its transaction.                 *)
InTx(t) ==
  CASE Kind[t] = "reserve" -> {"findReservationBy", "save", "saveOutbox", "commit", "rollback"}
    [] Kind[t] = "pay"     -> {"updatePoint", "save", "saveOutbox", "commit", "rollback"}
    [] Kind[t] = "charge"  -> {"updatePoint", "save", "commit", "rollback"}
    [] OTHER               -> {}

BeforeTx(t) ==
  CASE Kind[t] = "reserve" -> {"idle", "getUser", "getSeatByPk", "begin"}
    [] Kind[t] = "pay"     -> {"idle", "begin"}
    [] Kind[t] = "charge"  -> {"idle", "begin"}
    [] Kind[t] = "send"    -> {"idle", "getOutboxBy", "saveSent"}
    [] Kind[t] = "consume" -> {"idle", "getSeatByPk", "updateSeatStatus"}

Path(t) == BeforeTx(t) \cup InTx(t) \cup {"ended"}

LEMMA KindOf == ASSUME NEW t \in Tasks PROVE Kind[t] \in Kinds
BY PoolAssumption

(* A statement is followed by one of the same code, and a statement of a   *)
(* transaction by another one of it.                                       *)
LEMMA AfterInPath ==
  ASSUME NEW t \in Tasks, stage[t] \in Path(t) \ {"ended", "commit", "rollback"}
  PROVE  /\ After(t) \in Path(t) \ {"idle"}
         /\ stage[t] \in InTx(t) \cup {"begin"} <=> After(t) \in InTx(t)
         /\ stage[t] = "updatePoint" => After(t) = "save"
         /\ stage[t] = "save" => After(t) \in {"saveOutbox", "commit"}
         /\ stage[t] = "saveOutbox" => After(t) = "commit"
<1>1. CASE Kind[t] = "reserve"
  BY <1>1 DEF Path, BeforeTx, InTx, After, Reserve
<1>2. CASE Kind[t] = "pay"
  BY <1>2 DEF Path, BeforeTx, InTx, After, Pay
<1>3. CASE Kind[t] = "charge"
  BY <1>3 DEF Path, BeforeTx, InTx, After, Charge
<1>4. CASE Kind[t] = "send"
  BY <1>4 DEF Path, BeforeTx, InTx, After, Send
<1>5. CASE Kind[t] = "consume"
  BY <1>5 DEF Path, BeforeTx, InTx, After, Consume
<1> QED
  BY <1>1, <1>2, <1>3, <1>4, <1>5, KindOf DEF Kinds

LEMMA PathFacts ==
  ASSUME NEW t \in Tasks
  PROVE  /\ Path(t) \subseteq Stages
         /\ "ended" \in Path(t)
         /\ InTx(t) \subseteq Path(t)
         /\ InTx(t) # {} => "rollback" \in InTx(t)
         /\ InTx(t) \cap {"idle", "begin", "ended", "getUser", "getSeatByPk",
                          "getOutboxBy", "saveSent", "updateSeatStatus"} = {}
         /\ "updatePoint" \in Path(t) => "updatePoint" \in InTx(t)
         /\ "save" \in Path(t) => "save" \in InTx(t)
         /\ "idle" \in Path(t)
<1>1. CASE Kind[t] = "reserve"
  BY <1>1 DEF Path, BeforeTx, InTx, Stages, Queries, Statements
<1>2. CASE Kind[t] = "pay"
  BY <1>2 DEF Path, BeforeTx, InTx, Stages, Queries, Statements
<1>3. CASE Kind[t] = "charge"
  BY <1>3 DEF Path, BeforeTx, InTx, Stages, Queries, Statements
<1>4. CASE Kind[t] = "send"
  BY <1>4 DEF Path, BeforeTx, InTx, Stages, Queries, Statements
<1>5. CASE Kind[t] = "consume"
  BY <1>5 DEF Path, BeforeTx, InTx, Stages, Queries, Statements
<1> QED
  BY <1>1, <1>2, <1>3, <1>4, <1>5, KindOf DEF Kinds

-----------------------------------------------------------------------------
(* The inductive invariant.                                                *)

(* What a task holds follows from where it is: a query has a connection    *)
(* exactly while it runs, a transaction from BEGIN to its end, and only    *)
(* who is about to use a connection asks for one.                          *)
HoldsByStage(t) ==
  /\ stage[t] \in Path(t)
  /\ mode[t] # "ready" => stage[t] \in Queries \cup {"begin"}
  /\ query[t] # None <=> mode[t] = "served" /\ stage[t] \in Queries
  /\ tx[t] # None <=> \/ mode[t] = "served" /\ stage[t] = "begin"
                      \/ stage[t] \in InTx(t)

WaitersQueue ==
  /\ \A i \in 1 .. Len(queue) : mode[queue[i]] = "waiting"
  /\ \A i, j \in 1 .. Len(queue) : queue[i] = queue[j] => i = j

LocksInTx ==
  \A u \in Users : lock[u] # None =>
    /\ stage[lock[u]] \in {"save", "saveOutbox", "commit", "rollback"}
    /\ tx[lock[u]] # None

PoolInv ==
  /\ TypeOK
  /\ \A t \in Tasks : HoldsByStage(t)
  /\ WaitersQueue
  /\ LocksInTx

LEMMA InitInv == ASSUME Init PROVE PoolInv
<1>1. TypeOK
  BY DEF Init, TypeOK, Stages
<1>2. \A t \in Tasks : HoldsByStage(t)
  BY PathFacts DEF Init, HoldsByStage, Queries
<1>3. WaitersQueue /\ LocksInTx
  BY DEF Init, WaitersQueue, LocksInTx
<1> QED
  BY <1>1, <1>2, <1>3 DEF PoolInv

(* A connection that is released changes hands at most once, to somebody   *)
(* who waits for it.                                                       *)
Handed(t, k, txs, queries) ==
  /\ mode[t] = "waiting" /\ mode'[t] = "served"
  /\ IF stage[t] = "begin"
     THEN tx'[t] = k /\ query'[t] = queries[t]
     ELSE tx'[t] = txs[t] /\ query'[t] = k

LEMMA ReleaseHands ==
  ASSUME TypeOK, WaitersQueue,
         NEW k \in Conns,
         NEW txs \in [Tasks -> Conns \cup {None}],
         NEW queries \in [Tasks -> Conns \cup {None}],
         NEW modes \in [Tasks -> {"ready", "waiting", "served"}],
         \A t \in Tasks : mode[t] = "waiting" => modes[t] = "waiting",
         Release(k, txs, queries, modes)
  PROVE  /\ mode' \in [Tasks -> {"ready", "waiting", "served"}]
         /\ tx' \in [Tasks -> Conns \cup {None}]
         /\ query' \in [Tasks -> Conns \cup {None}]
         /\ queue' \in Seq(Tasks)
         /\ WaitersQueue'
         /\ \A t \in Tasks :
              \/ tx'[t] = txs[t] /\ query'[t] = queries[t] /\ mode'[t] = modes[t]
              \/ Handed(t, k, txs, queries)
<1>1. CASE queue = <<>>
  BY <1>1 DEF Release, TypeOK, WaitersQueue
<1>2. CASE queue # <<>>
  <2> DEFINE h == Head(queue)
  <2>1. /\ h \in Tasks
        /\ Tail(queue) \in Seq(Tasks)
        /\ Len(queue) \in Nat \ {0}
        /\ h = queue[1]
        /\ Len(Tail(queue)) = Len(queue) - 1
        /\ \A i \in 1 .. Len(Tail(queue)) : Tail(queue)[i] = queue[i + 1]
    BY <1>2 DEF TypeOK
  <2>2. mode[h] = "waiting"
    BY <2>1 DEF WaitersQueue
  <2>3. /\ Lend(h, k, txs, queries)
        /\ mode' = [modes EXCEPT ![h] = "served"]
        /\ queue' = Tail(queue)
    BY <1>2 DEF Release
  <2>4. /\ tx' \in [Tasks -> Conns \cup {None}]
        /\ query' \in [Tasks -> Conns \cup {None}]
    BY <2>1, <2>3 DEF Lend
  <2>5. \A t \in Tasks :
          \/ tx'[t] = txs[t] /\ query'[t] = queries[t] /\ mode'[t] = modes[t]
          \/ Handed(t, k, txs, queries)
    BY <2>1, <2>2, <2>3 DEF Lend, Handed
  <2>6. WaitersQueue'
    <3>1. \A i \in 1 .. Len(queue') :
            /\ i + 1 \in 1 .. Len(queue) /\ queue'[i] = queue[i + 1]
            /\ queue[i + 1] \in Tasks /\ queue[i + 1] # h
      BY <2>1, <2>3 DEF TypeOK, WaitersQueue
    <3>2. \A i \in 1 .. Len(queue') : mode'[queue'[i]] = "waiting"
      <4> TAKE i \in 1 .. Len(queue')
      <4>1. mode[queue[i + 1]] = "waiting"
        BY <3>1 DEF WaitersQueue
      <4>2. modes[queue[i + 1]] = "waiting"
        BY <3>1, <4>1
      <4> QED
        BY <2>3, <3>1, <4>2
    <3>3. \A i, j \in 1 .. Len(queue') : queue'[i] = queue'[j] => i = j
      BY <3>1 DEF WaitersQueue
    <3> QED
      BY <3>2, <3>3 DEF WaitersQueue
  <2> QED
    BY <2>1, <2>3, <2>4, <2>5, <2>6
<1> QED
  BY <1>1, <1>2

-----------------------------------------------------------------------------
(* Each action keeps the invariant.                                        *)

LEMMA BorrowInv ==
  ASSUME PoolInv, NEW t \in Tasks, Borrow(t)
  PROVE  PoolInv'
<1> USE DEF PoolInv
<1>1. /\ mode[t] = "ready" /\ query[t] = None
      /\ stage[t] \in Queries \cup {"begin"}
      /\ stage' = stage /\ lock' = lock /\ handlers' = handlers
  BY DEF Borrow, HoldsByStage
<1>2. CASE \E k \in Free : /\ Lend(t, k, tx, query) /\ UNCHANGED queue
                          /\ mode' = [mode EXCEPT ![t] = "served"]
  <2>1. PICK k \in Conns : Lend(t, k, tx, query) /\ queue' = queue
                           /\ mode' = [mode EXCEPT ![t] = "served"]
    BY <1>2 DEF Free
  <2>2. k # None
    BY PoolAssumption
  <2>3. TypeOK'
    BY <1>1, <2>1 DEF TypeOK, Lend
  <2>4. HoldsByStage(t)'
    BY <1>1, <2>1, <2>2, PathFacts DEF TypeOK, Lend, HoldsByStage, Queries
  <2>5. \A u \in Tasks : u # t => HoldsByStage(u)'
    BY <1>1, <2>1 DEF TypeOK, Lend, HoldsByStage
  <2>6. WaitersQueue'
    BY <1>1, <2>1 DEF TypeOK, WaitersQueue
  <2>7. LocksInTx'
    BY <1>1, <2>1, <2>2 DEF TypeOK, LocksInTx, Lend
  <2> QED
    BY <2>3, <2>4, <2>5, <2>6, <2>7
<1>3. CASE /\ mode' = [mode EXCEPT ![t] = "waiting"]
           /\ queue' = Append(queue, t)
           /\ UNCHANGED <<tx, query>>
  <2>1. TypeOK'
    BY <1>1, <1>3 DEF TypeOK
  <2>2. \A u \in Tasks : HoldsByStage(u)'
    BY <1>1, <1>3 DEF TypeOK, HoldsByStage, Queries
  <2>3. WaitersQueue'
    <3>1. /\ Len(queue') = Len(queue) + 1 /\ Len(queue) \in Nat
          /\ \A i \in 1 .. Len(queue) : queue'[i] = queue[i] /\ queue[i] \in Tasks
          /\ queue'[Len(queue) + 1] = t
      BY <1>3 DEF TypeOK
    <3>2. \A i \in 1 .. Len(queue) : queue[i] # t /\ mode'[queue[i]] = "waiting"
      BY <1>1, <1>3, <3>1 DEF TypeOK, WaitersQueue
    <3>3. mode'[t] = "waiting"
      BY <1>3 DEF TypeOK
    <3> QED
      BY <3>1, <3>2, <3>3 DEF WaitersQueue
  <2>4. LocksInTx'
    BY <1>1, <1>3 DEF LocksInTx
  <2> QED
    BY <2>1, <2>2, <2>3, <2>4
<1> QED
  BY <1>2, <1>3 DEF Borrow

(* Steps that neither borrow nor return a connection.                      *)
LEMMA StartInv ==
  ASSUME PoolInv, NEW t \in Tasks, Start(t)
  PROVE  PoolInv'
<1> USE DEF PoolInv
<1>1. /\ stage[t] = "idle" /\ stage' = [stage EXCEPT ![t] = After(t)]
      /\ UNCHANGED <<mode, tx, query, queue, lock>>
      /\ handlers' \in Nat
  BY DEF Start, TypeOK
<1>2. /\ mode[t] = "ready" /\ query[t] = None /\ tx[t] = None
      /\ stage[t] \in Path(t)
  BY <1>1, PathFacts DEF HoldsByStage, Queries
<1>3. After(t) \in Path(t) \ InTx(t)
  BY <1>1, <1>2, AfterInPath, PathFacts
<1>4. TypeOK'
  BY <1>1, <1>3, PathFacts DEF TypeOK
<1>5. \A u \in Tasks : HoldsByStage(u)'
  BY <1>1, <1>2, <1>3 DEF TypeOK, HoldsByStage
<1>6. WaitersQueue' /\ LocksInTx'
  BY <1>1, <1>2 DEF TypeOK, WaitersQueue, LocksInTx
<1> QED
  BY <1>4, <1>5, <1>6

LEMMA BeginInv ==
  ASSUME PoolInv, NEW t \in Tasks, Begin(t)
  PROVE  PoolInv'
<1> USE DEF PoolInv
<1>1. /\ mode[t] = "served" /\ stage[t] = "begin" /\ stage[t] \in Path(t)
      /\ query[t] = None /\ tx[t] # None
      /\ stage' = [stage EXCEPT ![t] = After(t)]
      /\ mode' = [mode EXCEPT ![t] = "ready"]
      /\ UNCHANGED <<tx, query, queue, lock, handlers>>
  BY DEF Begin, HoldsByStage, Queries
<1>2. After(t) \in Path(t) /\ After(t) \in InTx(t)
  BY <1>1, AfterInPath
<1>3. TypeOK'
  BY <1>1, <1>2, PathFacts DEF TypeOK
<1>4. \A u \in Tasks : HoldsByStage(u)'
  BY <1>1, <1>2, PathFacts DEF TypeOK, HoldsByStage
<1>5. WaitersQueue'
  BY <1>1 DEF TypeOK, WaitersQueue
<1>6. LocksInTx'
  BY <1>1 DEF TypeOK, LocksInTx
<1> QED
  BY <1>3, <1>4, <1>5, <1>6

(* The statements of a transaction, on the connection it has.              *)
LEMMA StatementInv ==
  ASSUME PoolInv, NEW t \in Tasks,
         Save(t) \/ UpdatePoint(t) \/ StatementFails(t) \/ LockTimeout(t)
  PROVE  PoolInv'
<1> USE DEF PoolInv
<1>1. /\ stage[t] \in {"save", "updatePoint"} /\ stage[t] \in InTx(t)
      /\ mode[t] = "ready" /\ query[t] = None /\ tx[t] # None
      /\ UNCHANGED <<mode, tx, query, queue, handlers>>
  <2>1. stage[t] \in {"save", "updatePoint"} /\ UNCHANGED <<mode, tx, query, queue, handlers>>
    BY DEF Save, UpdatePoint, StatementFails, LockTimeout
  <2> QED
    BY <2>1, PathFacts DEF HoldsByStage, Queries
<1>2. PICK next \in InTx(t) :
        /\ stage' = [stage EXCEPT ![t] = next]
        /\ stage[t] = "save" => next \in {"saveOutbox", "commit", "rollback"}
        /\ \/ lock' = lock
           \/ next = "save" /\ \E u \in Users : lock' = [lock EXCEPT ![u] = t]
  <2>1. CASE Save(t) \/ UpdatePoint(t)
    <3>1. stage' = [stage EXCEPT ![t] = After(t)]
      BY <2>1 DEF Save, UpdatePoint
    <3>2. /\ After(t) \in InTx(t)
          /\ stage[t] = "save" => After(t) \in {"saveOutbox", "commit"}
          /\ stage[t] = "updatePoint" => After(t) = "save"
      BY <1>1, AfterInPath, PathFacts
    <3>3. \/ lock' = lock
          \/ stage[t] = "updatePoint" /\ \E u \in Users : lock' = [lock EXCEPT ![u] = t]
      BY <2>1, PoolAssumption DEF Save, UpdatePoint
    <3> QED
      BY <3>1, <3>2, <3>3
  <2>2. CASE StatementFails(t) \/ LockTimeout(t)
    BY <1>1, <2>2, PathFacts DEF StatementFails, LockTimeout
  <2> QED
    BY <2>1, <2>2
<1>3. TypeOK'
  BY <1>1, <1>2, PathFacts DEF TypeOK
<1>4. \A u \in Tasks : HoldsByStage(u)'
  BY <1>1, <1>2, PathFacts DEF TypeOK, HoldsByStage
<1>5. WaitersQueue'
  BY <1>1 DEF WaitersQueue
<1>6. LocksInTx'
  BY <1>1, <1>2 DEF TypeOK, LocksInTx
<1> QED
  BY <1>3, <1>4, <1>5, <1>6

-----------------------------------------------------------------------------
(* The steps that return a connection.                                     *)

LEMMA QueryInv ==
  ASSUME PoolInv, NEW t \in Tasks, QueryEnds(t) \/ QueryFails(t)
  PROVE  PoolInv'
<1> USE DEF PoolInv
<1> DEFINE queries == [query EXCEPT ![t] = None]
           modes == [mode EXCEPT ![t] = "ready"]
<1>1. /\ mode[t] = "served" /\ stage[t] \in Queries /\ stage[t] \in Path(t)
      /\ query[t] \in Conns
      /\ tx[t] # None <=> stage[t] \in InTx(t)
      /\ Release(query[t], tx, queries, modes)
      /\ lock' = lock /\ handlers' \in Nat
  BY DEF QueryEnds, QueryFails, TypeOK, HoldsByStage, Queries
<1>2. PICK next \in Path(t) :
        /\ stage' = [stage EXCEPT ![t] = next]
        /\ next \in InTx(t) <=> tx[t] # None
        /\ stage[t] = "saveOutbox" /\ tx[t] # None => next \in {"commit", "rollback"}
  <2>1. CASE QueryEnds(t)
    <3>1. stage[t] \notin {"ended", "commit", "rollback", "begin"}
      BY <1>1 DEF Queries
    <3> QED
      BY <1>1, <2>1, <3>1, AfterInPath DEF QueryEnds
  <2>2. CASE QueryFails(t)
    BY <1>1, <2>2, PathFacts DEF QueryFails
  <2> QED
    BY <2>1, <2>2
<1>3. /\ queries \in [Tasks -> Conns \cup {None}]
      /\ modes \in [Tasks -> {"ready", "waiting", "served"}]
      /\ \A u \in Tasks : mode[u] = "waiting" => modes[u] = "waiting"
  BY <1>1 DEF TypeOK
<1> HIDE DEF queries, modes
<1>4. /\ mode' \in [Tasks -> {"ready", "waiting", "served"}]
      /\ tx' \in [Tasks -> Conns \cup {None}]
      /\ query' \in [Tasks -> Conns \cup {None}]
      /\ queue' \in Seq(Tasks)
      /\ WaitersQueue'
      /\ \A u \in Tasks :
           \/ tx'[u] = tx[u] /\ query'[u] = queries[u] /\ mode'[u] = modes[u]
           \/ Handed(u, query[t], tx, queries)
  BY <1>1, <1>3, ReleaseHands DEF TypeOK
<1> USE DEF queries, modes
<1>5. TypeOK'
  BY <1>1, <1>2, <1>4, PathFacts DEF TypeOK
<1>6. HoldsByStage(t)'
  BY <1>1, <1>2, <1>4, PathFacts DEF TypeOK, Handed, HoldsByStage
<1>7. \A u \in Tasks : u # t => HoldsByStage(u)'
  BY <1>1, <1>2, <1>4, PathFacts, PoolAssumption
  DEF TypeOK, Handed, HoldsByStage, Queries
<1>8. LocksInTx'
  <2>1. \A u \in Tasks : tx[u] # None => tx'[u] # None
    BY <1>1, <1>4, PoolAssumption DEF Handed
  <2> QED
    BY <1>1, <1>2, <2>1 DEF TypeOK, LocksInTx, Queries
<1> QED
  BY <1>4, <1>5, <1>6, <1>7, <1>8

LEMMA EndInv ==
  ASSUME PoolInv, NEW t \in Tasks, End(t)
  PROVE  PoolInv'
<1> USE DEF PoolInv
<1> DEFINE txs == [tx EXCEPT ![t] = None]
<1>1. /\ stage[t] \in {"commit", "rollback"} /\ stage[t] \in InTx(t)
      /\ mode[t] = "ready" /\ query[t] = None /\ tx[t] \in Conns
      /\ stage' = [stage EXCEPT ![t] = "ended"]
      /\ lock' = [u \in Users |-> IF lock[u] = t THEN None ELSE lock[u]]
      /\ Release(tx[t], txs, query, mode)
      /\ handlers' = handlers
  <2>1. /\ stage[t] \in {"commit", "rollback"}
        /\ stage' = [stage EXCEPT ![t] = "ended"]
        /\ lock' = [u \in Users |-> IF lock[u] = t THEN None ELSE lock[u]]
        /\ Release(tx[t], txs, query, mode)
        /\ handlers' = handlers
    BY DEF End
  <2>2. stage[t] \in InTx(t)
    BY <2>1, KindOf DEF HoldsByStage, Path, BeforeTx, Kinds
  <2> QED
    BY <2>1, <2>2 DEF TypeOK, HoldsByStage, Queries
<1>2. txs \in [Tasks -> Conns \cup {None}]
  BY DEF TypeOK
<1> HIDE DEF txs
<1>3. /\ mode' \in [Tasks -> {"ready", "waiting", "served"}]
      /\ tx' \in [Tasks -> Conns \cup {None}]
      /\ query' \in [Tasks -> Conns \cup {None}]
      /\ queue' \in Seq(Tasks)
      /\ WaitersQueue'
      /\ \A u \in Tasks :
           \/ tx'[u] = txs[u] /\ query'[u] = query[u] /\ mode'[u] = mode[u]
           \/ Handed(u, tx[t], txs, query)
  BY <1>1, <1>2, ReleaseHands DEF TypeOK
<1> USE DEF txs
<1>4. TypeOK'
  BY <1>1, <1>3 DEF TypeOK, Stages
<1>5. HoldsByStage(t)'
  BY <1>1, <1>3, PathFacts DEF TypeOK, Handed, HoldsByStage, Queries
<1>6. \A u \in Tasks : u # t => HoldsByStage(u)'
  BY <1>1, <1>3, PathFacts, PoolAssumption
  DEF TypeOK, Handed, HoldsByStage, Queries
<1>7. LocksInTx'
  <2>1. \A u \in Tasks : u # t /\ tx[u] # None => tx'[u] # None
    BY <1>1, <1>3, PoolAssumption DEF TypeOK, Handed
  <2> QED
    BY <1>1, <2>1 DEF TypeOK, LocksInTx
<1> QED
  BY <1>3, <1>4, <1>5, <1>6, <1>7

LEMMA NextInv == PoolInv /\ [Next]_vars => PoolInv'
<1> SUFFICES ASSUME PoolInv, [Next]_vars PROVE PoolInv'
  OBVIOUS
<1>1. CASE UNCHANGED vars
  BY <1>1 DEF vars, PoolInv, TypeOK, HoldsByStage, WaitersQueue, LocksInTx
<1>2. ASSUME NEW t \in Tasks, Start(t) \/ Step(t) PROVE PoolInv'
  BY <1>2, StartInv, BorrowInv, QueryInv, BeginInv, StatementInv, EndInv DEF Step
<1> QED
  BY <1>1, <1>2 DEF Next

LEMMA SpecInv == Spec => []PoolInv
BY InitInv, NextInv, PTL DEF Spec

-----------------------------------------------------------------------------
(* Every task is at a statement of its code, and every connection is lent  *)
(* to a task of the pool, whatever the tasks are and how many they are.    *)
THEOREM TypeCorrect == Spec => []TypeOK
<1>1. PoolInv => TypeOK
  BY DEF PoolInv
<1> QED
  BY <1>1, SpecInv, PTL

(* A pool only stalls when there are as many open bookings as it has       *)
(* connections: whoever waits holds no connection but that of a            *)
(* transaction, only bookings wait in one, and every connection has a      *)
(* holder, so that the holders are as many as the connections.             *)
LEMMA StallInv == PoolInv => StallNeedsFullHouse
<1> SUFFICES ASSUME PoolInv, Stalled
             PROVE  Cardinality(OpenBookings) >= Cardinality(Conns)
  BY DEF StallNeedsFullHouse
<1>1. ASSUME NEW k \in Conns PROVE \E t \in OpenBookings : tx[t] = k
  <2>1. PICK t \in Tasks : k \in {tx[t], query[t]}
    BY DEF Stalled, Free
  <2>2. k # None
    BY PoolAssumption
  <2>3. mode[t] = "waiting"
    BY <2>1, <2>2 DEF Stalled, Held
  <2>4. /\ stage[t] \in Queries \cup {"begin"} /\ query[t] = None
        /\ tx[t] # None => stage[t] \in InTx(t)
    BY <2>3 DEF PoolInv, HoldsByStage
  <2>5. tx[t] = k /\ stage[t] \in InTx(t)
    BY <2>1, <2>2, <2>4
  <2>6. Kind[t] \in {"reserve", "pay"}
    BY <2>4, <2>5, PathFacts DEF InTx, Queries
  <2> QED
    BY <2>2, <2>5, <2>6 DEF OpenBookings
<1> DEFINE holder == [k \in Conns |-> CHOOSE t \in OpenBookings : tx[t] = k]
<1>2. \A k \in Conns : holder[k] \in OpenBookings /\ tx[holder[k]] = k
  BY <1>1
<1>3. holder \in Injection(Conns, OpenBookings)
  BY <1>2 DEF Injection, IsInjective
<1>4. IsFiniteSet(OpenBookings)
  BY PoolAssumption, FS_Subset DEF OpenBookings
<1> QED
  BY <1>3, <1>4, FS_Injection

(* For a pool of any size and any tasks: it only stalls when bookings hold *)
(* every connection of it.                                                 *)
THEOREM StallTakesBookings == Spec => []StallNeedsFullHouse
BY SpecInv, StallInv, PTL

(* Whichever statement failed, a task that has ended keeps no connection   *)
(* and no row lock: transaction() ends on every path.                      *)
LEMMA EndedInv == PoolInv => EndedHoldsNothing
<1> SUFFICES ASSUME PoolInv, NEW t \in Tasks, stage[t] = "ended"
             PROVE  Held(t) = {} /\ \A u \in Users : lock[u] # t
  BY DEF EndedHoldsNothing
<1>1. query[t] = None /\ tx[t] = None
  BY PathFacts DEF PoolInv, HoldsByStage, Queries
<1>2. \A u \in Users : lock[u] # t
  BY <1>1, PoolAssumption DEF PoolInv, LocksInTx
<1> QED
  BY <1>1, <1>2 DEF Held

(* Connections and row locks come back whatever fails, for any tasks.      *)
THEOREM EndReturnsAll == Spec => []EndedHoldsNothing
BY SpecInv, EndedInv, PTL

(* The tasks that may hold a transaction and ask for another connection.   *)
Bookings == {t \in Tasks : Kind[t] \in {"reserve", "pay"}}

LEMMA FewInv ==
  ASSUME PoolInv, Cardinality(Bookings) < Cardinality(Conns)
  PROVE  ~Stalled
<1>1. /\ Cardinality(OpenBookings) <= Cardinality(Bookings)
      /\ Cardinality(OpenBookings) \in Nat /\ Cardinality(Bookings) \in Nat
      /\ Cardinality(Conns) \in Nat
  <2>1. OpenBookings \subseteq Bookings /\ IsFiniteSet(Bookings)
    BY PoolAssumption, FS_Subset DEF OpenBookings, Bookings
  <2> QED
    BY <2>1, PoolAssumption, FS_Subset, FS_CardinalityType
<1> QED
  BY <1>1, StallInv DEF StallNeedsFullHouse

(* In particular, a load with fewer bookings than connections never stalls *)
(* the pool, whatever else runs: the limit of 20 is safe up to 19 of them. *)
THEOREM FewBookingsNeverStall ==
  ASSUME Cardinality(Bookings) < Cardinality(Conns)
  PROVE  Spec => []~Stalled
<1>1. PoolInv => ~Stalled
  BY FewInv
<1> QED
  BY <1>1, SpecInv, PTL

-----------------------------------------------------------------------------
(* Who holds what, and who waits for it.                                   *)

(* A connection has one holder, and one use.                               *)
OneHolder ==
  /\ \A t, u \in Tasks : t # u => Held(t) \cap Held(u) = {}
  /\ \A t \in Tasks : tx[t] # None => tx[t] # query[t]

(* Everybody who waits is in the queue, and nobody waits while a           *)
(* connection is free.                                                     *)
WaitersAreServed ==
  /\ \A t \in Tasks : mode[t] = "waiting" => \E i \in 1 .. Len(queue) : queue[i] = t
  /\ queue # <<>> => Free = {}

(* A connection k goes to t, who holds what it held.                       *)
Gets(t, k) ==
  /\ Held(t)' = Held(t) \cup {k}
  /\ tx'[t] # None => tx'[t] # query'[t]

LEMMA LendGives ==
  ASSUME PoolInv, OneHolder, NEW t \in Tasks, NEW k \in Conns, k \notin Held(t),
         mode[t] # "served", stage[t] \in Queries \cup {"begin"},
         NEW txs \in [Tasks -> Conns \cup {None}],
         NEW queries \in [Tasks -> Conns \cup {None}],
         txs[t] = tx[t], queries[t] = query[t],
         Lend(t, k, txs, queries)
  PROVE  /\ Gets(t, k)
         /\ \A u \in Tasks : u # t => tx'[u] = txs[u] /\ query'[u] = queries[u]
<1>1. k # None
  BY PoolAssumption
<1>2. query[t] = None /\ (stage[t] = "begin" => tx[t] = None)
  BY PathFacts DEF PoolInv, HoldsByStage
<1>3. CASE stage[t] = "begin"
  BY <1>1, <1>2, <1>3 DEF Lend, Gets, Held
<1>4. CASE stage[t] # "begin"
  BY <1>1, <1>2, <1>4 DEF Lend, Gets, Held
<1> QED BY <1>3, <1>4

(* Task t returns k, which goes to the first who waits or is free again.   *)
Returns(t, k) ==
  /\ k \in Held(t) /\ mode[t] # "waiting"
  /\ Held(t)' = Held(t) \ {k} /\ None \in {tx'[t], query'[t]}
  /\ \/ /\ queue = <<>> /\ queue' = queue
        /\ \A u \in Tasks : mode'[u] = "waiting" => mode[u] = "waiting"
        /\ \A u \in Tasks : u # t => tx'[u] = tx[u] /\ query'[u] = query[u]
     \/ \E h \in Tasks :
          /\ queue # <<>> /\ h = Head(queue) /\ h # t /\ queue' = Tail(queue)
          /\ Gets(h, k) /\ mode'[h] = "served"
          /\ \A u \in Tasks : mode'[u] = "waiting" => mode[u] = "waiting"
          /\ \A u \in Tasks : u \notin {t, h} => tx'[u] = tx[u] /\ query'[u] = query[u]

LEMMA ReleaseReturns ==
  ASSUME PoolInv, OneHolder, NEW t \in Tasks, NEW k \in Conns,
         k \in Held(t), mode[t] # "waiting",
         NEW txs \in [Tasks -> Conns \cup {None}],
         NEW queries \in [Tasks -> Conns \cup {None}],
         NEW modes \in [Tasks -> {"ready", "waiting", "served"}],
         \A u \in Tasks : modes[u] = "waiting" => mode[u] = "waiting",
         \A u \in Tasks : u # t => txs[u] = tx[u] /\ queries[u] = query[u],
         {txs[t], queries[t]} \ {None} = Held(t) \ {k}, None \in {txs[t], queries[t]},
         Release(k, txs, queries, modes)
  PROVE  Returns(t, k)
<1>1. CASE queue = <<>>
  BY <1>1 DEF Release, Returns, Held
<1>2. CASE queue # <<>>
  <2> DEFINE h == Head(queue)
  <2>1. /\ h \in Tasks /\ Lend(h, k, txs, queries)
        /\ mode' = [modes EXCEPT ![h] = "served"] /\ queue' = Tail(queue)
    BY <1>2 DEF Release, PoolInv, TypeOK
  <2>2. mode[h] = "waiting"
    <3>1. h = queue[1] /\ 1 \in 1 .. Len(queue)
      BY <1>2 DEF PoolInv, TypeOK
    <3> QED BY <3>1 DEF PoolInv, WaitersQueue
  <2>3. h # t /\ stage[h] \in Queries \cup {"begin"} /\ k \notin Held(h)
    BY <2>1, <2>2 DEF PoolInv, HoldsByStage, OneHolder
  <2>4. /\ Gets(h, k)
        /\ \A u \in Tasks : u # h => tx'[u] = txs[u] /\ query'[u] = queries[u]
    BY <2>1, <2>2, <2>3, LendGives
  <2>5. Held(t)' = Held(t) \ {k} /\ None \in {tx'[t], query'[t]}
    BY <2>3, <2>4 DEF Held
  <2>6. mode'[h] = "served" /\ \A u \in Tasks : mode'[u] = "waiting" => mode[u] = "waiting"
    BY <2>1
  <2>7. \A u \in Tasks : u \notin {t, h} => tx'[u] = tx[u] /\ query'[u] = query[u]
    BY <2>4
  <2> QED BY <1>2, <2>1, <2>3, <2>4, <2>5, <2>6, <2>7 DEF Returns
<1> QED BY <1>1, <1>2

(* All a step does to the connections.                                     *)
LEMMA ConnectionsMove ==
  ASSUME PoolInv, OneHolder, [Next]_vars
  PROVE  \/ /\ UNCHANGED <<tx, query, queue>>
            /\ \A u \in Tasks : mode'[u] = "waiting" => mode[u] = "waiting"
         \/ \E t \in Tasks : /\ Free = {} /\ queue' = Append(queue, t)
                             /\ mode' = [mode EXCEPT ![t] = "waiting"]
                             /\ UNCHANGED <<tx, query>>
         \/ \E t \in Tasks, k \in Free :
              /\ Gets(t, k) /\ queue' = queue
              /\ \A u \in Tasks : mode'[u] = "waiting" => mode[u] = "waiting"
              /\ \A u \in Tasks : u # t => tx'[u] = tx[u] /\ query'[u] = query[u]
         \/ \E t \in Tasks, k \in Conns : Returns(t, k)
<1> DEFINE Goal ==
      \/ /\ UNCHANGED <<tx, query, queue>>
         /\ \A u \in Tasks : mode'[u] = "waiting" => mode[u] = "waiting"
      \/ \E t \in Tasks : /\ Free = {} /\ queue' = Append(queue, t)
                          /\ mode' = [mode EXCEPT ![t] = "waiting"]
                          /\ UNCHANGED <<tx, query>>
      \/ \E t \in Tasks, k \in Free :
           /\ Gets(t, k) /\ queue' = queue
           /\ \A u \in Tasks : mode'[u] = "waiting" => mode[u] = "waiting"
           /\ \A u \in Tasks : u # t => tx'[u] = tx[u] /\ query'[u] = query[u]
      \/ \E t \in Tasks, k \in Conns : Returns(t, k)
<1> SUFFICES Goal
  OBVIOUS
<1>1. ASSUME NEW t \in Tasks, Borrow(t) PROVE Goal
  <2>1. ASSUME NEW k \in Free, Lend(t, k, tx, query),
               mode' = [mode EXCEPT ![t] = "served"], queue' = queue
        PROVE  Goal
    <3>1. /\ k \in Conns /\ k \notin Held(t)
          /\ mode[t] # "served" /\ stage[t] \in Queries \cup {"begin"}
      BY <1>1 DEF Free, Held, Borrow
    <3>2. /\ Gets(t, k)
          /\ \A u \in Tasks : u # t => tx'[u] = tx[u] /\ query'[u] = query[u]
      BY <2>1, <3>1, LendGives DEF PoolInv, TypeOK
    <3>3. \A u \in Tasks : mode'[u] = "waiting" => mode[u] = "waiting"
      BY <2>1 DEF PoolInv, TypeOK
    <3> QED BY <2>1, <3>2, <3>3
  <2> QED BY <1>1, <2>1 DEF Borrow
<1>2. ASSUME NEW t \in Tasks, QueryEnds(t) \/ QueryFails(t) PROVE Goal
  <2> DEFINE queries == [query EXCEPT ![t] = None]
             modes == [mode EXCEPT ![t] = "ready"]
  <2>1. /\ mode[t] = "served" /\ stage[t] \in Queries
        /\ Release(query[t], tx, queries, modes)
    BY <1>2 DEF QueryEnds, QueryFails
  <2>2. query[t] \in Conns /\ query[t] # None /\ query[t] \in Held(t)
    BY <2>1 DEF PoolInv, TypeOK, HoldsByStage, Held
  <2>3. /\ queries \in [Tasks -> Conns \cup {None}] /\ tx \in [Tasks -> Conns \cup {None}]
        /\ modes \in [Tasks -> {"ready", "waiting", "served"}]
        /\ \A u \in Tasks : modes[u] = "waiting" => mode[u] = "waiting"
        /\ \A u \in Tasks : u # t => queries[u] = query[u]
        /\ queries[t] = None
    BY DEF PoolInv, TypeOK
  <2>4. {tx[t], queries[t]} \ {None} = Held(t) \ {query[t]}
    BY <2>2, <2>3 DEF Held, OneHolder
  <2> HIDE DEF queries, modes
  <2>5. Returns(t, query[t])
    BY <2>1, <2>2, <2>3, <2>4, ReleaseReturns
  <2> QED BY <2>2, <2>5
<1>3. ASSUME NEW t \in Tasks, End(t) PROVE Goal
  <2> DEFINE txs == [tx EXCEPT ![t] = None]
  <2>1. stage[t] \in {"commit", "rollback"} /\ Release(tx[t], txs, query, mode)
    BY <1>3 DEF End
  <2>2. mode[t] = "ready" /\ query[t] = None /\ tx[t] # None
    <3>1. stage[t] \in InTx(t)
      BY <2>1, KindOf DEF PoolInv, HoldsByStage, Path, BeforeTx, Kinds
    <3> QED BY <2>1, <3>1 DEF PoolInv, TypeOK, HoldsByStage, Queries
  <2>3. tx[t] \in Conns /\ tx[t] \in Held(t)
    BY <2>2 DEF PoolInv, TypeOK, Held
  <2>4. /\ txs \in [Tasks -> Conns \cup {None}] /\ query \in [Tasks -> Conns \cup {None}]
        /\ mode \in [Tasks -> {"ready", "waiting", "served"}]
        /\ \A u \in Tasks : u # t => txs[u] = tx[u]
        /\ txs[t] = None
    BY DEF PoolInv, TypeOK
  <2>5. {txs[t], query[t]} \ {None} = Held(t) \ {tx[t]}
    BY <2>2, <2>4 DEF Held
  <2> HIDE DEF txs
  <2>6. Returns(t, tx[t])
    BY <2>1, <2>2, <2>3, <2>4, <2>5, ReleaseReturns
  <2> QED BY <2>3, <2>6
<1>4. ASSUME NEW t \in Tasks,
             Start(t) \/ Begin(t) \/ Save(t) \/ UpdatePoint(t) \/ StatementFails(t) \/ LockTimeout(t)
      PROVE  Goal
  BY <1>4 DEF Start, Begin, Save, UpdatePoint, StatementFails, LockTimeout, PoolInv, TypeOK
<1>5. CASE UNCHANGED vars
  BY <1>5 DEF vars
<1> QED BY <1>1, <1>2, <1>3, <1>4, <1>5 DEF Next, Step

LEMMA OneHolderStep == PoolInv /\ OneHolder /\ [Next]_vars => OneHolder'
<1> SUFFICES ASSUME PoolInv, OneHolder, [Next]_vars PROVE OneHolder'
  OBVIOUS
<1>1. ASSUME UNCHANGED <<tx, query>> PROVE OneHolder'
  BY <1>1 DEF OneHolder, Held
<1>2. ASSUME NEW t \in Tasks, NEW k \in Free, Gets(t, k),
             \A u \in Tasks : u # t => tx'[u] = tx[u] /\ query'[u] = query[u]
      PROVE  OneHolder'
  <2>1. \A u \in Tasks : k \notin Held(u) /\ (u # t => Held(u)' = Held(u))
    BY <1>2 DEF Free, Held
  <2> QED BY <1>2, <2>1 DEF OneHolder, Gets
<1>3. ASSUME NEW t \in Tasks, NEW k \in Conns, Returns(t, k) PROVE OneHolder'
  <2>1. tx'[t] # None => tx'[t] # query'[t]
    BY <1>3 DEF Returns
  <2>2. \A u \in Tasks : u # t => k \notin Held(u)
    BY <1>3 DEF Returns, OneHolder
  <2>3. CASE \A u \in Tasks : u # t => tx'[u] = tx[u] /\ query'[u] = query[u]
    <3>1. \A u \in Tasks : Held(u)' \subseteq Held(u)
      BY <1>3, <2>3 DEF Returns, Held
    <3> QED BY <2>1, <2>3, <3>1 DEF OneHolder
  <2>4. ASSUME NEW h \in Tasks, h # t, Gets(h, k),
               \A u \in Tasks : u \notin {t, h} => tx'[u] = tx[u] /\ query'[u] = query[u]
        PROVE  OneHolder'
    <3>1. /\ Held(t)' = Held(t) \ {k}
          /\ Held(h)' = Held(h) \cup {k}
          /\ \A u \in Tasks : u \notin {t, h} => Held(u)' = Held(u)
      BY <1>3, <2>4 DEF Returns, Gets, Held
    <3>2. \A u \in Tasks : tx'[u] # None => tx'[u] # query'[u]
      BY <2>1, <2>4 DEF OneHolder, Gets
    <3>3. \A u, v \in Tasks : u # v => Held(u)' \cap Held(v)' = {}
      BY <2>2, <3>1 DEF OneHolder
    <3> QED BY <3>2, <3>3 DEF OneHolder
  <2> QED BY <1>3, <2>3, <2>4 DEF Returns
<1> QED BY <1>1, <1>2, <1>3, ConnectionsMove

(* No connection is ever lent twice: not to two tasks, and not for a       *)
(* transaction and a query of the same task.                               *)
THEOREM ConnectionHasOneHolder == Spec => []OneHolder
<1>1. Init => OneHolder
  BY DEF Init, OneHolder, Held
<1> QED BY <1>1, SpecInv, OneHolderStep, PTL DEF Spec

LEMMA WaitersStep ==
  PoolInv /\ OneHolder /\ WaitersAreServed /\ [Next]_vars => WaitersAreServed'
<1> SUFFICES ASSUME PoolInv, OneHolder, WaitersAreServed, [Next]_vars PROVE WaitersAreServed'
  OBVIOUS
<1>1. \A k \in Conns : k # None
  BY PoolAssumption
<1>2. Free = {k \in Conns : \A t \in Tasks : k \notin Held(t)}
  BY <1>1 DEF Free, Held
<1>3. Free' = {k \in Conns : \A t \in Tasks : k \notin Held(t)'}
  BY <1>1 DEF Free, Held
<1>4. queue \in Seq(Tasks)
  BY DEF PoolInv, TypeOK
<1>5. CASE /\ UNCHANGED <<tx, query, queue>>
           /\ \A u \in Tasks : mode'[u] = "waiting" => mode[u] = "waiting"
  BY <1>5 DEF WaitersAreServed, Free
<1>6. ASSUME NEW t \in Tasks, Free = {}, queue' = Append(queue, t),
             mode' = [mode EXCEPT ![t] = "waiting"], UNCHANGED <<tx, query>>
      PROVE  WaitersAreServed'
  <2>1. Free' = {}
    BY <1>6 DEF Free
  <2>2. /\ Len(queue') = Len(queue) + 1 /\ Len(queue) \in Nat
        /\ \A i \in 1 .. Len(queue) : queue'[i] = queue[i]
        /\ queue'[Len(queue) + 1] = t
    BY <1>4, <1>6
  <2>3. ASSUME NEW u \in Tasks, mode'[u] = "waiting"
        PROVE  \E i \in 1 .. Len(queue') : queue'[i] = u
    <3>1. u = t \/ mode[u] = "waiting"
      BY <1>6, <2>3 DEF PoolInv, TypeOK
    <3> QED BY <2>2, <3>1 DEF WaitersAreServed
  <2> QED BY <2>1, <2>3 DEF WaitersAreServed
<1>7. ASSUME NEW t \in Tasks, NEW k \in Free, Gets(t, k), queue' = queue,
             \A u \in Tasks : mode'[u] = "waiting" => mode[u] = "waiting",
             \A u \in Tasks : u # t => tx'[u] = tx[u] /\ query'[u] = query[u]
      PROVE  WaitersAreServed'
  <2>1. \A u \in Tasks : Held(u) \subseteq Held(u)'
    BY <1>7 DEF Gets, Held
  <2>2. Free' \subseteq Free
    BY <1>2, <1>3, <2>1
  <2> QED BY <1>7, <2>2 DEF WaitersAreServed
<1>8. ASSUME NEW t \in Tasks, NEW k \in Conns, Returns(t, k) PROVE WaitersAreServed'
  <2>1. CASE /\ queue = <<>> /\ queue' = queue
             /\ \A u \in Tasks : mode'[u] = "waiting" => mode[u] = "waiting"
    BY <2>1 DEF WaitersAreServed
  <2>2. ASSUME NEW h \in Tasks,
               queue # <<>>, h = Head(queue), h # t, queue' = Tail(queue),
               Gets(h, k), mode'[h] = "served",
               \A u \in Tasks : mode'[u] = "waiting" => mode[u] = "waiting",
               \A u \in Tasks : u \notin {t, h} => tx'[u] = tx[u] /\ query'[u] = query[u]
        PROVE  WaitersAreServed'
    <3>1. /\ Len(queue) \in Nat \ {0} /\ h = queue[1]
          /\ Len(queue') = Len(queue) - 1
          /\ \A i \in 1 .. Len(queue') : queue'[i] = queue[i + 1]
      BY <1>4, <2>2
    <3>2. ASSUME NEW u \in Tasks, mode'[u] = "waiting"
          PROVE  \E i \in 1 .. Len(queue') : queue'[i] = u
      <4>1. PICK i \in 1 .. Len(queue) : queue[i] = u
        BY <2>2, <3>2 DEF WaitersAreServed
      <4>2. i # 1
        BY <2>2, <3>1, <3>2, <4>1
      <4>3. i - 1 \in 1 .. Len(queue') /\ queue'[i - 1] = u
        BY <3>1, <4>1, <4>2
      <4> QED BY <4>3
    <3>3. \A u \in Tasks : Held(u) \subseteq Held(u)' \cup {k}
      BY <1>8, <2>2 DEF Returns, Gets, Held
    <3>4. k \in Held(h)'
      BY <2>2 DEF Gets
    <3>5. Free' = {}
      BY <1>2, <1>3, <2>2, <3>3, <3>4 DEF WaitersAreServed
    <3> QED BY <3>2, <3>5 DEF WaitersAreServed
  <2> QED BY <1>8, <2>1, <2>2 DEF Returns
<1> QED BY <1>5, <1>6, <1>7, <1>8, ConnectionsMove

(* Nobody waits while a connection is free, and nobody is left out of the  *)
(* queue: whoever waits only waits for tasks that hold connections.        *)
THEOREM NobodyWaitsBesideFree == Spec => []WaitersAreServed
<1>1. Init => WaitersAreServed
  BY DEF Init, WaitersAreServed
<1> QED BY <1>1, SpecInv, ConnectionHasOneHolder, OneHolderStep, WaitersStep, PTL DEF Spec

-----------------------------------------------------------------------------
(* A stall is final: the pool stays stalled and no task ends any more,     *)
(* neither those that wait nor any that comes later.                       *)
StallIsFinal == \A t \in Tasks : [](Stalled /\ ~Ended(t) => [](Stalled /\ ~Ended(t)))

LEMMA StallStep ==
  ASSUME PoolInv, Stalled, NEW t \in Tasks, ~Ended(t), [Next]_vars
  PROVE  Stalled' /\ ~Ended(t)'
<1>1. ASSUME NEW u \in Tasks, Held(u) # {}
      PROVE  mode[u] = "waiting" /\ stage[u] \in Queries \cup {"begin"}
  BY <1>1 DEF Stalled, PoolInv, HoldsByStage
<1>2. ASSUME NEW u \in Tasks,
             QueryEnds(u) \/ QueryFails(u) \/ Begin(u) \/ Save(u) \/ UpdatePoint(u)
               \/ StatementFails(u) \/ LockTimeout(u) \/ End(u)
      PROVE  FALSE
  <2>1. \/ mode[u] = "served" /\ stage[u] \in Queries \cup {"begin"}
        \/ stage[u] \in {"save", "updatePoint", "commit", "rollback"}
    BY <1>2 DEF QueryEnds, QueryFails, Begin, Save, UpdatePoint, StatementFails, LockTimeout, End
  <2>2. stage[u] \in {"save", "updatePoint", "commit", "rollback"} => stage[u] \in InTx(u)
    BY KindOf DEF PoolInv, HoldsByStage, Path, BeforeTx, Kinds
  <2>3. Held(u) # {}
    BY <2>1, <2>2 DEF PoolInv, HoldsByStage, Held, Queries
  <2> QED BY <1>1, <2>1, <2>3 DEF Queries
<1>3. ASSUME UNCHANGED <<tx, query>>, \A u \in Tasks : mode[u] = "waiting" => mode'[u] = "waiting"
      PROVE  Stalled'
  BY <1>3 DEF Stalled, Free, Held
<1>4. ASSUME NEW u \in Tasks, Start(u) PROVE Stalled' /\ ~Ended(t)'
  <2>1. Stalled'
    BY <1>3, <1>4 DEF Start
  <2>2. After(u) # "ended"
    BY <1>4, KindOf DEF Start, After, Kinds, Reserve, Pay, Charge, Send, Consume
  <2> QED BY <1>4, <2>1, <2>2 DEF Start, Ended, PoolInv, TypeOK
<1>5. ASSUME NEW u \in Tasks, Borrow(u) PROVE Stalled' /\ ~Ended(t)'
  <2>1. /\ mode' = [mode EXCEPT ![u] = "waiting"] /\ UNCHANGED <<tx, query, stage>>
    BY <1>5 DEF Borrow, Stalled
  <2> QED BY <1>3, <2>1 DEF Ended, PoolInv, TypeOK
<1>6. CASE UNCHANGED vars
  BY <1>3, <1>6 DEF vars, Ended
<1> QED BY <1>2, <1>4, <1>5, <1>6 DEF Next, Step

(* Once the pool has stalled nothing of the process that needs the         *)
(* database goes on: only a restart ends the stall.                        *)
THEOREM StallIsForEver == Spec => StallIsFinal
<1>1. ASSUME NEW t \in Tasks
      PROVE  Spec => [](Stalled /\ ~Ended(t) => [](Stalled /\ ~Ended(t)))
  <2> DEFINE Stuck == Stalled /\ ~Ended(t)
  <2>1. PoolInv /\ Stuck /\ [Next]_vars => Stuck'
    BY StallStep
  <2> HIDE DEF Stuck
  <2>2. Spec => [](Stuck => []Stuck)
    BY <2>1, SpecInv, PTL DEF Spec
  <2> QED BY <2>2 DEF Stuck
<1> QED BY <1>1 DEF StallIsFinal
=============================================================================
