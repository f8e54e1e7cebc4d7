-------------------------- MODULE SeatBoard_proofs --------------------------
(***************************************************************************)
(* Proofs about SeatBoard for any seats, handlers, performances and        *)
(* requests.                                                               *)
(***************************************************************************)
EXTENDS SeatBoard, SeatStore_proofs

(* The composition restricted to the rows is SeatStore.                    *)
LEMMA ReadersLeaveRowsAlone == BoardSpec => Spec
<1>1. BoardInit => Init
  BY DEF BoardInit
<1>2. [BoardNext]_boardVars => [Next]_vars
  BY DEF BoardNext, boardVars
<1> QED
  BY <1>1, <1>2, PTL DEF BoardSpec, Spec

-----------------------------------------------------------------------------
(* A list fits a question if it holds what was asked for and hides nothing *)
(* that is available by now.                                               *)
Fits(items, q) ==
  /\ items \in Lists
  /\ q[1] = "getPerformances" => items = PerformancesOf(q[2])
  /\ q[1] = "getAvailableSeats" => AvailableOf(q[2]) \subseteq items /\ items \subseteq SeatsOf(q[2])

EntriesFit ==
  \A q \in Queries : cache[q] # None => Fits(cache[q].items, q)

RequestsFit ==
  \A r \in Readers :
    /\ stage[r] # "idle" => query[r] \in Queries
    /\ stage[r] \in {"loaded", "answered"} => Fits(list[r], query[r])

BoardInv == ListsTyped /\ EntriesFit /\ RequestsFit

LEMMA KeyPerQuestion == Keys = Queries
BY DEF Keys, Key

LEMMA BoardInitInv == BoardInit => BoardInv
BY KeyPerQuestion DEF BoardInit, BoardInv, ListsTyped, EntriesFit, RequestsFit, Lists

(* The lifecycle is why age does no harm: no seat becomes available.       *)
LEMMA AvailableShrinks ==
  ASSUME TypeOK, [Next]_vars, NEW p
  PROVE  AvailableOf(p)' \subseteq AvailableOf(p)
<1>1. ASSUME NEW h \in Handlers, UpdateSeatStatus(h)
      PROVE  AvailableOf(p)' \subseteq AvailableOf(p)
  <2>1. ASSUME NEW s \in Seats PROVE row'[s] = row[s] \/ row'[s].status # "Available"
    BY <1>1 DEF UpdateSeatStatus, TypeOK, To
  <2> QED
    BY <2>1 DEF AvailableOf, SeatsOf
<1>2. CASE UNCHANGED row
  BY <1>2 DEF AvailableOf, SeatsOf
<1>3. [Next]_vars => UNCHANGED row \/ \E h \in Handlers : UpdateSeatStatus(h)
  BY DEF Next, vars, GetSeat, Refuse, Conflict, Die, End
<1> QED
  BY <1>1, <1>2, <1>3

LEMMA SelectFits ==
  ASSUME NEW q \in Queries PROVE Fits(Select(q), q)
<1>1. CASE q[1] = "getPerformances"
  BY <1>1 DEF Queries, Select, Fits, Lists, PerformancesOf
<1>2. CASE q[1] = "getAvailableSeats"
  BY <1>2 DEF Queries, Select, Fits, Lists, AvailableOf, SeatsOf
<1> QED
  BY <1>1, <1>2 DEF Queries

LEMMA FitsStays ==
  ASSUME TypeOK, [Next]_vars, NEW items, NEW q, Fits(items, q)
  PROVE  Fits(items, q)'
<1>1. AvailableOf(q[2])' \subseteq AvailableOf(q[2])
  BY AvailableShrinks
<1> QED
  BY <1>1 DEF Fits, Lists, PerformancesOf, SeatsOf

-----------------------------------------------------------------------------
(* A handler changes rows under the lists, a request changes the lists.    *)

LEMMA HandlerStep ==
  ASSUME BoardInv, TypeOK, [Next]_vars, UNCHANGED <<cache, readVars>>
  PROVE  BoardInv'
<1>1. ListsTyped'
  BY DEF BoardInv, ListsTyped, readVars, Keys, Key
<1>2. EntriesFit'
  BY FitsStays DEF BoardInv, EntriesFit
<1>3. RequestsFit'
  BY FitsStays DEF BoardInv, RequestsFit, readVars
<1> QED
  BY <1>1, <1>2, <1>3 DEF BoardInv

LEMMA FitsFrame ==
  ASSUME UNCHANGED vars, NEW items, NEW q
  PROVE  Fits(items, q)' <=> Fits(items, q)
BY DEF vars, Fits, Lists, PerformancesOf, AvailableOf, SeatsOf

LEMMA RequestStep ==
  ASSUME BoardInv, NEW r \in Readers, UNCHANGED vars,
         (\E q \in Queries : Ask(r, q)) \/ GetCached(r) \/ Load(r) \/ SetCached(r) \/ Fail(r)
  PROVE  BoardInv'
<1> USE KeyPerQuestion DEF BoardInv
<1>1. CASE \E q \in Queries : Ask(r, q)
  <2>1. PICK q \in Queries : Ask(r, q)
    BY <1>1
  <2>2. ListsTyped'
    BY <2>1 DEF Ask, ListsTyped, Lists
  <2>3. EntriesFit'
    BY <2>1, FitsFrame DEF Ask, EntriesFit
  <2>4. RequestsFit'
    BY <2>1, FitsFrame DEF Ask, RequestsFit, ListsTyped
  <2> QED
    BY <2>2, <2>3, <2>4
<1>2. CASE GetCached(r)
  <2> DEFINE entry == cache[Key(query[r])]
  <2>1. stage[r] = "asked" /\ query[r] \in Queries /\ entry = cache[query[r]]
        /\ cache' = cache /\ query' = query
    BY <1>2 DEF GetCached, RequestsFit, Key
  <2>2. CASE entry = None
    <3>1. stage' = [stage EXCEPT ![r] = "missed"] /\ list' = list
      BY <1>2, <2>2 DEF GetCached
    <3>2. ListsTyped'
      BY <2>1, <3>1 DEF ListsTyped
    <3>3. EntriesFit'
      BY <2>1, FitsFrame DEF EntriesFit
    <3>4. RequestsFit'
      BY <2>1, <3>1, FitsFrame DEF RequestsFit, ListsTyped
    <3> QED
      BY <3>2, <3>3, <3>4
  <2>3. CASE entry # None
    <3>1. /\ stage' = [stage EXCEPT ![r] = "answered"]
          /\ list' = [list EXCEPT ![r] = entry.items]
          /\ Fits(entry.items, query[r])
      BY <1>2, <2>1, <2>3 DEF GetCached, EntriesFit
    <3>2. ListsTyped'
      BY <2>1, <3>1 DEF ListsTyped, Fits
    <3>3. EntriesFit'
      BY <2>1, FitsFrame DEF EntriesFit
    <3>4. RequestsFit'
      BY <2>1, <3>1, FitsFrame DEF RequestsFit, ListsTyped
    <3> QED
      BY <3>2, <3>3, <3>4
  <2> QED
    BY <2>2, <2>3
<1>3. CASE Load(r)
  <2>1. /\ query[r] \in Queries /\ stage' = [stage EXCEPT ![r] = "loaded"]
        /\ list' = [list EXCEPT ![r] = Select(query[r])]
        /\ cache' = cache /\ query' = query
    BY <1>3 DEF Load, RequestsFit
  <2>2. Fits(Select(query[r]), query[r])
    BY <2>1, SelectFits
  <2>3. ListsTyped'
    BY <2>1, <2>2 DEF ListsTyped, Fits
  <2>4. EntriesFit'
    BY <2>1, FitsFrame DEF EntriesFit
  <2>5. RequestsFit'
    BY <2>1, <2>2, FitsFrame DEF RequestsFit, ListsTyped
  <2> QED
    BY <2>3, <2>4, <2>5
<1>4. CASE SetCached(r)
  <2>1. /\ query[r] \in Queries /\ Fits(list[r], query[r])
        /\ stage' = [stage EXCEPT ![r] = "answered"]
        /\ cache' = [cache EXCEPT ![query[r]] = [items |-> list[r], expires |-> Ttl > 0]]
        /\ query' = query /\ list' = list
    BY <1>4 DEF SetCached, RequestsFit, Key
  <2>2. ListsTyped'
    BY <2>1 DEF ListsTyped
  <2>3. EntriesFit'
    <3> SUFFICES ASSUME NEW q \in Queries, cache'[q] # None
                 PROVE  Fits(cache[q].items, q)'
      BY DEF EntriesFit
    <3>1. CASE q = query[r]
      <4>1. cache'[q].items = list[r]
        BY <2>1, <3>1 DEF ListsTyped
      <4> QED
        BY <2>1, <3>1, <4>1, FitsFrame
    <3>2. CASE q # query[r]
      BY <2>1, <3>2, FitsFrame DEF EntriesFit, ListsTyped
    <3> QED
      BY <3>1, <3>2
  <2>4. RequestsFit'
    BY <2>1, FitsFrame DEF RequestsFit, ListsTyped
  <2> QED
    BY <2>2, <2>3, <2>4
<1>5. CASE Fail(r)
  <2>1. ListsTyped'
    BY <1>5 DEF Fail, ListsTyped, Lists
  <2>2. EntriesFit'
    BY <1>5, FitsFrame DEF Fail, EntriesFit
  <2>3. RequestsFit'
    BY <1>5, FitsFrame DEF Fail, RequestsFit, ListsTyped
  <2> QED
    BY <2>1, <2>2, <2>3
<1> QED
  BY <1>1, <1>2, <1>3, <1>4, <1>5

LEMMA ExpireStep ==
  ASSUME BoardInv, NEW k \in Keys, Expire(k), UNCHANGED vars
  PROVE  BoardInv'
<1> USE KeyPerQuestion DEF BoardInv, Expire
<1>1. ListsTyped'
  BY DEF ListsTyped, readVars
<1>2. EntriesFit'
  BY FitsFrame DEF EntriesFit, ListsTyped
<1>3. RequestsFit'
  BY FitsFrame DEF RequestsFit, readVars
<1> QED
  BY <1>1, <1>2, <1>3

LEMMA BoardStep == BoardInv /\ TypeOK /\ [BoardNext]_boardVars => BoardInv'
<1> SUFFICES ASSUME BoardInv, TypeOK, [BoardNext]_boardVars PROVE BoardInv'
  OBVIOUS
<1>1. CASE [Next]_vars /\ UNCHANGED <<cache, readVars>>
  BY <1>1, HandlerStep
<1>2. CASE CacheStep /\ UNCHANGED vars
  BY <1>2, RequestStep, ExpireStep DEF CacheStep, ReadStep
<1> QED
  BY <1>1, <1>2 DEF BoardNext, boardVars

LEMMA BoardAlways == BoardSpec => []BoardInv
<1>1. BoardSpec => []TypeOK
  BY ReadersLeaveRowsAlone, TypeCorrect, PTL
<1> QED
  BY <1>1, BoardInitInv, BoardStep, PTL DEF BoardSpec

-----------------------------------------------------------------------------
(* Cache and requests hold lists of the two tables and nothing else, and   *)
(* the rows stay what SeatStore says they are.                             *)
THEOREM BoardTypeCorrect == BoardSpec => []BoardTypeOK
<1>1. BoardInv /\ TypeOK => BoardTypeOK
  BY DEF BoardInv, BoardTypeOK
<1>2. BoardSpec => []TypeOK
  BY ReadersLeaveRowsAlone, TypeCorrect, PTL
<1> QED
  BY <1>1, <1>2, BoardAlways, PTL

(* No answer misses an available seat: a list was complete when it was     *)
(* read, no seat becomes available after that, and the key never confuses  *)
(* two questions.                                                          *)
THEOREM NoSeatHiddenAlways == BoardSpec => []NoSeatHidden
<1>1. BoardInv => NoSeatHidden
  BY DEF BoardInv, RequestsFit, NoSeatHidden, Asked, Fits
<1> QED
  BY <1>1, BoardAlways, PTL

(* And no answer holds anything but what the question is about.            *)
THEOREM AnswerFitsQuestionAlways == BoardSpec => []AnswerFitsQuestion
<1>1. BoardInv => AnswerFitsQuestion
  BY DEF BoardInv, RequestsFit, AnswerFitsQuestion, Asked, Fits
<1> QED
  BY <1>1, BoardAlways, PTL

-----------------------------------------------------------------------------
(* Offers of taken seats.                                                  *)

(* A seat that was taken stays taken.                                      *)
LEMMA TakenStays ==
  ASSUME TypeOK, [Next]_vars, NEW s \in Seats, row[s].status # "Available"
  PROVE  row'[s].status # "Available"
<1>1. [Next]_vars => UNCHANGED row \/ \E h \in Handlers : UpdateSeatStatus(h)
  BY DEF Next, vars, GetSeat, Refuse, Conflict, Die, End
<1>2. ASSUME NEW h \in Handlers, UpdateSeatStatus(h)
      PROVE  row'[s] = row[s] \/ row'[s].status # "Available"
  BY <1>2 DEF UpdateSeatStatus, TypeOK, To
<1> QED BY <1>1, <1>2

LEMMA GoneStep ==
  ASSUME BoardInv, TypeOK, NEW s \in Seats, Gone(s), [BoardNext]_boardVars
  PROVE  Gone(s)'
<1> DEFINE Withdrawn ==
      /\ \A q \in Queries :
           q[1] = "getAvailableSeats" /\ cache[q] # None => s \notin cache[q].items
      /\ \A r \in Readers :
           stage[r] = "loaded" /\ query[r][1] = "getAvailableSeats" => s \notin list[r]
<1> USE KeyPerQuestion DEF BoardInv
<1>1. [Next]_vars
  BY DEF BoardNext, boardVars
<1>2. row'[s].status # "Available"
  BY <1>1, TakenStays DEF Gone
<1>3. ASSUME NEW q \in Queries
      PROVE  q[1] = "getAvailableSeats" /\ cache[q] # None => s \notin cache[q].items
  BY DEF Gone, Offered, Offers, Key
<1>4. ASSUME NEW r \in Readers, stage[r] = "loaded", query[r][1] = "getAvailableSeats"
      PROVE  s \notin list[r]
  BY <1>4 DEF Gone
<1>6. ASSUME UNCHANGED <<cache, readVars>> PROVE Withdrawn'
  BY <1>3, <1>4, <1>6 DEF readVars
<1>7. ASSUME NEW r \in Readers, NEW q \in Queries, Ask(r, q) PROVE Withdrawn'
  BY <1>3, <1>4, <1>7 DEF Ask, ListsTyped
<1>8. ASSUME NEW r \in Readers, GetCached(r) PROVE Withdrawn'
  <2>1. \A u \in Readers : stage'[u] = "loaded" => stage[u] = "loaded" /\ list'[u] = list[u]
    <3>1. CASE cache[Key(query[r])] = None
      BY <1>8, <3>1 DEF GetCached, ListsTyped
    <3>2. CASE cache[Key(query[r])] # None
      BY <1>8, <3>2 DEF GetCached, ListsTyped
    <3> QED BY <3>1, <3>2
  <2> QED BY <1>3, <1>4, <1>8, <2>1 DEF GetCached
<1>9. ASSUME NEW r \in Readers, Load(r) PROVE Withdrawn'
  <2>1. query[r][1] = "getAvailableSeats" => s \notin Select(query[r])
    BY DEF Select, AvailableOf, Gone
  <2> QED BY <1>3, <1>4, <1>9, <2>1 DEF Load, ListsTyped
<1>10. ASSUME NEW r \in Readers, SetCached(r) PROVE Withdrawn'
  <2>1. query[r] \in Queries /\ stage[r] = "loaded"
        /\ cache' = [cache EXCEPT ![query[r]] = [items |-> list[r], expires |-> Ttl > 0]]
        /\ stage' = [stage EXCEPT ![r] = "answered"] /\ query' = query /\ list' = list
    BY <1>10 DEF SetCached, RequestsFit, Key
  <2>2. ASSUME NEW q \in Queries, q[1] = "getAvailableSeats", cache'[q] # None
        PROVE  s \notin cache'[q].items
    <3>1. CASE q = query[r]
      <4>1. cache'[q].items = list[r]
        BY <2>1, <3>1 DEF ListsTyped
      <4> QED BY <1>4, <2>1, <2>2, <3>1, <4>1
    <3>2. CASE q # query[r]
      <4>1. cache'[q] = cache[q]
        BY <2>1, <3>2 DEF ListsTyped
      <4> QED BY <1>3, <2>2, <4>1
    <3> QED BY <3>1, <3>2
  <2> QED BY <1>4, <2>1, <2>2 DEF ListsTyped
<1>11. ASSUME NEW r \in Readers, Fail(r) PROVE Withdrawn'
  BY <1>3, <1>4, <1>11 DEF Fail, ListsTyped
<1>12. ASSUME NEW k \in Keys, Expire(k) PROVE Withdrawn'
  BY <1>3, <1>4, <1>12 DEF Expire, ListsTyped, readVars
<1>13. Withdrawn'
  BY <1>6, <1>7, <1>8, <1>9, <1>10, <1>11, <1>12
     DEF BoardNext, boardVars, CacheStep, ReadStep
<1>14. Withdrawn' => ~Offered(s)'
  BY DEF Offered, Offers, Key
<1> HIDE DEF Withdrawn
<1>15. ~Offered(s)'
  BY <1>13, <1>14
<1>16. \A r \in Readers :
         stage'[r] = "loaded" /\ query'[r][1] = "getAvailableSeats" => s \notin list'[r]
  BY <1>13 DEF Withdrawn
<1> QED BY <1>2, <1>15, <1>16 DEF Gone

(* Requests that store late what they have read, however many there are,   *)
(* offer nothing again that no list offers any more.                       *)
THEOREM OfferNeverReturnsAlways == BoardSpec => OfferNeverReturns
<1>1. BoardInv /\ TypeOK /\ [BoardNext]_boardVars => [\A s \in Seats : Gone(s) => Gone(s)']_boardVars
  BY GoneStep
<1>2. BoardSpec => []TypeOK
  BY ReadersLeaveRowsAlone, TypeCorrect, PTL
<1> QED BY <1>1, <1>2, BoardAlways, PTL DEF BoardSpec, OfferNeverReturns
=============================================================================
