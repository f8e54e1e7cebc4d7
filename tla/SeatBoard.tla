----------------------------- MODULE SeatBoard -----------------------------
(***************************************************************************)
(* The lists the API shows, performances of a concert and available seats  *)
(* of a performance, behind the look-aside cache of @Cache.  The handlers  *)
(* of SeatStore change the rows underneath and nobody invalidates a list:  *)
(* an entry only ends with its TTL, and a request that has read before a   *)
(* seat was taken may still store its list after that.                     *)
(***************************************************************************)
EXTENDS SeatStore

CONSTANTS
  Concerts,      \* concert ids; ids of all kinds are drawn from the same numbers
  Performances,  \* performance ids
  ConcertOf,     \* ConcertOf[p]: the concert of performance p
  PerformanceOf, \* PerformanceOf[s]: the performance of seat s
  Readers        \* requests that may be in progress at the same time

ASSUME BoardAssumption ==
  /\ ConcertOf \in [Performances -> Concerts]
  /\ PerformanceOf \in [Seats -> Performances]

VARIABLES
  cache, \* cache[k]: the entry of key k in Redis, None if there is none
  stage, \* stage[r]: how far the request has come
  query, \* query[r]: the method and the argument it was called with
  list   \* list[r]: the list it has in hand

readVars == <<stage, query, list>>
boardVars == <<vars, cache, readVars>>

Queries == ({"getPerformances"} \X Concerts) \cup ({"getAvailableSeats"} \X Performances)
Lists == (SUBSET Seats) \cup (SUBSET Performances)

(* Mutant: the key is the argument alone.                                  *)
KeyOfArgument(q) == q[2]

(* Mutant: the key is the name of the method alone.                        *)
KeyOfMethod(q) == q[1]

(* The key names the method and its arguments.                             *)
Key(q) == q

Keys == {Key(q) : q \in Queries}

(* Mutant: the ttl is missing from the options of the decorator.           *)
TtlMissing == 0

(* Seconds.  Without one, the entry is stored for ever.                    *)
Ttl == 5

ListsTyped ==
  /\ cache \in [Keys -> [items : Lists, expires : BOOLEAN] \cup {None}]
  /\ stage \in [Readers -> {"idle", "asked", "missed", "loaded", "answered"}]
  /\ query \in [Readers -> Queries \cup {None}]
  /\ list \in [Readers -> Lists]

BoardTypeOK == TypeOK /\ ListsTyped

BoardInit ==
  /\ Init
  /\ cache = [k \in Keys |-> None]
  /\ stage = [r \in Readers |-> "idle"]
  /\ query = [r \in Readers |-> None]
  /\ list = [r \in Readers |-> {}]

-----------------------------------------------------------------------------
(* What the database holds.                                                *)

PerformancesOf(c) == {p \in Performances : ConcertOf[p] = c}
SeatsOf(p) == {s \in Seats : PerformanceOf[s] = p}

(* Mutant: the condition on the status is missing.                         *)
AvailableOfAny(p) == SeatsOf(p)

AvailableOf(p) == {s \in SeatsOf(p) : row[s].status = "Available"}

(* getPerformancesBy and getSeatsBy.                                       *)
Select(q) ==
  IF q[1] = "getPerformances" THEN PerformancesOf(q[2]) ELSE AvailableOf(q[2])

-----------------------------------------------------------------------------
(* A request.                                                              *)

Ask(r, q) ==
  /\ stage[r] \in {"idle", "answered"}
  /\ stage' = [stage EXCEPT ![r] = "asked"]
  /\ query' = [query EXCEPT ![r] = q]
  /\ list' = [list EXCEPT ![r] = {}]
  /\ UNCHANGED cache

(* Mutant: a hit is answered with a list of the entry itself.              *)
GetCachedEntry(r) ==
  /\ stage[r] = "asked"
  /\ LET entry == cache[Key(query[r])] IN
     IF entry = None
     THEN stage' = [stage EXCEPT ![r] = "missed"] /\ UNCHANGED list
     ELSE /\ stage' = [stage EXCEPT ![r] = "answered"]
          /\ list' = [list EXCEPT ![r] = {entry}]
  /\ UNCHANGED <<cache, query>>

(* cache.get: an entry is the answer, also one of an empty list.           *)
GetCached(r) ==
  /\ stage[r] = "asked"
  /\ LET entry == cache[Key(query[r])] IN
     IF entry = None
     THEN stage' = [stage EXCEPT ![r] = "missed"] /\ UNCHANGED list
     ELSE /\ stage' = [stage EXCEPT ![r] = "answered"]
          /\ list' = [list EXCEPT ![r] = entry.items]
  /\ UNCHANGED <<cache, query>>

Load(r) ==
  /\ stage[r] = "missed"
  /\ stage' = [stage EXCEPT ![r] = "loaded"]
  /\ list' = [list EXCEPT ![r] = Select(query[r])]
  /\ UNCHANGED <<cache, query>>

(* cache.set, whatever the cache holds by now, and the answer.             *)
SetCached(r) ==
  /\ stage[r] = "loaded"
  /\ stage' = [stage EXCEPT ![r] = "answered"]
  /\ cache' = [cache EXCEPT ![Key(query[r])] = [items |-> list[r], expires |-> Ttl > 0]]
  /\ UNCHANGED <<query, list>>

(* Redis or the database fails, or the process dies: no answer.            *)
Fail(r) ==
  /\ stage[r] \in {"asked", "missed", "loaded"}
  /\ stage' = [stage EXCEPT ![r] = "idle"]
  /\ query' = [query EXCEPT ![r] = None]
  /\ list' = [list EXCEPT ![r] = {}]
  /\ UNCHANGED cache

(* Redis drops an entry at the end of its TTL.                             *)
Expire(k) ==
  /\ cache[k] # None
  /\ cache[k].expires
  /\ cache' = [cache EXCEPT ![k] = None]
  /\ UNCHANGED readVars

ReadStep(r) == GetCached(r) \/ Load(r) \/ SetCached(r) \/ Fail(r)

CacheStep ==
  \/ \E r \in Readers : (\E q \in Queries : Ask(r, q)) \/ ReadStep(r)
  \/ \E k \in Keys : Expire(k)

BoardNext ==
  \/ Next /\ UNCHANGED <<cache, readVars>>
  \/ CacheStep /\ UNCHANGED vars

BoardSpec == BoardInit /\ [][BoardNext]_boardVars

(* A request that was made goes on, and Redis keeps time.                  *)
BoardFairness ==
  /\ \A r \in Readers : WF_boardVars(ReadStep(r) /\ UNCHANGED vars)
  /\ \A k \in Keys : WF_boardVars(Expire(k) /\ UNCHANGED vars)

FairBoardSpec == BoardSpec /\ BoardFairness

-----------------------------------------------------------------------------
(* Safety.                                                                 *)

Asked(r, method) == stage[r] = "answered" /\ query[r][1] = method

(* However old its list is, no answer hides a seat that is available:      *)
(* seats only ever leave Available, so a stale list errs by offering too   *)
(* many seats, which the reservation checks again, and never by too few.   *)
NoSeatHidden ==
  \A r \in Readers : Asked(r, "getAvailableSeats") => AvailableOf(query[r][2]) \subseteq list[r]

(* One cache serves both lists and ids of all kinds are small numbers:     *)
(* still nobody is shown the list of another question.                     *)
AnswerFitsQuestion ==
  \A r \in Readers :
    /\ Asked(r, "getPerformances") => list[r] = PerformancesOf(query[r][2])
    /\ Asked(r, "getAvailableSeats") => list[r] \subseteq SeatsOf(query[r][2])

(* A cached list of seats offers s.                                        *)
Offers(q, s) == q[1] = "getAvailableSeats" /\ cache[Key(q)] # None /\ s \in cache[Key(q)].items
Offered(s) == \E q \in Queries : Offers(q, s)

(* Seat s was taken, and neither the cache nor a request that is about to  *)
(* store a list still holds it.                                            *)
Gone(s) ==
  /\ row[s].status # "Available" /\ ~Offered(s)
  /\ \A r \in Readers :
       stage[r] = "loaded" /\ query[r][1] = "getAvailableSeats" => s \notin list[r]

(* An offer that has gone never comes back, whichever requests store late  *)
(* what they have read: no list is read again from an older state.         *)
OfferNeverReturns == [][\A s \in Seats : Gone(s) => Gone(s)']_boardVars

-----------------------------------------------------------------------------
(* Liveness.                                                               *)

(* A seat that was taken is some day in no cached list any more, although  *)
(* no list is invalidated and late requests store what they read before.   *)
StaleOfferEnds ==
  \A s \in Seats : row[s].status # "Available" ~> []~Offered(s)
=============================================================================
