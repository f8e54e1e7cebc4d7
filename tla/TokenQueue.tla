----------------------------- MODULE TokenQueue -----------------------------
(***************************************************************************)
(* The waiting queue in Redis.  A token is issued into the sorted set of   *)
(* its concert, a cron job moves the oldest ones to active keys, the guard *)
(* of the booking endpoints gives a key its five minutes at the first      *)
(* access, and TTL or the queue consumer's handler deletes the key.        *)
(*                                                                         *)
(* Every command and every MULTI is atomic; nothing else is.  The job, the *)
(* guards, the handler and the polling clients interleave between them.    *)
(***************************************************************************)
EXTENDS Integers, FiniteSets

CONSTANTS
  Users,     \* user ids
  Tokens,    \* the uuids createWaitQueue draws
  Concerts,  \* concert ids a client may send; 1 is the one the service reads
  BatchSize, \* activeCount: how many tokens a tick activates (100 in the code)
  Accesses,  \* requests that pass through the guard
  Polls,     \* POST /queue/status requests
  MaxFaults, \* bound: crashes and failing Redis commands together
  None       \* the absence of a value

ASSUME QueueAssumption ==
  /\ IsFiniteSet(Tokens)
  /\ BatchSize \in Nat \ {0}
  /\ MaxFaults \in Nat
  /\ None \notin [user : Users, concert : Concerts, stamp : Nat, ahead : SUBSET Tokens]

VARIABLES
  entry,   \* entry[t]: what the token was issued with, None before
  waiting, \* tokens in the sorted set of their concert, with their info hash
  active,  \* active[t]: the active key; "fresh" has no TTL, "accessed" has one
  step,    \* how far the cron job has come
  batch,   \* the tokens in its hands
  access,  \* access[g]: the token of the guarded request and how far it came
  poll,    \* poll[q]: the token of the status request and how far it came
  used,    \* history: tokens the queue consumer's handler has expired
  lapsed,  \* history: tokens the TTL has expired
  faults   \* how many crashes and failing commands there were

vars == <<entry, waiting, active, step, batch, access, poll, used, lapsed, faults>>
clientVars == <<access, poll>>

(* Places in the order of a sorted set: by the time of the request, tokens *)
(* of the same millisecond by the text of the member.                      *)
Stamps == 1 .. Cardinality(Tokens)

(* What the active key holds: nothing, a token activated but not accessed  *)
(* yet, or one whose first access is recorded.                             *)
KeyStatus == {"none", "fresh", "accessed"}

Entry == [user : Users, concert : Concerts, stamp : Stamps, ahead : SUBSET Tokens]
Access == [token : Tokens \cup {None}, pc : {"idle", "got", "passed", "refused"}]
Poll == [token : Tokens \cup {None},
         pc : {"idle", "ranking", "checking", "active", "unknown"}, number : {0}]
Waits == [token : Tokens, pc : {"waiting"}, number : {-1} \cup Stamps]

Issued == {t \in Tokens : entry[t] # None}

(* The keys of concert 1: those every reader but the client asks for.      *)
Served == {t \in Issued : entry[t].concert = 1}
Queue == waiting \cap Served

TypeOK ==
  /\ entry \in [Tokens -> Entry \cup {None}]
  /\ waiting \subseteq Issued
  /\ active \in [Tokens -> KeyStatus]
  /\ step \in {"idle", "read", "removed"}
  /\ batch \subseteq Served
  /\ access \in [Accesses -> Access]
  /\ poll \in [Polls -> Poll \cup Waits]
  /\ used \subseteq Served /\ lapsed \subseteq Served
  /\ faults \in 0 .. MaxFaults

Init ==
  /\ entry = [t \in Tokens |-> None]
  /\ waiting = {}
  /\ active = [t \in Tokens |-> "none"]
  /\ step = "idle" /\ batch = {}
  /\ access = [g \in Accesses |-> [token |-> None, pc |-> "idle"]]
  /\ poll = [q \in Polls |-> [token |-> None, pc |-> "idle", number |-> 0]]
  /\ used = {} /\ lapsed = {} /\ faults = 0

-----------------------------------------------------------------------------
(* createWaitQueue: nobody looks for a token the user already has.  The    *)
(* clock is read before the MULTI that adds the token, so that a token may *)
(* come into the set before one of an earlier time.  "ahead" is history:   *)
(* the tokens that stand before it when it comes.                          *)
CreateWaitQueue(t, u, k, n) ==
  /\ entry[t] = None
  /\ \A x \in Issued : entry[x].stamp # n
  /\ entry' = [entry EXCEPT ![t] = [user |-> u, concert |-> k, stamp |-> n,
                                    ahead |-> {x \in waiting : /\ entry[x].concert = k
                                                               /\ entry[x].stamp < n}]]
  /\ waiting' = waiting \cup {t}
  /\ UNCHANGED <<active, step, batch, clientVars, used, lapsed, faults>>

-----------------------------------------------------------------------------
(* The cron job: ZRANGE, then a MULTI of ZREM and DEL, then a MULTI of SET. *)

Before(t) == {x \in Queue : entry[x].stamp < entry[t].stamp}

(* Mutant: stop is corrected twice for the inclusive range of ZRANGE.      *)
OldestExclusive == {t \in Queue : Cardinality(Before(t)) < BatchSize - 1}

(* Mutant: the set is read from its end.                                   *)
OldestReversed ==
  {t \in Queue : Cardinality({x \in Queue : entry[x].stamp > entry[t].stamp}) < BatchSize}

Oldest == {t \in Queue : Cardinality(Before(t)) < BatchSize}

GetWaitQueues ==
  /\ step = "idle"
  /\ step' = "read"
  /\ batch' = Oldest
  /\ UNCHANGED <<entry, waiting, active, clientVars, used, lapsed, faults>>

(* Mutant: the member sent to ZREM differs from the one stored.            *)
DeWaitQueueNothing ==
  /\ step = "read"
  /\ step' = "removed"
  /\ UNCHANGED <<entry, waiting, active, batch, clientVars, used, lapsed, faults>>

(* Mutant: what is removed is a range again, one longer.                   *)
DeWaitQueueRange ==
  /\ step = "read"
  /\ step' = "removed"
  /\ waiting' = waiting \ {t \in Queue : Cardinality(Before(t)) <= BatchSize}
  /\ UNCHANGED <<entry, active, batch, clientVars, used, lapsed, faults>>

DeWaitQueue ==
  /\ step = "read"
  /\ step' = "removed"
  /\ waiting' = waiting \ batch
  /\ UNCHANGED <<entry, active, batch, clientVars, used, lapsed, faults>>

InActiveQueues ==
  /\ step = "removed"
  /\ step' = "idle"
  /\ batch' = {}
  /\ active' = [t \in Tokens |-> IF t \in batch THEN "fresh" ELSE active[t]]
  /\ UNCHANGED <<entry, waiting, clientVars, used, lapsed, faults>>

(* A command fails without effect: the error is logged, the job restarted. *)
BatchFails ==
  /\ faults < MaxFaults
  /\ faults' = faults + 1
  /\ step # "idle"
  /\ step' = "idle"
  /\ batch' = {}
  /\ UNCHANGED <<entry, waiting, active, clientVars, used, lapsed>>

-----------------------------------------------------------------------------
(* The guard.                                                              *)

SetAccess(g, t, pc) == access' = [access EXCEPT ![g] = [token |-> t, pc |-> pc]]

(* GET: no key refuses the request, a key accessed before lets it pass.    *)
FindActiveQueue(g, t) ==
  /\ access[g].pc = "idle"
  /\ \/ active[t] = "none" /\ SetAccess(g, t, "refused")
     \/ active[t] = "fresh" /\ SetAccess(g, t, "got")
     \/ active[t] = "accessed" /\ SetAccess(g, t, "passed")
  /\ UNCHANGED <<entry, waiting, active, step, batch, poll, used, lapsed, faults>>

(* Mutant: the value is written back with SET.                             *)
ReInActiveQueueWithoutTTL(g) ==
  /\ access[g].pc = "got"
  /\ active' = [active EXCEPT ![access[g].token] = "fresh"]
  /\ SetAccess(g, access[g].token, "passed")
  /\ UNCHANGED <<entry, waiting, step, batch, poll, used, lapsed, faults>>

(* The first access: SETEX writes the key, whether or not it still exists. *)
ReInActiveQueueWithTTL(g) ==
  /\ access[g].pc = "got"
  /\ active' = [active EXCEPT ![access[g].token] = "accessed"]
  /\ SetAccess(g, access[g].token, "passed")
  /\ UNCHANGED <<entry, waiting, step, batch, poll, used, lapsed, faults>>

(* The handler of the reservation's message, maybe a repeated one: DEL.    *)
(* As wired it is not called, since the seats' consumer registers another  *)
(* handler of the topic after it; TTL alone ends tokens then.  No property *)
(* needs it to be called, and all hold when it is.                         *)
ExpireActiveQueue(g) ==
  /\ access[g].pc = "passed"
  /\ active' = [active EXCEPT ![access[g].token] = "none"]
  /\ used' = used \cup {access[g].token}
  /\ UNCHANGED <<entry, waiting, step, batch, clientVars, lapsed, faults>>

TtlFires(t) ==
  /\ active[t] = "accessed"
  /\ active' = [active EXCEPT ![t] = "none"]
  /\ lapsed' = lapsed \cup {t}
  /\ UNCHANGED <<entry, waiting, step, batch, clientVars, used, faults>>

-----------------------------------------------------------------------------
(* POST /queue/status: HGET, ZRANK, and GET if there was no info hash.     *)

Answer(q, t, pc, n) ==
  /\ poll' = [poll EXCEPT ![q] = [token |-> t, pc |-> pc, number |-> n]]
  /\ UNCHANGED <<entry, waiting, active, step, batch, access, used, lapsed, faults>>

(* Mutant: the active key is asked for and the waiting set is not.         *)
GetInfoActiveOnly(q, t) ==
  /\ poll[q].pc = "idle"
  /\ Answer(q, t, IF active[t] # "none" THEN "active" ELSE "unknown", 0)

GetInfo(q, t) ==
  /\ poll[q].pc = "idle"
  /\ Answer(q, t, IF t \in Queue THEN "ranking" ELSE "checking", 0)

(* Mutant: the rank is not corrected to begin at 1.                        *)
RankFromZero(t) == IF t \in Queue THEN Cardinality(Before(t)) ELSE -1

(* Mutant: the member asked for is not the text that was stored.           *)
RankOfOtherMember(t) == -1

Rank(t) == IF t \in Queue THEN Cardinality(Before(t)) + 1 ELSE -1

GetRank(q) ==
  /\ poll[q].pc = "ranking"
  /\ Answer(q, poll[q].token, "waiting", Rank(poll[q].token))

CheckActive(q) ==
  /\ poll[q].pc = "checking"
  /\ Answer(q, poll[q].token,
            IF active[poll[q].token] = "none" THEN "unknown" ELSE "active", 0)

-----------------------------------------------------------------------------
(* The process dies: the job and the requests are gone, Redis stays.       *)
Crash ==
  /\ faults < MaxFaults
  /\ faults' = faults + 1
  /\ step' = "idle" /\ batch' = {}
  /\ access' = [g \in Accesses |-> IF access[g].pc = "got"
                                   THEN [access[g] EXCEPT !.pc = "refused"] ELSE access[g]]
  /\ poll' = [q \in Polls |-> IF poll[q].pc \in {"ranking", "checking"}
                              THEN [token |-> None, pc |-> "idle", number |-> 0] ELSE poll[q]]
  /\ UNCHANGED <<entry, waiting, active, used, lapsed>>

Next ==
  \/ \E t \in Tokens, u \in Users, k \in Concerts, n \in Stamps : CreateWaitQueue(t, u, k, n)
  \/ GetWaitQueues \/ DeWaitQueue \/ InActiveQueues \/ BatchFails
  \/ \E g \in Accesses : \/ \E t \in Issued : FindActiveQueue(g, t)
                         \/ ReInActiveQueueWithTTL(g) \/ ExpireActiveQueue(g)
  \/ \E t \in Tokens : TtlFires(t)
  \/ \E q \in Polls : (\E t \in Issued : GetInfo(q, t)) \/ GetRank(q) \/ CheckActive(q)
  \/ Crash

Spec == Init /\ [][Next]_vars

(* Cron ticks every second, Redis answers and drops keys on time; clients  *)
(* and consumers are not obliged to come.                                  *)
Fairness ==
  /\ WF_vars(GetWaitQueues) /\ WF_vars(DeWaitQueue) /\ WF_vars(InActiveQueues)
  /\ \A g \in Accesses : WF_vars(ReInActiveQueueWithTTL(g))
  /\ \A t \in Tokens : WF_vars(TtlFires(t))

FairSpec == Spec /\ Fairness

-----------------------------------------------------------------------------
(* Safety.                                                                 *)

(* A token that waits has never been active and does not wait again after  *)
(* it was: the job takes it out of the queue before it activates it, so no *)
(* later tick can activate it a second time and renew its five minutes.    *)
WaitsBeforeActive ==
  \A t \in waiting : active[t] = "none" /\ t \notin used \cup lapsed

(* As long as nothing fails no token is lost between the two MULTIs: it    *)
(* waits, is in the job's hands, is active, or has been used or expired.   *)
TokenIsSomewhere ==
  faults = 0 => \A t \in Issued :
    t \in waiting \cup batch \cup used \cup lapsed \/ active[t] # "none"

(* First come, first served: nobody leaves the queue while a token waits   *)
(* that stood before it when it came, whatever comes in, fails or dies     *)
(* between the tick's reading of the page and its removal.                 *)
NoOvertaking == \A u \in Served \ waiting : entry[u].ahead \cap waiting = {}

(* The info hash is read before the rank.  Whoever is told "waiting" with  *)
(* the number -1 has left the queue in between, and as long as nothing     *)
(* fails the token is on its way, active, used or expired; nobody who      *)
(* still waits is ever told that number.                                   *)
NoRankHasLeft ==
  \A q \in Polls : poll[q].pc = "waiting" /\ poll[q].number = -1 =>
    LET t == poll[q].token IN
    /\ t \notin waiting
    /\ faults = 0 => t \in batch \cup used \cup lapsed \/ active[t] # "none"

(* A status request looks for the waiting token first and for the active   *)
(* key second, the way tokens move: as long as nothing fails the answer    *)
(* that there is no such token is only given of one that has been used or  *)
(* expired, is in the job's hands, or waits for a concert nobody serves.   *)
UnknownTo(q) == poll[q].pc # "unknown" /\ poll'[q].pc = "unknown"

UnknownIsGone ==
  [][\A q \in Polls : UnknownTo(q) /\ faults = 0 =>
       \/ poll'[q].token \in used \cup lapsed \cup batch
       \/ poll'[q].token \notin Served]_vars

-----------------------------------------------------------------------------
(* Liveness.                                                               *)

(* As long as nothing fails every token in the queue of concert 1 becomes  *)
(* active: the page of the job always holds the oldest token, and no tick  *)
(* drops what it has read.                                                 *)
WaitingTokenIsActivated ==
  \A t \in Tokens : t \in Queue ~> active[t] # "none" \/ faults > 0

(* A token the guard has let pass is active for a bounded time, however    *)
(* many requests make the first access at once.                            *)
ActiveKey(g) == access[g].pc = "passed" /\ active[access[g].token] # "none"

PassedTokenExpires == \A g \in Accesses : access[g].pc = "passed" ~> ~ActiveKey(g)

-----------------------------------------------------------------------------
(* What a client may rely on (module QueueLifecycle).                      *)

StatusOf(t) ==
  IF t \notin Issued THEN "none"
  ELSE IF t \in waiting THEN "waiting"
  ELSE IF active[t] # "none" THEN "active"
  ELSE IF t \in batch THEN "moving"
  ELSE IF t \in used \cup lapsed THEN "ended"
  ELSE "lost"

Lifecycle == INSTANCE QueueLifecycle WITH status <- [t \in Tokens |-> StatusOf(t)]

(* Job, guards, consumer, TTL and faults together move tokens as the       *)
(* lifecycle says, a page of them at a time.                               *)
FollowsLifecycle == Lifecycle!Spec
=============================================================================
