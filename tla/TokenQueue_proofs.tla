------------------------- MODULE TokenQueue_proofs -------------------------
(***************************************************************************)
(* Proofs about TokenQueue for any users, tokens, clients, batch size and  *)
(* number of faults.                                                       *)
(***************************************************************************)
EXTENDS TokenQueue, FiniteSetTheorems, FunctionTheorems, WellFoundedInduction, TLAPS

(* What the job holds at each of its steps.                                *)
BatchFollowsStep ==
  /\ step = "idle" => batch = {}
  /\ step = "read" => batch \subseteq waiting
  /\ step = "removed" => batch \cap waiting = {}

(* Waiting tokens and those the job holds have never been active.          *)
NotYetActive ==
  \A t \in waiting \cup batch : active[t] = "none" /\ t \notin used \cup lapsed

(* Only tokens that were activated pass the guard or have a key.           *)
HoldersWereActive ==
  \A g \in Accesses : access[g].pc \in {"got", "passed"} =>
    access[g].token \in Served \ (waiting \cup batch)

KeysAreServed == \A t \in Tokens : active[t] # "none" => t \in Served

PollsHaveTokens == \A q \in Polls : poll[q].pc \in {"ranking", "checking"} =>
                                      poll[q].token \in Tokens

QueueInv ==
  /\ TypeOK /\ BatchFollowsStep /\ NotYetActive /\ HoldersWereActive
  /\ KeysAreServed /\ PollsHaveTokens

-----------------------------------------------------------------------------
(* A set of tokens that misses one has room for another stamp.             *)
LEMMA StampFits ==
  ASSUME NEW S \in SUBSET Tokens, NEW t \in Tokens, t \notin S
  PROVE  Cardinality(S) + 1 \in Stamps
<1>1. IsFiniteSet(Tokens)
  BY QueueAssumption
<1>2. IsFiniteSet(S) /\ IsFiniteSet(S \cup {t})
  BY <1>1, FS_Subset
<1>3. Cardinality(S \cup {t}) = Cardinality(S) + 1
  BY <1>2, FS_AddElement
<1>4. Cardinality(S \cup {t}) <= Cardinality(Tokens)
  BY <1>1, FS_Subset
<1>5. Cardinality(S) \in Nat /\ Cardinality(Tokens) \in Nat
  BY <1>1, <1>2, FS_CardinalityType
<1> QED BY <1>3, <1>4, <1>5 DEF Stamps

LEMMA RankType ==
  ASSUME TypeOK, NEW t \in Tokens
  PROVE  Rank(t) \in {-1} \cup Stamps
<1>1. CASE t \in Queue
  <2>1. entry[t] \in Entry
    BY <1>1 DEF Queue, Served, Issued, TypeOK
  <2>2. entry[t].stamp \in Int
    BY <2>1 DEF Entry, Stamps
  <2>3. t \notin Before(t) /\ Before(t) \subseteq Tokens
    BY <2>2 DEF Before, Queue, Served, Issued
  <2>4. Cardinality(Before(t)) + 1 \in Stamps
    BY <2>3, StampFits
  <2> QED BY <1>1, <2>4 DEF Rank
<1>2. CASE t \notin Queue
  BY <1>2 DEF Rank
<1> QED BY <1>1, <1>2

LEMMA InitInv == Init => QueueInv /\ TokenIsSomewhere
<1> SUFFICES ASSUME Init PROVE QueueInv /\ TokenIsSomewhere
  OBVIOUS
<1>1. Issued = {} /\ Served = {}
  BY DEF Init, Issued, Served
<1>2. TypeOK
  <2>1. faults \in 0 .. MaxFaults
    BY QueueAssumption DEF Init
  <2>2. access \in [Accesses -> Access]
    BY DEF Init, Access
  <2>3. poll \in [Polls -> Poll \cup Waits]
    BY DEF Init, Poll
  <2>4. /\ entry \in [Tokens -> Entry \cup {None}]
        /\ active \in [Tokens -> KeyStatus]
        /\ waiting = {} /\ batch = {} /\ used = {} /\ lapsed = {} /\ step = "idle"
    BY DEF Init, KeyStatus
  <2> QED BY <2>1, <2>2, <2>3, <2>4 DEF TypeOK
<1>3. BatchFollowsStep /\ NotYetActive /\ KeysAreServed
  BY DEF Init, BatchFollowsStep, NotYetActive, KeysAreServed
<1>4. \A g \in Accesses : access[g].pc = "idle"
  <2> SUFFICES ASSUME NEW g \in Accesses PROVE access[g].pc = "idle"
    OBVIOUS
  <2>1. access[g] = [token |-> None, pc |-> "idle"]
    BY DEF Init
  <2> QED BY <2>1
<1>5. \A q \in Polls : poll[q].pc = "idle"
  <2> SUFFICES ASSUME NEW q \in Polls PROVE poll[q].pc = "idle"
    OBVIOUS
  <2>1. poll[q] = [token |-> None, pc |-> "idle", number |-> 0]
    BY DEF Init
  <2> QED BY <2>1
<1>6. HoldersWereActive /\ PollsHaveTokens
  BY <1>4, <1>5 DEF HoldersWereActive, PollsHaveTokens
<1>7. TokenIsSomewhere
  BY <1>1 DEF TokenIsSomewhere
<1> QED BY <1>2, <1>3, <1>6, <1>7 DEF QueueInv

-----------------------------------------------------------------------------
LEMMA CreateStep ==
  ASSUME QueueInv, NEW t \in Tokens, NEW u \in Users, NEW k \in Concerts, NEW n \in Stamps,
         CreateWaitQueue(t, u, k, n)
  PROVE  QueueInv' /\ (TokenIsSomewhere => TokenIsSomewhere')
<1> USE DEF QueueInv
<1>1. Issued \in SUBSET Tokens /\ t \notin Issued
  BY DEF Issued, CreateWaitQueue
<1> DEFINE A == {x \in waiting : entry[x].concert = k /\ entry[x].stamp < n}
           e == [user |-> u, concert |-> k, stamp |-> n, ahead |-> A]
<1>2. A \in SUBSET Tokens
  BY <1>1 DEF TypeOK
<1>3. /\ entry' = [entry EXCEPT ![t] = e]
      /\ waiting' = waiting \cup {t} /\ active' = active /\ step' = step /\ batch' = batch
      /\ access' = access /\ poll' = poll /\ used' = used /\ lapsed' = lapsed
      /\ faults' = faults
  BY DEF CreateWaitQueue, clientVars
<1>e. e \in Entry /\ e \in [user : Users, concert : Concerts, stamp : Nat,
                            ahead : SUBSET Tokens]
  <2>1. n \in Nat
    BY QueueAssumption, FS_CardinalityType DEF Stamps
  <2> HIDE DEF A
  <2> QED BY <1>2, <2>1 DEF Entry
<1> HIDE DEF A, e
<1>4. entry' \in [Tokens -> Entry \cup {None}]
  BY <1>3, <1>e DEF TypeOK
<1>5. entry'[t] # None
  BY <1>3, <1>e, QueueAssumption DEF TypeOK
<1>6. \A x \in Issued : x # t /\ entry'[x] = entry[x] /\ x \in Tokens
  BY <1>1, <1>3 DEF TypeOK, Issued
<1>7. Issued' = Issued \cup {t}
  BY <1>3, <1>5, <1>6 DEF Issued, TypeOK
<1>8. Served \subseteq Served' /\ Served \subseteq Issued
  BY <1>6, <1>7 DEF Served
<1>9. TypeOK'
  BY <1>3, <1>4, <1>7, <1>8 DEF TypeOK
<1>10. t \notin Served /\ active[t] = "none" /\ t \notin used \cup lapsed /\ t \notin batch
  BY <1>1, <1>8 DEF KeysAreServed, TypeOK
<1>11. BatchFollowsStep' /\ NotYetActive'
  BY <1>3, <1>10 DEF BatchFollowsStep, NotYetActive
<1>12. HoldersWereActive' /\ KeysAreServed' /\ PollsHaveTokens'
  BY <1>3, <1>8, <1>10 DEF HoldersWereActive, KeysAreServed, PollsHaveTokens
<1>13. TokenIsSomewhere => TokenIsSomewhere'
  BY <1>3, <1>7 DEF TokenIsSomewhere
<1> QED BY <1>9, <1>11, <1>12, <1>13

(* No other action issues a token.                                         *)
LEMMA JobStep ==
  ASSUME QueueInv, GetWaitQueues \/ DeWaitQueue \/ InActiveQueues \/ BatchFails
  PROVE  QueueInv' /\ (TokenIsSomewhere => TokenIsSomewhere')
<1> USE DEF QueueInv
<1>0. /\ entry' = entry /\ access' = access /\ poll' = poll /\ used' = used
      /\ lapsed' = lapsed
  BY DEF GetWaitQueues, DeWaitQueue, InActiveQueues, BatchFails, clientVars
<1>1. Issued' = Issued /\ Served' = Served
  BY <1>0 DEF Issued, Served
<1>p. PollsHaveTokens'
  BY <1>0 DEF PollsHaveTokens
<1>2. CASE GetWaitQueues
  <2>1. /\ step = "idle" /\ step' = "read" /\ batch' = Oldest /\ waiting' = waiting
        /\ active' = active /\ faults' = faults /\ batch = {}
    BY <1>2 DEF GetWaitQueues, clientVars, BatchFollowsStep
  <2>2. Oldest \subseteq waiting /\ Oldest \subseteq Served
    BY DEF Oldest, Queue
  <2>3. TypeOK'
    BY <1>0, <1>1, <2>1, <2>2 DEF TypeOK
  <2>4. BatchFollowsStep' /\ NotYetActive' /\ HoldersWereActive' /\ KeysAreServed'
    BY <1>0, <1>1, <2>1, <2>2
       DEF BatchFollowsStep, NotYetActive, HoldersWereActive, KeysAreServed
  <2>5. TokenIsSomewhere => TokenIsSomewhere'
    BY <1>0, <1>1, <2>1 DEF TokenIsSomewhere
  <2> QED BY <1>p, <2>3, <2>4, <2>5
<1>3. CASE DeWaitQueue
  <2>1. /\ step = "read" /\ step' = "removed" /\ batch' = batch
        /\ waiting' = waiting \ batch /\ active' = active /\ faults' = faults
    BY <1>3 DEF DeWaitQueue
  <2>2. TypeOK'
    BY <1>0, <1>1, <2>1 DEF TypeOK
  <2>3. BatchFollowsStep' /\ NotYetActive' /\ HoldersWereActive' /\ KeysAreServed'
    BY <1>0, <1>1, <2>1
       DEF BatchFollowsStep, NotYetActive, HoldersWereActive, KeysAreServed
  <2>4. TokenIsSomewhere => TokenIsSomewhere'
    BY <1>0, <1>1, <2>1 DEF TokenIsSomewhere
  <2> QED BY <1>p, <2>2, <2>3, <2>4
<1>4. CASE InActiveQueues
  <2>1. /\ step = "removed" /\ step' = "idle" /\ batch' = {} /\ waiting' = waiting
        /\ active' = [t \in Tokens |-> IF t \in batch THEN "fresh" ELSE active[t]]
        /\ faults' = faults
    BY <1>4 DEF InActiveQueues
  <2>2. batch \subseteq Served /\ Served \subseteq Tokens /\ waiting \subseteq Tokens
    BY DEF TypeOK, Served, Issued
  <2>3. TypeOK'
    BY <1>0, <1>1, <2>1 DEF TypeOK, KeyStatus
  <2>4. BatchFollowsStep'
    BY <2>1 DEF BatchFollowsStep
  <2>5. NotYetActive'
    BY <1>0, <2>1, <2>2 DEF NotYetActive, BatchFollowsStep
  <2>6. HoldersWereActive' /\ KeysAreServed'
    BY <1>0, <1>1, <2>1, <2>2 DEF HoldersWereActive, KeysAreServed
  <2>7. TokenIsSomewhere => TokenIsSomewhere'
    BY <1>0, <1>1, <2>1, <2>2 DEF TokenIsSomewhere, Issued
  <2> QED BY <1>p, <2>3, <2>4, <2>5, <2>6, <2>7
<1>5. CASE BatchFails
  <2>1. /\ step' = "idle" /\ batch' = {} /\ waiting' = waiting /\ active' = active
        /\ faults < MaxFaults /\ faults' = faults + 1
    BY <1>5 DEF BatchFails
  <2>2. TypeOK'
    BY QueueAssumption, <1>0, <1>1, <2>1 DEF TypeOK
  <2>3. BatchFollowsStep' /\ NotYetActive' /\ HoldersWereActive' /\ KeysAreServed'
    BY <1>0, <1>1, <2>1
       DEF BatchFollowsStep, NotYetActive, HoldersWereActive, KeysAreServed
  <2>4. faults' # 0
    BY QueueAssumption, <2>1 DEF TypeOK
  <2> QED BY <1>p, <2>2, <2>3, <2>4 DEF TokenIsSomewhere
<1> QED BY <1>2, <1>3, <1>4, <1>5

LEMMA GuardStep ==
  ASSUME QueueInv, NEW g \in Accesses,
         \/ \E t \in Issued : FindActiveQueue(g, t)
         \/ ReInActiveQueueWithTTL(g) \/ ExpireActiveQueue(g)
  PROVE  QueueInv' /\ (TokenIsSomewhere => TokenIsSomewhere')
<1> USE DEF QueueInv
<1>0. /\ entry' = entry /\ waiting' = waiting /\ batch' = batch /\ step' = step
      /\ poll' = poll /\ lapsed' = lapsed /\ faults' = faults
  BY DEF FindActiveQueue, ReInActiveQueueWithTTL, ExpireActiveQueue, clientVars
<1>1. Issued' = Issued /\ Served' = Served /\ Issued \subseteq Tokens /\ Served \subseteq Issued
  BY <1>0 DEF Issued, Served
<1>2. BatchFollowsStep' /\ PollsHaveTokens'
  BY <1>0 DEF BatchFollowsStep, PollsHaveTokens
<1>3. CASE \E t \in Issued : FindActiveQueue(g, t)
  <2>1. PICK t \in Issued : FindActiveQueue(g, t)
    BY <1>3
  <2>2. active' = active /\ used' = used
    BY <2>1 DEF FindActiveQueue
  <2>3. PICK pc \in {"refused", "got", "passed"} :
          /\ access' = [access EXCEPT ![g] = [token |-> t, pc |-> pc]]
          /\ pc # "refused" => active[t] # "none"
    BY <2>1 DEF FindActiveQueue, SetAccess
  <2>4. access' \in [Accesses -> Access]
    BY <1>1, <2>3 DEF TypeOK, Access
  <2>5. TypeOK'
    BY <1>0, <1>1, <2>2, <2>4 DEF TypeOK
  <2>6. access'[g] = [token |-> t, pc |-> pc]
    BY <2>3 DEF TypeOK
  <2>7. \A h \in Accesses : h # g => access'[h] = access[h]
    BY <2>3 DEF TypeOK
  <2>8. pc # "refused" => t \in Served \ (waiting \cup batch)
    BY <1>1, <2>3 DEF NotYetActive, KeysAreServed
  <2>9. HoldersWereActive'
    BY <1>0, <1>1, <2>6, <2>7, <2>8 DEF HoldersWereActive
  <2>10. NotYetActive' /\ KeysAreServed'
    BY <1>0, <1>1, <2>2 DEF NotYetActive, KeysAreServed
  <2>11. TokenIsSomewhere => TokenIsSomewhere'
    BY <1>0, <1>1, <2>2 DEF TokenIsSomewhere
  <2> QED BY <1>2, <2>5, <2>9, <2>10, <2>11
<1>4. CASE ReInActiveQueueWithTTL(g)
  <2> DEFINE t == access[g].token
  <2>1. /\ active' = [active EXCEPT ![t] = "accessed"] /\ used' = used
        /\ access' = [access EXCEPT ![g] = [token |-> t, pc |-> "passed"]]
    BY <1>4 DEF ReInActiveQueueWithTTL, SetAccess
  <2>2. t \in Served \ (waiting \cup batch) /\ t \in Tokens
    BY <1>1, <1>4 DEF ReInActiveQueueWithTTL, HoldersWereActive
  <2> HIDE DEF t
  <2>3. access' \in [Accesses -> Access]
    BY <2>1, <2>2 DEF TypeOK, Access
  <2>4. TypeOK'
    BY <1>0, <1>1, <2>1, <2>3 DEF TypeOK, KeyStatus
  <2>5. access'[g].token = t /\ \A h \in Accesses : h # g => access'[h] = access[h]
    BY <2>1 DEF TypeOK
  <2>6. HoldersWereActive'
    BY <1>0, <1>1, <2>2, <2>5 DEF HoldersWereActive
  <2>7. \A x \in Tokens : active'[x] = IF x = t THEN "accessed" ELSE active[x]
    BY <2>1, <2>2 DEF TypeOK
  <2>8. waiting \cup batch \subseteq Tokens
    BY <1>1 DEF TypeOK
  <2>9. NotYetActive' /\ KeysAreServed'
    BY <1>0, <1>1, <2>1, <2>2, <2>7, <2>8 DEF NotYetActive, KeysAreServed
  <2>10. TokenIsSomewhere => TokenIsSomewhere'
    BY <1>0, <1>1, <2>1, <2>7 DEF TokenIsSomewhere
  <2> QED BY <1>2, <2>4, <2>6, <2>9, <2>10
<1>5. CASE ExpireActiveQueue(g)
  <2> DEFINE t == access[g].token
  <2>1. /\ active' = [active EXCEPT ![t] = "none"] /\ used' = used \cup {t}
        /\ access' = access
    BY <1>5 DEF ExpireActiveQueue, clientVars
  <2>2. t \in Served \ (waiting \cup batch) /\ t \in Tokens
    BY <1>1, <1>5 DEF ExpireActiveQueue, HoldersWereActive
  <2> HIDE DEF t
  <2>3. TypeOK'
    BY <1>0, <1>1, <2>1, <2>2 DEF TypeOK, KeyStatus
  <2>4. \A x \in Tokens : active'[x] = IF x = t THEN "none" ELSE active[x]
    BY <2>1, <2>2 DEF TypeOK
  <2>5. waiting \cup batch \subseteq Tokens
    BY <1>1 DEF TypeOK
  <2>6. NotYetActive' /\ KeysAreServed' /\ HoldersWereActive'
    BY <1>0, <1>1, <2>1, <2>2, <2>4, <2>5 DEF NotYetActive, KeysAreServed, HoldersWereActive
  <2>7. TokenIsSomewhere => TokenIsSomewhere'
    BY <1>0, <1>1, <2>1, <2>4 DEF TokenIsSomewhere
  <2> QED BY <1>2, <2>3, <2>6, <2>7
<1> QED BY <1>3, <1>4, <1>5

LEMMA TtlStep ==
  ASSUME QueueInv, NEW t \in Tokens, TtlFires(t)
  PROVE  QueueInv' /\ (TokenIsSomewhere => TokenIsSomewhere')
<1> USE DEF QueueInv
<1>1. /\ active' = [active EXCEPT ![t] = "none"] /\ lapsed' = lapsed \cup {t}
      /\ entry' = entry /\ waiting' = waiting /\ batch' = batch /\ step' = step
      /\ access' = access /\ poll' = poll /\ used' = used /\ faults' = faults
      /\ active[t] = "accessed"
  BY DEF TtlFires, clientVars
<1>2. Issued' = Issued /\ Served' = Served /\ Issued \subseteq Tokens /\ Served \subseteq Issued
  BY <1>1 DEF Issued, Served
<1>3. t \in Served \ (waiting \cup batch)
  BY <1>1 DEF NotYetActive, KeysAreServed
<1>4. TypeOK'
  BY <1>1, <1>2, <1>3 DEF TypeOK, KeyStatus
<1>5. \A x \in Tokens : active'[x] = IF x = t THEN "none" ELSE active[x]
  BY <1>1 DEF TypeOK
<1>6. waiting \cup batch \subseteq Tokens
  BY <1>2 DEF TypeOK
<1>7. BatchFollowsStep' /\ HoldersWereActive' /\ PollsHaveTokens'
  BY <1>1, <1>2 DEF BatchFollowsStep, HoldersWereActive, PollsHaveTokens
<1>8. NotYetActive' /\ KeysAreServed'
  BY <1>1, <1>2, <1>3, <1>5, <1>6 DEF NotYetActive, KeysAreServed
<1>9. TokenIsSomewhere => TokenIsSomewhere'
  BY <1>1, <1>2, <1>5 DEF TokenIsSomewhere
<1> QED BY <1>4, <1>7, <1>8, <1>9

LEMMA PollStep ==
  ASSUME QueueInv, NEW q \in Polls,
         (\E t \in Issued : GetInfo(q, t)) \/ GetRank(q) \/ CheckActive(q)
  PROVE  QueueInv' /\ (TokenIsSomewhere => TokenIsSomewhere')
<1> USE DEF QueueInv
<1>1. /\ entry' = entry /\ waiting' = waiting /\ active' = active /\ step' = step
      /\ batch' = batch /\ access' = access /\ used' = used /\ lapsed' = lapsed
      /\ faults' = faults
  BY DEF GetInfo, GetRank, CheckActive, Answer
<1>2. Issued' = Issued /\ Served' = Served /\ Issued \subseteq Tokens
  BY <1>1 DEF Issued, Served
<1>3. /\ BatchFollowsStep' /\ NotYetActive' /\ HoldersWereActive' /\ KeysAreServed'
      /\ TokenIsSomewhere => TokenIsSomewhere'
  BY <1>1, <1>2 DEF BatchFollowsStep, NotYetActive, HoldersWereActive, KeysAreServed,
                    TokenIsSomewhere
<1>4. \E a \in Poll \cup Waits :
        /\ poll' = [poll EXCEPT ![q] = a]
        /\ a.pc \in {"ranking", "checking"} => a.token \in Tokens
  <2>1. CASE \E t \in Issued : GetInfo(q, t)
    <3>1. PICK t \in Issued : GetInfo(q, t)
      BY <2>1
    <3>2. PICK pc \in {"ranking", "checking"} :
            poll' = [poll EXCEPT ![q] = [token |-> t, pc |-> pc, number |-> 0]]
      BY <3>1 DEF GetInfo, Answer
    <3> DEFINE a == [token |-> t, pc |-> pc, number |-> 0]
    <3>3. a \in Poll /\ a.token \in Tokens
      BY <1>2 DEF Poll
    <3>4. poll' = [poll EXCEPT ![q] = a]
      BY <3>2
    <3> HIDE DEF a
    <3> QED BY <3>3, <3>4
  <2>2. CASE GetRank(q)
    <3> DEFINE a == [token |-> poll[q].token, pc |-> "waiting",
                     number |-> Rank(poll[q].token)]
    <3>1. poll' = [poll EXCEPT ![q] = a] /\ poll[q].token \in Tokens
      BY <2>2 DEF GetRank, Answer, PollsHaveTokens
    <3>2. a \in Waits
      BY <3>1, RankType DEF Waits
    <3>3. a.pc = "waiting"
      OBVIOUS
    <3> HIDE DEF a
    <3> QED BY <3>1, <3>2, <3>3
  <2>3. CASE CheckActive(q)
    <3>1. poll[q].token \in Tokens
      BY <2>3 DEF CheckActive, PollsHaveTokens
    <3>2. PICK pc \in {"unknown", "active"} :
            poll' = [poll EXCEPT ![q] = [token |-> poll[q].token, pc |-> pc, number |-> 0]]
      BY <2>3 DEF CheckActive, Answer
    <3> DEFINE a == [token |-> poll[q].token, pc |-> pc, number |-> 0]
    <3>3. a \in Poll /\ a.token \in Tokens
      BY <3>1 DEF Poll
    <3>4. poll' = [poll EXCEPT ![q] = a]
      BY <3>2
    <3> HIDE DEF a
    <3> QED BY <3>3, <3>4
  <2> QED BY <2>1, <2>2, <2>3
<1>5. PICK a \in Poll \cup Waits :
        /\ poll' = [poll EXCEPT ![q] = a]
        /\ a.pc \in {"ranking", "checking"} => a.token \in Tokens
  BY <1>4
<1>6. poll' \in [Polls -> Poll \cup Waits]
  BY <1>5 DEF TypeOK
<1>7. TypeOK'
  BY <1>1, <1>2, <1>6 DEF TypeOK
<1>8. PollsHaveTokens'
  BY <1>5 DEF PollsHaveTokens, TypeOK
<1> QED BY <1>3, <1>7, <1>8

LEMMA CrashStep ==
  ASSUME QueueInv, Crash
  PROVE  QueueInv' /\ (TokenIsSomewhere => TokenIsSomewhere')
<1> USE DEF QueueInv
<1>1. /\ entry' = entry /\ waiting' = waiting /\ active' = active /\ step' = "idle"
      /\ batch' = {} /\ used' = used /\ lapsed' = lapsed
      /\ faults < MaxFaults /\ faults' = faults + 1
  BY DEF Crash
<1>2. Issued' = Issued /\ Served' = Served
  BY <1>1 DEF Issued, Served
<1>3. \A g \in Accesses :
        access'[g] = IF access[g].pc = "got" THEN [access[g] EXCEPT !.pc = "refused"]
                                             ELSE access[g]
  BY DEF Crash
<1>4. \A g \in Accesses : access'[g] \in Access
  BY <1>3 DEF TypeOK, Access
<1>5. access' \in [Accesses -> Access]
  BY <1>4 DEF Crash
<1>6. \A q \in Polls :
        poll'[q] = IF poll[q].pc \in {"ranking", "checking"}
                   THEN [token |-> None, pc |-> "idle", number |-> 0] ELSE poll[q]
  BY DEF Crash
<1>7. \A q \in Polls : poll'[q] \in Poll \cup Waits
  BY <1>6 DEF TypeOK, Poll
<1>8. poll' \in [Polls -> Poll \cup Waits]
  BY <1>7 DEF Crash
<1>9. TypeOK'
  BY QueueAssumption, <1>1, <1>2, <1>5, <1>8 DEF TypeOK
<1>10. HoldersWereActive'
  <2> SUFFICES ASSUME NEW g \in Accesses, access'[g].pc \in {"got", "passed"}
               PROVE  access'[g].token \in Served' \ (waiting' \cup batch')
    BY DEF HoldersWereActive
  <2>1. access'[g] = access[g]
    <3>1. access[g].pc # "got"
      BY <1>3 DEF TypeOK, Access
    <3> QED BY <1>3, <3>1
  <2> QED BY <1>1, <1>2, <2>1 DEF HoldersWereActive
<1>11. PollsHaveTokens'
  <2> SUFFICES ASSUME NEW q \in Polls, poll'[q].pc \in {"ranking", "checking"}
               PROVE  FALSE
    BY DEF PollsHaveTokens
  <2> QED BY <1>6
<1>12. BatchFollowsStep' /\ NotYetActive' /\ KeysAreServed'
  BY <1>1, <1>2 DEF BatchFollowsStep, NotYetActive, KeysAreServed
<1>13. faults' # 0
  BY QueueAssumption, <1>1 DEF TypeOK
<1> QED BY <1>9, <1>10, <1>11, <1>12, <1>13 DEF TokenIsSomewhere

LEMMA InvStep ==
  QueueInv /\ [Next]_vars => QueueInv' /\ (TokenIsSomewhere => TokenIsSomewhere')
<1> SUFFICES ASSUME QueueInv, [Next]_vars
             PROVE  QueueInv' /\ (TokenIsSomewhere => TokenIsSomewhere')
  OBVIOUS
<1>1. CASE UNCHANGED vars
  BY <1>1 DEF vars, clientVars, QueueInv, TypeOK, BatchFollowsStep, NotYetActive,
              HoldersWereActive, KeysAreServed, PollsHaveTokens, TokenIsSomewhere,
              Issued, Served
<1>2. CASE Next
  BY <1>2, CreateStep, JobStep, GuardStep, TtlStep, PollStep, CrashStep DEF Next
<1> QED BY <1>1, <1>2

LEMMA InvAlways == Spec => [](QueueInv /\ TokenIsSomewhere)
BY InitInv, InvStep, PTL DEF Spec

(* Redis, the job and the clients stay well typed.                         *)
THEOREM TypeCorrect == Spec => []TypeOK
BY InvAlways, PTL DEF QueueInv

(* No token waits once it has been active, so none is activated twice.     *)
THEOREM WaitsBeforeActiveAlways == Spec => []WaitsBeforeActive
<1>1. QueueInv => WaitsBeforeActive
  BY DEF QueueInv, NotYetActive, WaitsBeforeActive
<1> QED BY <1>1, InvAlways, PTL

(* Without crashes and failing commands the job loses no token.            *)
THEOREM TokenIsSomewhereAlways == Spec => []TokenIsSomewhere
BY InvAlways, PTL

-----------------------------------------------------------------------------
(* A client that goes on to the active key asked for a token that had left *)
(* the queue of concert 1, or was never in it.                             *)
AskedLeftQueue ==
  \A q \in Polls : poll[q].pc = "checking" => poll[q].token \in Issued \ Queue

(* No issued token enters the queue.                                       *)
LEMMA NobodyReturns ==
  ASSUME QueueInv, [Next]_vars, NEW t \in Issued
  PROVE  t \in Issued' /\ (t \in Queue' => t \in Queue)
<1>1. t \in Tokens /\ entry[t] # None
  BY DEF Issued
<1>2. CASE \E x \in Tokens, u \in Users, k \in Concerts, n \in Stamps :
             CreateWaitQueue(x, u, k, n)
  <2>1. PICK x \in Tokens, u \in Users, k \in Concerts, n \in Stamps :
          CreateWaitQueue(x, u, k, n)
    BY <1>2
  <2>2. entry'[t] = entry[t] /\ (t \in waiting' => t \in waiting)
    BY <1>1, <2>1 DEF CreateWaitQueue, QueueInv, TypeOK
  <2> QED BY <1>1, <2>2 DEF Issued, Queue, Served
<1>3. CASE entry' = entry /\ waiting' \subseteq waiting
  BY <1>1, <1>3 DEF Issued, Queue, Served
<1> QED
  BY <1>2, <1>3
     DEF Next, vars, GetWaitQueues, DeWaitQueue, InActiveQueues, BatchFails,
         FindActiveQueue, ReInActiveQueueWithTTL, ExpireActiveQueue, TtlFires,
         GetInfo, GetRank, CheckActive, Answer, Crash

(* The two steps of a status request that matter here.                     *)
LEMMA PollMoves ==
  ASSUME QueueInv, [Next]_vars, NEW q \in Polls, poll'[q] # poll[q]
  PROVE  /\ poll'[q].pc = "checking" => poll'[q].token \in Issued \ Queue
         /\ poll'[q].pc = "unknown" => /\ poll[q].pc = "checking"
                                       /\ poll'[q].token = poll[q].token
                                       /\ active[poll[q].token] = "none"
                                       /\ UNCHANGED <<entry, batch, used, lapsed>>
<1> USE DEF QueueInv
<1>1. CASE Crash
  <2>1. poll'[q].pc = "idle"
    BY <1>1 DEF Crash
  <2> QED BY <2>1
<1>2. ASSUME NEW x \in Polls, NEW t \in Issued, GetInfo(x, t)
      PROVE  poll'[q].pc \in {"ranking", "checking"}
             /\ (poll'[q].pc = "checking" => poll'[q].token \in Issued \ Queue)
  <2>1. q = x
    BY <1>2 DEF GetInfo, Answer, TypeOK
  <2>2. poll'[q] = [token |-> t, pc |-> IF t \in Queue THEN "ranking" ELSE "checking",
                    number |-> 0]
    BY <1>2, <2>1 DEF GetInfo, Answer, TypeOK
  <2> QED BY <2>2
<1>3. ASSUME NEW x \in Polls, GetRank(x)
      PROVE  poll'[q].pc = "waiting"
  BY <1>3 DEF GetRank, Answer, TypeOK
<1>4. ASSUME NEW x \in Polls, CheckActive(x)
      PROVE  /\ poll'[q].pc \in {"active", "unknown"}
             /\ poll'[q].pc = "unknown" => /\ poll[q].pc = "checking"
                                           /\ poll'[q].token = poll[q].token
                                           /\ active[poll[q].token] = "none"
                                           /\ UNCHANGED <<entry, batch, used, lapsed>>
  <2>1. q = x
    BY <1>4 DEF CheckActive, Answer, TypeOK
  <2>2. poll'[q] = [token |-> poll[q].token,
                    pc |-> IF active[poll[q].token] = "none" THEN "unknown" ELSE "active",
                    number |-> 0]
    BY <1>4, <2>1 DEF CheckActive, Answer, TypeOK
  <2> QED BY <1>4, <2>1, <2>2 DEF CheckActive, Answer
<1>5. poll' # poll
  OBVIOUS
<1> QED
  BY <1>1, <1>2, <1>3, <1>4, <1>5
     DEF Next, vars, clientVars, CreateWaitQueue, GetWaitQueues, DeWaitQueue,
         InActiveQueues, BatchFails, FindActiveQueue, ReInActiveQueueWithTTL,
         ExpireActiveQueue, TtlFires

LEMMA AskedStep ==
  QueueInv /\ AskedLeftQueue /\ [Next]_vars => AskedLeftQueue'
<1> SUFFICES ASSUME QueueInv, AskedLeftQueue, [Next]_vars,
                    NEW q \in Polls, poll'[q].pc = "checking"
             PROVE  poll'[q].token \in Issued' \ Queue'
  BY DEF AskedLeftQueue
<1>1. poll'[q].token \in Issued \ Queue
  BY PollMoves DEF AskedLeftQueue
<1> QED BY <1>1, NobodyReturns

(* A status request is told that there is no token only when the token has *)
(* ended, is in the job's hands or is of a concert nobody serves.          *)
THEOREM UnknownIsGoneAlways == Spec => UnknownIsGone
<1>1. Init => AskedLeftQueue
  <2> SUFFICES ASSUME Init, NEW q \in Polls PROVE poll[q].pc # "checking"
    BY DEF AskedLeftQueue
  <2>1. poll[q] = [token |-> None, pc |-> "idle", number |-> 0]
    BY DEF Init
  <2> QED BY <2>1
<1> DEFINE Gone == \A q \in Polls : UnknownTo(q) /\ faults = 0 =>
                     \/ poll'[q].token \in used \cup lapsed \cup batch
                     \/ poll'[q].token \notin Served
<1>2. QueueInv /\ TokenIsSomewhere /\ AskedLeftQueue /\ [Next]_vars => [Gone]_vars
  <2> SUFFICES ASSUME QueueInv, TokenIsSomewhere, AskedLeftQueue, [Next]_vars,
                      NEW q \in Polls, UnknownTo(q), faults = 0
               PROVE  \/ poll'[q].token \in used \cup lapsed \cup batch
                      \/ poll'[q].token \notin Served
    OBVIOUS
  <2>1. /\ poll[q].pc = "checking" /\ poll'[q].token = poll[q].token
        /\ active[poll[q].token] = "none"
    BY PollMoves DEF UnknownTo
  <2>2. poll[q].token \in Issued \ Queue
    BY <2>1 DEF AskedLeftQueue
  <2>3. poll[q].token \in waiting \cup batch \cup used \cup lapsed
    BY <2>1, <2>2 DEF TokenIsSomewhere
  <2> QED BY <2>1, <2>2, <2>3 DEF Queue
<1> HIDE DEF Gone
<1>3. Spec => [][Gone]_vars
  BY <1>1, <1>2, AskedStep, InvAlways, PTL DEF Spec
<1> QED BY <1>3 DEF Gone, UnknownIsGone

-----------------------------------------------------------------------------
(* First come, first served.                                               *)

(* Who stood before a token when it came has the earlier place.            *)
AheadFits ==
  \A u \in Served : \A x \in entry[u].ahead :
    x \in Served /\ entry[x].stamp < entry[u].stamp

(* Nobody waits before a token of the page that is not on the page itself. *)
BatchIsFront == step = "read" => \A u \in batch : entry[u].ahead \cap waiting \subseteq batch

OrderInv == AheadFits /\ BatchIsFront /\ NoOvertaking

(* Which actions the order of the queue depends on.                        *)
LEMMA QueueActions ==
  ASSUME QueueInv, [Next]_vars
  PROVE  \/ \E t \in Tokens, u \in Users, k \in Concerts, n \in Stamps :
              CreateWaitQueue(t, u, k, n)
         \/ GetWaitQueues \/ DeWaitQueue
         \/ UNCHANGED <<entry, waiting, step, batch>>
         \/ UNCHANGED <<entry, waiting>> /\ step' = "idle" /\ batch' = {}
BY DEF Next, vars, clientVars, InActiveQueues, BatchFails, FindActiveQueue,
       ReInActiveQueueWithTTL, ExpireActiveQueue, TtlFires, GetInfo, GetRank, CheckActive,
       Answer, Crash

(* Whoever has the earlier place and waits is on the page of the later one. *)
LEMMA OldestIsFront ==
  ASSUME QueueInv, NEW u \in Oldest, NEW x \in Queue, entry[x].stamp < entry[u].stamp
  PROVE  x \in Oldest
<1>1. u \in Queue /\ Queue \subseteq Tokens
  BY DEF Oldest, Queue, Served, Issued
<1>2. \A y \in Queue : entry[y].stamp \in Int
  BY DEF Queue, Served, Issued, QueueInv, TypeOK, Entry, Stamps
<1>3. Before(x) \subseteq Before(u)
  BY <1>1, <1>2 DEF Before
<1>4. IsFiniteSet(Before(u))
  BY <1>1, QueueAssumption, FS_Subset DEF Before
<1>5. /\ Cardinality(Before(x)) <= Cardinality(Before(u))
      /\ Cardinality(Before(x)) \in Nat /\ Cardinality(Before(u)) \in Nat
  BY <1>3, <1>4, FS_Subset, FS_CardinalityType
<1> QED BY <1>1, <1>5, QueueAssumption DEF Oldest

LEMMA OrderCreate ==
  ASSUME QueueInv, OrderInv,
         NEW t \in Tokens, NEW u \in Users, NEW k \in Concerts, NEW n \in Stamps,
         CreateWaitQueue(t, u, k, n)
  PROVE  OrderInv'
<1> USE DEF QueueInv, OrderInv
<1> DEFINE A == {x \in waiting : entry[x].concert = k /\ entry[x].stamp < n}
           e == [user |-> u, concert |-> k, stamp |-> n, ahead |-> A]
<1>1. /\ entry' = [entry EXCEPT ![t] = e] /\ waiting' = waiting \cup {t}
      /\ step' = step /\ batch' = batch /\ t \notin Issued
  BY DEF CreateWaitQueue, Issued
<1>2. e.concert = k /\ e.stamp = n /\ e.ahead = A
  OBVIOUS
<1>3. \A x \in A : x \in Issued /\ entry[x].concert = k /\ entry[x].stamp < n
  BY DEF TypeOK
<1> HIDE DEF A, e
<1>4. entry'[t] = e /\ \A x \in Tokens : x # t => entry'[x] = entry[x]
  BY <1>1 DEF TypeOK
<1>5. Issued \subseteq Tokens /\ Served \subseteq Issued
  BY DEF Issued, Served
<1>6. \A x \in Issued : x # t /\ x \in Issued' /\ entry'[x] = entry[x]
  BY <1>1, <1>4, <1>5 DEF Issued
<1>7. \A x \in Served' : x = t \/ x \in Served
  BY <1>4 DEF Served, Issued
<1>8. Served \subseteq Served'
  BY <1>6 DEF Served
<1>9. t \in Served' => k = 1
  BY <1>2, <1>4 DEF Served
<1>10. AheadFits'
  <2> SUFFICES ASSUME NEW y \in Served', NEW x \in entry'[y].ahead
               PROVE  x \in Served' /\ entry'[x].stamp < entry'[y].stamp
    BY DEF AheadFits
  <2>1. CASE y = t
    <3>1. x \in A
      BY <1>2, <1>4, <2>1
    <3>2. x \in Served
      BY <1>3, <1>9, <2>1, <3>1 DEF Served
    <3> QED BY <1>2, <1>3, <1>4, <1>6, <1>8, <2>1, <3>1, <3>2
  <2>2. CASE y \in Served
    <3>1. x \in entry[y].ahead /\ entry'[y] = entry[y]
      BY <1>5, <1>6, <2>2
    <3>2. x \in Served /\ entry[x].stamp < entry[y].stamp
      BY <2>2, <3>1 DEF AheadFits
    <3> QED BY <1>5, <1>6, <1>8, <3>1, <3>2
  <2> QED BY <1>7, <2>1, <2>2
<1>11. \A y \in Served : entry'[y] = entry[y] /\ t \notin entry[y].ahead
  BY <1>1, <1>5, <1>6 DEF AheadFits
<1>12. BatchIsFront'
  <2>1. batch \subseteq Served
    BY DEF TypeOK
  <2> QED BY <1>1, <1>11, <2>1 DEF BatchIsFront
<1>13. NoOvertaking'
  BY <1>1, <1>7, <1>11 DEF NoOvertaking
<1> QED BY <1>10, <1>12, <1>13

LEMMA OrderStep == QueueInv /\ OrderInv /\ [Next]_vars => OrderInv'
<1> SUFFICES ASSUME QueueInv, OrderInv, [Next]_vars PROVE OrderInv'
  OBVIOUS
<1> USE DEF OrderInv
<1>1. CASE \E t \in Tokens, u \in Users, k \in Concerts, n \in Stamps :
             CreateWaitQueue(t, u, k, n)
  BY <1>1, OrderCreate
<1>2. CASE UNCHANGED <<entry, waiting>> /\ (UNCHANGED <<step, batch>> \/ step' = "idle")
  BY <1>2 DEF AheadFits, BatchIsFront, NoOvertaking, Served, Issued
<1>3. CASE GetWaitQueues
  <2>1. UNCHANGED <<entry, waiting>> /\ batch' = Oldest
    BY <1>3 DEF GetWaitQueues
  <2>2. ASSUME NEW u \in Oldest, NEW x \in entry[u].ahead \cap waiting
        PROVE  x \in Oldest
    <3>1. u \in Served
      BY DEF Oldest, Queue
    <3>2. x \in Queue /\ entry[x].stamp < entry[u].stamp
      BY <3>1 DEF AheadFits, Queue
    <3> QED BY <3>2, OldestIsFront
  <2>3. BatchIsFront'
    BY <2>1, <2>2 DEF BatchIsFront
  <2> QED BY <2>1, <2>3 DEF AheadFits, NoOvertaking, Served, Issued
<1>4. CASE DeWaitQueue
  <2>1. /\ entry' = entry /\ step = "read" /\ step' = "removed"
        /\ waiting' = waiting \ batch
    BY <1>4 DEF DeWaitQueue
  <2>2. Served' = Served
    BY <2>1 DEF Served, Issued
  <2>3. NoOvertaking'
    BY <2>1, <2>2 DEF NoOvertaking, BatchIsFront
  <2> QED BY <2>1, <2>2, <2>3 DEF AheadFits, BatchIsFront
<1> QED BY <1>1, <1>2, <1>3, <1>4, QueueActions

(* Nobody leaves the queue before those who stood before them when they    *)
(* came, for a page of any size and with crashes and failing commands.     *)
THEOREM NoOvertakingAlways == Spec => []NoOvertaking
<1>1. Init => OrderInv
  BY DEF Init, OrderInv, AheadFits, BatchIsFront, NoOvertaking, Served, Issued
<1> QED BY <1>1, OrderStep, InvAlways, PTL DEF Spec, OrderInv

-----------------------------------------------------------------------------
(* How many tokens a tick moves.                                           *)

(* The stamps tell the issued tokens apart: a sorted set has one order.    *)
StampsDiffer == \A x, y \in Issued : entry[x].stamp = entry[y].stamp => x = y

(* However long the queue is and whatever happens, the job never has more  *)
(* than a page of tokens in its hands.                                     *)
PageIsBounded == Cardinality(batch) <= BatchSize

(* A tick that finds tokens takes a full page of them, or all there are.   *)
TicksTakeFullPages ==
  [][step = "idle" /\ step' = "read" =>
       batch' = Queue \/ Cardinality(batch') = BatchSize]_vars

LEMMA StampsStep == QueueInv /\ StampsDiffer /\ [Next]_vars => StampsDiffer'
<1> SUFFICES ASSUME QueueInv, StampsDiffer, [Next]_vars,
                    NEW x \in Issued', NEW y \in Issued', entry'[x].stamp = entry'[y].stamp
             PROVE  x = y
  BY DEF StampsDiffer
<1>1. CASE entry' = entry
  BY <1>1 DEF StampsDiffer, Issued
<1>2. ASSUME NEW t \in Tokens, NEW u \in Users, NEW k \in Concerts, NEW n \in Stamps,
             CreateWaitQueue(t, u, k, n)
      PROVE  x = y
  <2>1. entry'[t].stamp = n /\ \A z \in Issued : entry[z].stamp # n
    BY <1>2 DEF CreateWaitQueue, QueueInv, TypeOK
  <2>2. \A z \in Issued' : z = t \/ (z \in Issued /\ entry'[z] = entry[z])
    BY <1>2 DEF CreateWaitQueue, Issued, QueueInv, TypeOK
  <2> QED BY <2>1, <2>2 DEF StampsDiffer
<1> QED BY <1>1, <1>2, QueueActions DEF GetWaitQueues, DeWaitQueue

(* Who stands later has more tokens before it, so that no two tokens have  *)
(* the same place.                                                         *)
LEMMA LaterHasMoreBefore ==
  ASSUME QueueInv, NEW t \in Queue, NEW u \in Queue, entry[t].stamp < entry[u].stamp
  PROVE  Cardinality(Before(t)) < Cardinality(Before(u))
<1>1. \A y \in Queue : entry[y].stamp \in Int
  BY DEF Queue, Served, Issued, QueueInv, TypeOK, Entry, Stamps
<1>2. Before(t) \subseteq Before(u) /\ t \in Before(u) /\ t \notin Before(t)
  BY <1>1 DEF Before
<1>3. IsFiniteSet(Before(u))
  BY QueueAssumption, FS_Subset DEF Before, Queue, Served, Issued
<1>4. /\ Cardinality(Before(t)) <= Cardinality(Before(u))
      /\ Cardinality(Before(t)) # Cardinality(Before(u))
      /\ Cardinality(Before(t)) \in Nat /\ Cardinality(Before(u)) \in Nat
  BY <1>2, <1>3, FS_Subset, FS_CardinalityType
<1> QED BY <1>4

(* The places of the tokens on a page are different numbers below its      *)
(* size.                                                                   *)
LEMMA OldestFitsPage ==
  ASSUME QueueInv, StampsDiffer
  PROVE  IsFiniteSet(Oldest) /\ Cardinality(Oldest) <= BatchSize
<1> DEFINE place == [t \in Oldest |-> Cardinality(Before(t))]
           Places == 0 .. BatchSize - 1
<1>1. \A t \in Queue : Cardinality(Before(t)) \in Nat
  BY QueueAssumption, FS_Subset, FS_CardinalityType DEF Before, Queue, Served, Issued
<1>2. place \in [Oldest -> Places]
  BY <1>1, QueueAssumption DEF Oldest
<1>3. ASSUME NEW t \in Oldest, NEW u \in Oldest, t # u
      PROVE  place[t] # place[u]
  <2>1. t \in Queue /\ u \in Queue /\ t \in Issued /\ u \in Issued
    BY DEF Oldest, Queue, Served
  <2>2. entry[t].stamp \in Int /\ entry[u].stamp \in Int
    BY <2>1 DEF Issued, QueueInv, TypeOK, Entry, Stamps
  <2>3. entry[t].stamp < entry[u].stamp \/ entry[u].stamp < entry[t].stamp
    BY <1>3, <2>1, <2>2 DEF StampsDiffer
  <2> QED BY <1>1, <2>1, <2>3, LaterHasMoreBefore
<1>4. place \in Injection(Oldest, Places)
  <2> HIDE DEF place
  <2> QED BY <1>2, <1>3, Fun_IsInj
<1>5. IsFiniteSet(Places) /\ Cardinality(Places) = BatchSize
  BY QueueAssumption, FS_Interval
<1>6. IsFiniteSet(Oldest) /\ Cardinality(Oldest) <= Cardinality(Places)
  <2> HIDE DEF place, Places
  <2> QED BY <1>4, <1>5, FS_Injection
<1> QED BY <1>5, <1>6

(* If tokens stay behind, all that stand before the first of them are on   *)
(* the page, and there are enough of these to fill it.                     *)
LEMMA OldestFillsPage ==
  ASSUME QueueInv, StampsDiffer
  PROVE  Oldest = Queue \/ Cardinality(Oldest) = BatchSize
<1> SUFFICES ASSUME Oldest # Queue PROVE Cardinality(Oldest) >= BatchSize
  BY OldestFitsPage, FS_CardinalityType, QueueAssumption
<1> DEFINE Fronts == {Before(x) : x \in Queue \ Oldest}
<1>1. \A y \in Queue : entry[y].stamp \in Nat
  BY DEF Queue, Served, Issued, QueueInv, TypeOK, Entry, Stamps
<1>2. /\ \A y \in Queue : Before(y) \in FiniteSubsetsOf(Tokens)
      /\ Fronts \subseteq FiniteSubsetsOf(Tokens) /\ Fronts # {}
  <2>1. \A y \in Queue : Before(y) \in SUBSET Tokens
    BY DEF Before, Queue, Served, Issued
  <2>2. \A y \in Queue : Before(y) \in FiniteSubsetsOf(Tokens)
    BY <2>1, QueueAssumption, FS_Subset DEF FiniteSubsetsOf
  <2>3. Queue \ Oldest # {}
    BY DEF Oldest
  <2> QED BY <2>2, <2>3
<1>3. PICK F \in Fronts : \A G \in Fronts : <<G, F>> \notin StrictSubsetOrdering(Tokens)
  <2> HIDE DEF Fronts
  <2> QED BY <1>2, FS_StrictSubsetOrderingWellFounded, WFMin
<1>4. PICK x \in Queue \ Oldest : F = Before(x)
  BY <1>3
<1>5. Before(x) \subseteq Oldest
  <2> SUFFICES ASSUME NEW y \in Before(x), y \notin Oldest PROVE FALSE
    OBVIOUS
  <2>1. y \in Queue /\ Before(y) \in Fronts
    BY DEF Before
  <2>2. Before(y) \subseteq Before(x) /\ y \in Before(x) /\ y \notin Before(y)
    BY <1>1, <1>4, <2>1 DEF Before
  <2>3. Before(y) \in SUBSET Tokens /\ Before(x) \in SUBSET Tokens
    BY DEF Before, Queue, Served, Issued
  <2>4. <<Before(y), Before(x)>> \in StrictSubsetOrdering(Tokens)
    <3> HIDE DEF Fronts
    <3> QED BY <2>2, <2>3 DEF StrictSubsetOrdering
  <2> QED BY <1>3, <1>4, <2>1, <2>4
<1>6. Cardinality(Before(x)) <= Cardinality(Oldest)
  BY <1>5, OldestFitsPage, FS_Subset
<1>7. Cardinality(Before(x)) \in Nat /\ Cardinality(Oldest) \in Nat
  BY <1>5, OldestFitsPage, FS_Subset, FS_CardinalityType
<1>8. Cardinality(Before(x)) >= BatchSize
  BY <1>4, <1>7, QueueAssumption DEF Oldest
<1> QED BY <1>6, <1>7, <1>8, QueueAssumption

LEMMA PageStep == QueueInv /\ StampsDiffer /\ PageIsBounded /\ [Next]_vars => PageIsBounded'
<1> SUFFICES ASSUME QueueInv, StampsDiffer, PageIsBounded, [Next]_vars PROVE PageIsBounded'
  OBVIOUS
<1>1. CASE GetWaitQueues
  BY <1>1, OldestFitsPage DEF GetWaitQueues, PageIsBounded
<1>2. CASE batch' = batch
  BY <1>2 DEF PageIsBounded
<1>3. CASE batch' = {}
  BY <1>3, FS_EmptySet, QueueAssumption DEF PageIsBounded
<1> QED BY <1>1, <1>2, <1>3, QueueActions DEF CreateWaitQueue, DeWaitQueue

LEMMA StampsAlways == Spec => [](QueueInv /\ StampsDiffer)
<1>1. Init => StampsDiffer
  BY DEF Init, StampsDiffer, Issued
<1> QED BY <1>1, StampsStep, InvAlways, PTL DEF Spec

(* A tick activates no more than BatchSize tokens, for a queue of any      *)
(* length and with crashes and failing commands: the page is made of       *)
(* places, and places are told apart by stamps no two tokens share.        *)
THEOREM PageIsBoundedAlways == Spec => []PageIsBounded
<1>1. Init => PageIsBounded
  BY FS_EmptySet, QueueAssumption DEF Init, PageIsBounded
<1> QED BY <1>1, PageStep, StampsAlways, PTL DEF Spec

(* A tick never takes less than it may: it reads the whole queue or a full *)
(* page, so the queue shrinks as fast as the service allows.               *)
THEOREM TicksTakeFullPagesAlways == Spec => TicksTakeFullPages
<1>1. QueueInv /\ StampsDiffer /\ [Next]_vars =>
        [step = "idle" /\ step' = "read" =>
           batch' = Queue \/ Cardinality(batch') = BatchSize]_vars
  <2> SUFFICES ASSUME QueueInv, StampsDiffer, [Next]_vars, step = "idle", step' = "read"
               PROVE  batch' = Queue \/ Cardinality(batch') = BatchSize
    OBVIOUS
  <2>1. GetWaitQueues
    BY QueueActions DEF CreateWaitQueue, DeWaitQueue
  <2> QED BY <2>1, OldestFillsPage DEF GetWaitQueues
<1> QED BY <1>1, StampsAlways, PTL DEF Spec, TicksTakeFullPages

-----------------------------------------------------------------------------
(* What a status request reports.                                          *)

(* Who asks for the rank found the token in the queue; who got -1 did not. *)
RankFollowsInfo ==
  \A q \in Polls :
    /\ poll[q].pc = "ranking" => poll[q].token \in Served
    /\ poll[q].pc = "waiting" /\ poll[q].number = -1 => poll[q].token \in Served \ waiting

(* An issued token keeps its concert.                                      *)
LEMMA ServedStays ==
  ASSUME QueueInv, [Next]_vars, NEW t \in Served
  PROVE  t \in Served' /\ (t \in waiting' => t \in waiting)
<1>1. t \in Tokens /\ entry[t] # None /\ entry[t].concert = 1
  BY DEF Served, Issued
<1>2. entry'[t] = entry[t] /\ (t \in waiting' => t \in waiting)
  <2>1. CASE \E x \in Tokens, u \in Users, k \in Concerts, n \in Stamps :
               CreateWaitQueue(x, u, k, n)
    BY <1>1, <2>1 DEF CreateWaitQueue, QueueInv, TypeOK
  <2> QED BY <2>1, QueueActions DEF GetWaitQueues, DeWaitQueue
<1> QED BY <1>1, <1>2 DEF Served, Issued

LEMMA RankIsPositive ==
  ASSUME QueueInv, NEW t \in Queue
  PROVE  Rank(t) # -1
<1>1. t \in Tokens /\ Before(t) \subseteq Tokens
  BY DEF Before, Queue, Served, Issued
<1>2. Cardinality(Before(t)) \in Nat
  BY <1>1, QueueAssumption, FS_Subset, FS_CardinalityType
<1> QED BY <1>2 DEF Rank

LEMMA RankStep == QueueInv /\ RankFollowsInfo /\ [Next]_vars => RankFollowsInfo'
<1> SUFFICES ASSUME QueueInv, RankFollowsInfo, [Next]_vars, NEW q \in Polls
             PROVE  /\ poll'[q].pc = "ranking" => poll'[q].token \in Served'
                    /\ poll'[q].pc = "waiting" /\ poll'[q].number = -1 =>
                         poll'[q].token \in Served' \ waiting'
  BY DEF RankFollowsInfo
<1>1. CASE poll'[q] = poll[q]
  BY <1>1, ServedStays DEF RankFollowsInfo
<1>2. ASSUME NEW x \in Polls, NEW t \in Issued, GetInfo(x, t), poll'[q] # poll[q]
      PROVE  /\ poll'[q].pc \in {"ranking", "checking"}
             /\ poll'[q].pc = "ranking" => poll'[q].token \in Served
  <2>1. q = x
    BY <1>2 DEF GetInfo, Answer, QueueInv, TypeOK
  <2>2. poll'[q] = [token |-> t, pc |-> IF t \in Queue THEN "ranking" ELSE "checking",
                    number |-> 0]
    BY <1>2, <2>1 DEF GetInfo, Answer, QueueInv, TypeOK
  <2> QED BY <2>2 DEF Queue
<1>3. ASSUME NEW x \in Polls, GetRank(x), poll'[q] # poll[q]
      PROVE  /\ poll'[q].pc = "waiting"
             /\ poll'[q].number = -1 => poll'[q].token \in Served \ waiting
  <2>1. q = x /\ poll[q].pc = "ranking"
    BY <1>3 DEF GetRank, Answer, QueueInv, TypeOK
  <2>2. poll'[q] = [token |-> poll[q].token, pc |-> "waiting",
                    number |-> Rank(poll[q].token)]
    BY <1>3, <2>1 DEF GetRank, Answer, QueueInv, TypeOK
  <2>3. poll[q].token \in Served
    BY <2>1 DEF RankFollowsInfo
  <2> QED BY <2>2, <2>3, RankIsPositive DEF Queue
<1>4. ASSUME NEW x \in Polls, CheckActive(x), poll'[q] # poll[q]
      PROVE  poll'[q].pc \in {"active", "unknown"}
  <2>1. q = x
    BY <1>4 DEF CheckActive, Answer, QueueInv, TypeOK
  <2> QED BY <1>4, <2>1 DEF CheckActive, Answer, QueueInv, TypeOK
<1>5. ASSUME Crash, poll'[q] # poll[q]
      PROVE  poll'[q].pc = "idle"
  BY <1>5 DEF Crash
<1>6. CASE poll'[q] # poll[q]
  <2>1. poll' # poll
    BY <1>6
  <2>2. \/ Crash
        \/ \E x \in Polls : (\E t \in Issued : GetInfo(x, t)) \/ GetRank(x) \/ CheckActive(x)
    BY <2>1 DEF Next, vars, clientVars, CreateWaitQueue, GetWaitQueues, DeWaitQueue,
         InActiveQueues, BatchFails, FindActiveQueue, ReInActiveQueueWithTTL,
         ExpireActiveQueue, TtlFires
  <2>3. /\ poll'[q].pc = "ranking" => poll'[q].token \in Served
        /\ poll'[q].pc = "waiting" /\ poll'[q].number = -1 =>
             poll'[q].token \in Served \ waiting
    BY <1>2, <1>3, <1>4, <1>5, <1>6, <2>2
  <2> QED BY <2>3, ServedStays
<1> QED BY <1>1, <1>6

(* The number -1 is told to nobody who still waits.                        *)
THEOREM NoRankHasLeftAlways == Spec => []NoRankHasLeft
<1>1. Init => RankFollowsInfo
  <2> SUFFICES ASSUME Init, NEW q \in Polls PROVE poll[q].pc = "idle"
    BY DEF RankFollowsInfo
  <2>1. poll[q] = [token |-> None, pc |-> "idle", number |-> 0]
    BY DEF Init
  <2> QED BY <2>1
<1>2. QueueInv /\ TokenIsSomewhere /\ RankFollowsInfo => NoRankHasLeft
  BY DEF RankFollowsInfo, NoRankHasLeft, TokenIsSomewhere, Served
<1> QED BY <1>1, <1>2, RankStep, InvAlways, PTL DEF Spec

-----------------------------------------------------------------------------
(* Refinement of QueueLifecycle.                                           *)

(* A token in the hands of a guard has a key, or ended after it had one.   *)
HoldersEndedOrActive ==
  \A g \in Accesses : access[g].pc \in {"got", "passed"} =>
    active[access[g].token] # "none" \/ access[g].token \in used \cup lapsed

LEMMA HoldersStep == QueueInv /\ HoldersEndedOrActive /\ [Next]_vars => HoldersEndedOrActive'
<1> SUFFICES ASSUME QueueInv, HoldersEndedOrActive, [Next]_vars, NEW g \in Accesses,
                    access'[g].pc \in {"got", "passed"}
             PROVE  active'[access'[g].token] # "none"
                    \/ access'[g].token \in used' \cup lapsed'
  BY DEF HoldersEndedOrActive
<1> USE DEF QueueInv
<1> DEFINE Held(t) == active[t] # "none" \/ t \in used \cup lapsed
<1>1. \A t \in Tokens : Held(t) =>
        (active'[t] # "none" \/ t \in used' \cup lapsed')
  BY DEF Next, vars, clientVars, CreateWaitQueue, GetWaitQueues, DeWaitQueue,
         InActiveQueues, BatchFails, FindActiveQueue, ReInActiveQueueWithTTL,
         ExpireActiveQueue, TtlFires, GetInfo, GetRank, CheckActive, Answer, Crash, TypeOK
<1>2. access[g].pc \in {"got", "passed"} =>
        access[g].token \in Tokens /\ Held(access[g].token)
  BY DEF HoldersEndedOrActive, HoldersWereActive, Served, Issued
<1>3. CASE access'[g] = access[g]
  BY <1>1, <1>2, <1>3
<1>4. ASSUME NEW h \in Accesses, NEW t \in Issued, FindActiveQueue(h, t),
             access'[g] # access[g]
      PROVE  access'[g].token \in Tokens /\ Held(access'[g].token)
  <2>1. g = h /\ access'[g].token = t /\ (access'[g].pc = "refused" \/ active[t] # "none")
    BY <1>4 DEF FindActiveQueue, SetAccess, TypeOK
  <2> QED BY <2>1 DEF Issued
<1>5. ASSUME NEW h \in Accesses, ReInActiveQueueWithTTL(h), access'[g] # access[g]
      PROVE  access'[g].token \in Tokens /\ Held(access'[g].token)
  <2>1. g = h /\ access'[g].token = access[g].token /\ access[g].pc = "got"
    BY <1>5 DEF ReInActiveQueueWithTTL, SetAccess, TypeOK
  <2> QED BY <1>2, <2>1
<1>6. ASSUME Crash, access'[g] # access[g]
      PROVE  FALSE
  <2>1. access[g].pc = "got" /\ access'[g] = [access[g] EXCEPT !.pc = "refused"]
    BY <1>6 DEF Crash
  <2> QED BY <2>1 DEF TypeOK, Access
<1>7. CASE access'[g] # access[g]
  <2>1. access' # access
    BY <1>7
  <2>2. \/ Crash
        \/ \E h \in Accesses : (\E t \in Issued : FindActiveQueue(h, t))
                               \/ ReInActiveQueueWithTTL(h)
    BY <2>1 DEF Next, vars, clientVars, CreateWaitQueue, GetWaitQueues, DeWaitQueue,
         InActiveQueues, BatchFails, ExpireActiveQueue, TtlFires, GetInfo, GetRank,
         CheckActive, Answer
  <2>3. access'[g].token \in Tokens /\ Held(access'[g].token)
    BY <1>4, <1>5, <1>6, <1>7, <2>2
  <2> QED BY <1>1, <2>3
<1> QED BY <1>3, <1>7

-----------------------------------------------------------------------------
(* How a step of the lifecycle is recognised.                              *)
LEMMA MoveOf ==
  ASSUME NEW T \in SUBSET Tokens, NEW a, NEW b,
         \A t \in T : StatusOf(t) = a /\ StatusOf(t)' = b,
         \A t \in Tokens \ T : StatusOf(t)' = StatusOf(t)
  PROVE  Lifecycle!Move(T, a, b)
BY DEF Lifecycle!Move

LEMMA StutterOf ==
  ASSUME \A t \in Tokens : StatusOf(t)' = StatusOf(t)
  PROVE  UNCHANGED [t \in Tokens |-> StatusOf(t)]
OBVIOUS

(* What the job holds once it has left the queue is what is moving.        *)
LEMMA MovingIsBatch ==
  ASSUME QueueInv
  PROVE  Lifecycle!Moving = batch \ waiting
<1> USE DEF QueueInv
<1>1. \A t \in Tokens : StatusOf(t) = "moving" <=> t \in batch \ waiting
  BY DEF StatusOf, NotYetActive, TypeOK, Served
<1>2. batch \subseteq Tokens
  BY DEF TypeOK, Served, Issued
<1> QED BY <1>1, <1>2 DEF Lifecycle!Moving

(* The batch is dropped by a failing command or by a crash.                *)
LEMMA DropIsLose ==
  ASSUME QueueInv, UNCHANGED <<entry, waiting, active, used, lapsed>>, batch' = {}
  PROVE  Lifecycle!Lose
<1> USE DEF QueueInv
<1>1. Issued' = Issued
  BY DEF Issued
<1>2. batch \ waiting \in SUBSET Tokens
  BY DEF TypeOK, Served, Issued
<1>3. \A t \in batch \ waiting : StatusOf(t) = "moving" /\ StatusOf(t)' = "lost"
  BY <1>1 DEF StatusOf, NotYetActive, TypeOK, Served
<1>4. \A t \in Tokens \ (batch \ waiting) : StatusOf(t)' = StatusOf(t)
  BY <1>1 DEF StatusOf
<1> HIDE DEF QueueInv
<1>5. Lifecycle!Move(batch \ waiting, "moving", "lost")
  BY <1>2, <1>3, <1>4, MoveOf
<1> QED BY <1>5, MovingIsBatch DEF Lifecycle!Lose

LEMMA JobRefines ==
  ASSUME QueueInv, GetWaitQueues \/ DeWaitQueue \/ InActiveQueues
  PROVE  Lifecycle!Next \/ UNCHANGED [t \in Tokens |-> StatusOf(t)]
<1> USE DEF QueueInv
<1>1. /\ entry' = entry /\ used' = used /\ lapsed' = lapsed
  BY DEF GetWaitQueues, DeWaitQueue, InActiveQueues
<1>2. Issued' = Issued /\ batch \in SUBSET Tokens /\ batch \subseteq Issued
  BY <1>1 DEF Issued, TypeOK, Served
<1>3. CASE GetWaitQueues
  <2>1. batch = {} /\ batch' \subseteq waiting /\ waiting' = waiting /\ active' = active
    BY <1>3 DEF GetWaitQueues, BatchFollowsStep, Oldest, Queue
  <2>2. \A t \in Tokens : StatusOf(t)' = StatusOf(t)
    BY <1>1, <1>2, <2>1 DEF StatusOf
  <2> QED BY <2>2, StutterOf
<1>4. CASE DeWaitQueue
  <2>1. /\ batch \subseteq waiting /\ batch' = batch /\ waiting' = waiting \ batch
        /\ active' = active
    BY <1>4 DEF DeWaitQueue, BatchFollowsStep
  <2>2. \A t \in batch : StatusOf(t) = "waiting" /\ StatusOf(t)' = "moving"
    BY <1>1, <1>2, <2>1 DEF StatusOf, NotYetActive
  <2>3. \A t \in Tokens \ batch : StatusOf(t)' = StatusOf(t)
    BY <1>1, <1>2, <2>1 DEF StatusOf
  <2>4. Lifecycle!Moving = {}
    BY <2>1, MovingIsBatch
  <2>5. Lifecycle!Move(batch, "waiting", "moving")
    BY <1>2, <2>2, <2>3, MoveOf
  <2> QED BY <1>2, <2>4, <2>5 DEF Lifecycle!Next, Lifecycle!Take
<1>5. CASE InActiveQueues
  <2>1. /\ batch \cap waiting = {} /\ batch' = {} /\ waiting' = waiting
        /\ active' = [t \in Tokens |-> IF t \in batch THEN "fresh" ELSE active[t]]
    BY <1>5 DEF InActiveQueues, BatchFollowsStep
  <2>2. \A t \in batch : StatusOf(t) = "moving" /\ StatusOf(t)' = "active"
    BY <1>1, <1>2, <2>1 DEF StatusOf, NotYetActive
  <2>3. \A t \in Tokens \ batch : StatusOf(t)' = StatusOf(t)
    BY <1>1, <1>2, <2>1 DEF StatusOf
  <2>4. Lifecycle!Moving = batch
    BY <2>1, MovingIsBatch
  <2>5. Lifecycle!Move(batch, "moving", "active")
    BY <1>2, <2>2, <2>3, MoveOf
  <2> QED BY <2>4, <2>5 DEF Lifecycle!Next, Lifecycle!Activate
<1> QED BY <1>3, <1>4, <1>5

LEMMA GuardRefines ==
  ASSUME QueueInv, HoldersEndedOrActive, NEW g \in Accesses,
         \/ \E t \in Issued : FindActiveQueue(g, t)
         \/ ReInActiveQueueWithTTL(g) \/ ExpireActiveQueue(g)
  PROVE  Lifecycle!Next \/ UNCHANGED [t \in Tokens |-> StatusOf(t)]
<1> USE DEF QueueInv
<1>1. /\ entry' = entry /\ waiting' = waiting /\ batch' = batch /\ lapsed' = lapsed
  BY DEF FindActiveQueue, ReInActiveQueueWithTTL, ExpireActiveQueue
<1>2. Issued' = Issued /\ Served \subseteq Issued /\ Issued \subseteq Tokens
  BY <1>1 DEF Issued, Served
<1>3. CASE \E t \in Issued : FindActiveQueue(g, t)
  <2>1. active' = active /\ used' = used
    BY <1>3 DEF FindActiveQueue
  <2>2. \A t \in Tokens : StatusOf(t)' = StatusOf(t)
    BY <1>1, <1>2, <2>1 DEF StatusOf
  <2> QED BY <2>2, StutterOf
<1>4. CASE ReInActiveQueueWithTTL(g)
  <2>0. PICK t \in Tokens : t = access[g].token
    BY <1>2, <1>4 DEF ReInActiveQueueWithTTL, HoldersWereActive
  <2>1. /\ t \in Served \ (waiting \cup batch)
        /\ active[t] # "none" \/ t \in used \cup lapsed
    BY <2>0, <1>4 DEF ReInActiveQueueWithTTL, HoldersWereActive, HoldersEndedOrActive
  <2>2. active' = [active EXCEPT ![t] = "accessed"] /\ used' = used
    BY <2>0, <1>4 DEF ReInActiveQueueWithTTL
  <2>3. \A x \in Tokens : active'[x] = IF x = t THEN "accessed" ELSE active[x]
    BY <2>2 DEF TypeOK
  <2>4. \A x \in Tokens \ {t} : StatusOf(x)' = StatusOf(x)
    BY <1>1, <1>2, <2>2, <2>3 DEF StatusOf
  <2>5. StatusOf(t)' = "active"
    BY <1>1, <1>2, <2>1, <2>2, <2>3 DEF StatusOf
  <2>6. CASE active[t] # "none"
    <3>1. StatusOf(t) = "active"
      BY <1>2, <2>1, <2>6 DEF StatusOf
    <3> QED BY <2>4, <2>5, <3>1, StutterOf
  <2>7. CASE active[t] = "none"
    <3>1. StatusOf(t) = "ended"
      BY <1>2, <2>1, <2>7 DEF StatusOf
    <3>2. Lifecycle!Move({t}, "ended", "active")
      BY <2>1, <2>4, <2>5, <3>1, MoveOf
    <3> QED BY <2>1, <3>2 DEF Lifecycle!Next, Lifecycle!Revive
  <2> QED BY <2>6, <2>7
<1>5. CASE ExpireActiveQueue(g)
  <2>0. PICK t \in Tokens : t = access[g].token
    BY <1>2, <1>5 DEF ExpireActiveQueue, HoldersWereActive
  <2>1. /\ t \in Served \ (waiting \cup batch)
        /\ active[t] # "none" \/ t \in used \cup lapsed
    BY <2>0, <1>5 DEF ExpireActiveQueue, HoldersWereActive, HoldersEndedOrActive
  <2>2. active' = [active EXCEPT ![t] = "none"] /\ used' = used \cup {t}
    BY <2>0, <1>5 DEF ExpireActiveQueue
  <2>3. \A x \in Tokens : active'[x] = IF x = t THEN "none" ELSE active[x]
    BY <2>2 DEF TypeOK
  <2>4. \A x \in Tokens \ {t} : StatusOf(x)' = StatusOf(x)
    BY <1>1, <1>2, <2>2, <2>3 DEF StatusOf
  <2>5. StatusOf(t)' = "ended"
    BY <1>1, <1>2, <2>1, <2>2, <2>3 DEF StatusOf
  <2>6. CASE active[t] # "none"
    <3>1. StatusOf(t) = "active"
      BY <1>2, <2>1, <2>6 DEF StatusOf
    <3>2. Lifecycle!Move({t}, "active", "ended")
      BY <2>1, <2>4, <2>5, <3>1, MoveOf
    <3> QED BY <2>1, <3>2 DEF Lifecycle!Next, Lifecycle!End
  <2>7. CASE active[t] = "none"
    <3>1. StatusOf(t) = "ended"
      BY <1>2, <2>1, <2>7 DEF StatusOf
    <3> QED BY <2>4, <2>5, <3>1, StutterOf
  <2> QED BY <2>6, <2>7
<1> QED BY <1>3, <1>4, <1>5

LEMMA CreateRefines ==
  ASSUME QueueInv, NEW t \in Tokens, NEW u \in Users, NEW k \in Concerts, NEW n \in Stamps,
         CreateWaitQueue(t, u, k, n)
  PROVE  Lifecycle!Next
<1>1. /\ waiting' = waiting \cup {t} /\ active' = active /\ batch' = batch
      /\ used' = used /\ lapsed' = lapsed /\ t \notin Issued
      /\ \A x \in Tokens \ {t} : entry'[x] = entry[x]
  BY DEF CreateWaitQueue, Issued, QueueInv, TypeOK
<1>2. waiting' \subseteq Issued'
  BY CreateStep DEF QueueInv, TypeOK
<1>3. \A x \in Tokens \ {t} : StatusOf(x)' = StatusOf(x)
  BY <1>1 DEF StatusOf, Issued
<1>4. StatusOf(t) = "none" /\ StatusOf(t)' = "waiting"
  BY <1>1, <1>2 DEF StatusOf
<1>5. Lifecycle!Move({t}, "none", "waiting")
  BY <1>3, <1>4, MoveOf
<1> QED BY <1>5 DEF Lifecycle!Next, Lifecycle!Issue

LEMMA TtlRefines ==
  ASSUME QueueInv, NEW t \in Tokens, TtlFires(t)
  PROVE  Lifecycle!Next
<1> USE DEF QueueInv
<1>1. /\ entry' = entry /\ waiting' = waiting /\ batch' = batch /\ used' = used
      /\ active[t] = "accessed" /\ lapsed' = lapsed \cup {t}
      /\ \A x \in Tokens : active'[x] = IF x = t THEN "none" ELSE active[x]
  BY DEF TtlFires, TypeOK
<1>2. Issued' = Issued /\ t \in Issued /\ t \notin waiting \cup batch
  BY <1>1 DEF Issued, KeysAreServed, Served, NotYetActive
<1>3. \A x \in Tokens \ {t} : StatusOf(x)' = StatusOf(x)
  BY <1>1, <1>2 DEF StatusOf
<1>4. StatusOf(t) = "active" /\ StatusOf(t)' = "ended"
  BY <1>1, <1>2 DEF StatusOf
<1>5. Lifecycle!Move({t}, "active", "ended")
  BY <1>3, <1>4, MoveOf
<1> QED BY <1>5 DEF Lifecycle!Next, Lifecycle!End

LEMMA StepRefines ==
  QueueInv /\ HoldersEndedOrActive /\ [Next]_vars =>
    [Lifecycle!Next]_([t \in Tokens |-> StatusOf(t)])
<1> SUFFICES ASSUME QueueInv, HoldersEndedOrActive, [Next]_vars
             PROVE  Lifecycle!Next \/ UNCHANGED [t \in Tokens |-> StatusOf(t)]
  OBVIOUS
<1>1. CASE BatchFails \/ Crash
  <2>1. UNCHANGED <<entry, waiting, active, used, lapsed>> /\ batch' = {}
    BY <1>1 DEF BatchFails, Crash
  <2> QED BY <2>1, DropIsLose DEF Lifecycle!Next
<1>2. CASE UNCHANGED <<entry, waiting, active, batch, used, lapsed>>
  <2>1. \A t \in Tokens : StatusOf(t)' = StatusOf(t)
    BY <1>2 DEF StatusOf, Issued
  <2> QED BY <2>1, StutterOf
<1>3. ASSUME NEW q \in Polls, (\E t \in Issued : GetInfo(q, t)) \/ GetRank(q) \/ CheckActive(q)
      PROVE  UNCHANGED <<entry, waiting, active, batch, used, lapsed>>
  BY <1>3 DEF GetInfo, GetRank, CheckActive, Answer
<1>4. CASE UNCHANGED vars
  BY <1>2, <1>4 DEF vars
<1> QED BY <1>1, <1>2, <1>3, <1>4, CreateRefines, JobRefines, GuardRefines, TtlRefines DEF Next

(* The job, the guards, the consumer, the TTL and the faults move tokens   *)
(* as QueueLifecycle says: none is activated twice, none waits again, and  *)
(* what a failure loses stays lost.                                        *)
THEOREM FollowsLifecycleAlways == Spec => FollowsLifecycle
<1>1. Init => HoldersEndedOrActive
  <2> SUFFICES ASSUME Init, NEW g \in Accesses PROVE access[g].pc = "idle"
    BY DEF HoldersEndedOrActive
  <2>1. access[g] = [token |-> None, pc |-> "idle"]
    BY DEF Init
  <2> QED BY <2>1
<1>2. Init => Lifecycle!Init
  BY DEF Init, Lifecycle!Init, StatusOf, Issued
<1> QED
  BY <1>1, <1>2, HoldersStep, StepRefines, InvAlways, PTL
     DEF Spec, FollowsLifecycle, Lifecycle!Spec
=============================================================================
