------------------------- MODULE OutboxRelay_proofs -------------------------
(***************************************************************************)
(* Proofs about OutboxRelay for any ids, batch size and number of faults.  *)
(***************************************************************************)
EXTENDS OutboxRelay, FiniteSetTheorems, TLAPS

(* A send that is about to mark its row has tried to send it.              *)
ProducedWasTried == \A t \in sends : t.pc = "produced" => t.row \in tried

LEMMA SendStart ==
  ASSUME NEW r \in Rows, NEW by \in Starters, NEW pc \in {"scheduled", "producing", "produced"}
  PROVE  /\ Send(r, by, pc).row = r /\ Send(r, by, pc).by = by /\ Send(r, by, pc).pc = pc
         /\ Send(r, by, pc) \in [row : Rows, by : Starters,
                                 pc : {"scheduled", "producing", "produced"}]
BY DEF Send

(* Whoever waits for the other calls, each keeps its row and its stage.    *)
LEMMA RejectedKeeps ==
  ASSUME TypeOK, NEW by \in Starters, NEW others \in SUBSET sends, Rejected(by, others)
  PROVE  /\ job' \in [Jobs -> {"waiting", "running"}]
         /\ sends' \subseteq [row : Rows, by : Starters,
                             pc : {"scheduled", "producing", "produced"}]
         /\ \A t \in sends' : \E x \in others : t.row = x.row /\ t.pc = x.pc
         /\ \A x \in others : \E t \in sends' : t.row = x.row /\ t.pc = x.pc
<1> DEFINE moved == {Send(t.row, "nobody", t.pc) : t \in {x \in others : x.by = by}}
<1>1. \A x \in others :
        /\ x \in [row : Rows, by : Starters, pc : {"scheduled", "producing", "produced"}]
        /\ Send(x.row, "nobody", x.pc) \in [row : Rows, by : Starters,
                                            pc : {"scheduled", "producing", "produced"}]
        /\ Send(x.row, "nobody", x.pc).row = x.row /\ Send(x.row, "nobody", x.pc).pc = x.pc
  BY DEF TypeOK, Send, Starters
<1>2. CASE by \in Jobs
  <2>1. sends' = {t \in others : t.by # by} \cup moved
    BY <1>2 DEF Rejected
  <2>2. job' \in [Jobs -> {"waiting", "running"}]
    BY <1>2 DEF Rejected, TypeOK
  <2> QED BY <1>1, <2>1, <2>2
<1>3. CASE by \notin Jobs
  BY <1>1, <1>3 DEF Rejected, TypeOK
<1> QED BY <1>2, <1>3

LEMMA TypeInit == Init => TypeOK
BY RelayAssumption DEF Init, TypeOK

LEMMA TypeStep == TypeOK /\ [Next]_vars => TypeOK'
<1> SUFFICES ASSUME TypeOK, [Next]_vars PROVE TypeOK'
  OBVIOUS
<1> USE RelayAssumption DEF TypeOK
<1>1. ASSUME NEW r \in Written, CreateOutbox(r) PROVE TypeOK'
  <2>1. r \in Rows /\ "handler" \in Starters
    BY DEF Rows, Tables, Ids, Starters
  <2> QED BY <1>1, <2>1, SendStart DEF CreateOutbox
<1>2. ASSUME NEW r \in Rows, NEW by \in Starters, GetOutbox(r, by) PROVE TypeOK'
  <2>1. CASE row[r] = "unsent"
    BY <1>2, <2>1, SendStart DEF GetOutbox
  <2>2. CASE row[r] # "unsent"
    <3>1. Rejected(by, sends \ {Send(r, by, "scheduled")})
      BY <1>2, <2>2 DEF GetOutbox
    <3> QED BY <1>2, <3>1, RejectedKeeps DEF GetOutbox
  <2> QED BY <2>1, <2>2
<1>3. ASSUME NEW r \in Rows, NEW by \in Starters, Produce(r, by) PROVE TypeOK'
  <2>1. sends' \subseteq sends \cup {Send(r, by, "produced")}
    BY <1>3 DEF Produce
  <2>2. topic' \subseteq Rows /\ tried' \subseteq Rows
    BY <1>3 DEF Produce
  <2> QED BY <1>3, <2>1, <2>2, SendStart DEF Produce
<1>4. ASSUME NEW r \in Rows, NEW by \in Starters, MarkSent(r, by) PROVE TypeOK'
  BY <1>4 DEF MarkSent
<1>5. ASSUME NEW r \in Rows, NEW by \in Starters, StatementFails(r, by) PROVE TypeOK'
  <2>1. PICK pc \in {"scheduled", "produced"} : Rejected(by, sends \ {Send(r, by, pc)})
    BY <1>5 DEF StatementFails
  <2> QED BY <1>5, <2>1, RejectedKeeps DEF StatementFails
<1>6. ASSUME NEW j \in Jobs, Tick(j) PROVE TypeOK'
  <2>1. GetOutboxes(TableOf(j)) \subseteq Ids /\ j \in Starters
    BY DEF GetOutboxes, Starters
  <2>2. \A i \in Ids : <<"reservation", i>> \in Rows
    BY DEF Rows, Tables
  <2>3. \A i \in GetOutboxes(TableOf(j)) :
          Send(<<"reservation", i>>, j, "scheduled")
            \in [row : Rows, by : Starters, pc : {"scheduled", "producing", "produced"}]
    BY <2>1, <2>2, SendStart
  <2>4. sends' \subseteq [row : Rows, by : Starters,
                          pc : {"scheduled", "producing", "produced"}]
    <3>1. sends' = sends \cup {Send(<<"reservation", i>>, j, "scheduled") :
                                 i \in GetOutboxes(TableOf(j))}
      BY <1>6 DEF Tick
    <3> HIDE DEF TypeOK
    <3>2. sends \subseteq [row : Rows, by : Starters,
                          pc : {"scheduled", "producing", "produced"}]
      BY DEF TypeOK
    <3> QED BY <2>3, <3>1, <3>2
  <2>5. job' \in [Jobs -> {"waiting", "running"}]
    BY <1>6 DEF Tick
  <2> QED BY <1>6, <2>4, <2>5 DEF Tick
<1>7. ASSUME NEW j \in Jobs, JobDone(j) PROVE TypeOK'
  BY <1>7 DEF JobDone
<1>8. CASE Crash
  BY <1>8 DEF Crash
<1>9. CASE UNCHANGED vars
  BY <1>9 DEF vars
<1> QED BY <1>1, <1>2, <1>3, <1>4, <1>5, <1>6, <1>7, <1>8, <1>9 DEF Next, SendStep

(* Rows, sends, jobs, messages and faults stay well typed.                 *)
THEOREM TypeCorrect == Spec => []TypeOK
BY TypeInit, TypeStep, PTL DEF Spec

-----------------------------------------------------------------------------
(* Where a send comes from: from a send of the same row at the same stage, *)
(* from the stage before it, or from somebody who starts it.               *)
LEMMA SendsComeFrom ==
  ASSUME TypeOK, [Next]_vars, NEW t \in sends'
  PROVE  \/ \E x \in sends : t.row = x.row /\ t.pc = x.pc
         \/ /\ t.pc = "scheduled"
            /\ \/ row[t.row] = "none"
               \/ \E j \in Jobs : \E i \in GetOutboxes(TableOf(j)) : t.row = <<"reservation", i>>
         \/ /\ t.pc = "producing" /\ row[t.row] = "unsent"
            /\ \E x \in sends : t.row = x.row
         \/ /\ t.pc = "produced" /\ t.row \in tried'
            /\ \E x \in sends : t.row = x.row /\ x.pc = "producing"
<1> DEFINE From ==
      \/ \E x \in sends : t.row = x.row /\ t.pc = x.pc
      \/ /\ t.pc = "scheduled"
         /\ \/ row[t.row] = "none"
            \/ \E j \in Jobs : \E i \in GetOutboxes(TableOf(j)) : t.row = <<"reservation", i>>
      \/ /\ t.pc = "producing" /\ row[t.row] = "unsent"
         /\ \E x \in sends : t.row = x.row
      \/ /\ t.pc = "produced" /\ t.row \in tried'
         /\ \E x \in sends : t.row = x.row /\ x.pc = "producing"
<1> SUFFICES From
  OBVIOUS
<1>1. CASE t \in sends
  BY <1>1
<1>2. ASSUME NEW r \in Written, CreateOutbox(r), t \notin sends PROVE From
  <2>1. t = Send(r, "handler", "scheduled")
    BY <1>2 DEF CreateOutbox
  <2> QED BY <1>2, <2>1 DEF CreateOutbox, Send
<1>3. ASSUME NEW r \in Rows, NEW by \in Starters, GetOutbox(r, by), t \notin sends PROVE From
  <2>1. CASE row[r] = "unsent"
    <3>1. t = Send(r, by, "producing") /\ Send(r, by, "scheduled") \in sends
      BY <1>3, <2>1 DEF GetOutbox
    <3> QED BY <2>1, <3>1 DEF Send
  <2>2. CASE row[r] # "unsent"
    <3>1. Rejected(by, sends \ {Send(r, by, "scheduled")})
      BY <1>3, <2>2 DEF GetOutbox
    <3> QED BY <3>1, RejectedKeeps
  <2> QED BY <2>1, <2>2
<1>4. ASSUME NEW r \in Rows, NEW by \in Starters, Produce(r, by), t \notin sends PROVE From
  <2>1. t = Send(r, by, "produced") /\ Send(r, by, "producing") \in sends /\ r \in tried'
    BY <1>4 DEF Produce
  <2> QED BY <2>1 DEF Send
<1>5. ASSUME NEW r \in Rows, NEW by \in Starters, MarkSent(r, by) PROVE From
  BY <1>1, <1>5 DEF MarkSent
<1>6. ASSUME NEW r \in Rows, NEW by \in Starters, StatementFails(r, by) PROVE From
  <2>1. PICK pc \in {"scheduled", "produced"} : Rejected(by, sends \ {Send(r, by, pc)})
    BY <1>6 DEF StatementFails
  <2> QED BY <2>1, RejectedKeeps
<1>7. ASSUME NEW j \in Jobs, Tick(j), t \notin sends PROVE From
  <2>1. PICK i \in GetOutboxes(TableOf(j)) : t = Send(<<"reservation", i>>, j, "scheduled")
    BY <1>7 DEF Tick
  <2>2. t.pc = "scheduled" /\ t.row = <<"reservation", i>>
    BY <2>1 DEF Send
  <2> QED BY <2>2
<1>8. CASE Crash \/ (\E j \in Jobs : JobDone(j)) \/ UNCHANGED vars
  BY <1>1, <1>8 DEF Crash, JobDone, vars
<1> QED BY <1>1, <1>2, <1>3, <1>4, <1>5, <1>6, <1>7, <1>8 DEF Next, SendStep

(* Rows come and are marked; none goes away.                               *)
LEMMA RowsMove ==
  ASSUME TypeOK, [Next]_vars, NEW q \in Rows
  PROVE  \/ row'[q] = row[q]
         \/ row[q] = "none" /\ row'[q] = "unsent"
         \/ /\ row'[q] = "sent"
            /\ \E by \in Starters : MarkSent(q, by) /\ Send(q, by, "produced") \in sends
<1> USE DEF TypeOK
<1>1. ASSUME NEW r \in Rows, NEW by \in Starters, MarkSent(r, by), q # r
      PROVE  row'[q] = row[q]
  BY <1>1 DEF MarkSent
<1>2. ASSUME NEW by \in Starters, MarkSent(q, by)
      PROVE  row'[q] = "sent" /\ Send(q, by, "produced") \in sends
  BY <1>2 DEF MarkSent
<1>3. ASSUME NEW r \in Written, CreateOutbox(r)
      PROVE  row'[q] = row[q] \/ (row[q] = "none" /\ row'[q] = "unsent")
  BY <1>3 DEF CreateOutbox
<1>4. ASSUME NEW r \in Rows, NEW by \in Starters,
             GetOutbox(r, by) \/ Produce(r, by) \/ StatementFails(r, by)
      PROVE  row'[q] = row[q]
  BY <1>4 DEF GetOutbox, Produce, StatementFails
<1>5. CASE Crash \/ (\E j \in Jobs : Tick(j) \/ JobDone(j)) \/ UNCHANGED vars
  BY <1>5 DEF Crash, Tick, JobDone, vars
<1> QED BY <1>1, <1>2, <1>3, <1>4, <1>5 DEF Next, SendStep

-----------------------------------------------------------------------------
(* The relay implements Delivery.  A send that has found its row stays     *)
(* with a row that exists, since no row goes away, and a send that is      *)
(* about to mark has ended its attempt.                                    *)
SendInv ==
  /\ \A t \in sends : t.pc \in {"producing", "produced"} => row[t.row] # "none"
  /\ ProducedWasTried

LEMMA SendStepKeeps == TypeOK /\ SendInv /\ [Next]_vars => SendInv'
<1> SUFFICES ASSUME TypeOK, SendInv, [Next]_vars, NEW t \in sends'
             PROVE  /\ t.pc \in {"producing", "produced"} => row'[t.row] # "none"
                    /\ t.pc = "produced" => t.row \in tried'
  BY DEF SendInv, ProducedWasTried
<1>1. t.row \in Rows
  BY TypeStep DEF TypeOK
<1>2. row[t.row] # "none" => row'[t.row] # "none"
  BY <1>1, RowsMove
<1>3. tried \subseteq tried'
  BY DEF Next, SendStep, CreateOutbox, GetOutbox, Produce, MarkSent, StatementFails, Tick, JobDone,
         Crash, vars
<1>4. ASSUME NEW x \in sends
      PROVE  /\ x.pc \in {"producing", "produced"} => row[x.row] # "none"
             /\ x.pc = "produced" => x.row \in tried
  BY DEF SendInv, ProducedWasTried
<1> QED BY <1>2, <1>3, <1>4, SendsComeFrom

LEMMA SendAlways == Spec => [](TypeOK /\ SendInv)
<1>1. Init => SendInv
  BY DEF Init, SendInv, ProducedWasTried
<1> QED BY <1>1, TypeInit, TypeStep, SendStepKeeps, PTL DEF Spec

(* Handlers and jobs that overlap on a row, crash and fail, and a broker   *)
(* that loses messages, keep the promises of Delivery.                     *)
THEOREM ImplementsDelivery == Spec => ActsAsDelivery
<1>1. Init => Outbox!Init
  BY DEF Init, Outbox!Init
<1>2. TypeOK /\ SendInv /\ [Next]_vars => [Outbox!Next]_(Outbox!vars)
  <2> SUFFICES ASSUME TypeOK, SendInv, [Next]_vars
               PROVE  Outbox!Next \/ UNCHANGED Outbox!vars
    OBVIOUS
  <2> USE DEF Outbox!vars, Outbox!Next
  <2>1. ASSUME NEW r \in Written, CreateOutbox(r) PROVE Outbox!Next
    <3>1. r \in Rows /\ Outbox!Write(r)
      BY <2>1, RelayAssumption DEF CreateOutbox, Outbox!Write, Rows, Tables, Ids
    <3> QED BY <3>1
  <2>2. ASSUME NEW r \in Rows, NEW by \in Starters, Produce(r, by) PROVE Outbox!Next
    <3>1. row[r] # "none" /\ row' = row
      BY <2>2, SendStart DEF Produce, SendInv
    <3>2. Outbox!Attempt(r)
      BY <2>2, <3>1 DEF Produce, Outbox!Attempt, Outbox!Publish
    <3> QED BY <3>2
  <2>3. ASSUME NEW r \in Rows, NEW by \in Starters, MarkSent(r, by) PROVE Outbox!Next
    <3>1. r \in tried
      BY <2>3, SendStart DEF MarkSent, SendInv, ProducedWasTried
    <3>2. Outbox!Mark(r)
      BY <2>3, <3>1 DEF MarkSent, Outbox!Mark
    <3> QED BY <3>2
  <2>4. ASSUME NEW r \in Rows, NEW by \in Starters, GetOutbox(r, by) \/ StatementFails(r, by)
        PROVE  UNCHANGED Outbox!vars
    BY <2>4 DEF GetOutbox, StatementFails
  <2>5. CASE Crash \/ (\E j \in Jobs : Tick(j) \/ JobDone(j)) \/ UNCHANGED vars
    BY <2>5 DEF Crash, Tick, JobDone, vars
  <2> QED BY <2>1, <2>2, <2>3, <2>4, <2>5 DEF Next, SendStep
<1> QED BY <1>1, <1>2, SendAlways, PTL DEF Spec, ActsAsDelivery, Outbox!Spec

(* What has been shown of Delivery, for the rows of both tables.           *)
Delivered == INSTANCE Delivery_proofs WITH Events <- Rows, Lossless <- BrokerUp

(* What Delivery promises holds of the rows of both tables: no crash,      *)
(* failing statement or race of sends makes up a message, marks a row that *)
(* nobody has tried to send, or marks one the broker does not hold when it *)
(* loses nothing.                                                          *)
THEOREM MarkedIsPublished == Spec => []Delivered!Faithful
<1>1. ActsAsDelivery <=> Delivered!Spec
  BY DEF ActsAsDelivery, Outbox!Spec, Outbox!Init, Outbox!Next, Outbox!vars, Outbox!Write,
         Outbox!Attempt, Outbox!Mark, Outbox!AttemptAndMark, Outbox!Publish,
         Delivered!Spec, Delivered!Init, Delivered!Next, Delivered!vars, Delivered!Write,
         Delivered!Attempt, Delivered!Mark, Delivered!AttemptAndMark, Delivered!Publish
<1> QED BY <1>1, ImplementsDelivery, Delivered!MessagesMatchRows, PTL

-----------------------------------------------------------------------------
LEMMA UnsentStep == TypeOK /\ UnsentHasSend /\ [Next]_vars => UnsentHasSend'
<1> SUFFICES ASSUME TypeOK, UnsentHasSend, [Next]_vars, faults' = 0,
                    NEW q \in Rows, row'[q] = "unsent"
             PROVE  \E t \in sends' : t.row = q
  BY DEF UnsentHasSend
<1> USE RelayAssumption DEF TypeOK
<1>1. ASSUME NEW r \in Written, CreateOutbox(r) PROVE \E t \in sends' : t.row = q
  <2>1. CASE q = r
    <3>1. Send(r, "handler", "scheduled").row = q
      BY <2>1 DEF Send
    <3> QED BY <1>1, <3>1 DEF CreateOutbox
  <2>2. CASE q # r
    BY <1>1, <2>2 DEF CreateOutbox, UnsentHasSend
  <2> QED BY <2>1, <2>2
<1>2. ASSUME NEW r \in Rows, NEW by \in Starters, GetOutbox(r, by)
      PROVE  \E t \in sends' : t.row = q
  <2>1. Send(r, by, "producing").row = r /\ Send(r, by, "scheduled").row = r
    BY DEF Send
  <2>2. PICK t \in sends : t.row = q
    BY <1>2 DEF GetOutbox, UnsentHasSend
  <2>3. CASE row[r] = "unsent"
    BY <1>2, <2>1, <2>2, <2>3 DEF GetOutbox
  <2>4. CASE row[r] # "unsent"
    <3>1. Rejected(by, sends \ {Send(r, by, "scheduled")})
      BY <1>2, <2>4 DEF GetOutbox
    <3>2. t \in sends \ {Send(r, by, "scheduled")}
      BY <1>2, <2>1, <2>2, <2>4 DEF GetOutbox
    <3> QED BY <2>2, <3>1, <3>2, RejectedKeeps
  <2> QED BY <2>3, <2>4
<1>3. ASSUME NEW r \in Rows, NEW by \in Starters, Produce(r, by)
      PROVE  \E t \in sends' : t.row = q
  <2>1. Send(r, by, "producing").row = r /\ Send(r, by, "produced").row = r
    BY DEF Send
  <2>2. PICK t \in sends : t.row = q
    BY <1>3 DEF Produce, UnsentHasSend
  <2> QED BY <1>3, <2>1, <2>2 DEF Produce
<1>4. ASSUME NEW r \in Rows, NEW by \in Starters, MarkSent(r, by)
      PROVE  \E t \in sends' : t.row = q
  <2>1. Send(r, by, "produced").row = r
    BY DEF Send
  <2>2. q # r /\ row[q] = "unsent" /\ faults = 0
    BY <1>4 DEF MarkSent
  <2>3. PICK t \in sends : t.row = q
    BY <2>2 DEF UnsentHasSend
  <2> QED BY <1>4, <2>1, <2>2, <2>3 DEF MarkSent
<1>5. ASSUME NEW r \in Rows, NEW by \in Starters, StatementFails(r, by) PROVE FALSE
  BY <1>5 DEF StatementFails
<1>6. ASSUME NEW j \in Jobs, Tick(j) PROVE \E t \in sends' : t.row = q
  BY <1>6 DEF Tick, UnsentHasSend
<1>7. ASSUME NEW j \in Jobs, JobDone(j) PROVE \E t \in sends' : t.row = q
  BY <1>7 DEF JobDone, UnsentHasSend
<1>8. CASE Crash
  BY <1>8 DEF Crash
<1>9. CASE UNCHANGED vars
  BY <1>9 DEF vars, UnsentHasSend
<1> QED BY <1>1, <1>2, <1>3, <1>4, <1>5, <1>6, <1>7, <1>8, <1>9 DEF Next, SendStep

(* As long as nothing has crashed or failed, an unsent row has a send      *)
(* under way: jobs that race with handlers forget none.                    *)
THEOREM UnsentHasSendAlways == Spec => []UnsentHasSend
<1>1. Init => UnsentHasSend
  BY DEF Init, UnsentHasSend
<1> QED BY <1>1, UnsentStep, TypeCorrect, PTL DEF Spec

-----------------------------------------------------------------------------
(* What nobody sends any more.                                             *)

Forgotten(r) == row[r] = "unsent" /\ \A t \in sends : t.row # r

(* A forgotten row that no tick picks is as it was, and still forgotten.   *)
LEMMA ForgottenStep ==
  ASSUME TypeOK, [Next]_vars, NEW r \in Rows, Forgotten(r),
         \A j \in Jobs : \A i \in GetOutboxes(TableOf(j)) : r # <<"reservation", i>>
  PROVE  Forgotten(r)'
<1>1. row'[r] = "unsent"
  BY RowsMove DEF Forgotten, Send
<1>2. ASSUME NEW t \in sends' PROVE t.row # r
  BY SendsComeFrom DEF Forgotten
<1> QED BY <1>1, <1>2 DEF Forgotten

(* The row of a payment that no handler sends any more, because the        *)
(* process died or a statement of the send failed, stays unsent for ever:  *)
(* the payment job calls the service of the other table (README.md:163     *)
(* says it is sent again).                                                 *)
PaymentsStayForgotten == \A i \in Ids : [](Forgotten(<<"payment", i>>) => []Forgotten(<<"payment", i>>))

(* No interleaving, crash or tick of either job sends a forgotten payment. *)
THEOREM ForgottenPaymentIsLost == Spec => PaymentsStayForgotten
<1>1. ASSUME NEW i \in Ids
      PROVE  Spec => [](Forgotten(<<"payment", i>>) => []Forgotten(<<"payment", i>>))
  <2> DEFINE Lost == Forgotten(<<"payment", i>>)
  <2>1. <<"payment", i>> \in Rows
    BY DEF Rows, Tables
  <2>2. TypeOK /\ Lost /\ [Next]_vars => Lost'
    BY <2>1, ForgottenStep
  <2> HIDE DEF Lost
  <2>3. Spec => [](Lost => []Lost)
    BY <2>2, TypeCorrect, PTL DEF Spec
  <2> QED BY <2>3 DEF Lost
<1> QED BY <1>1 DEF PaymentsStayForgotten

(* As many rows as a page holds are older, in both tables.                 *)
Older(table, i) == {k \in 1 .. (i - 1) : row[<<table, k>>] # "none"}
Starved(i) ==
  /\ Forgotten(<<"reservation", i>>)
  /\ \A table \in Tables : BatchSize <= Cardinality(Older(table, i))

(* A forgotten reservation row behind a full page of older rows stays      *)
(* unsent for ever: the page is not of unsent rows, and rows never go      *)
(* away, so the same old rows fill it at every tick.                       *)
StarvedStaysStarved == \A i \in Ids : [](Starved(i) => []Starved(i))

LEMMA OlderGrows ==
  ASSUME TypeOK, [Next]_vars, NEW table \in Tables, NEW i \in Ids
  PROVE  /\ Cardinality(Older(table, i)) \in Nat /\ Cardinality(Older(table, i)') \in Nat
         /\ Cardinality(Older(table, i)) <= Cardinality(Older(table, i)')
<1>1. \A k \in 1 .. (i - 1) : <<table, k>> \in Rows
  BY RelayAssumption DEF Rows, Ids
<1>2. Older(table, i) \subseteq Older(table, i)'
  BY <1>1, RowsMove DEF Older
<1>3. IsFiniteSet(1 .. (i - 1))
  <2>1. 1 \in Int /\ i - 1 \in Int
    BY RelayAssumption DEF Ids
  <2> QED BY <2>1, FS_Interval
<1>4. IsFiniteSet(Older(table, i)) /\ IsFiniteSet(Older(table, i)')
  BY <1>3, FS_Subset DEF Older
<1> QED BY <1>2, <1>4, FS_Subset, FS_CardinalityType

(* Once a full page of older rows is in both tables, no tick, handler or   *)
(* restart ever sends the row.                                             *)
THEOREM StarvedForEver == Spec => StarvedStaysStarved
<1>1. ASSUME NEW i \in Ids
      PROVE  TypeOK /\ Starved(i) /\ [Next]_vars => Starved(i)'
  <2> SUFFICES ASSUME TypeOK, Starved(i), [Next]_vars PROVE Starved(i)'
    OBVIOUS
  <2>1. BatchSize \in Nat /\ <<"reservation", i>> \in Rows
    BY RelayAssumption DEF Rows, Tables
  <2>2. ASSUME NEW table \in Tables
        PROVE  BatchSize <= Cardinality(Older(table, i)) /\ BatchSize <= Cardinality(Older(table, i)')
    BY <2>1, OlderGrows DEF Starved
  <2>3. ASSUME NEW j \in Jobs, NEW k \in GetOutboxes(TableOf(j)) PROVE k # i
    <3>1. TableOf(j) \in Tables
      BY DEF TableOf, Tables
    <3>2. Cardinality(Older(TableOf(j), i)) \in Nat
      BY <3>1, OlderGrows
    <3>3. Cardinality(Older(TableOf(j), k)) < BatchSize
      BY DEF GetOutboxes, Older
    <3> QED BY <2>1, <2>2, <3>1, <3>2, <3>3
  <2>4. Forgotten(<<"reservation", i>>)'
    BY <2>1, <2>3, ForgottenStep DEF Starved
  <2> QED BY <2>2, <2>4 DEF Starved
<1>2. ASSUME NEW i \in Ids PROVE Spec => [](Starved(i) => []Starved(i))
  <2> DEFINE S == Starved(i)
  <2>1. TypeOK /\ S /\ [Next]_vars => S'
    BY <1>1
  <2> HIDE DEF S
  <2>2. Spec => [](S => []S)
    BY <2>1, TypeCorrect, PTL DEF Spec
  <2> QED BY <2>2 DEF S
<1> QED BY <1>2 DEF StarvedStaysStarved
=============================================================================
