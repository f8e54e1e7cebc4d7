---------------------------- MODULE OutboxRelay ----------------------------
(***************************************************************************)
(* The two outbox tables and everything that sends their rows to Kafka:    *)
(* the handler of the topic event, run once from the event loop, and the   *)
(* two cron jobs that send again what was left unsent.  Sends of one row   *)
(* overlap, the process may die between any two of their steps, and the    *)
(* job of the payment table is wired to the service of the other table.    *)
(***************************************************************************)
EXTENDS Integers, FiniteSets

CONSTANTS
  MaxId,     \* bound: transaction ids are 1 .. MaxId in each table
  Written,   \* bound: the rows, <<table, id>>, the transactions may write
  BatchSize, \* how many rows getOutboxes takes (100 in the code)
  MaxFaults, \* bound: crashes and failing statements together
  BrokerUp   \* TRUE: no send to Kafka fails or times out

ASSUME RelayAssumption ==
  /\ MaxId \in Nat /\ BatchSize \in Nat /\ MaxFaults \in Nat
  /\ BrokerUp \in BOOLEAN
  /\ Written \subseteq {"reservation", "payment"} \X (1 .. MaxId)

VARIABLES
  row,    \* row[r]: the outbox row of transaction r
  sends,  \* the sendOutbox calls that are running
  job,    \* job[j]: whether the cron job waits for its tick or is stopped
  topic,  \* rows the broker holds a message of
  tried,  \* history: rows for which a send attempt has ended
  faults  \* how many crashes and failing statements there were

vars == <<row, sends, job, topic, tried, faults>>

Ids == 1 .. MaxId
Tables == {"reservation", "payment"}
Rows == Tables \X Ids
Jobs == {"reservationJob", "paymentJob"}
Starters == Jobs \cup {"handler", "nobody"}
Send(r, by, pc) == [row |-> r, by |-> by, pc |-> pc]

TypeOK ==
  /\ row \in [Rows -> {"none", "unsent", "sent"}]
  /\ sends \subseteq [row : Rows, by : Starters, pc : {"scheduled", "producing", "produced"}]
  /\ job \in [Jobs -> {"waiting", "running"}]
  /\ topic \subseteq Rows /\ tried \subseteq Rows
  /\ faults \in 0 .. MaxFaults

Init ==
  /\ row = [r \in Rows |-> "none"]
  /\ sends = {}
  /\ job = [j \in Jobs |-> "waiting"]
  /\ topic = {} /\ tried = {} /\ faults = 0

-----------------------------------------------------------------------------
(* A transaction saves its row and emits the topic event: the handler runs *)
(* later, from the event loop.                                             *)
CreateOutbox(r) ==
  /\ row[r] = "none"
  /\ row' = [row EXCEPT ![r] = "unsent"]
  /\ sends' = sends \cup {Send(r, "handler", "scheduled")}
  /\ UNCHANGED <<job, topic, tried, faults>>

(* A call throws.  Promise.all rejects with the first one: the job is       *)
(* started again, its other calls run on and nobody waits for them.        *)
Rejected(by, others) ==
  IF by \in Jobs
  THEN /\ job' = [job EXCEPT ![by] = "waiting"]
       /\ sends' = {t \in others : t.by # by} \cup
                   {Send(t.row, "nobody", t.pc) : t \in {x \in others : x.by = by}}
  ELSE /\ sends' = others
       /\ UNCHANGED job

(* getOutboxBy: an unsent row is found, or the call throws.                *)
GetOutbox(r, by) ==
  /\ Send(r, by, "scheduled") \in sends
  /\ \/ /\ row[r] = "unsent"
        /\ sends' = (sends \ {Send(r, by, "scheduled")}) \cup {Send(r, by, "producing")}
        /\ UNCHANGED job
     \/ /\ row[r] # "unsent"
        /\ Rejected(by, sends \ {Send(r, by, "scheduled")})
  /\ UNCHANGED <<row, topic, tried, faults>>

(* Mutant: an error of the producer is thrown and the call ends.           *)
ProduceThrows(r, by) ==
  /\ Send(r, by, "producing") \in sends
  /\ tried' = tried \cup {r}
  /\ \/ /\ topic' = topic \cup {r}
        /\ sends' = (sends \ {Send(r, by, "producing")}) \cup {Send(r, by, "produced")}
     \/ /\ ~BrokerUp
        /\ sends' = sends \ {Send(r, by, "producing")}
        /\ UNCHANGED topic
  /\ UNCHANGED <<row, job, faults>>

(* The producer sends and waits five seconds for an answer; an error or a  *)
(* timeout is logged and swallowed, the message may be lost.               *)
Produce(r, by) ==
  /\ Send(r, by, "producing") \in sends
  /\ sends' = (sends \ {Send(r, by, "producing")}) \cup {Send(r, by, "produced")}
  /\ tried' = tried \cup {r}
  /\ \/ topic' = topic \cup {r}
     \/ ~BrokerUp /\ UNCHANGED topic
  /\ UNCHANGED <<row, job, faults>>

(* Mutant: the send is not awaited before the row is saved.                *)
MarkSentFirst(r, by) ==
  \E pc \in {"producing", "produced"} :
    /\ Send(r, by, pc) \in sends
    /\ sends' = sends \ {Send(r, by, pc)}
    /\ row' = [row EXCEPT ![r] = "sent"]
    /\ UNCHANGED <<job, topic, tried, faults>>

(* The row is saved with isSent true.                                      *)
MarkSent(r, by) ==
  /\ Send(r, by, "produced") \in sends
  /\ sends' = sends \ {Send(r, by, "produced")}
  /\ row' = [row EXCEPT ![r] = "sent"]
  /\ UNCHANGED <<job, topic, tried, faults>>

(* The lookup or the save fails and the call throws.  The row stays as it  *)
(* is, and after a failing save its message may be sent again.             *)
StatementFails(r, by) ==
  /\ faults < MaxFaults
  /\ faults' = faults + 1
  /\ \E pc \in {"scheduled", "produced"} :
       /\ Send(r, by, pc) \in sends
       /\ Rejected(by, sends \ {Send(r, by, pc)})
  /\ UNCHANGED <<row, topic, tried>>

-----------------------------------------------------------------------------
(* The cron jobs.                                                          *)

(* Mutant: both jobs read the payment table.                               *)
TableOfPayment(j) == "payment"

TableOf(j) == IF j = "reservationJob" THEN "reservation" ELSE "payment"

(* Mutant: positions in the page, from 0, are taken for transaction ids.   *)
GetOutboxesPositions(table) ==
  {i - 1 : i \in {k \in Ids : k <= BatchSize /\ row[<<table, k>>] # "none"}}

(* getOutboxes takes the oldest rows by transaction id and drops the       *)
(* isSent condition it is called with.                                     *)
GetOutboxes(table) ==
  {i \in Ids : /\ row[<<table, i>>] # "none"
               /\ Cardinality({k \in 1 .. (i - 1) : row[<<table, k>>] # "none"}) < BatchSize}

(* A tick stops the job and starts one send per row found.  Both jobs call *)
(* the reservation service, with the ids of their own table.  A tick whose *)
(* query fails starts the job again and changes nothing.                   *)
Tick(j) ==
  /\ job[j] = "waiting"
  /\ job' = [job EXCEPT ![j] = "running"]
  /\ sends' = sends \cup {Send(<<"reservation", i>>, j, "scheduled") :
                            i \in GetOutboxes(TableOf(j))}
  /\ UNCHANGED <<row, topic, tried, faults>>

(* Every call it waits for has ended: the job is started again.            *)
JobDone(j) ==
  /\ job[j] = "running"
  /\ \A t \in sends : t.by # j
  /\ job' = [job EXCEPT ![j] = "waiting"]
  /\ UNCHANGED <<row, sends, topic, tried, faults>>

(* The process dies: running sends are gone, rows and messages stay.       *)
Crash ==
  /\ faults < MaxFaults
  /\ faults' = faults + 1
  /\ sends' = {}
  /\ job' = [j \in Jobs |-> "waiting"]
  /\ UNCHANGED <<row, topic, tried>>

-----------------------------------------------------------------------------
SendStep(r, by) ==
  GetOutbox(r, by) \/ Produce(r, by) \/ MarkSent(r, by) \/ StatementFails(r, by)

Next ==
  \/ \E r \in Written : CreateOutbox(r)
  \/ \E r \in Rows, by \in Starters : SendStep(r, by)
  \/ \E j \in Jobs : Tick(j) \/ JobDone(j)
  \/ Crash

Spec == Init /\ [][Next]_vars

(* The event loop, the producer's timeout and cron make every started send *)
(* and every job go on; nothing obliges a transaction to be made.          *)
Fairness ==
  /\ \A r \in Rows, by \in Starters :
       WF_vars(GetOutbox(r, by)) /\ WF_vars(Produce(r, by)) /\ WF_vars(MarkSent(r, by))
  /\ \A j \in Jobs : WF_vars(Tick(j)) /\ WF_vars(JobDone(j))

FairSpec == Spec /\ Fairness

-----------------------------------------------------------------------------
(* Safety.                                                                 *)

(* The sends of handlers and jobs, however they overlap, crash and fail,   *)
(* do to rows and messages what Delivery allows: no message without a row, *)
(* no mark without an attempt, no marked row unsent again.                 *)
Outbox == INSTANCE Delivery WITH Events <- Rows, Lossless <- BrokerUp
ActsAsDelivery == Outbox!Spec

(* Without a crash or a failing statement no unsent row is forgotten: a    *)
(* send of it is scheduled or running, even when jobs and handlers race.   *)
UnsentHasSend ==
  faults = 0 => \A r \in Rows : row[r] = "unsent" => \E t \in sends : t.row = r

-----------------------------------------------------------------------------
(* Liveness.                                                               *)

(* Unsent rows are sent again after a failure (README.md:163).             *)
ReservationRowsAreSent ==
  \A i \in Ids : row[<<"reservation", i>>] = "unsent" ~> row[<<"reservation", i>>] = "sent"
=============================================================================
