# Verification of the concert ticketing service

TLA+ models of the backend under `src/src`, their TLC configurations, and
TLAPS proofs. Paths below are relative to `src/src` unless they start with
`README.md` or `docs/`, which are the repository's own documents; `docs/2` is the
file of that directory whose name begins with 2.

Run a check from this directory with `tlc -config <Run>.cfg <module of the run>`, a
proof with `tlapm <Module>_proofs.tla`. `PROJECT.json` lists the runs, maps
every definition to the lines it models, and lists the hazards.

## 1. The system

A client takes a token of the waiting queue, waits until a cron job makes it
active, reserves a seat with it, and pays the reservation with points. The
service is a NestJS application over MySQL, Redis and Kafka.

| Part | State | Operations | Meets the others through |
|---|---|---|---|
| Queue (`domain/queue`) | Redis: a sorted set of waiting tokens per concert, an info hash, one active key per token | issue, poll, activate (cron, each second), first access (guard), expire (TTL, consumer) | the guard in front of reservations and of the list of seats |
| Reservation (`domain/reservation`) | MySQL: reservation rows, `reservation_outbox` | `POST /reservations` | seat read; event emitter; outbox |
| Payment (`domain/payment`) | MySQL: payment rows, `payment_outbox` | `POST /payments` | reservation row, points, event emitter, outbox |
| Relay: listeners, producers, `domain/batch` | outbox `isSent`, cron jobs, Kafka | send handler of a topic event, two cron jobs that send again | outbox tables, Kafka |
| Seats (`domain/concert/performance`) | MySQL: seat rows with `version` | `reserveSeat`, `bookingSeat` by the consumer | Kafka messages |
| Lists (`performance.service.ts`, `global/aop`) | Redis: a cached list per question, five seconds | `getPerformances`, `getAvailableSeats` behind `@Cache` | the seat rows underneath |
| Points (`domain/user`) | MySQL: point rows with `version`, history rows | charge, use | the transaction of a payment |
| Connection pool (`common/database`) | 20 connections, a queue of those who wait | borrow, release | every query and every transaction |
| Wiring, logging, DTOs | none | | see section 8 |

What is hard in it:

* **Interleaving.** Requests, handlers, cron jobs and consumers run at the
  same time; seats and points rely on a version column, tokens on single Redis
  commands.
* **Atomicity.** A booking runs in a transaction, but its outbox row is saved
  through another connection (`reservation-core.repository.ts:61`), the send is
  started before COMMIT, and the queue's job moves tokens in two MULTIs.
* **Failure.** A crash between any two of these steps; a send whose error the
  producer swallows; a statement whose error a listener logs; a consumer whose
  handler throws after its message is consumed.
* **Ordering.** The reservation and the payment message of a seat are
  independent; Kafka repeats and delays them.
* **Progress.** What was committed must take its seat; a waiting token must become
  active; an unsent row must be sent; a request must get its connections.
* **Staleness.** A list of seats outlives the seats it offers; a rank is read
  after the hash that announces it; a check is made outside the transaction it is
  meant to protect.

Correctness, per part: a token does not wait and is not active at once, none is
lost, and none overtakes another (queue); a committed booking has an event (reservation, payment); a
row is not marked as sent untried, and none is forgotten (relay); a seat goes
Available, Reserved, Booked, and one handler wins each stage (seats); no update
is lost and the history explains the balance (points); a list may be old but
hides no seat (lists); a task that ends holds nothing, and one that waits is
served (pool); the points lost are the
payments made, and a seat's state is explained by events (all together).

## 2. Modules

| Module | Models | Abstract specification |
|---|---|---|
| `Ticketing` | the saga across all parts but the queue | `Delivery` |
| `OutboxRelay` | both outbox tables, send handlers, cron jobs, producers | `Delivery` |
| `PointAccount` | `chargeUserPoint`, `useUserPoint` | `PointLedger` |
| `SeatStore` | `reserveSeat`, `bookingSeat` statement by statement | `SeatLifecycle` |
| `SeatBoard` | the cached lists, on top of `SeatStore` (EXTENDS) | its `SeatStore` part: `SeatLifecycle` |
| `TokenQueue` | the queue in Redis, its job, guard, consumer and polls | `QueueLifecycle` |
| `ConnectionPool` | which task holds or waits for which connection and row lock | none |

`SeatStore` is checked as part of `SeatBoard`; every other module of a component
has runs of its own. `MC<Module>` instantiates a module for TLC (`TokenQueue`
needs no instance, its cfg gives every constant), `<Module>_proofs` holds its
theorems. Operators named in a comment *Mutant* are not part of a
specification; they are the altered forms of a definition under which the
property of `PROJECT.json` "mutants" has to fail.

### Ticketing

A request is a process with a program counter. The state is what the
databases, the broker, the event loop and the consumers hold.

| Variable | In the program |
|---|---|
| `rpc`, `request` | progress of a `POST /reservations`; the row it inserts (seen by others once `committed`; its status stays REQUEST) |
| `ppc`, `bill`, `seen` | progress of a `POST /payments`; the reservation it pays; the point row of its snapshot |
| `point`, `seat`, `outbox` | committed rows |
| `scheduled` | topic handlers waiting in the event loop |
| `topic`, `seatInbox` | messages at the broker, and those the consumer has still to handle |
| `tried`, `missed`, `faults` | history: messages of which a send attempt has ended; messages whose handler failed with the database; crashes and failing statements so far |

| Action | Code |
|---|---|
| `ReserveStart` | the seat read of `reservation.facade.ts:32` |
| `ReserveInsert` | the duplicate check (outside the transaction) and the insert |
| `ReserveOutbox`, `PayOutbox` | `saveOutbox` on the default connection; the topic event schedules the send |
| `ReserveCommit`, `ReserveFail`, `PayCommit`, `PayFail` | the end of `transaction(...)` |
| `PayStart` | BEGIN, the reservation check, the point row of the snapshot |
| `PayCharge` | the UPDATE with the version, under its row lock |
| `HandleSend` | `sendOutbox` from the listener; what its lookup or its save throws is logged and swallowed |
| `BatchResend` | `sendOutbox` from the jobs, for the ids on their pages (`GetOutboxes`) |
| `ReserveSeat`, `BookingSeat` | `performance.consumer.ts`, with the failure of the handler (`Consume`) |
| `Redeliver` | Kafka delivers a message again (external) |
| `Crash` | the process dies |

Three things are coarser here than in the code, each because another module
has the detail. A seat changes in one step: `SeatStore` shows that the two
statements implement that step (`ActsAsLifecycle`) and that a handler that loses
a race does so to one that did the same (`ConflictWasDone`), so dropping its
message is a step that changes nothing. `sendOutbox` is one step here, and three
steps that overlap in `OutboxRelay`: both implement `Delivery` (theorems
`ImplementsDelivery` of the two), and what overlapping sends add to the saga, a
repeated message, is `Redeliver`. The queue is not part of the saga: the guard
comes first, a user may hold several tokens, and a late SETEX revives one that has
ended (`Revive` in `QueueLifecycle`), so a token never tells whether a request is
still to come. `ReserveStart` has no guard for that reason, and payments have none
in the code.

`GetOutboxes` is what makes the batch less than a retry: each job takes the oldest
rows of its table, sent or not, and both give the ids to the reservation service.
`Calls` and `Pays` are therefore numbers, the ids of the rows a request creates. Any
request may get any id, in any order; the code gives them in order of the inserts,
so the model has more orders of the page than the code, and all of those.

A message of either topic has one handler. `QueueConsumer` declares
`@MessagePattern` of `reservation.request.topic` as `PerformanceConsumer` does
(`queue.consumer.ts:43`, `performance.consumer.ts:49`), but an application
(`main.ts:36`) keeps one handler per pattern, the last one registered, and
`DomainModule` imports the queue first (`domain.module.ts:11`). So every reservation
message goes to `PerformanceConsumer`, and no token is ended by the queue's consumer
as the application is wired.

### OutboxRelay

`row` is an outbox table, `sends` the running calls of `sendOutbox` with the
step each is at (`scheduled`, `producing`, `produced`) and who waits for it
(`by`): a job waits for the calls of its tick (`Promise.all`), the handler's
call has nobody behind it. `job` tells whether the cron job is stopped. `tried`
is a history variable. `Tick` models a whole tick up to the first await: stop,
`getOutboxes`, one call per row. `Rejected` models `Promise.all`: the first
call that throws starts the job again while the others run on, as `"nobody"`'s. A
call throws when it finds no unsent row, or when its lookup or its save fails
(`StatementFails`).
Faithful to the code, `GetOutboxes` ignores `isSent`, and both jobs call the
reservation service.

`Delivery` is the promise of the outbox, of one event at a time: the row is
written first (`Write`), attempts to publish it follow (`Attempt`), it is marked
after one (`Mark`), and a marked row stays marked; `AttemptAndMark` does both.
An attempt may be lost without anybody noticing, because the producers catch the
error; with `Lossless` it is not. `Delivery` does not promise that an attempt is
made: that is what `ReservationRowsAreSent` and `PaymentIsSent` are about. The
mapping from `OutboxRelay` is the identity on `row`, `tried` and `topic`, and so
is the one from `Ticketing`, whose `outbox` is `row`: a send is
`AttemptAndMark`, or `Attempt` when its save fails.

### PointAccount and SeatStore

One process per call; `seen` is the row it has read, `cmd` or `call` its
arguments. `PointAccount` has a transaction: `Update` takes the row lock that
`Commit` or `Rollback` releases, and the history row commits with the point row.
`SeatStore` has none: `UpdateSeatStatus` is one auto-committed statement, and any
number of handlers of a seat overlap.

### SeatBoard

`SeatBoard` adds the readers to the handlers of `SeatStore`. A request is at
`asked`, `missed`, `loaded` or `answered`, the awaits of the wrapper in
`cache-aop.provider.ts`: `GetCached` (`cache.get`), `Load` (the query) and
`SetCached` (`cache.set`) are steps of their own, so other requests, handlers and
`Expire` come between them. `Key` is the key the wrapper builds from the method's
name and its arguments. `BoardNext` interleaves the two modules' steps; a list
never writes a row, so everything said of `SeatStore`
holds underneath.

### TokenQueue

`waiting` is the sorted set with its info hash (written and removed together
in one MULTI), `active` the active key: `"fresh"` was written by the job with
SET and has no TTL, `"accessed"` by the guard with SETEX. `step` and `batch` are
the job between `ZRANGE`, the MULTI of ZREM and DEL, and the MULTI of SET.
`access` is a request in the guard and after it, `poll` a status request between
its reads. `entry[t].stamp` is the place of a token's score in the order of the
set. `CreateWaitQueue` takes any unused stamp, not the next: `Date.now()` is read
before the MULTI, so tokens can enter in another order than their scores.
`entry[t].ahead`, `used` and `lapsed` are history. `Served` are tokens of concert
1, the concert every reader but the client uses (`queue.service.ts`).

`QueueLifecycle` is what a client may rely on: a token waits, is moved with
others, is active, and ends. Its refinement mapping is `StatusOf`: a token in no
structure is `"moving"` if the job holds it, `"ended"` if it was used or timed out,
else `"lost"`. The abstract module admits three things that the code does and a
reader would not expect: a failed move loses its whole page, an ended token can
be revived (a SETEX that was on its way), and a page is activated together. It
excludes the rest: waiting twice, being active before the move, coming back from
lost.

`ExpireActiveQueue` deletes an active key at any time, as `queue.consumer.ts` would.
As the application is wired that handler is not called (see `Ticketing`), so the
model contains more endings than the running service; `PassedTokenExpires` asks no
fairness of it and rests on the TTL.

### ConnectionPool

A task is one of five kinds of code: a reservation, a payment, a charge, a
handler of a topic event, a handler of a message. `Reserve`, `Pay`, `Charge`,
`Send` and `Consume` are the order of their statements, read off facade, service
and repository. A query of the default manager borrows a connection for itself
(`query[t]`); a transaction borrows one at BEGIN and keeps it (`tx[t]`). `Borrow`
takes a free connection or a place in `queue`; `Release` hands a connection
straight to the head of it. The wait in the pool has no end: `typeorm-option.ts`
sets `connectionLimit` and no `acquireTimeout`. The wait for a row lock has one
(`LockTimeout`). A failing query ends the task, or rolls its transaction back if
it has one (`QueryFails`), for `transaction(...)` releases on every path.

## 3. What is assumed of the environment

* MySQL at REPEATABLE READ: a transaction reads a snapshot, an UPDATE evaluates
  its WHERE on the latest committed row and holds the row lock to the end, an
  int column refuses a value out of range; a wait for a row lock ends.
* The pool of the driver hands connections out in order, and its callers wait
  without a limit.
* Redis runs one command, or one MULTI, at a time and keeps its data.
* Kafka delivers at least once, in any order between partitions and topics; a
  message whose handler has thrown is consumed.
* The event emitter awaits the outbox listener inside the transaction and runs
  the topic listener later.
* A crash of the process loses the event loop and open transactions only.
* One process runs the cron jobs: each of them is never running twice. Requests,
  handlers and consumers may run in any number of processes.
* BEGIN succeeds; the statements after it may fail.

## 4. Runs

| Run | Checks | Shows |
|---|---|---|
| `TicketingSafety` | `TypeOK`, `CommittedHasOutbox`, `MoneyMatchesPayments`, `PaymentFollowsReservation`, `SeatStateIsExplained` | two users compete for a seat and pay for it while messages are lost, repeated and reordered, with one crash or failing statement |
| `TicketingRecovery` | `SendsFollowDelivery`, `LateRequestIsRefused`, `ReservedSeatIsTaken`, `TimelyPaymentBooks`, `PaymentIsSent` | one crash or failing statement at any step, lost sends and a page shorter than the table: a committed reservation takes its seat, and a payment that begins after that books it, but for the losses the two name; a request that comes too late is refused, the outbox moves as `Delivery` says, a payment's event is sent while nothing fails |
| `Relay` | `TypeOK`, `UnsentHasSend`, `ActsAsDelivery`, `ReservationRowsAreSent` | handlers and jobs race on two rows with a crash or a failing statement, and lost sends |
| `PointAccount` | `TypeOK`, `OneWinnerPerVersion`, `ConflictHasWinner`, `ActsAsLedger` | four operations on two accounts |
| `SeatBoard` | of `SeatStore` `OneWinnerPerSeat`, `ConflictWasDone`, `ActsAsLifecycle`; of the lists `NoSeatHidden`, `AnswerFitsQuestion`, `OfferNeverReturns`, `StaleOfferEnds`; of both `BoardTypeOK` | three handlers on two seats under a reader: losers lose to one that did the same; an old list offers too much for a while and never too little, and an offer that has gone does not come back |
| `Queue` | `TypeOK`, `WaitsBeforeActive`, `TokenIsSomewhere`, `NoOvertaking`, `NoRankHasLeft`, `UnknownIsGone`, `FollowsLifecycle`, `WaitingTokenIsActivated`, `PassedTokenExpires` | job, guards, consumer, TTL and a poll interleave, with a fault, and tokens enter in any order of their stamps |
| `ConnectionPool` | `TypeOK`, `StallNeedsFullHouse`, `EndedHoldsNothing`, `TaskEndsUnlessStalled` | one task of each kind on two connections: only bookings can stall the pool, and unless they do every task ends |
| `TicketingDoublePay`, `TicketingTwoHolders`, `TicketingUnbooked`, `RelayStarved`, `PoolStalled` | one property each | a document's claim that the code does not keep (section 7) |

Bounds, all CONSTANTs of the cfg files:

* `TicketingSafety` has two users, one seat, two reservations and two
  payments: the least with which two reservations compete for a seat, two
  payments for one balance (`InitialPoint` = `Price`, so the second must be
  refused), and a redelivered message meets a booked seat. `MaxFaults` of 1 is one
  crash, one failing statement of a send or one failing handler; statements of a
  request fail without a bound (`ReserveFail`, `PayFail`). Each property concerns
  one step that fails, so a second fault repeats what the first shows; the proofs
  have any number.
* `TicketingRecovery` has one user and no symmetry, since it checks liveness;
  two reservations, so that a fault finds them at different steps, one can
  repeat the other, and with a page (`BatchSize`) of one row one of them can starve
  behind the other. Sends may be lost. So every exception that `ReservedSeatIsTaken`
  and `TimelyPaymentBooks` make occurs in this instance: without any one of them
  the property is violated.
* `Relay` has a page (`BatchSize`) that holds both rows, the code's case while
  a table has at most 100 rows; `RelayStarved` is the other case. Its
  `MaxFaults` of 1 is one crash or one failing lookup or save. Its clients write
  reservation rows, while both jobs run; payment rows are in the theorems, which
  hold for both tables, and in `PaymentIsSent`. An instance with rows in both
  tables has more states than a run can visit in minutes.
* `PointAccount`: four operations are enough for a winner, its loser, a later
  operation on the new version and one on another account; `MaxPoint` = 3 lets
  charges reach the limit of the column.
* `SeatBoard`: three handlers are a winner of each stage and a loser, or two that
  race for one stage of a seat while the other seat moves. One concert has two
  performances with a seat each, and a performance has the concert's id, so that
  keys could be confused. One reader is enough for the properties of a list: a
  late store is its own `SetCached` after handlers and `Expire` have moved.
* `Queue`: two tokens and `BatchSize` 1 leave a token in the queue at each tick;
  two requests with one token race for the first access; two concerts, one of
  them unserved; every order of stamps.
* `ConnectionPool`: two connections and five tasks. Two bookings can hold both;
  the charge competes with the payment for a row lock; handler and message wait
  in the queue behind and in front of the bookings. `PoolStalled` has two
  reservations. The theorems have the 20 of the code, and any other number.
* `Users` and `Seats` are symmetric in `TicketingSafety`, and the operations in
  `PointAccount`: nothing distinguishes them. Runs with liveness properties use no
  symmetry.

Deadlock is checked in the relay's runs, where the jobs never stop. In the
others the system comes to rest when its requests are used up.

## 5. Fairness

`FairSpec` of each module asks only for what the runtime does: the event loop
runs a scheduled handler (`HandleSend`, `GetOutbox`, `MarkSent`), a producer's
call ends because of its five-second timeout (`Produce`), cron ticks
(`BatchResend`, `Tick`, `GetWaitQueues`), a job continues when what it awaits has
ended (`JobDone`, `DeWaitQueue`, `InActiveQueues`), consumers poll
(`ReserveSeat`, `BookingSeat`), Redis answers
and drops expired keys (`ReInActiveQueueWithTTL`, `TtlFires`, `Expire`), a read
that was begun goes on (`ReadStep`), and a task goes on when its statement has been
answered (`Step` of `ConnectionPool`; one that waits in the pool has no step
enabled). All of it is weak
fairness. Nothing obliges a client to call, a transaction to commit, or the
broker to take a send. The fairness of `BatchResend(c)` is no promise to retry every
row: the action is enabled only while `c` is on a page of the jobs, and a row that
is on none (`Starved`) gets nothing from it. A handler that fails with the database
has handled its message, so the fairness of the consumer does not make it succeed
either (`missed`).

## 6. Theorems

All hold for any finite or infinite sets of users, seats and clients and any
value of the numbers, under the module's ASSUME (numbers are naturals, `Pays`,
`Tokens`, `Conns` and `Tasks` are finite because they are counted, `None` is not a value).

* **Ticketing**: `TypeCorrect` needs two facts beside the types: a request that
  has left `idle` has its row or its bill (`Started`), and a payment that was
  charged could afford it; together `TypeInv`. `CommittedHasOutboxAlways` and
  `PaymentFollowsReservationAlways` come from `OutboxInv`, which says at which
  step of a request its outbox row exists and that a payment only ever refers to
  a committed reservation. `SeatStateIsExplainedAlways` adds that an event keeps
  its meaning (`EventsKeepTheirMeaning`: a published request never changes its
  row). `MoneyMatchesPaymentsAlways` is the deepest: `SnapshotInv` says that
  while a payment holds the row lock the committed point row is the one it has
  read and no other payment of the user holds the lock, so COMMIT, which writes
  a value computed from the snapshot, takes exactly one price off the current
  balance. `LateRequestIsRefusedAlways` is temporal: a seat that has left Available
  and a committed reservation stay so (`RefusalsStay`), a request starts only
  while its seat is Available (`StartIsChecked`),
  and it enters the insert only if the check found no committed row
  (`ReserveMoves`). `ImplementsDelivery` maps each step of the saga to a step of
  `Delivery`. `LostPaymentIsNeverSent`: a payment event that is unsent, out of the topic and no
  longer scheduled stays so for ever.
* **Delivery**: `MessagesMatchRows` (`Faithful`: no message without a row, no mark
  without an attempt, no tried event without its message when nothing is lost), from
  the types and the order of the three (`DeliveryInv`).
* **OutboxRelay**: `ImplementsDelivery` needs that a send which is `produced` was
  tried and that one past its lookup has a row (`SendInv`); overlapping sends of one
  row then map to repeated attempts and marks, a rejected `Promise.all` and a crash
  to stutters. `MarkedIsPublished` carries `MessagesMatchRows` over to the relay
  through the refinement. `UnsentHasSendAlways` is inductive with the types:
  `RejectedKeeps` shows that a rejected `Promise.all` keeps the other calls.
  `ForgottenPaymentIsLost` and `StarvedForEver` say that two ways to lose an event
  are final: both jobs take their ids to the reservation table, and since rows
  never go away (`OlderGrows`) a page that is full without the row stays full.
* **PointAccount**: `LockInv` (a version read is never ahead of the row, the
  holder of the lock has read the current version) gives one winner per version,
  the winner of every conflict (each version passed has a committed operation
  that read it), the history, and `ImplementsLedger`.
* **SeatStore**: `StageInv` (a row seen is a past row, a finished handler's
  stage has passed, every stage passed has a handler that did it) gives the four
  invariants and `ImplementsSeatLifecycle`: two statements and a version check
  are as good as one atomic step.
* **SeatBoard**: `BoardInv` says of every list, in the cache, in a request's hand
  and in an answer, that it fits its question: it holds rows of it only and hides
  nothing that is available *now*. It is inductive because no step of a handler
  makes a seat available (`AvailableShrinks`, from the stages of `SeatStore`) and
  because a key belongs to one question (`KeyPerQuestion`). `NoSeatHiddenAlways`
  and `AnswerFitsQuestionAlways` follow, whatever the TTL and however late a store.
  `OfferNeverReturnsAlways` needs that a taken seat stays taken (`TakenStays`): a
  list read now cannot hold it, and no older list is left.
* **TokenQueue**: `QueueInv` follows a token through the job (before the first
  MULTI what the job holds waits, after it nothing of it waits, and no token in
  either place was ever active), which gives `WaitsBeforeActiveAlways` and
  `TokenIsSomewhereAlways`. `OrderInv` adds the order: what stood ahead of a token
  has a smaller stamp, and the page in the job's hands has nobody ahead of it that
  still waits outside it, though tokens enter in between; `NoOvertakingAlways`.
  `RankFollowsInfo` says that whoever is asked for a rank has waited, which gives
  `NoRankHasLeftAlways`. `UnknownIsGoneAlways` adds that a client that asks for the
  active key asks for a token that had left the queue, which no step brings back.
  `FollowsLifecycleAlways` is the refinement of `QueueLifecycle`; it needs
  `HoldersEndedOrActive`: a request that is in the guard or past it has a token
  that is active or has ended, so the late SETEX revives an ended token and never
  a waiting or a lost one. `PageIsBoundedAlways` and `TicksTakeFullPagesAlways`
  say what a tick moves: as many tokens as a page holds or all there are, never
  more. Stamps tell issued tokens apart (`StampsDiffer`), so the tokens on a page
  have different numbers of tokens before them, all below `BatchSize`: an injection
  into a set of that size. And of the tokens left behind the first has all that
  stand before it on the page, which is enough to fill it; there is a first one
  because strict inclusion is well-founded on finite sets.
* **ConnectionPool**: `PoolInv` says what a task holds at each statement, that
  who is in the queue waits and is in it once, and that the holder of a row lock
  is in its transaction. `StallTakesBookings` counts: in
  a stall every connection has a holder that waits, who waits holds only the
  connection of a transaction, and only bookings ask for a second. `EndReturnsAll`
  is `EndedHoldsNothing`. `FewBookingsNeverStall` turns the first round: up to one
  booking fewer than connections, no mix of other tasks stalls the pool.
  `ConnectionHasOneHolder` and `NobodyWaitsBesideFree` are the pool's own
  correctness: a connection handed straight to the head of the queue has one
  holder, and nobody waits while one is free. `StallIsForEver`: in a stall no step
  that is left returns a connection, so no waiting task ever ends.

Only model-checked, because liveness under fairness is beyond the proof system:
`ReservedSeatIsTaken`, `TimelyPaymentBooks`, `PaymentIsSent`,
`ReservationRowsAreSent`, `StaleOfferEnds`, `WaitingTokenIsActivated`, `PassedTokenExpires` and
`TaskEndsUnlessStalled`. So are the violations of section 7. Every other property
of a passing run is a theorem. Some theorems state a property that no run has:
`HistoryMatchesPointAlways`, `VersionTellsStatusAlways`, those of `Delivery`, the
page theorems of `TokenQueue`, the pool's two invariants, and those that make a
loss or a stall final.

## 7. Where the documents and the code disagree

Each of the five has a run that violates the quoted claim; `PROJECT.json`
"findings" has the lines.

| Run | Claim | What happens |
|---|---|---|
| `TicketingTwoHolders` | one user holds a seat (README.md:316) | the seat row changes only when the message is consumed; until then another user's reservation of it commits |
| `TicketingDoublePay` | paid once (README.md:356) | nothing moves a reservation on from REQUEST, so a second payment passes the only check |
| `TicketingUnbooked` | payment books the seat (README.md:359) | the payment message is handled before the reservation message, throws, and is not retried |
| `RelayStarved` | events are processed again (README.md:163) | `getOutboxes` drops `isSent: false` and takes the 100 oldest rows |
| `PoolStalled` | no deadlock to fear (README.md:927) | as many bookings as connections hold them all, and each waits for one more to check for duplicates or to save its outbox row |

What some of these runs reach is final, which a run cannot show and a theorem can:
`StarvedForEver` (a row behind a full page is never sent), `StallIsForEver` (no
error, timeout or other task frees a stalled pool) and, of the list below,
`ForgottenPaymentIsLost` with `LostPaymentIsNeverSent`.

Further differences that the models contain as steps, without a run of their
own:

* The payment job gives its ids to the reservation service
  (`batch.facade.ts:25`), so a payment row whose handler did not run is never sent
  again, be it for a crash or for a failing lookup or save, which the listener only
  logs (`faults > 0` in `PaymentIsSent`, `Lost` in `TimelyPaymentBooks`), against
  README.md:163.
* SETEX writes a key that was deleted or has timed out since it was read
  (`Revive` in `QueueLifecycle`): `active-queue.redis.ts:17` announces set + EX +
  NX, and in docs/2:84 an expired token is final.
* A lost send is marked as sent (`SendOutbox`, `Produce`) and nobody tries again
  (`Dropped` in `ReservedSeatIsTaken`), against the eventual consistency of
  README.md:185. A page without the row (`Starved`) and a handler that fails after
  its message was consumed (`missed`) end in the same way: a committed reservation
  whose seat stays Available.
* The outbox row outlives a ROLLBACK and its message is sent (`ReserveFail` after
  `ReserveOutbox`), against README.md:161. A seat can be reserved without a
  reservation; `SeatStateIsExplained` says no more than that a message exists.
* A user reserves two seats while the token is active (docs/1:18), and no
  reservation ends the token: the handler that would is replaced by another of the
  same pattern, so a token that was used ends by its TTL only.
* A token nobody uses stays active for ever (`"fresh"`), against README.md:173.
* The job removes tokens before it activates them: a crash in between loses
  them (`faults > 0` in `WaitingTokenIsActivated`; docs/STEP13-Redis-사용보고서.md:174
  has the other order), and a poll in between is told that the token does not
  exist (`batch` in `UnknownIsGone`; docs/2:45).
* A user may hold several tokens (docs/3:147), and tokens of other concerts than
  1 are never served (docs/3:128).

## 8. Not modelled

* `ReservationConsumer` and with it `confirm`: no module registers it
  (`reservation.module.ts:20`), so it never runs.
* The cancellation of an unpaid reservation (docs/1:19) is not in the code.
* Queries that hold nothing while they wait for a connection (polls, lists, the
  batch) are no kind of task in `ConnectionPool`: each is one of the modelled
  kinds with fewer statements. The reads a transaction makes on its own
  connection are left out there, since they neither borrow nor release.
* The mechanics of the event emitter decorators and of the AOP provider beyond
  their effect: which handler is awaited, where its error goes, in which order a
  wrapper reads, calls and stores.
* Redis commands nobody calls, the migrations (tables and seed rows), the k6
  scripts: no behaviour of the running service.
* HTTP, bootstrap and module wiring, validation, logging, interceptors,
  exceptions, mapping of rows to objects: no state of the system. The amount of a
  charge keeps the bound its validation gives it.
* The token in `Ticketing`: tokens have `TokenQueue`'s behaviour each, and nothing
  in the code relates two tokens of a user, or a token to a reservation.
* A BEGIN that fails: the request ends before it has changed anything.
* Several processes that run the cron jobs at the same time.

## 9. Plan

1. Done: `Ticketing`, `SeatStore`, `PointAccount`, `OutboxRelay`, `TokenQueue`,
   with their runs and theorems. The order was the saga first, then the part each
   of its steps stands for.
2. Done: `ConnectionPool`, with the claim that a full house of bookings waits for
   ever, and the theorem that a smaller one does not.
3. Done: `SeatBoard`. `QueueLifecycle` and its refinement.
4. Done: `Delivery`, which `OutboxRelay` and `Ticketing` implement; the page of
   the queue's tick; the theorems that make a loss or a stall final.
5. Done: the page of the batch, failing statements and failing handlers inside the
   saga, and the payment that begins in time.
6. The reservation consumer and a queue consumer with a pattern of its own as
   variants, to see which of section 7 they would repair.
7. Theorems that `TicketingTwoHolders` and `TicketingDoublePay` become
   impossible under an added guard, stated as the condition the code lacks.
