# Flowmerce: specification, model checking and proofs

Flowmerce takes an order through reservation, payment, confirmation and
shipment. A Temporal workflow is the orchestrator; five services keep their
state in five Postgres databases and tell each other what happened through
outbox tables and Kafka. Nearly everything that is hard about it lies between
two database accesses: steps of a workflow that run at least once, writers of
one row that do not know of each other, events that arrive late, twice or
requeued.

This directory holds TLA+ modules translated from the TypeScript source, TLC
configurations that check them on small instances, and TLAPS proofs for every
value of the constants. Paths below are relative to the repository.

    tlc -workers 2 -config MCSagaCancel.cfg OrderSaga.tla
    tlapm OrderSagaProofs.tla

`PROJECT.json` lists the components, the runs, the source lines each definition
models, the hazards, a mutation of the code that breaks each checked property,
and the theorems.

## 1. The system

### Processes

| process | what it runs |
|---|---|
| API (`src/main.ts`) | the HTTP endpoints, the order consumer, and, from the service modules, the outbox pollers and the other consumers |
| worker (`src/worker/`) | the Temporal activities; `worker.module.ts` imports the Payment, Inventory, Shipping and Notification modules, so it polls their outbox tables and joins their consumer groups as well |
| Temporal server | the workflow histories, timers, retries, the result of each activity |
| Kafka, Postgres | external |

### Components

| component | state it keeps | operations | what makes it correct |
|---|---|---|---|
| order aggregate | `orders.status` | reserveInventory, processPayment, confirm, ship, deliver, cancel, each guarded by `VALID_TRANSITIONS` | the stored status never claims more than happened |
| order workflow | awaited call, compensation stack, `confirmed` flag, payment id | eight steps, catch block, confirm signal, 24 h timer, cancellation | ships only what is confirmed and paid; compensates last in, first out; always closes |
| order activities | none (they write other components' rows) | reserve, release, pay, refund, update/confirm/cancel order, ship, notify | repeating one does not undo what the saga promises |
| order use cases | order row, outbox row | create, confirm, cancel, update status | a stale load must not make the row claim too much |
| order consumer | idempotency store | four handlers that sync the status, others only log | never ahead of the facts; harmless to the workflow |
| inventory service | `reserved_quantity`, `total_quantity`, outbox | reserve, release (deduct exists but is never called) | `0 <= reserved <= total`; a refused order reserves nothing |
| payment service | payments, outbox | charge and record, refund | one outcome, then at most a refund; row, events and gateway agree |
| shipping service | shipments, outbox | create, update status | events say what was stored; the order never ahead of its shipments |
| notification service | notifications, outbox | send, from the consumer and from the workflow | nothing forgotten; one mail per event and one more per failed call |
| outbox publisher | `published` flags; ticks in memory | select, send, mark | no committed event is forgotten |
| Kafka consumer base | offsets, idempotency store per process, requeue producer | handle, requeue with a count, dead-letter | at least once; again only after the store lost it |
| HTTP idempotency | response store and `processing` set in memory | guard, interceptor, cleanup | one order per key; the key is freed |
| order list, dashboard | none | paging, overview, list, detail, activity feed, stock views | an answer made of several snapshots is still consistent in what it claims |
| health checks | none | probes of database, Kafka, Temporal | never healthy what is away, nor down what is there |
| migrations, seed | tables, stock rows | migrate.ts, seed-inventory.ts, by hand | what they report is so |
| process life cycle | pollers that run or gave up, connection pools | start, poll, signal, shutdown | committed events get out; a worker that was told to stop stops |
| customers, authentication | customers | register, login | one customer per user |
| configuration, scripts | none | wiring | - |

### Interactions

* `POST /orders` saves the order with an outbox row in one transaction, then
  starts the workflow (two steps; the second can fail alone).
* The workflow calls activities; an activity calls another service's use case
  in process (adapters), which writes that service's database and outbox.
* Outbox rows become Kafka messages; the order consumer turns
  `inventory.reserved`, `PaymentProcessed`, `shipment.created` and
  `shipment.delivered` into status updates of the same order row the workflow
  is writing.
* `POST /orders/:id/confirm` signals the workflow; `POST /orders/:id/cancel`
  loads the order, cancels the workflow, then cancels and saves the order it
  loaded at the start.

### What is hard

1. Order rows have no version: activities (late ones too), the consumer and
   the cancel endpoint load, check in memory, and save unconditionally.
2. Temporal runs an activity at least once: an attempt that passed its time
   limit goes on running while the next one starts.
3. Cancelling the workflow cancels the scope in which its catch block runs.
4. Stock is written as an absolute quantity computed from an earlier read.
5. Row update and outbox insert are one transaction for orders and payments,
   two statements elsewhere.
6. Ticks of the poller overlap, two processes poll, crashes fall between send
   and mark.
7. Handled event ids live in the memory of one process, for 24 hours; the retry
   count travels in the message, and all groups read the copies. An event can be
   lost before its outbox row is written, and overtaken when a publish fails.
8. The idempotency key of a request is freed on any error, including one after
   the order was stored: a failed start of the workflow, or a save that threw
   although its COMMIT was applied.
9. Two refunds, or two status updates of a shipment, load the same row before
   either saves. Each execution of charge, shipment or mail makes a new record.
10. The dashboard and the paged list put an answer together from several
    statements, outside a transaction, while others write.
11. Migrations run statement by statement and take "already exists" for
    applied; pollers started too early switch themselves off; the worker's
    shutdown is awaited by nobody.

`PROJECT.json` lists these at their lines (`hazards`), each with the properties
that cover it or the reason why none does.

## 2. The modules

| module | models | EXTENDED by |
|---|---|---|
| `OrderStatus` | statuses, `VALID_TRANSITIONS`, `assertTransition` | `OrderSaga`, `Shipping` |
| `OrderLifecycle` | abstract: in which order things happen to an order, and what its status stands for | instantiated by `OrderSaga` |
| `OrderSaga` | workflow, activity attempts, order row, consumer, cancel endpoint | `OrderSagaProofs` |
| `Inventory` | concurrent reserve and release calls on shared rows, the dashboard's judgement of a row | `MCInventory`, `InventoryProofs` |
| `PaymentLifecycle` | abstract: what the record of a payment may go through | instantiated by `Payments` |
| `Payments` | processPayment, refundPayment, gateway, payments table and outbox | `MCPayments`, `PaymentsProofs` |
| `Shipping` | createShipment, updateShipmentStatus, their events, the two writers of the order | `MCShipping`, `ShippingProofs` |
| `Notifications` | the ways to a mail, the topics' copies, records, events, retries | `MCNotifications`, `NotificationsProofs` |
| `EventDelivery` | outbox pollers, topic, consumer groups | `MCEventDelivery`, `EventDeliveryProofs` |
| `HttpIdempotency` | guard, create use case, interceptor, for one key | `ProcessProofs` |
| `Reads` | paged list, dashboard, health: statements that interleave with commits | `MCReads`, `ReadsProofs` |
| `Scripts` | the scripts run by hand: migrations and seed | `Deployment`, `ProcessProofs` |
| `Deployment` | the scripts next to the pollers of two processes and the worker's shutdown | `MCDeployment`; instantiated by `ProcessProofs` |

How they compose: `Payments`, `Shipping` and `Notifications` replace, for their
service, the one-row summary `OrderSaga` has of it (`charged`, `payments`,
`shippedBy`, `notified`), and go further than the saga does: several calls from
several callers. `Shipping` and `Notifications` abstract the way of an event
through outbox and topic, which `EventDelivery` has in full: to a queue whose
head may be requeued or come back, and to the log of a topic to which events, in
any order, and copies of them are appended. `Reads` cuts the writers down to the
commits a statement can tell apart: the saga's, in its order, and the payments,
refunds and shipments of late attempts and of administrators.

The operators marked `Variant:` are mutations of the definition that follows
them, kept beside the code they alter; no specification uses them.

### OrderSaga

| state | in the code |
|---|---|
| `wf` | the `await` at which `orderProcessingWorkflow` stands, or how it closed |
| `comps`, `error`, `confirmed`, `paidWith` | `compensations`, the caught error, the signal's flag, `paymentId` |
| `att[s]`, `running` | attempts scheduled for call s (`maximumAttempts`), and the functions that are executing in a worker; one whose number is not the current one is a zombie |
| `status` | `orders.status`; `mid` of an attempt, `syncing` and `cancelSeen` are aggregates that were loaded and will be saved |
| `reservedBy`, `charged`, `payments`, `shippedBy`, `releasedBy`, `notified`, `events` | what the services did for this order, by attempt |
| `cancelAt` | how far each cancel request got |

Each activity is split where it awaits something another actor can see:
`WriteReservation` / `PublishReservation`, `ChargeGateway` / `RecordPayment`,
`LoadOrder` / `SaveOrder`, `RequestPickup` / `SaveShipment` /
`PublishShipment`. `RecordPayment` is one step because the payment and its event
share a transaction. `LoadOrder` includes the check of the transition, which the
aggregate makes in memory on what it loaded; `SaveOrder` writes whatever the row
holds by then. `CompleteActivity`, `FailActivity`, `TimeOutActivity`,
`DropLateResult` are the Temporal server's part, `Unwind` the catch block.
`WorkflowCancelled` is one action because nothing the catch block does in a
cancelled scope reaches a worker. `SyncLoad` is enabled only when the transition
is legal, since otherwise the use case returns without a change; the consumer
may see any committed event at any time and again, which over-approximates what
`EventDelivery` shows of its order.

### OrderLifecycle

What the saga comes to for someone who sees neither attempts nor calls: the stage
of the order, the set of things that happened to it, the status it shows.
`Requires` says what each thing waits for (money is not taken before stock is
reserved, nothing is shipped that is not paid and confirmed, the customer is told
of the confirmed order only after the shipment), `Happen` at which stage it may
still come (a refund or release only once the order is given up; after completion
only the delivery, or a request to cancel), `StandsFor` what has happened before
a status is shown. `Show` does not order the statuses: the code stores them out
of order.

`Lifecycle` in `OrderSaga` is the refinement mapping. `Stage` reads the awaited
call, `Done` the ledgers: an effect is done when it took place, in any attempt,
reported or not. A refund does not undo the payment, it is one more thing done.

### Inventory

A call is one execution of a use case: `Start`, `Load` for each item (in any
order for reserve, `Promise.all`), `Check`, then `Write` and `Publish` for each
item. Release loops over load, check, write, publish. Any call may start at any
time: an attempt, a retry, a zombie, an administrator. `overlapped` is a history
variable that says whether two calls were ever under way together.

`StockState` and `Listed` are the three places where the dashboard compares a
row with its threshold: the summary's alerts, the filtered list and the state
shown with each row.

### Payments and PaymentLifecycle

A payment belongs to the execution of `processPayment` that makes it, so `call[c]`
is the execution and `row[c]`, `outbox[c]`, `charged[c]` its row, committed events
and what the gateway took. `Accept` is everything before the gateway (`Money`,
`PaymentMethod` and `Payment.create` refuse bad data, `process()`), `Charge` the
gateway with `complete()` or `fail()`, `Save` the transaction of row and events.
`CallFails` ends a call with or without what it had under way. `Load` is
`findById` with the check of `refund()`, `SaveRefund` its transaction. `overlap`
is a history variable: payments two refunds had loaded at the same time.

Amounts are mills, tenths of a cent: `Rounded` is `Math.round(amount * 100) / 100`
and `OrderTotal` adds up the items of an order the way `Order.create` does, with
a rounding at each step. `amount * 100` is a double. For an amount that is not on
half a cent it is nearer to the amount than to the half, and the rounding is exact;
half a cent may come out on either side of the half (2.675 * 100 is 267.5, 1.005 *
100 is 100.49999999999999). `RoundedUp` is the set of halves that are not below
theirs: the run has the three halves it uses, the theorems hold for any set. The
gateway is given the amount of the request, the row the rounded one.

`PaymentLifecycle` has one variable, the status of each payment, and two actions.
`Lifecycle` in `Payments` instantiates it with the status column.

### Shipping

`create[s]` and `row[s]` are an execution of `createShipment` and its row;
`update[u]` an execution of `updateShipmentStatus` that has loaded its shipment
and checked the transition, and will save. Row and event are two statements, so
`Save...` and `Announce` are two steps, and a fault may come between. `order`,
`sync[w]` and `handled` are the status of the order, the load of each of its two
writers (the consumer, and the workflow after its activity) and the history of
what the consumer handled. `overlap` and `stale` are history variables: shipments
two updates had loaded together, and whether a writer saved over a status it had
not loaded.

### Notifications

A lane serves its messages one after the other: the notification group on each of
three topics, and the workflow with its `notifyUser` activity. `log[l]` is what
the topic holds, `at[l]` how far the lane is, `work[l]` where the call for the next
message stands: the provider (`Send`), the insert of the record (`Save`), the
insert of the event (`Publish`).

Events come to their topic in any order, or never: an event is lost when its
service dies before the insert into the outbox (`create-shipment.use-case.ts:53`),
and a row whose publish throws is overtaken by the next
(`outbox-publisher.service.ts:116`). `AnotherCopy` is a row that is published
again, or a requeue by another group that reads the topic, which raises the retry
count of the copy this group will read; of the events that are told, only the
shipments' have a handler elsewhere that may throw (`OthersThrow`). `Retry` is the
group's own requeue, and the workflow's next attempt. `Handover` puts a lane back
to an offset it has committed, with whatever part of the store its process has
then: after a crash, a rebalance, a refused requeue, and 24 hours. What the former
owner still finishes counts as made before it. `cuts[s]` counts the calls for `s`
that failed or were cut off, `losses[s]` how often the store lost `s`.

### EventDelivery

`poll[t]` is a tick of a poller (`Select`, `EndSelect`, `Send`, `Mark`, each a
database or broker call); several ticks of one poller and of two processes run
together. The row locks of `FOR UPDATE SKIP LOCKED` last from `Select` to
`EndSelect`, so they do not cover the send. Per group: `owner`, `position`,
`committed`; per process: the message in its hands (`work`), the ids it has
handled (`processed`) and the requeue producer (`producer`; a rejected connect is
remembered, as `producerConnectPromise` does). `Restart` and `Rebalance` move a
partition back to the committed offset. `Expire` is the end of the 24 hours an
entry of `processed` lives (`idempotency.service.ts:54`). `handled`, `failures`
and `losses` are history variables: `losses[g][e]` counts what may have made group
`g` forget that it handled `e`. `LIMIT 100` is the constant `BatchSize`.
The log begins after the first offset commit of every group. With
`fromBeginning: false` (`kafka-consumer.service.ts:27`) a group without a committed
offset starts at the end of the log, when it joins first and again after each
restart or rebalance until it has committed one, and misses what is there:
`NothingLost` does not hold of that time. Messages are JSON with an event id, as
every publisher writes them.

### HttpIdempotency

One key, several requests. The guard awaits `get`, `isProcessing` and
`startProcessing`, and the interceptor awaits `set` and `finishProcessing`. None
of these does I/O, so each await resumes one turn of the microtask queue later
and in order; a guard whose `get` precedes the `set` asks `isProcessing` before
`finishProcessing`. Guard and interceptor are therefore one step each, and the
database and Temporal calls between them are the interleaving points. A save that
throws may have committed its order (`SaveFails`: the connection is lost after the
COMMIT was applied), a start that throws may have started the workflow; either
frees the key. `undone` counts what makes the program forget an order it has stored
for this key.

### Reads

A request is a set of statements still to run (`request.todo`); `Promise.all` puts
several in the set at once, an `await` adds the next when its predecessor has
returned (`Returns`). Each statement is an atomic snapshot into `got`. The answer
is computed from `got` by operators named for the code: `Trend`, `OrdersToday`,
`Listed`, `Feed`, `Overall`, `Ready`. Time is counted in half days, enough to tell
a local day from a UTC day. A scenario has the offset of local time from UTC, and
one it changes to at the half day `turn`: `Today` is `setHours(0, 0, 0, 0)`,
`DaysBack` the `setDate` that steps local days, `Instant` what Node makes of a
local time that a change skips or repeats, `TrendKey` the UTC date of the local
midnight. `Refund` updates the row of a completed payment while the order's status
stays (a late attempt, an administrator, a workflow that timed out at the
confirmation). `known[d]` is a history variable: whether dependency `d` answered,
at any time of the request.

### Scripts, Deployment

In `Scripts`, `objects[d][m]` counts the statements of migration `m` of database `d` that took
effect; `migrate.target` are the databases a run of migrate.ts was asked for, one
or all of them; `Statement` runs the next one, or skips the rest of the migration when it
throws "already exists"; `cut` is a history variable, the databases in which a
migration was cut off. `ScriptsSpec` lets the scripts run by themselves. In
`Deployment` their steps take place between those of the processes, which see the
tables that are there: `process[p]` says which pollers run and which have
switched themselves off. `Signal`, `EndPool` and `Exit` are the worker's shutdown:
`onModuleDestroy` of every `KyselyModule` instance ends every pool, the second end
of a pool rejects, and nobody handles the rejection.

## 3. The runs

Distinct states and wall time are for two TLC workers.

| run | module, cfg | bounds | states | time |
|---|---|---|---|---|
| `saga_cancel` | OrderSaga, MCSagaCancel | MaxAttempts 2, one cancel request, one crash or decline, `FairSpec` | 0.9 M | 140 s |
| `saga_faults` | OrderSaga, MCSagaFaults | MaxAttempts 2, no cancel, two faults of any kind | 2.2 M | 62 s |
| `inventory` | MCInventory | two rows, three reserves (one a retry, one naming a row twice), one release, one fault | 0.7 M | 19 s |
| `event_delivery` | MCEventDelivery | one event, two processes, two groups, two throws, one fault | 3.1 M | 82 s |
| `event_liveness` | MCEventDelivery, MCEventLiveness | two rows in one batch, one process, two throws, two faults, `FairSpec` | 1.0 M | 116 s |
| `http_idempotency` | HttpIdempotency | four requests, two faults, one expiry, `FairSpec` | 24 k | 3 s |
| `payments` | MCPayments | an order's payment, four of an administrator, three refunds (symmetry), two faults | 0.7 M | 71 s |
| `shipping` | MCShipping | two shipments, four updates, one fault, symmetry of both | 0.9 M | 78 s |
| `notifications` | MCNotifications | two pairs of sources, MaxRetries 1, three faults, `FairSpec` | 1.2 M | 88 s |
| `reads` | MCReads | eleven scenarios, up to three orders, pages of one, two days | 1.3 M | 50 s |
| `deployment` | MCDeployment | two databases, one of them with two migrations, one item, two processes, two pools, one task, one failure | 0.3 M | 127 s |

What they show:

* `saga_cancel`: the stored status is earned (`StatusIsEarned`) whoever wrote it
  and however stale its load was; nothing is shipped that is not confirmed and
  paid (`ShipsOnlyPaidAndConfirmed`); a started workflow closes
  (`WorkflowCloses`); and all of it, stale saves and the attempts that outlive a
  cancelled workflow included, is a behaviour of `OrderLifecycle`
  (`FollowsOrderLifecycle`).
  A second cancel request would only repeat what the first may do at any moment.
* `saga_faults`: compensation is last in, first out and skips none
  (`CompensatedOrExhausted`); only the payment the workflow holds is refunded and
  only in the catch block (`RefundsOnlyTheHeldPayment`); a completed order keeps
  its reservation, payment and shipment while attempts that timed out earlier, of
  its payment or its shipment for instance, are still running
  (`CompletedKeepsItsEffects`). Two faults are what it
  takes to exhaust the two attempts of one compensation; a decline, or an error in
  the try block together with a failing compensation, is reached as well. The
  consumer alone makes a healthy workflow fail, so the catch block is reached
  with both faults still to spend.
* `inventory`: `WithinStock` even when updates are lost; `ExactWhenSerial`, the
  rows account for every unit unless calls overlapped or one order named a row
  twice; `RefusedReserveWritesNothing`; `StockViewsAgree`, the dashboard counts,
  lists and labels the same rows as short. The short row has two units for three
  reserves that want four; the other has 62 units, of which 25 are reserved at a
  time, so that it crosses the thresholds of the dashboard.
* `event_delivery`: `NothingLost`; `HandledAgainOnlyAfterLoss`, a group handles an
  event again only after a crash, a rebalance or the expiry of the entry, however
  many copies come along; `DeadLetteredOnlyWhenExhausted`, although the failures of
  one group raise the retry count the other one reads. One event suffices for
  these, since events meet only in the batch of a tick; `event_liveness` has two in
  one batch.
* `event_liveness`: `EventuallySettled`, every committed event is in the end
  handled or dead-lettered.
* `http_idempotency`: `OneOrderUnlessForgotten`, one order for the key, and one more
  only for each save that threw after its COMMIT, failed start, restart or expiry;
  `ReplaysAnOrderInProgress`; `KeyIsReleased`. A fifth request would add no kind of answer: four are enough
  for a creator, a retry after a failure, a conflict and a replay.
* `payments`: the events of a payment tell what its row went through
  (`EventsTellTheRow`); money is refunded once unless two refunds had the payment
  loaded together (`RefundedOnceUnlessOverlapping`); what the gateway took is
  recorded within half a cent, and exactly for an order, unless the call was cut
  off (`MoneyIsRecorded`); the status column implements `PaymentLifecycle`
  (`FollowsLifecycle`). The amounts are chosen to round up, to round to nothing, to
  lie on half a cent that the doubles round down (1.005 is recorded as 1.00) and,
  for the order, to have prices on half a cent of both kinds and to differ when
  rounded in another place. Three refunds can overlap twice, or once and be
  repeated.
* `shipping`: the order says SHIPPED or DELIVERED only when a shipment does
  (`OrderNeverAheadOfShipments`); a delivery handled after a creation reaches the
  order and stays, however the events are repeated or reordered, unless a writer
  saved over a status it had not loaded (`DeliveryReachesTheOrder`); a delivery is
  announced once and stands unless updates overlapped
  (`AnnouncedDeliveryStands`); every stored shipment is announced unless its call
  was cut off (`ShipmentsAreAnnounced`). A delivery takes three updates; the
  fourth races one of them. The second shipment is the one a retried activity
  makes.
* `notifications`: one mail for each source, and at most one more for each call
  that failed or was cut off and each time the store lost it (`OneMailUnlessCut`);
  mails, records and events account for one another (`RecordsAreTrue`); nothing is
  skipped, and nothing is given up before this group failed `MaxRetries + 1` times
  on it, although another group's requeues raise the count too, except for what was
  handled and then lost by the store: a later copy may carry any count
  (`NothingForgotten`); of two events of a topic the one published first is told
  first unless its mail was refused or its handling failed (`ToldInOrder`);
  everything that happened is settled in the end (`EventuallyTold`). One scope has
  the two events of the shipping topic, in either order and each possibly missing,
  the other the workflow's notice next to a cancellation, which tells nothing. Two
  faults exhaust one retry, or raise a count elsewhere and cut one call; the third
  loses the store.
* `reads`: an order that was there when the request came in is shown with its
  items (`OrdersShowTheirItems`); reading page after page misses none, unless two
  share a creation time, one stops matching or one is added between a page's count
  and its rows (`PagesMissNothing`); the detail shows what its status stands on, a
  completed payment or one that was refunded since, and the shipment
  (`DetailShowsItsGrounds`); the trend counts an order twice only in two
  neighbouring points between which the clocks were put forward, leaves one out
  only across clocks put back, and agrees with the summary where local time is UTC
  (`TrendAgreesWithSummary`);
  health and readiness say DOWN of what never answered and not of what always did
  (`HealthIsTrue`). Each request is a scenario of its own, with the number of
  orders its statements can tell apart. The overview has four more: west of UTC,
  and clocks put forward between two midnights, put forward at a midnight, which is
  then skipped, and put back.
* `deployment`: committed events leave the outbox as long as a process polls that
  is not started too early (`PendingGetsOut`); a worker that got a signal exits
  (`SignalledWorkerExits`); a script that reports success left what it names,
  unless it resumed a migration that had been cut off (`ScriptsDoWhatTheyReport`).
  The order database has one migration of two statements, so that it can be cut
  off with its tables there and its outbox not; the inventory database has two
  migrations, so that one can be applied and the next not. The failure is a kill,
  a connection error of a poller or of a script; stopping the worker by a signal and
  starting it again costs none. With one item a seed run is all or nothing; that
  several items and more failures change nothing is theorem `ReportsStayTrue`.

Bounds shared by several runs: `MaxAttempts` is 3 in the code and 2 in the runs
that pass: with 2 there is a first, a last, and a zombie attempt next to the
current one. `MaxRetries` is 3 and checked as 1: a first failure, which requeues,
and a last one, which gives up. The theorems cover every value of both.
`CHECK_DEADLOCK` is off throughout because a closed order, an idle warehouse, a
drained topic, an answered request and a stopped process are legitimate ends.

One run documents where the code departs from its documentation:
`saga_cancel_release` (MCSagaCancelRelease, `MaxAttempts = 3`, no faults).
`docs/api-testing.md:180` says of the cancel endpoint "This triggers Temporal
compensation"; the run shows a cancelled order that keeps its reservation, since
the catch block runs in the cancelled scope.

Other statements of the documentation that the code does not satisfy are kept as
definitions that no configuration checks. Each is refuted within a minute by a
configuration that names it:

| definition | what the documentation says | what happens |
|---|---|---|
| `OrderSaga!TimeoutCancelsOrder` | `README.md:93` "24h timeout -> Auto-cancel" | the order is refunded and released but stays PAYMENT_PROCESSED, from where CANCELLED is refused |
| `OrderSaga!HealthyOrderNeverFails` | `order-event-consumer.ts:21` "supplementary status syncing" | the consumer sets the status first, the workflow's own update throws three times, a healthy order is compensated |
| `OrderSaga!StoredStatusFollowsStateMachine` | `docs/structure.md:247` the state machine | a save computed from a stale load moves the stored status backwards |
| `Inventory!EveryWriteHasItsEvent` | `docs/structure.md:355` "in the same DB transaction as the entity change" | one fault between row update and outbox insert leaves a change without its event |
| `Reads!FeedShowsTheLatest` | the dashboard's "recent activity" | shipments lose their `created_at` on the way from the table (`ShipmentMapper.toDomain`) and are stamped with the time of the read, so an old one comes before newer orders (with two orders, one of them shipped: `AtUTC("overview", {o1, o2}, {o1})`) |

### Fairness

* `OrderSaga!FairSpec`: weak fairness of the awaited attempt's execution, of the
  delivery of its result, of time-outs, of the confirmation's arrival and timer,
  and of the cancellation: what the Temporal server guarantees as long as some
  worker polls. None for customers, the consumer, zombies, or the start of the
  workflow (`StartWorkflow` may fail for good).
* `EventDelivery!FairSpec`: weak fairness of some poller's step, since
  `setInterval` keeps firing, and for each group of some member's step, since a
  running process resumes its promises and a dead one is restarted. None for
  offset commits, and none for a particular process. Handlers throw at most
  `MaxThrows` times; without such a bound `EventuallySettled` would be false once
  a requeue producer has been rejected.
* `HttpIdempotency!FairSpec`: the database and Temporal calls of a request
  return or throw.
* `Notifications!FairSpec`: weak fairness of each lane, since some consumer of the
  group, or some worker for the workflow's lane, is up in the end. Nothing makes
  a source happen; faults are bounded by `MaxFaults`.
* `Deployment!Spec`: weak fairness of the ticks of a poller that runs, of a
  query that was sent and of its return, and of the steps of a shutdown that has
  begun. Nobody need start a process, run a script or send a signal.

## 4. The proofs

`OrderSagaProofs`, for every `MaxAttempts`, every set of cancel requests, every
subset of the fault kinds and every number of faults:

* `Control` is the first inductive invariant: types, the compensation stack that
  belongs to each awaited call (`StackMatchesCall`), and that no call is made
  twice (`NotCalledYet`, over a rank of the calls). `TypeOK` alone is not
  inductive: that `Unwind` leaves one of the three legal stacks needs to know
  which stack each call has. Theorems `ControlInvariant`, `TypeCorrect`.
* `Facts` adds what each running attempt stands on. A status written by a late
  attempt is earned because the call it belongs to was due when it was made
  (`CallsAreDue`, for every call ever scheduled, not only the awaited one), a
  result is real (`ResultsAreReal`), an event is earned (`EventsAreEarned`), and
  the ledgers only grow, so that what was earned stays so. `RunsUnique` identifies
  an attempt by its call and number. Theorems `FactsInvariant`, `StatusEarned`,
  `ShippedIsPaidAndConfirmed`, `OnlyHeldPaymentRefunded`,
  `CompletedKeepsEffects`.
* `Undone` adds what the catch block relies on: a payment is held only from the
  call after Pay on, so that a catch block entered earlier owes no refund
  (`HeldAfterPay`), and a compensation that reports success stands on its write
  (`UndoResults`). Only with these is it inductive that each compensation was
  made, or given up at its last attempt, before the next one starts
  (`TriedInOrder`). Theorems `UndoneInvariant`, `CompensationsTried`.
* `ImplementsOrderLifecycle`: every step of the saga is a step of `OrderLifecycle`
  or leaves stage, things done and status as they are. The workflow's steps move
  the stage (`Going`, `Moves`), the steps of attempts, consumer and requests do at
  most one thing or store one status, never both. That a thing may happen rests on
  `Facts`: the call whose attempt does it, however late, was made when all it
  requires had happened, and the ledgers only grow. For that `Facts` says more than
  the invariants alone would need: an attempt of Pay that is about to record a
  payment has charged it, a recorded payment was charged, a refund or release is
  called only for what was paid or reserved. That a completed order is not
  surprised by anything but its delivery needs to know that a thing whose call
  succeeded was done by then.

`InventoryProofs`, for every stock, set of calls and list of items:

* `IInv`: what a call has loaded was within the (constant) total when loaded,
  what it is about to write was checked against what it loaded, and a reserve
  has written nothing before its check. `WithinStock` is not inductive by itself,
  since `Write` uses neither the row nor the check but a remembered quantity.
  Theorems `Invariant`, `TypeCorrect`, `StockNeverExceeded`,
  `RefusalWritesNothing`.
* `Serial`: as long as calls did not overlap, one is under way at a time
  (`OneAtATime`), what it has loaded and not written yet is what the rows still
  hold (`Fresh`), and each row is the sum of what the calls wrote (`Exact`). A
  release loads in turn (`LoadedInTurn`), since it may name a row twice; of a
  reserve that does, `Fresh` says nothing, which is why it is excepted. The sum
  over a call's items and the sum over the calls are split at the item that is
  written and at its call (`NamingStep` and the lemmas before it). Theorem
  `SerialIsExact`.
* `StockViewsAgree` is no matter of steps: from the types of a row alone, the
  three comparisons of the dashboard agree (theorem `StockViews`).

`ProcessProofs`, about `HttpIdempotency`, for every set of requests, failures and
expiries:

* `IInv`: the key has one holder and no cached response meanwhile
  (`OneHolder`), how far a request got says what it has stored (`Done`, which
  leaves open what one that failed has), and every stored order except the one the program
  still knows was forgotten by an event of its own (`Accounted`), which for a save
  that threw after its COMMIT is that very failure. The last is the strengthening
  `OneOrderUnlessForgotten` needs: the bound `1 + undone` does not say whether the
  one is still to come. Theorems `Invariant`, `TypeCorrect`, `OneOrder`,
  `ReplaysAreReal`.

and about `Scripts`, for every list of databases, migrations and statements, every
set of items and number of failures:

* `ScriptsInv`: a migration of a database in which nothing was cut off is there as
  a whole or not at all, but for the one that is being run (`WholeOrNothing`), so
  that "already exists" at its first statement means that all of it exists; what
  the run has passed of its target is there (`PassedIsThere`). When the first
  statement of the next migration is reached the last of the one before has run or
  was skipped (`AfterFacts`). Theorems `ScriptsInvariant`, `ReportsAreTrue`.
* `Deployment` implements `Scripts`: its steps are steps of the scripts, or leave
  them alone (theorem `DeploymentRunsScripts`), so what a script reports stays
  true next to processes that start, poll and die (theorem `ReportsStayTrue`).

`EventDeliveryProofs`, for every number of rows, batch size and retry limit, all
processes, overlapping ticks and groups, every set of faults and number of them:

* `IInv` has a part for each property. For `NothingLost`: a row that is marked,
  or about to be, is in the log (`SentIsLogged`); the owner of a group holds the
  message at its position (`OwnerIsAtPosition`); every message before the
  position is settled or has another copy ahead (`Covered`). The property alone
  is not inductive: it speaks of the committed offset and does not say what the
  group may step over.
* For `DeadLetteredOnlyWhenExhausted`: a copy with a retry count follows one with
  the count before it (`CopiesAreChained`), whichever group requeued it, and each
  group failed on what it passed once more than the copy's count says, or had
  handled the event (`PassedIsTried`, `InHandIsTried`).
* For `HandledAgainOnlyAfterLoss`: `HandlingIsPaidFor` counts the processes
  that are handling an event now as well as the times it was handled. A former
  owner may still be at it after a rebalance, so the bound on `handled` says
  nothing about the next step without them.
* Theorems `Invariant`, `TypeCorrect`, `NothingIsLost`, `HandledOncePerLoss`,
  `GivenUpOnlyWhenExhausted`.

`PaymentsProofs`, for every set of calls and refunds, every list of items, amount
and number of faults:

* `IInv` relates, for each call, how far it got, its row, its events and the
  gateway's ledger (`CallOK`, `RecordOK`), and says what a refund that has loaded
  a payment may rely on (`RefundOK`): it is still COMPLETED, or another refund had
  it loaded at the same time (`OverlapOK`). That is what
  `RefundedOnceUnlessOverlapping` lacks to be inductive: the refund that saves
  second checked the status long before.
* Theorems `Invariant`, `TypeCorrect`, `EventsAgree`, `RefundedOnce`,
  `MoneyAgrees`, and `ImplementsLifecycle`: `Payments` implements
  `PaymentLifecycle`, by a step simulation under the invariant.
* `MoneyAgrees` needs to know that an order's total is a whole number of cents,
  so that the second rounding, in the payment, changes nothing. That holds for any
  `RoundedUp`: whichever way a half goes, the result is whole. The total is a
  recursive function over the items. That such a function exists for every list
  of items, and that it returns rounded numbers, is an induction over their
  number, in the form described below.

`ShippingProofs`, for every set of shipments and updates and every number of
faults:

* `IInv`: what a call or an update has done so far, with no two updates at the
  same shipment unless it is in `overlap` (`ServiceOK`, `PairOK`); every event
  that was told, wherever it is now, is about something stored (`EventOK`); what
  either writer has loaded and will save is backed by a shipment (`SyncOK`,
  `Backed`); what the consumer handled left its mark on the order
  (`HandledOK`). `OrderNeverAheadOfShipments` is not inductive without the events
  and the loads: both are how a status travels to the order.
* Theorems `Invariant`, `TypeCorrect`, `OrderBacked`, `DeliveryStands`,
  `AnnouncedOnce`, `Announcements`.

`NotificationsProofs`, for every set of sources, number of retries and faults:

* `CopyOK` speaks of the log, which the lane shares with other groups: every copy is
  a retry of one before it, whoever requeued it, and of every copy the lane is
  through with the source was settled, or cut off in this group more often than the
  copy was retried. `NothingForgotten` is a bound on this group's failures, the
  count in the message is everyone's; this is what connects them (`Chained`).
* `Books` and `Sums` keep accounts for each source: mails, records, events, cuts and
  losses, with what the call in progress still owes and whether the event is in the
  store (`Kept`). `OneMailUnlessCut` bounds the mails by cuts and losses; the step
  that sends one needs to know that a mail before it was paid for by one of them.
* `Reached`: some copy of what was told was reached after something had come of
  everything before it. A handover takes the lane back, so its position does not
  say so. `ToldInOrder` follows with `FateOK`: what is settled has left a record.
* One lemma, `LaneStep`, says what a step of a lane owes to the invariant; there is
  one lemma for each action that pays it.
* Theorems `Invariant`, `TypeCorrect`, `OneMail`, `Records`, `NothingIsForgotten`,
  `ToldInTopicOrder`.

`ReadsProofs`, for every finite set of orders, page size, number of days and
clock, and every scenario:

* `IInv` relates what the statements of a request have found (`got`) to what is
  committed now. The writers never take back what a read has relied on (`Grows`):
  an order that was charged keeps a payment that is completed or refunded, one that
  failed stays failed, shipments stay, a committed order stays committed and keeps
  its creation time. So what the first statement found has its counterpart when the
  next one looks for it (`Results`, `Detail`), and what is known of a dependency
  covers what its probe found (`Probes`).
* Rows of pages do move. `Pages` counts, for each order the client has not got
  yet, the orders that come before it (`Rank`): never fewer than the pages
  turned so far hold. An order that is added comes in front and only raises the
  rank. `RankIsPlace` connects the count with the listing: where no two orders
  share a creation time the rank of an order is its place, however the database
  orders the rows (an induction over the distance of two places, `SortedAll`).
  The last page is the one whose end the count does not exceed, and the count
  exceeds the rank of any order still to come. `PagesMissNothing` says nothing
  until the request is done; all of this is the strengthening.
* Theorems `Invariant`, `ItemsShown`, `DetailGrounded`, `NothingMissed`,
  `HealthTrue`, and `TrendAgrees`, which is arithmetic of `\div` on half days under
  the types that the invariant gives: local midnights are whole days apart but for
  the change of the clocks, which moves those after it by its size
  (`Today`, `DaysBack`).

Induction over numbers is stated for sets (`Induction`: a subset of Nat that
holds 0 and is closed under successor is Nat), from the library's least-element
theorem for well-founded relations `WFMin`; the provers cannot instantiate its
induction theorems, which take a predicate.

The assumptions are the named `ASSUME`s of each module. They say no more than
the types of the constants; that the sets of calls (`Inventory`) and orders
(`Reads`) are finite, as tables are; that there is at least one attempt; that
the model value `NoRequest` is no request; that the trend does not begin before
the clock does (`Reads!TimeAssumption`); that every database has a migration and
every migration a statement (`Scripts!ScriptAssumption`); that an order has items
(`order.entity.ts:51` and `@ArrayMinSize(1)` of the request classes refuse an
empty one), and that their quantities are positive integers and their prices not
negative (`OrderItem.create`, `Money.create`).

Model-checked only:

* the liveness properties `WorkflowCloses`, `EventuallySettled`, `KeyIsReleased`,
  `EventuallyTold`, `PendingGetsOut`, `SignalledWorkerExits` (fairness and ENABLED
  are out of the prover's reach).

`TypeOK` of `Inventory`, `EventDelivery`, `HttpIdempotency`, `Payments`, `Shipping`
and `Notifications` is proved and in no configuration; that of `Reads` and
`Deployment` documents the types of their variables. The types `ReadsProofs` needs
are in its `Shape`, without the bounds that only a finite clock gives.

## 5. What is not modelled

* Orders meet only in the stock: `OrderSaga` has one order with one item, and a
  short stock is one of the errors of an attempt. What a reserve of several items
  leaves behind is in `Inventory`; the two modules are not composed yet.
* `DeductInventoryUseCase`, the `reservations` table and `save` of whole
  inventory items: nothing in the running system calls or writes them.
* The dashboard's lists of payments, shipments and notifications (a page and a
  count like the order list, without a second table), and its mappers as far as
  they only rename fields.
* The limits on memory and disk of the health controller; the texts of mails.
* The revenue of the trend, and changes of the clocks by less than half a day:
  `Reads` counts time in half days, so that a change of an hour, which moves a
  midnight over a UTC date where the offset passes through zero, is one of twelve.
* What exceptions of the properties leave open: the units a lost update of two
  overlapping reserves costs (`ExactWhenSerial` excepts it, `WithinStock` bounds
  it), the delivery that is dropped because it came before its creation
  (`DeliveryReachesTheOrder`), the second announcement of a refund that overlapped
  another (`RefundedOnceUnlessOverlapping`), and the rest of a migration that was
  cut off (`ScriptsDoWhatTheyReport`). The code does all four; the properties say
  that nothing else brings them about.
* Invalid JSON on a topic (sent to the dead letter topic and skipped): every
  publisher of the repository writes JSON.
* Customers and authentication: queries and one insert guarded by a unique
  constraint, which turns a race of two registrations into an error of the second.
* Configuration, dependency injection, shell scripts, Docker files: wiring.

## 6. Plan

Done, the most important behaviour first: `OrderStatus`, `OrderSaga` with the
abstract `OrderLifecycle` it implements;
`Inventory`; `EventDelivery`, `HttpIdempotency`; `Payments` with the abstract
`PaymentLifecycle` it implements; `Shipping`; `Notifications`; `Reads`;
`Scripts` and `Deployment`; and the proofs of section 4.

Left:

1. Several items in the saga: what a partly written reservation leaves when its
   activity fails for good; a module composing the saga's reserve and release
   attempts with `Inventory`'s rows.
2. `EventDelivery`: a bound on requeued copies; an abstract at-least-once channel
   that it implements and that `Shipping` and `Notifications` use.
